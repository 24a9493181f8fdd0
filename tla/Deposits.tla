------------------------------ MODULE Deposits ------------------------------
(***************************************************************************)
(* A deposit through PaymentsService: the payment_transactions row of one  *)
(* purchase, sent to FlexPay or PawaPay by the request that opened it and  *)
(* looked up again by polls, the PawaPay cron and callbacks.  A PawaPay    *)
(* row is committed under its lock; a FlexPay row is saved whole from the  *)
(* copy read before the provider was asked.                                *)
(***************************************************************************)
EXTENDS Integers, Sequences, FiniteSets, PaymentStatus

CONSTANTS
  Bound,        \* bound: how many purchases are made
  Routes        \* provider orders resolveProviders may return

VARIABLES
  deposit,      \* deposit[s]: the payment_transactions row
  money         \* money[s][p]: what provider p did with the order (external)

depositVars == <<deposit, money>>

\* Purchases are numbered as they are created; each has at most one row.
Purchases == 1..Bound

Providers == {"flexpay", "pawapay"}

ASSUME DepositsAssumption ==
  /\ Bound \in Nat
  /\ Routes \subseteq Seq(Providers) \ {<<>>}

Deposit == [status : Open \cup Terminal, provider : Providers, order : BOOLEAN]
NoDeposit == [status |-> None, provider |-> None, order |-> FALSE]

Fates == {"missing", "sent", "paid", "refused"}

DepositsTypeOK ==
  /\ deposit \in [Purchases -> Deposit \cup {NoDeposit}]
  /\ money \in [Purchases -> [Providers -> Fates]]

DepositsInit ==
  /\ deposit = [s \in Purchases |-> NoDeposit]
  /\ money = [s \in Purchases |-> [p \in Providers |-> "missing"]]

\* The row initiatePayment saves before it calls provider p.
NewDeposit(p) == [status |-> "pending", provider |-> p, order |-> FALSE]

\* commitPawaPayState: the attempt must be the same and a final status stays.
PawaPayRejects(cur, new) ==
  \/ cur.provider # "pawapay" \/ cur.order # new.order
  \/ cur.status \in Refused /\ new.status = "succeeded"

\* What the row becomes when `new', built on an earlier copy, is written.
Written(cur, new) ==
  IF new.provider = "flexpay" THEN new
  ELSE IF PawaPayRejects(cur, new) THEN cur
  ELSE IF cur.status \in Terminal THEN cur
  ELSE [cur EXCEPT !.status = new.status]

\* What a POST may report, and whether the provider then has the order: a
\* timeout or a 5xx proves nothing.
PostOutcomes == {<<"accepted", "sent">>, <<"unknown", "sent">>,
                 <<"unknown", "missing">>, <<"rejected", "missing">>,
                 <<"retryable", "missing">>}

\* Mutant: a timeout is taken for a refusal.
UnknownFails(hand, answer) ==
  [hand EXCEPT !.status = IF answer = "accepted" THEN "initiated" ELSE "failed",
               !.order = @ \/ answer = "accepted"]

\* The row after the POST: an uncertain delivery stays open, and FlexPay gives
\* the order number with its acceptance.
AnswerRow(hand, answer) ==
  [hand EXCEPT !.status = CASE answer = "accepted" -> "initiated"
                            [] answer = "unknown" -> "pending"
                            [] OTHER -> "failed",
               !.order = @ \/ answer = "accepted"]

\* The provider decides (external).
Decides(s, p) ==
  /\ money[s][p] = "sent"
  /\ \E v \in {"paid", "refused"} : money' = [money EXCEPT ![s][p] = v]
  /\ UNCHANGED deposit

\* Mutant: an order the provider has is taken for a payment.
SentIsPaid(seen, view) ==
  CASE view \in {"paid", "sent"} -> {[seen EXCEPT !.status = "succeeded"]}
    [] view = "refused" -> {[seen EXCEPT !.status = s] : s \in Refused}
    [] OTHER -> {seen}

\* What an answer about the copy `seen' makes of it.  A reply that does not
\* find the order changes no FlexPay status, and no answer fails a deposit
\* that was not refused.
CheckedRows(seen, view) ==
  CASE view = "paid" -> {[seen EXCEPT !.status = "succeeded"]}
    [] view = "refused" -> {[seen EXCEPT !.status = s] :
         s \in IF seen.provider = "flexpay" THEN Refused ELSE {"failed"}}
    [] seen.provider = "pawapay" -> {[seen EXCEPT !.status = "initiated"]}
    [] OTHER -> {seen}
=============================================================================
