--------------------------- MODULE PayoutGateway ---------------------------
(***************************************************************************)
(* A payout through PaymentsService: one payment_transactions row per      *)
(* payout request, submitted to FlexPay or PawaPay by the one HTTP request *)
(* that created it, and looked up again by status polls, the five-minute   *)
(* cron and provider callbacks.  No lock is held across a provider call,   *)
(* so an answer is applied to a row that may have moved since it was read; *)
(* the two commit functions decide, under the row lock, what of it is kept.*)
(*                                                                         *)
(* The services that own the money (WalletWithdrawals, DriverPayouts)      *)
(* extend this module; they call OpenPayment and read payment[r].          *)
(***************************************************************************)
EXTENDS Integers, Sequences, FiniteSets, PaymentStatus

CONSTANTS
  Requests,     \* payout requests: each has at most one payment row
  Checkers,     \* concurrent status polls, cron passes and callbacks
  Routes,       \* provider orders resolvePaymentProviders may return
  MayReverse    \* TRUE if a provider may pay after reporting a refusal

VARIABLES
  payment,      \* payment[r]: the payment_transactions row
  transfer,     \* transfer[r][p]: what provider p really did (external)
  submit,       \* submit[r]: the HTTP request that submits r
  check         \* check[c]: a status check in flight

gatewayVars == <<payment, transfer, submit, check>>

Providers == {"flexpay", "pawapay"}

ASSUME RoutesAssumption ==
  /\ Routes \subseteq Seq(Providers) \ {<<>>}
  /\ MayReverse \in BOOLEAN

Payment == [status : Statuses, provider : Providers, order : Providers \cup {None}]
NoPayment == [status |-> None, provider |-> None, order |-> None]

Answers == {"accepted", "tracked", "unknown", "rejected", "retryable"}
Submission == [pc : {"idle", "claim", "attempt", "answered", "unsent", "done"},
               rest : Seq(Providers), answer : Answers \cup {None}]
NotSubmitted == [pc |-> "idle", rest |-> <<>>, answer |-> None]

\* What a provider really did with a transfer, and what it says of it.
Fates == {"missing", "sent", "paid", "refused", "reversed"}
Views == {"missing", "sent", "paid", "refused"}
View(fate) == IF fate = "reversed" THEN "paid" ELSE fate

Check == [req : Requests, seen : Payment, view : Views \cup {"asked"}]
NoCheck == [view |-> None]

GatewayTypeOK ==
  /\ payment \in [Requests -> Payment \cup {NoPayment}]
  /\ transfer \in [Requests -> [Providers -> Fates]]
  /\ submit \in [Requests -> Submission]
  /\ check \in [Checkers -> Check \cup {NoCheck}]

GatewayInit ==
  /\ payment = [r \in Requests |-> NoPayment]
  /\ transfer = [r \in Requests |-> [p \in Providers |-> "missing"]]
  /\ submit = [r \in Requests |-> NotSubmitted]
  /\ check = [c \in Checkers |-> NoCheck]

----------------------------------------------------------------------------
(* Commits under the payment row lock.                                     *)

\* commitFlexPayPayoutState: a success is final; a refusal yields only to a
\* success; anything else takes the (possibly stale) status of `new'.
FlexPayKeeps(cur, new) ==
  \/ cur.provider # "flexpay"
  \/ cur.order # None /\ new.order # None /\ cur.order # new.order
  \/ cur.status = "succeeded"
  \/ cur.status \in Refused /\ new.status # "succeeded"

CommitFlexPay(cur, new) ==
  IF FlexPayKeeps(cur, new) THEN cur
  ELSE [cur EXCEPT !.status = new.status,
                   !.order = IF new.order = None THEN @ ELSE new.order]

\* commitPawaPayState: every terminal status is final, and a success after a
\* refusal is an error (502) that leaves the row alone.
PawaPayKeeps(cur, new) ==
  \/ cur.provider # "pawapay"
  \/ cur.order # new.order
  \/ cur.status \in Terminal /\ cur.status # new.status

CommitPawaPay(cur, new) ==
  IF PawaPayKeeps(cur, new) THEN cur ELSE [cur EXCEPT !.status = new.status]

Commit(cur, new) == IF new.provider = "pawapay" THEN CommitPawaPay(cur, new)
                    ELSE CommitFlexPay(cur, new)

----------------------------------------------------------------------------
(* The submitting request.                                                 *)

\* The payment row is saved before anything is sent to a provider.
OpenPayment(r) ==
  /\ submit[r].pc = "claim"
  /\ \E route \in Routes :
       /\ payment' = [payment EXCEPT ![r] =
            [status |-> "pending", provider |-> Head(route), order |-> None]]
       /\ submit' = [submit EXCEPT ![r] =
            [pc |-> "attempt", rest |-> Tail(route), answer |-> None]]
  /\ UNCHANGED <<transfer, check>>

\* initiatePayout throws before it saves a row: no provider, a bad input.
InitiationFails(r) ==
  /\ submit[r].pc = "claim"
  /\ submit' = [submit EXCEPT ![r].pc = "unsent"]
  /\ UNCHANGED <<payment, transfer, check>>

\* PawaPay payouts carry an id of ours, saved before the POST.
AssignOrder(r) ==
  /\ submit[r].pc = "attempt"
  /\ payment[r].provider = "pawapay" /\ payment[r].order = None
  /\ payment' = [payment EXCEPT ![r].order = "pawapay"]
  /\ UNCHANGED <<transfer, submit, check>>

\* What the POST may report, and whether the provider then has the transfer.
\* A timeout, a 5xx or an unreadable response ("unknown") proves nothing;
\* "tracked" is a FlexPay reply that names an order without accepting it.
PostOutcomes(p) ==
  {<<"accepted", "sent">>, <<"unknown", "sent">>, <<"unknown", "missing">>,
   <<"rejected", "missing">>}
  \cup (IF p = "pawapay" THEN {<<"retryable", "missing">>}
                         ELSE {<<"tracked", "sent">>})

Post(r) ==
  LET p == payment[r].provider IN
  /\ submit[r].pc = "attempt"
  /\ p = "pawapay" => payment[r].order = p
  /\ \E out \in PostOutcomes(p) :
       /\ submit' = [submit EXCEPT ![r].pc = "answered", ![r].answer = out[1]]
       /\ transfer' = [transfer EXCEPT ![r][p] = out[2]]
  /\ UNCHANGED <<payment, check>>

\* Mutant: a timeout is taken for a refusal and the next provider is tried.
CanFailoverOnTimeout(r) ==
  submit[r].answer \in {"retryable", "unknown"} /\ submit[r].rest # <<>>

\* Only an answer that proves nothing was sent lets the next provider try.
CanFailover(r) == submit[r].answer = "retryable" /\ submit[r].rest # <<>>

\* resetProviderAttempt overwrites the row with an unlocked save.
Failover(r) ==
  /\ submit[r].pc = "answered" /\ CanFailover(r)
  /\ payment' = [payment EXCEPT ![r] =
       [status |-> "pending", provider |-> Head(submit[r].rest), order |-> None]]
  /\ submit' = [submit EXCEPT ![r] =
       [pc |-> "attempt", rest |-> Tail(@.rest), answer |-> None]]
  /\ UNCHANGED <<transfer, check>>

\* Mutant: an unknown outcome is a failure.
UnknownIsFailure(answer) == CASE answer = "accepted" -> "initiated"
                              [] answer = "tracked" -> "pending"
                              [] OTHER -> "failed"

AnswerStatus(answer) == CASE answer = "accepted" -> "initiated"
                          [] answer \in {"tracked", "unknown"} -> "pending"
                          [] OTHER -> "failed"

AnswerOrder(p, answer) ==
  IF p = "pawapay" \/ answer \in {"accepted", "tracked"} THEN p ELSE None

CommitAnswer(r) ==
  LET p == payment[r].provider
      a == submit[r].answer
  IN
  /\ submit[r].pc = "answered" /\ ~CanFailover(r)
  /\ payment' = [payment EXCEPT ![r] = Commit(@,
       [status |-> AnswerStatus(a), provider |-> p, order |-> AnswerOrder(p, a)])]
  /\ submit' = [submit EXCEPT ![r].pc = "done"]
  /\ UNCHANGED <<transfer, check>>

\* The process dies with the request; the rows stay.
CrashSubmit(r) ==
  /\ submit[r].pc \in {"claim", "attempt", "answered", "unsent"}
  /\ submit' = [submit EXCEPT ![r].pc = "done"]
  /\ UNCHANGED <<payment, transfer, check>>

----------------------------------------------------------------------------
(* The providers (external): a sent transfer is paid or refused; a refusal  *)
(* may be reversed, the late success the owner services plan for.          *)

ProviderDecides(r, p) ==
  /\ \/ transfer[r][p] = "sent" /\ \E v \in {"paid", "refused"} :
          transfer' = [transfer EXCEPT ![r][p] = v]
     \/ /\ MayReverse /\ transfer[r][p] = "refused"
        /\ transfer' = [transfer EXCEPT ![r][p] = "reversed"]
  /\ UNCHANGED <<payment, submit, check>>

----------------------------------------------------------------------------
(* Status checks: read the row, ask the provider, commit the answer.       *)

Ask(c, r) ==
  /\ check[c] = NoCheck
  /\ check' = [check EXCEPT ![c] =
       [req |-> r, seen |-> payment[r], view |-> "asked"]]
  /\ UNCHANGED <<payment, transfer, submit>>

\* Mutant: only accepted payouts are polled.
PollInitiated(c, r) ==
  /\ payment[r].order # None /\ payment[r].status = "initiated"
  /\ Ask(c, r)

\* checkPaymentStatus, from a status poll or the cron: needs an order number
\* and serves a terminal row from the database.
Poll(c, r) ==
  /\ payment[r].order # None /\ payment[r].status \in Open
  /\ Ask(c, r)

\* handlePawaPayCallback and an operator's forced check look at terminal rows
\* too; handleFlexPayCallback matches by reference, so it also works before the
\* order number is known.  A callback is only a hint: it may be early or stale.
Notify(c, r) ==
  /\ \/ payment[r].provider = "pawapay" /\ payment[r].order = "pawapay"
     \/ payment[r].provider = "flexpay" /\ payment[r].status # "succeeded"
  /\ Ask(c, r)

\* The provider answers with what it knows, or does not find the transfer:
\* FlexPay's reply may be unusable, PawaPay's may lag behind the POST.
ProviderAnswers(c) ==
  /\ check[c].view = "asked"
  /\ \E v \in {View(transfer[check[c].req][check[c].seen.provider]), "missing"} :
       check' = [check EXCEPT ![c].view = v]
  /\ UNCHANGED <<payment, transfer, submit>>

\* The states the answer asks the row to take.  A FlexPay refusal is
\* `cancelled' when its message says so; a PawaPay NOT_FOUND is not a failure.
CheckedStates(seen, view) ==
  LET to(s) == [seen EXCEPT !.status = s, !.order = seen.provider] IN
  CASE view = "paid" -> {to("succeeded")}
    [] view = "refused" -> IF seen.provider = "pawapay" THEN {to("failed")}
                           ELSE {to(s) : s \in Refused}
    [] seen.provider = "pawapay" -> {to("initiated")}
    [] view = "sent" -> {to(seen.status)}
    [] OTHER -> {seen}

CommitCheck(c) ==
  /\ check[c].view \in Views
  /\ \E new \in CheckedStates(check[c].seen, check[c].view) :
       payment' = [payment EXCEPT ![check[c].req] = Commit(@, new)]
  /\ check' = [check EXCEPT ![c] = NoCheck]
  /\ UNCHANGED <<transfer, submit>>

\* A network error, a refused notification or a crash abandons the check.
DropCheck(c) ==
  /\ check[c] # NoCheck
  /\ check' = [check EXCEPT ![c] = NoCheck]
  /\ UNCHANGED <<payment, transfer, submit>>

----------------------------------------------------------------------------
SubmitStep(r) == OpenPayment(r) \/ InitiationFails(r) \/ AssignOrder(r)
                 \/ Post(r) \/ Failover(r) \/ CommitAnswer(r) \/ CrashSubmit(r)

CheckStep(c) == \/ \E r \in Requests : Poll(c, r) \/ Notify(c, r)
                \/ ProviderAnswers(c) \/ CommitCheck(c) \/ DropCheck(c)

GatewayStep == \/ \E r \in Requests : SubmitStep(r)
               \/ \E r \in Requests, p \in Providers : ProviderDecides(r, p)
               \/ \E c \in Checkers : CheckStep(c)

----------------------------------------------------------------------------
(* What the owners of the money may rely on.                               *)

\* The fate of r's only transfer.
Money(t) == IF t["flexpay"] = "missing" THEN t["pawapay"] ELSE t["flexpay"]

NotPaid == {"missing", "refused", "reversed"}
Received == {"paid", "reversed"}

\* The row of r exists once its request has opened it, and a transfer exists
\* only at the row's provider, once the POST was made and not plainly refused.
SubmissionInv(r) ==
  /\ submit[r].pc \in {"idle", "claim", "unsent"} => payment[r] = NoPayment
  /\ submit[r].pc \in {"attempt", "answered"} => payment[r] # NoPayment
  /\ \A p \in Providers : transfer[r][p] # "missing" =>
       /\ submit[r].pc \in {"answered", "done"}
       /\ submit[r].answer \in {"accepted", "tracked", "unknown"}
       /\ payment[r] # NoPayment /\ payment[r].provider = p

\* What the row says of a transfer is true: a final status was proved.
PaymentInv(r) == payment[r] # NoPayment =>
  LET fate == transfer[r][payment[r].provider] IN
  /\ payment[r].status = "succeeded" => fate \in Received
  /\ payment[r].status \in Refused =>
       fate \in NotPaid /\ (fate = "missing" => submit[r].pc = "done")

\* A check in flight was told the truth, and a final row it read has not been
\* reopened since.
CheckInv(c) == check[c] # NoCheck =>
  LET r == check[c].req
      seen == check[c].seen
      fate == transfer[r][seen.provider]
  IN
  /\ check[c].view = "refused" => fate \in {"refused", "reversed"}
  /\ check[c].view = "paid" => fate \in Received
  /\ check[c].view = "sent" => fate # "missing"
  /\ seen.status = "succeeded" => fate \in Received
  /\ seen.status \in Refused =>
       /\ fate = "missing" => submit[r].pc = "done"
       /\ payment[r] # NoPayment
       /\ payment[r].provider = seen.provider => payment[r].status \in Terminal

GatewayInv ==
  /\ GatewayTypeOK
  /\ \A r \in Requests : SubmissionInv(r) /\ PaymentInv(r)
  /\ \A c \in Checkers : CheckInv(c)
=============================================================================
