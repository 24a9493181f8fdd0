--------------------------- MODULE Subscriptions ---------------------------
(***************************************************************************)
(* SubscriptionsService: one driver buys the Pro pack by a deposit, with   *)
(* tokens, or tries it for free.  No request holds a lock or a transaction *)
(* over its steps: a row is read, providers and the wallet are called, and *)
(* the whole row is saved from the copy in hand.  A copy may be old, so    *)
(* every call keeps in `row' and `pay' what it read.                       *)
(***************************************************************************)
EXTENDS Deposits

CONSTANTS
  Buyers,       \* requests of the driver in flight: purchases and reads
  Checkers,     \* status polls, callbacks and cron passes in flight
  Period, Trial,\* lengths of a paid pack and of a trial, in clock ticks
  Horizon       \* bound: the last instant of the clock

VARIABLES
  now,          \* the clock, in ticks
  sub,          \* sub[s]: the subscriptions row, numbered by creation
  debit,        \* debit[s]: the SUBSCRIPTION_PAYMENT ledger entry exists
  bonus,        \* bonus[s]: number of SUBSCRIPTION_REWARD ledger entries
  call,         \* call[k]: a call in flight
  granted       \* history: the ends of the paid periods s was given

vars == <<depositVars, now, sub, debit, bonus, call, granted>>
memberVars == <<now, sub, debit, bonus, granted>>

ASSUME SubscriptionsAssumption ==
  /\ Period \in Nat \ {0} /\ Trial \in Nat \ {0} /\ Horizon \in Nat

Calls == Buyers \cup Checkers

Times == 0..(Horizon + Period + Trial)
RowStatuses == {"pending", "active", "expired", "cancelled", "payment_failed"}
Row == [status : RowStatuses, end : Times, trial : BOOLEAN, linked : BOOLEAN]
NoRow == [status |-> None, end |-> 0, trial |-> FALSE, linked |-> FALSE]

Created == {s \in Purchases : sub[s] # NoRow}
Active == {s \in Purchases : sub[s].status = "active"}
Pending == {s \in Purchases : sub[s].status = "pending"}

Steps == {"expire", "reuse", "todo", "cancel", "create", "open", "attempt",
          "answered", "link", "refused", "debit", "asked", "save", "find",
          "apply", "activate", "start", "bonus", "credit"}
Operations == {"read", "trial", "subscribe", "points", "status", "notice"}
NoCall == [op |-> None, pc |-> None]
Copies == [s : Purchases, row : Row, pay : Deposit \cup {NoDeposit}]
Call == [op : Operations, pc : Steps, s : Purchases \cup {0},
         row : Row \cup {NoRow}, pay : Deposit \cup {NoDeposit},
         rest : Seq(Providers), answer : {None, "accepted", "unknown",
           "rejected", "retryable", "missing", "sent", "paid", "refused"},
         todo : SUBSET Copies]

TypeOK ==
  /\ DepositsTypeOK
  /\ now \in 0..Horizon
  /\ sub \in [Purchases -> Row \cup {NoRow}]
  /\ debit \in [Purchases -> BOOLEAN]
  /\ bonus \in [Purchases -> Nat]
  /\ call \in [Calls -> Call \cup {NoCall}]
  /\ granted \in [Purchases -> SUBSET Times]

Init ==
  /\ DepositsInit
  /\ now = 0
  /\ sub = [s \in Purchases |-> NoRow]
  /\ debit = [s \in Purchases |-> FALSE]
  /\ bonus = [s \in Purchases |-> 0]
  /\ call = [k \in Calls |-> NoCall]
  /\ granted = [s \in Purchases |-> {}]

----------------------------------------------------------------------------
At(k, pc) == call[k].pc = pc
Begun(op, pc) == [op |-> op, pc |-> pc, s |-> 0, row |-> NoRow,
                  pay |-> NoDeposit, rest |-> <<>>, answer |-> None, todo |-> {}]
Become(k, c) == call' = [call EXCEPT ![k] = c]
Goto(k, pc) == call' = [call EXCEPT ![k].pc = pc]
Finish(k) == call' = [call EXCEPT ![k] = NoCall]
Save(s, row) == sub' = [sub EXCEPT ![s] = row]

----------------------------------------------------------------------------
(* getActiveSubscription opens every purchase and every read.              *)

\* Where an operation goes on when no active subscription stands.
AfterLook(op) == CASE op = "trial" -> "create" [] op = "subscribe" -> "reuse"
                   [] op = "points" -> "cancel" [] OTHER -> None
Proceed(k, op) == IF op = "read" THEN Finish(k)
                  ELSE Become(k, Begun(op, AfterLook(op)))

Newest(s) == s \in Active /\ \A t \in Active : t <= s

\* An unexpired subscription ends the call: it is returned, or refused.  A tick
\* stands for an interval in which `end' lies, so at end the row may be expired.
Look(k, op) ==
  /\ call[k] = NoCall
  /\ \/ Active = {} /\ op # "read" /\ Proceed(k, op)
     \/ \E s \in Purchases :
          /\ Newest(s) /\ now >= sub[s].end
          /\ Become(k, [Begun(op, "expire") EXCEPT !.s = s, !.row = sub[s]])
  /\ UNCHANGED <<depositVars, memberVars>>

\* The copy that was read is saved as expired.
Expire(k) ==
  /\ At(k, "expire")
  /\ Save(call[k].s, [call[k].row EXCEPT !.status = "expired"])
  /\ Proceed(k, call[k].op)
  /\ UNCHANGED <<depositVars, now, debit, bonus, granted>>

----------------------------------------------------------------------------
(* findReusablePendingSubscriptionPayment, over the copies it read.        *)

Copy(s) == [s |-> s, row |-> sub[s],
            pay |-> IF sub[s].linked THEN deposit[s] ELSE NoDeposit]

ReadPending(k) ==
  /\ At(k, "reuse")
  /\ Become(k, [Begun("subscribe", "todo") EXCEPT !.todo = {Copy(s) : s \in Pending}])
  /\ UNCHANGED <<depositVars, memberVars>>

NoneReusable(k) ==
  /\ At(k, "todo") /\ call[k].todo = {}
  /\ Goto(k, "cancel")
  /\ UNCHANGED <<depositVars, memberVars>>

\* The copies are taken newest first.
NextCopy(k, c) == \A d \in call[k].todo : d.s <= c.s

\* A pending copy whose payment was refused, is missing or is too old.
Discard(k) ==
  /\ At(k, "todo")
  /\ \E c \in call[k].todo :
       /\ NextCopy(k, c) /\ c.pay.status # "succeeded"
       /\ Save(c.s, [c.row EXCEPT !.status =
            IF c.pay.status = "failed" THEN "payment_failed" ELSE "cancelled"])
       /\ call' = [call EXCEPT ![k].todo = @ \ {c}]
  /\ UNCHANGED <<depositVars, now, debit, bonus, granted>>

\* A recent open payment is handed back to the client.
ReuseOpen(k) ==
  /\ At(k, "todo")
  /\ \E c \in call[k].todo : NextCopy(k, c) /\ c.pay.status \in Open
  /\ Finish(k)
  /\ UNCHANGED <<depositVars, memberVars>>

ReusePaid(k) ==
  /\ At(k, "todo")
  /\ \E c \in call[k].todo :
       /\ NextCopy(k, c) /\ c.pay.status = "succeeded"
       /\ Become(k, [Begun("subscribe", "activate") EXCEPT
            !.s = c.s, !.row = c.row, !.pay = c.pay])
  /\ UNCHANGED <<depositVars, memberVars>>

CancelPending(k) ==
  /\ At(k, "cancel")
  /\ sub' = [s \in Purchases |-> IF s \in Pending
               THEN [sub[s] EXCEPT !.status = "cancelled"] ELSE sub[s]]
  /\ Goto(k, "create")
  /\ UNCHANGED <<depositVars, now, debit, bonus, granted>>

----------------------------------------------------------------------------
(* The purchase itself.                                                    *)

\* The row a new purchase or trial starts with; the bound is Purchases.
Create(k) ==
  LET trial == call[k].op = "trial"
      row == [status |-> IF trial THEN "active" ELSE "pending",
              end |-> now + (IF trial THEN Trial ELSE Period),
              trial |-> trial, linked |-> FALSE]
  IN
  /\ At(k, "create")
  /\ \E s \in Purchases \ Created :
       /\ \A t \in 1..(s - 1) : t \in Created
       /\ Save(s, row)
       /\ IF trial THEN Finish(k)
          ELSE Become(k, [Begun(call[k].op, IF call[k].op = "points" THEN "debit"
                                            ELSE "open") EXCEPT !.s = s, !.row = row])
  /\ UNCHANGED <<depositVars, now, debit, bonus, granted>>

\* payForSubscription; the wallet may hold too little.
Debit(k) ==
  /\ At(k, "debit")
  /\ \/ debit' = [debit EXCEPT ![call[k].s] = TRUE] /\ Goto(k, "activate")
     \/ UNCHANGED debit /\ Goto(k, "refused")
  /\ UNCHANGED <<depositVars, now, sub, bonus, granted>>

OpenDeposit(k) ==
  /\ At(k, "open")
  /\ \/ \E route \in Routes :
          /\ deposit' = [deposit EXCEPT ![call[k].s] = NewDeposit(Head(route))]
          /\ Become(k, [call[k] EXCEPT !.pc = "attempt", !.rest = Tail(route),
                                       !.pay = NewDeposit(Head(route))])
     \/ UNCHANGED deposit /\ Goto(k, "refused")
  /\ UNCHANGED <<money, memberVars>>

\* A PawaPay deposit carries an id of ours, saved before the POST.
AssignOrder(k) ==
  /\ At(k, "attempt") /\ call[k].pay.provider = "pawapay" /\ ~call[k].pay.order
  /\ call' = [call EXCEPT ![k].pay.order = TRUE]
  /\ deposit' = [deposit EXCEPT ![call[k].s] = call'[k].pay]
  /\ UNCHANGED <<money, memberVars>>

Post(k) ==
  LET p == call[k].pay.provider IN
  /\ At(k, "attempt") /\ (p = "pawapay" => call[k].pay.order)
  /\ \E out \in PostOutcomes :
       /\ call' = [call EXCEPT ![k].pc = "answered", ![k].answer = out[1]]
       /\ money' = [money EXCEPT ![call[k].s][p] = out[2]]
  /\ UNCHANGED <<deposit, memberVars>>

CanFailover(k) == call[k].answer = "retryable" /\ call[k].rest # <<>>

\* resetProviderAttempt overwrites the row for the next provider.
Failover(k) ==
  /\ At(k, "answered") /\ CanFailover(k)
  /\ LET next == NewDeposit(Head(call[k].rest)) IN
     /\ deposit' = [deposit EXCEPT ![call[k].s] = next]
     /\ Become(k, [call[k] EXCEPT !.pc = "attempt", !.pay = next,
                                  !.rest = Tail(@), !.answer = None])
  /\ UNCHANGED <<money, memberVars>>

KeepAnswer(k) ==
  LET new == AnswerRow(call[k].pay, call[k].answer) IN
  /\ At(k, "answered") /\ ~CanFailover(k)
  /\ deposit' = [deposit EXCEPT ![call[k].s] = Written(@, new)]
  /\ Become(k, [Begun("subscribe", IF new.status = "failed" THEN "refused" ELSE "link")
                EXCEPT !.s = call[k].s, !.row = call[k].row])
  /\ UNCHANGED <<money, memberVars>>

\* subscribe saves the copy it created: with the payment, or as failed.
SavePurchase(k) ==
  /\ At(k, "link") \/ At(k, "refused")
  /\ Save(call[k].s, IF At(k, "link") THEN [call[k].row EXCEPT !.linked = TRUE]
                     ELSE [call[k].row EXCEPT !.status = "payment_failed"])
  /\ Finish(k)
  /\ UNCHANGED <<depositVars, now, debit, bonus, granted>>

----------------------------------------------------------------------------
(* Status polls, callbacks and the cron.                                   *)

\* checkPaymentStatus needs the order number and serves a final row as it is;
\* a callback of FlexPay matches by reference and brings the order number.
StatusCheck(k, s) ==
  /\ call[k] = NoCall /\ deposit[s].order
  /\ Become(k, [Begun("status", IF deposit[s].status \in Terminal THEN "find"
                                ELSE "asked") EXCEPT !.s = s, !.pay = deposit[s]])
  /\ UNCHANGED <<depositVars, memberVars>>

Notice(k, s) ==
  /\ call[k] = NoCall /\ deposit[s] # NoDeposit
  /\ deposit[s].provider = "pawapay" => deposit[s].order
  /\ money[s][deposit[s].provider] # "missing"
  /\ Become(k, [Begun("notice", "asked") EXCEPT
       !.s = s, !.pay = [deposit[s] EXCEPT !.order = TRUE]])
  /\ UNCHANGED <<depositVars, memberVars>>

Answered(k) ==
  /\ At(k, "asked")
  /\ \E v \in {money[call[k].s][call[k].pay.provider], "missing"} :
       call' = [call EXCEPT ![k].pc = "save", ![k].answer = v]
  /\ UNCHANGED <<depositVars, memberVars>>

\* The answer is written; what is then stored goes to the subscription.  Of a
\* PawaPay order only a final state does, unless the client asked.
SaveCheck(k) ==
  LET s == call[k].s
      stops(row) == row.provider = "pawapay" /\ call[k].op = "notice" /\ row.status \in Open
  IN
  /\ At(k, "save")
  /\ \E new \in CheckedRows(call[k].pay, call[k].answer) :
       /\ deposit' = [deposit EXCEPT ![s] = Written(@, new)]
       /\ IF (new.provider = "pawapay" /\ PawaPayRejects(deposit[s], new)) \/ stops(deposit'[s])
          THEN Finish(k)
          ELSE Become(k, [Begun(call[k].op, "find") EXCEPT !.s = s, !.pay = deposit'[s]])
  /\ UNCHANGED <<money, memberVars>>

FindSubscription(k) ==
  /\ At(k, "find")
  /\ call' = [call EXCEPT ![k].pc = "apply", ![k].row = sub[call[k].s]]
  /\ UNCHANGED <<depositVars, memberVars>>

\* applyPaymentToSubscription, on the copy that was found.
AlreadyActive(row) == row.status = "active" /\ row.linked

ApplyPaid(k) ==
  /\ At(k, "apply") /\ call[k].pay.status = "succeeded"
  /\ Goto(k, IF AlreadyActive(call[k].row) THEN "bonus" ELSE "activate")
  /\ UNCHANGED <<depositVars, memberVars>>

\* Mutant: the payment's status is written as it is.
ApplyRaw(k) ==
  LET st == call[k].pay.status IN
  /\ At(k, "apply") /\ st # "succeeded"
  /\ Save(call[k].s, [call[k].row EXCEPT !.linked = TRUE,
       !.status = IF st \in Open THEN @ ELSE st])
  /\ Finish(k)
  /\ UNCHANGED <<depositVars, now, debit, bonus, granted>>

ApplyOther(k) ==
  LET st == call[k].pay.status IN
  /\ At(k, "apply") /\ st # "succeeded"
  /\ Save(call[k].s, [call[k].row EXCEPT !.linked = TRUE,
       !.status = CASE st = "failed" -> "payment_failed"
                    [] st = "cancelled" -> "cancelled" [] OTHER -> @])
  /\ Finish(k)
  /\ UNCHANGED <<depositVars, now, debit, bonus, granted>>

----------------------------------------------------------------------------
(* activatePaidSubscription and activatePointsSubscription.                *)

CancelOthers(k) ==
  /\ At(k, "activate")
  /\ sub' = [s \in Purchases |-> IF s \in Active \ {call[k].s}
               THEN [sub[s] EXCEPT !.status = "cancelled"] ELSE sub[s]]
  /\ Goto(k, "start")
  /\ UNCHANGED <<depositVars, now, debit, bonus, granted>>

Start(k) ==
  LET s == call[k].s IN
  /\ At(k, "start")
  /\ Save(s, [call[k].row EXCEPT !.status = "active", !.end = now + Period,
                                 !.linked = call[k].op # "points"])
  /\ granted' = [granted EXCEPT ![s] = @ \cup {now + Period}]
  /\ Become(k, [Begun(call[k].op, "bonus") EXCEPT !.s = s])
  /\ UNCHANGED <<depositVars, now, debit, bonus>>

\* awardSubscriptionPaymentTokens looks for its ledger entry first.
LookForBonus(k) ==
  /\ At(k, "bonus")
  /\ IF bonus[call[k].s] > 0 THEN Finish(k)
     ELSE Become(k, [Begun(call[k].op, "credit") EXCEPT !.s = call[k].s])
  /\ UNCHANGED <<depositVars, memberVars>>

\* Mutant: no unique index on the ledger.
CreditAlways(k) ==
  /\ At(k, "credit")
  /\ bonus' = [bonus EXCEPT ![call[k].s] = @ + 1]
  /\ Finish(k)
  /\ UNCHANGED <<depositVars, now, sub, debit, granted>>

\* UQ_wallet_ledger_subscription_reward lets one entry in.
CreditBonus(k) ==
  /\ At(k, "credit")
  /\ bonus' = IF bonus[call[k].s] = 0 THEN [bonus EXCEPT ![call[k].s] = 1] ELSE bonus
  /\ Finish(k)
  /\ UNCHANGED <<depositVars, now, sub, debit, granted>>

----------------------------------------------------------------------------
\* A failed call, or the death of the process, leaves the rows as they are.
Abandon(k) ==
  /\ call[k] # NoCall
  /\ Finish(k)
  /\ UNCHANGED <<depositVars, memberVars>>

ProviderDecides ==
  /\ \E s \in Purchases, p \in Providers : Decides(s, p)
  /\ UNCHANGED <<memberVars, call>>

Tick == /\ now < Horizon
        /\ now' = now + 1
        /\ UNCHANGED <<depositVars, sub, debit, bonus, call, granted>>

Buy(k) == \/ Expire(k) \/ ReadPending(k) \/ NoneReusable(k) \/ Discard(k)
          \/ ReuseOpen(k) \/ ReusePaid(k) \/ CancelPending(k) \/ Create(k)
          \/ Debit(k) \/ OpenDeposit(k) \/ AssignOrder(k) \/ Post(k)
          \/ Failover(k) \/ KeepAnswer(k) \/ SavePurchase(k)

Settle(k) == \/ Answered(k) \/ SaveCheck(k) \/ FindSubscription(k)
             \/ ApplyPaid(k) \/ ApplyOther(k) \/ CancelOthers(k)
             \/ Start(k) \/ LookForBonus(k) \/ CreditBonus(k)

Next == \/ \E k \in Buyers, op \in {"read", "trial", "subscribe", "points"} :
             Look(k, op)
        \/ \E k \in Checkers, s \in Purchases : StatusCheck(k, s) \/ Notice(k, s)
        \/ \E k \in Calls : Buy(k) \/ Settle(k) \/ Abandon(k)
        \/ ProviderDecides \/ Tick

Spec == Init /\ [][Next]_vars

----------------------------------------------------------------------------
(* What the driver gets for the money.                                     *)

Paid(s) == debit[s] \/ \E p \in Providers : money[s][p] = "paid"

\* A pack that is active and no trial was paid, by an order a provider
\* completed or by tokens that were taken: whatever old copy a poll, a
\* callback, the cron or the purchase itself saves, no unpaid row is activated
\* (applyPaymentToSubscription, subscribeWithPoints).
PaidBeforeActive ==
  \A s \in Purchases : sub[s].status = "active" => sub[s].trial \/ Paid(s)

\* The tokens offered with a pack are credited once, and only for a pack that
\* was paid and started, however often checks find it active
\* (awardSubscriptionPaymentTokens).
BonusEarnedOnce ==
  \A s \in Purchases : bonus[s] <= 1 /\ (bonus[s] = 1 => Paid(s) /\ granted[s] # {})

----------------------------------------------------------------------------
(* Liveness.  A call goes on, fails or dies.  The client polls while it     *)
(* waits, and its polls are not all unlucky: no cron and no callback does   *)
(* this for it, as a FlexPay callback that cannot be verified is            *)
(* acknowledged and never sent again.                                      *)

Ends(k) == Buy(k) \/ Settle(k) \/ Abandon(k)
Asks(s) == \E k \in Checkers : StatusCheck(k, s)
For(k, s) == call[k].op = "status" /\ call[k].s = s
HearsPaid(s) == \E k \in Calls :
  Answered(k) /\ For(k, s) /\ call'[k].answer = "paid"
KeepsPaid(s) == \E k \in Calls :
  SaveCheck(k) /\ For(k, s) /\ call[k].answer = "paid"
FindsPaid(s) == \E k \in Calls :
  FindSubscription(k) /\ For(k, s) /\ call[k].pay.status = "succeeded"
Applies(s) == \E k \in Calls : ApplyPaid(k) /\ For(k, s)
Cancels(s) == \E k \in Calls : CancelOthers(k) /\ For(k, s)
Starts(s) == \E k \in Calls : Start(k) /\ For(k, s)

ClientAsks(s) ==
  /\ SF_vars(Asks(s)) /\ SF_vars(HearsPaid(s)) /\ SF_vars(KeepsPaid(s))
  /\ SF_vars(FindsPaid(s)) /\ SF_vars(Applies(s)) /\ SF_vars(Cancels(s))
  /\ SF_vars(Starts(s))

FairSpec == /\ Spec
            /\ \A k \in Calls : WF_vars(Ends(k))
            /\ \A s \in Purchases : ClientAsks(s)

\* The request that opened the deposit of s still works on it.
Submitting(s) == \E k \in Calls :
  call[k] # NoCall /\ call[k].s = s /\ call[k].pc \in {"attempt", "answered"}

\* A purchase whose order the provider completed starts in the end, while its
\* client asks: no timeout, failover, stale save, refused poll or expired row
\* makes the payment final as anything but paid (checkPaymentStatus).  The
\* order must be on the row: the request that opened the deposit saves its own
\* copy last and may take an order number off that a callback brought.
PaidActivates ==
  \A s \in Purchases :
    (/\ deposit[s].order /\ ~Submitting(s)
     /\ money[s][deposit[s].provider] = "paid") ~> granted[s] # {}

\* "un callback répété ne prolonge plus une seconde fois la date de fin du même
\* abonnement déjà activé" (docs/finance/token-denomination-subscription-reward).
OnePeriod == \A s \in Purchases : Cardinality(granted[s]) <= 1

----------------------------------------------------------------------------
(* Why this holds: the inductive invariant the proofs use.                 *)

MoneyPaid(s) == \E p \in Providers : money[s][p] = "paid"

\* An active row is an untouched trial, or was paid and started.
RowTrue(s, row) ==
  row.status = "active" => \/ row.trial /\ ~row.linked
                           \/ Paid(s) /\ granted[s] # {}

\* A copy of the row of s, however old, is of that row.
CopyTrue(s, row) ==
  sub[s] # NoRow /\ row.trial = sub[s].trial /\ RowTrue(s, row)

\* What a call carries at each step,
CallShape(c) ==
  /\ c.s \notin Purchases => c.row = NoRow /\ c.pay = NoDeposit /\ c.answer = None
  /\ c.pc \notin {"reuse", "todo", "cancel", "create"} => c.s \in Purchases
  /\ c.pc = "expire" => c.op \in {"read", "trial", "subscribe", "points"}
  /\ c.pc \in {"attempt", "answered", "asked", "save", "find", "apply"} =>
       c.pay \in Deposit
  /\ c.pc \in {"expire", "debit", "open", "attempt", "answered", "link",
               "refused", "apply", "activate", "start"} => c.row \in Row
  /\ c.pc \in {"debit", "open", "attempt", "answered", "link", "refused"} =>
       c.row.status = "pending"

\* and what was true when it read it, and still is.
CallTrue(c) ==
  /\ c.pc \in {"asked", "save", "find", "apply"} => deposit[c.s] # NoDeposit
  /\ c.row # NoRow => CopyTrue(c.s, c.row)
  /\ c.pay.status = "succeeded" \/ c.answer = "paid" => MoneyPaid(c.s)
  /\ c.pc \in {"activate", "start", "bonus", "credit"} => Paid(c.s)
  /\ c.pc \in {"bonus", "credit"} => granted[c.s] # {}
  /\ \A d \in c.todo : /\ CopyTrue(d.s, d.row)
                       /\ d.pay.status = "succeeded" => MoneyPaid(d.s)

\* A request that still submits owns its purchase, and no provider it has yet
\* to ask, or that refused it, has the order.
Submits(c) == c.pc \in {"debit", "open", "attempt", "answered"}
Unsent(c, p) == \/ c.pc # "answered" \/ p # c.pay.provider
                \/ c.answer \in {"rejected", "retryable"}
SubmissionTrue(c) ==
  Submits(c) => /\ ~sub[c.s].trial
                /\ \A p \in Providers : Unsent(c, p) => money[c.s][p] = "missing"

DepositTrue(s) ==
  /\ deposit[s] # NoDeposit => sub[s] # NoRow /\ ~sub[s].trial
  /\ sub[s] = NoRow => \A p \in Providers : money[s][p] = "missing"
  /\ deposit[s].status = "succeeded" => MoneyPaid(s)

CallsTrue ==
  /\ \A k \in Calls : call[k] # NoCall =>
       CallShape(call[k]) /\ CallTrue(call[k]) /\ SubmissionTrue(call[k])
  /\ \A k, j \in Calls :
       k # j /\ Submits(call[k]) /\ Submits(call[j]) => call[k].s # call[j].s

IInv == /\ TypeOK /\ BonusEarnedOnce /\ CallsTrue
        /\ \A s \in Purchases : RowTrue(s, sub[s]) /\ DepositTrue(s)
=============================================================================
