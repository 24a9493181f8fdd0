--------------------------- MODULE DriverPayouts ---------------------------
(***************************************************************************)
(* DriverSettlementsService and DriverPayoutRecoveryService: a driver asks  *)
(* for the earnings as mobile money.  A payout row reserves the amount      *)
(* under the driver's lock; any retry under the same idempotency key may    *)
(* try to send it, and claimDriverPayoutPayment lets one of them through.   *)
(* Support may release a FlexPay payout proved unpaid; a success that comes *)
(* later blocks the driver's payouts until support closes the incident.     *)
(***************************************************************************)
EXTENDS PayoutGateway, Sums

CONSTANTS
  Drivers,
  Owner,        \* Owner[r]: the driver whose idempotency key r is
  Callers,      \* HTTP requests that ask for a payout, retries included
  Amounts,      \* amounts a driver asks for or earns
  MaxEarned     \* bound: a driver earns no more than this

VARIABLES
  payout,       \* payout[r]: the driver_payouts row
  caller,       \* caller[c]: a request between its reservation and its claim
  earned        \* earned[d]: AVAILABLE driver_earnings of d, summed

payoutVars == <<payout, caller, earned>>
vars == <<gatewayVars, payoutVars>>

ASSUME DriverAssumption ==
  /\ Owner \in [Requests -> Drivers]
  /\ Amounts \subseteq Nat \ {0}
  /\ MaxEarned \in Nat

Reviews == {"none", "asked", "resolved"}
Payout == [status : Statuses \cup {None}, amount : Nat, released : BOOLEAN,
           blocked : BOOLEAN, review : Reviews]
NoPayout == [status |-> None, amount |-> 0, released |-> FALSE,
             blocked |-> FALSE, review |-> "none"]
Reserved(n) == [NoPayout EXCEPT !.status = "pending", !.amount = n]

Idle == [pc |-> "idle"]
Caller == {Idle} \cup [pc : {"claim", "unsent"}, req : Requests]

TypeOK ==
  /\ GatewayTypeOK
  /\ payout \in [Requests -> Payout]
  /\ caller \in [Callers -> Caller]
  /\ earned \in [Drivers -> Nat]

Init ==
  /\ GatewayInit
  /\ payout = [r \in Requests |-> NoPayout]
  /\ caller = [c \in Callers |-> Idle]
  /\ earned = [d \in Drivers |-> 0]

Mine(d) == {r \in Requests : Owner[r] = d}
Amount(S) == SumOver([r \in Requests |-> payout[r].amount], S)

----------------------------------------------------------------------------
(* Reserving and sending.                                                  *)

\* Mutant: a payout waiting for its provider is not deducted.
LocksMoneyWhenPaid(r) == payout[r].status = "succeeded"

\* sumPayouts: what getAvailableBalanceWithManager deducts from the earnings.
LocksMoney(r) == payout[r].status \in Open \cup {"succeeded"}

Available(d) == earned[d] - Amount({r \in Mine(d) : LocksMoney(r)})

\* Mutant: only an incident already applied to the payout blocks the driver.
RecoveryFlagged(r) == payout[r].blocked

\* A late success blocks the driver from the moment the payment row has it.
RecoveryPending(r) ==
  \/ payout[r].blocked
  \/ /\ payout[r].released /\ payout[r].status # "succeeded"
     /\ payment[r].status = "succeeded"

\* reservePayout of a new key, under the driver's row lock.
Reserve(c, r, n) ==
  LET d == Owner[r] IN
  /\ caller[c] = Idle /\ payout[r].status = None
  /\ \A q \in Mine(d) : ~RecoveryPending(q)
  /\ n <= Available(d)
  /\ payout' = [payout EXCEPT ![r] = Reserved(n)]
  /\ submit' = [submit EXCEPT ![r].pc = "claim"]
  /\ caller' = [caller EXCEPT ![c] = [pc |-> "claim", req |-> r]]
  /\ UNCHANGED <<payment, transfer, check, earned>>

\* requestPayout under a known key: a final payout is returned as it is, one
\* with a payment is applied (Apply), any other is sent again.
Retry(c, r) ==
  /\ caller[c] = Idle
  /\ payout[r].status \in Open /\ payment[r] = NoPayment
  /\ caller' = [caller EXCEPT ![c] = [pc |-> "claim", req |-> r]]
  /\ UNCHANGED <<gatewayVars, payout, earned>>

\* Mutant: the claim looks at the payment rows but not at the payout.
SendableUnchecked(r) == submit[r].pc = "claim"

\* claimDriverPayoutPayment sends a payout that is still reserved, once.
Sendable(r) == payout[r].status = "pending" /\ ~payout[r].released
               /\ ~payout[r].blocked

Claim(c) ==
  /\ caller[c].pc = "claim"
  /\ Sendable(caller[c].req)
  /\ OpenPayment(caller[c].req)
  /\ caller' = [caller EXCEPT ![c] = Idle]
  /\ UNCHANGED <<payout, earned>>

\* The claim is refused, or initiatePayout throws before it.
ClaimFails(c) ==
  /\ caller[c].pc = "claim" /\ payment[caller[c].req] = NoPayment
  /\ caller' = [caller EXCEPT ![c].pc = "unsent"]
  /\ UNCHANGED <<gatewayVars, payout, earned>>

\* markUnsentPayoutFailed acts on a payout that nothing was sent for.
Unsent(r) == payout[r].status = "pending" /\ payment[r] = NoPayment

MarkUnsent(r) ==
  payout' = IF ~Unsent(r) THEN payout ELSE
    [payout EXCEPT ![r].status = "failed", ![r].released = TRUE,
       ![r].review = IF @ = "none" THEN "none" ELSE "resolved"]

\* The catch of requestPayout.
SendFailed(c) ==
  /\ caller[c].pc = "unsent"
  /\ MarkUnsent(caller[c].req)
  /\ caller' = [caller EXCEPT ![c] = Idle]
  /\ UNCHANGED <<gatewayVars, earned>>

\* reconcilePendingPayouts on a payout without payment, once the grace period
\* is over (at any time, here).
ReleaseOrphan(r) ==
  /\ Unsent(r) /\ MarkUnsent(r)
  /\ UNCHANGED <<gatewayVars, caller, earned>>

\* The process dies, or finds that the payment exists, before it claims.
CallerEnds(c) ==
  /\ caller[c] # Idle
  /\ caller' = [caller EXCEPT ![c] = Idle]
  /\ UNCHANGED <<gatewayVars, payout, earned>>

----------------------------------------------------------------------------
(* Applying the payment, under the driver, payout and payment row locks.   *)

Late(w) == w.released /\ w.status # "succeeded"

\* Mutant: a delayed answer reopens a payout that was released.
AppliedAnyway(w, status) ==
  [w EXCEPT !.status = status, !.released = @ \/ status \in Refused]

Applied(w, status) ==
  IF status # "succeeded" /\ (w.released \/ w.status = "succeeded") THEN w
  ELSE LET late == status = "succeeded" /\ Late(w)
           blocks == w.blocked \/ late
       IN [w EXCEPT !.status = status, !.blocked = blocks,
             !.released = @ \/ status \in Refused,
             !.review = IF late THEN "asked"
                        ELSE IF status \in Terminal /\ ~blocks /\ @ = "asked"
                             THEN "resolved" ELSE @]

Apply(r) ==
  /\ payment[r] # NoPayment /\ payout[r].status # None
  /\ payout' = [payout EXCEPT ![r] = Applied(@, payment[r].status)]
  /\ UNCHANGED <<gatewayVars, caller, earned>>

----------------------------------------------------------------------------
(* Drivers and support.                                                    *)

RequestReview(r) ==
  /\ payout[r].status \in Open /\ payout[r].review = "none"
  /\ payout' = [payout EXCEPT ![r].review = "asked"]
  /\ UNCHANGED <<gatewayVars, caller, earned>>

\* resolveNotPaid: support holds definitive evidence, from FlexPay, that the
\* money did not leave, after a grace period longer than any submission.
Resolvable(r) ==
  /\ payout[r].status \in Open /\ ~payout[r].released /\ ~payout[r].blocked
  /\ \/ payment[r] = NoPayment
     \/ payment[r].provider = "flexpay" /\ payment[r].status # "succeeded"

ConfirmedNotPaid(r) ==
  /\ submit[r].pc \in {"claim", "done"}
  /\ \A p \in Providers : transfer[r][p] \in {"missing", "refused"}

ResolveNotPaid(r) ==
  /\ Resolvable(r) /\ ConfirmedNotPaid(r)
  /\ payout' = [payout EXCEPT ![r].status = "cancelled", ![r].released = TRUE,
                              ![r].review = "resolved"]
  /\ UNCHANGED <<gatewayVars, caller, earned>>

CloseIncident(r) ==
  /\ payout[r].blocked /\ payout[r].status = "succeeded"
  /\ payout' = [payout EXCEPT ![r].blocked = FALSE, ![r].review = "resolved"]
  /\ UNCHANGED <<gatewayVars, caller, earned>>

\* Mutant: the earning of an earlier booking is taken back.
EarnOrReverse(d, n) ==
  /\ earned[d] + n <= MaxEarned
  /\ \E m \in {n, -n} : earned' = [earned EXCEPT ![d] = @ + m]
  /\ UNCHANGED <<gatewayVars, payout, caller>>

\* A completed booking adds an earning; earnings are never withdrawn.
Earn(d, n) ==
  /\ earned[d] + n <= MaxEarned
  /\ earned' = [earned EXCEPT ![d] = @ + n]
  /\ UNCHANGED <<gatewayVars, payout, caller>>

\* The gateway's side of a payout begins with its claim (see Claim).
SenderStep(r) == submit[r].pc # "claim" /\ SubmitStep(r)

Gateway ==
  /\ \/ \E r \in Requests : SenderStep(r)
     \/ \E r \in Requests, p \in Providers : ProviderDecides(r, p)
     \/ \E c \in Checkers : CheckStep(c)
  /\ UNCHANGED payoutVars

Next ==
  \/ Gateway
  \/ \E c \in Callers, r \in Requests :
       Retry(c, r) \/ \E n \in Amounts : Reserve(c, r, n)
  \/ \E c \in Callers : Claim(c) \/ ClaimFails(c) \/ SendFailed(c) \/ CallerEnds(c)
  \/ \E r \in Requests : ReleaseOrphan(r) \/ Apply(r) \/ RequestReview(r)
                         \/ ResolveNotPaid(r) \/ CloseIncident(r)
  \/ \E d \in Drivers, n \in Amounts : Earn(d, n)

Spec == Init /\ [][Next]_vars

----------------------------------------------------------------------------
(* What the services promise.                                              *)

\* The amount is given back only when no provider holds the money: it was
\* never sent, or refused (applyPaymentToPayout, resolveNotPaid, the cron).
ReleasedNotPaid ==
  \A r \in Requests : payout[r].released =>
    \A p \in Providers : transfer[r][p] \in {"missing", "refused", "reversed"}

\* Sum of what the providers really paid for the requests in S.
PaidOut(S) ==
  SumOver([r \in Requests |-> payout[r].amount *
    Cardinality({p \in Providers : transfer[r][p] \in {"paid", "reversed"}})], S)

Unreversed(r) == \A p \in Providers : transfer[r][p] # "reversed"

\* A driver receives more than was earned only through transfers that were
\* first reported refused and paid afterwards, whatever is retried.
PaidWithinEarnings ==
  \A d \in Drivers : PaidOut({r \in Mine(d) : Unreversed(r)}) <= earned[d]

\* From the moment a payment row says that a released payout was paid until
\* support closes the incident, its driver reserves no other payout.
LateSuccessStopsPayouts ==
  [][\A r, q \in Requests :
       /\ payout[r].released /\ payment[r].status = "succeeded"
       /\ payout[r].status = "succeeded" => payout[r].review = "asked"
       /\ Owner[q] = Owner[r] /\ payout[q].status = None
       => payout'[q].status = None]_vars

\* A payout that is over leaves no review open, except a late success, which
\* blocks the driver as long as it is open.
ReviewEnds(w) ==
  /\ w.status \in Terminal => (w.review = "asked" <=> w.blocked)
  /\ w.blocked => w.status = "succeeded" /\ w.released

ReviewsEnd == \A r \in Requests : ReviewEnds(payout[r])

----------------------------------------------------------------------------
(* Driver payouts implement the same contract as wallet withdrawals.       *)

Phase(w) == CASE w.status = None -> "idle"
              [] w.status \in Open -> "held"
              [] w.status \in Refused -> "returned"
              [] w.status = "succeeded" /\ w.released -> "review"
              [] OTHER -> "paid"

Contract == INSTANCE PayoutContract WITH
  phase <- [r \in Requests |-> Phase(payout[r])],
  money <- [r \in Requests |-> Money(transfer[r])]

RefinesContract == Contract!Spec

----------------------------------------------------------------------------
(* Why the promises hold: an inductive invariant.                          *)

\* Only a released payout is closed as refused, and once it is released its
\* money has not left and can no longer be sent: either no caller can claim it
\* any more, or its transfer was made and refused.
PayoutInv(r) ==
  LET w == payout[r] IN
  /\ w.status = None <=> submit[r].pc = "idle"
  /\ submit[r].pc # "unsent"
  /\ w.status \in Refused => w.released
  /\ w.status = "succeeded" => \E p \in Providers : transfer[r][p] \in Received
  /\ w.released =>
       /\ w.status \in Terminal
       /\ submit[r].pc \in {"claim", "answered", "done"}
       /\ \A p \in Providers : transfer[r][p] \in NotPaid
       /\ submit[r].pc = "answered" => \E p \in Providers : transfer[r][p] # "missing"

IInv ==
  /\ TypeOK
  /\ GatewayInv
  /\ \A r \in Requests : PayoutInv(r)
  /\ ReviewsEnd

\* The payouts that lock money, but for late successes, are within the
\* earnings; finitely many were ever made, so they can be summed.
Committed(d) == {r \in Mine(d) : LocksMoney(r) /\ Unreversed(r)}

Budget ==
  /\ IsFiniteSet({r \in Requests : payout[r].status # None})
  /\ \A d \in Drivers : Amount(Committed(d)) <= earned[d]
=============================================================================
