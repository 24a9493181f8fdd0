----------------------------- MODULE Referrals -----------------------------
(***************************************************************************)
(* ReferralsService: a user is attached to the one who invited them, the   *)
(* inviter earns a bonus and a share of what the invitee pays, held for    *)
(* some days, and withdraws the earnings as mobile money.                  *)
(*                                                                         *)
(* An attachment is serialized per invitee by an advisory lock, but it     *)
(* saves the whole profile row, and so does the refresh of a share link,   *)
(* which read it before a call to ChottuLink and holds no lock.  Rewards   *)
(* and withdrawals move tokens between the four buckets of an account      *)
(* under row locks; a payment is applied from the copy a caller received.  *)
(*                                                                         *)
(* The payment of a withdrawal is a row of PayoutGateway, reduced here to  *)
(* the moves that Withdrawals_proofs establishes for it (PaymentFlow): a   *)
(* success is final and a refusal yields only to a success.                *)
(***************************************************************************)
EXTENDS Integers, Sums, PaymentStatus

CONSTANTS
  Members,      \* users, of whom one may invite another
  Invitees,     \* users who may still be attached to an inviter
  Calls,        \* HTTP requests about profiles
  Sources,      \* bookings and subscriptions that may earn a reward
  Payer,        \* Payer[s]: who pays s
  Share,        \* tokens a source earns
  Bonus,        \* tokens an attachment earns
  CashOuts,     \* withdrawals
  Earner,       \* Earner[r]: whose withdrawal r is
  CashOutAmounts  \* tokens a withdrawal may be for

ASSUME ReferralsAssumption ==
  /\ Invitees \subseteq Members
  /\ Payer \in [Sources -> Invitees]
  /\ Earner \in [CashOuts -> Members]
  /\ Share \in Nat \ {0} /\ Bonus \in Nat
  /\ CashOutAmounts \subseteq Nat \ {0}

VARIABLES
  profile,      \* profile[u]: the referral_profiles row
  call,         \* call[k]: a request between its read and its save
  bonuses,      \* <<p, u>>: the ledger has p's bonus for u
  reward,       \* reward[s]: the referral_rewards row of source s
  buckets,      \* buckets[u]: the four buckets of referral_accounts
  cashOut,      \* cashOut[r]: the referral_withdrawals row
  sender,       \* sender[r]: the request that submits r
  outcome,      \* outcome[r]: the status of the payment of r
  told          \* told[r]: the statuses of it that a caller may have read

profileVars == <<profile, call, bonuses>>
withdrawalVars == <<cashOut, sender, outcome, told>>
referralsVars == <<profileVars, reward, buckets, withdrawalVars>>

Profile == [referrer : Members \cup {None}, qualified : BOOLEAN]
NewProfile == [referrer |-> None, qualified |-> FALSE]

Call == [kind : {"attach"}, user : Invitees, to : Members, seen : Profile]
        \cup [kind : {"refresh"}, user : Invitees, seen : Profile]
NoCall == [kind |-> None]

\* `released' stands for availableAt: the hold of the reward ended once.
Reward == [status : {"pending", "available", "reversed"}, to : Members,
           released : BOOLEAN]
NoReward == [status |-> None, released |-> FALSE]

Account == [pending : Nat, available : Int, reserved : Nat, withdrawn : Nat]
NewAccount == [pending |-> 0, available |-> 0, reserved |-> 0, withdrawn |-> 0]

\* `refunded': the ledger has the WITHDRAWAL_REFUNDED entries.
CashOut == [status : Statuses \cup {None}, tokens : Nat, refunded : BOOLEAN]
NoCashOut == [status |-> None, tokens |-> 0, refunded |-> FALSE]

ReferralsTypeOK ==
  /\ profile \in [Members -> Profile]
  /\ call \in [Calls -> Call \cup {NoCall}]
  /\ bonuses \subseteq Members \X Invitees
  /\ reward \in [Sources -> Reward \cup {NoReward}]
  /\ buckets \in [Members -> Account]
  /\ cashOut \in [CashOuts -> CashOut]
  /\ sender \in [CashOuts -> {"idle", "sending", "threw", "done"}]
  /\ outcome \in [CashOuts -> Statuses \cup {None}]
  /\ told \in [CashOuts -> SUBSET Statuses]

ReferralsInit ==
  /\ profile = [u \in Members |-> NewProfile]
  /\ call = [k \in Calls |-> NoCall]
  /\ bonuses = {}
  /\ reward = [s \in Sources |-> NoReward]
  /\ buckets = [u \in Members |-> NewAccount]
  /\ cashOut = [r \in CashOuts |-> NoCashOut]
  /\ sender = [r \in CashOuts |-> "idle"]
  /\ outcome = [r \in CashOuts |-> None]
  /\ told = [r \in CashOuts |-> {}]

\* `buckets' after n more tokens in the bucket, and m less in the other.
Gain(u, bucket, n) == [buckets EXCEPT ![u][bucket] = @ + n]
Move(u, from, to, n) == [buckets EXCEPT ![u][from] = @ - n, ![u][to] = @ + n]

----------------------------------------------------------------------------
(* Profiles.                                                               *)

\* lockReferralUser: an attachment of u holds the advisory lock.
Locked(u) == \E k \in Calls : call[k].kind = "attach" /\ call[k].user = u

\* registerUserInternal reads the row under the lock, and refuses oneself and
\* an inviter other than the one the row has.
ReadAttach(k, u, p) ==
  /\ call[k] = NoCall /\ ~Locked(u)
  /\ u # p /\ profile[u].referrer \in {None, p}
  /\ call' = [call EXCEPT ![k] =
       [kind |-> "attach", user |-> u, to |-> p, seen |-> profile[u]]]
  /\ UNCHANGED <<profile, bonuses, reward, buckets, withdrawalVars>>

\* It saves the whole row, and credits the bonus the ledger does not have.
Attach(k) ==
  LET u == call[k].user
      p == call[k].to
      new == call[k].seen.referrer = None /\ <<p, u>> \notin bonuses
  IN
  /\ call[k].kind = "attach"
  /\ profile' = [profile EXCEPT ![u] = [call[k].seen EXCEPT !.referrer = p]]
  /\ bonuses' = IF new THEN bonuses \cup {<<p, u>>} ELSE bonuses
  /\ buckets' = IF new THEN Gain(p, "available", Bonus) ELSE buckets
  /\ call' = [call EXCEPT ![k] = NoCall]
  /\ UNCHANGED <<reward, withdrawalVars>>

\* getSummary: ensureProfileAndAccount waits for the lock and lets it go; the
\* row it read outlives the call to ChottuLink.
ReadRefresh(k, u) ==
  /\ call[k] = NoCall /\ ~Locked(u)
  /\ call' = [call EXCEPT ![k] =
       [kind |-> "refresh", user |-> u, seen |-> profile[u]]]
  /\ UNCHANGED <<profile, bonuses, reward, buckets, withdrawalVars>>

\* getOrCreateChottuLinkShareLink saves the row it was given, whole.
Refresh(k) ==
  /\ call[k].kind = "refresh"
  /\ profile' = [profile EXCEPT ![call[k].user] = call[k].seen]
  /\ call' = [call EXCEPT ![k] = NoCall]
  /\ UNCHANGED <<bonuses, reward, buckets, withdrawalVars>>

\* A rollback, a link that is still fresh, ChottuLink failing, a crash.
CallEnds(k) ==
  /\ call[k] # NoCall
  /\ call' = [call EXCEPT ![k] = NoCall]
  /\ UNCHANGED <<profile, bonuses, reward, buckets, withdrawalVars>>

----------------------------------------------------------------------------
(* Rewards, each under the lock of its row and of the account.             *)

\* awardReward, when the inviter and the date of the payment qualify; the
\* unique key of the source lets one caller through.
Award(s) ==
  LET u == Payer[s]
      p == profile[u].referrer
  IN
  /\ reward[s] = NoReward /\ p # None
  /\ profile' = [profile EXCEPT ![u].qualified = TRUE]
  /\ reward' = [reward EXCEPT ![s] =
       [status |-> "pending", to |-> p, released |-> FALSE]]
  /\ buckets' = Gain(p, "pending", Share)
  /\ UNCHANGED <<call, bonuses, withdrawalVars>>

\* releaseRewardById, by the hourly cron or a reader of the summary, once the
\* hold is over (at any time, here).
Release(s) ==
  /\ reward[s].status = "pending"
  /\ reward' = [reward EXCEPT ![s].status = "available", ![s].released = TRUE]
  /\ buckets' = Move(reward[s].to, "pending", "available", Share)
  /\ UNCHANGED <<profileVars, withdrawalVars>>

\* Mutant: a reversal looks for the tokens where the reward first put them.
ReverseAsPending(s) ==
  /\ reward[s].status \in {"pending", "available"}
  /\ buckets' = Gain(reward[s].to, "pending", -Share)
  /\ reward' = [reward EXCEPT ![s].status = "reversed"]
  /\ UNCHANGED <<profileVars, withdrawalVars>>

\* reverseReward takes the tokens back from the bucket they are in, also when
\* they were withdrawn meanwhile.
Reverse(s) ==
  /\ reward[s].status \in {"pending", "available"}
  /\ buckets' = Gain(reward[s].to, reward[s].status, -Share)
  /\ reward' = [reward EXCEPT ![s].status = "reversed"]
  /\ UNCHANGED <<profileVars, withdrawalVars>>

----------------------------------------------------------------------------
(* Withdrawals.                                                            *)

\* Mutant: tokens in the hold can be withdrawn.
SpendableHeld(u) == buckets[u].available + buckets[u].pending

Spendable(u) == buckets[u].available

\* reserveWithdrawal, under the lock of the account.
ReserveWithdrawal(r, n) ==
  /\ cashOut[r].status = None /\ Spendable(Earner[r]) >= n
  /\ cashOut' = [cashOut EXCEPT ![r] =
       [status |-> "pending", tokens |-> n, refunded |-> FALSE]]
  /\ buckets' = Move(Earner[r], "available", "reserved", n)
  /\ sender' = [sender EXCEPT ![r] = "sending"]
  /\ UNCHANGED <<profileVars, reward, outcome, told>>

Told(r, status) == /\ outcome' = [outcome EXCEPT ![r] = status]
                   /\ told' = [told EXCEPT ![r] = @ \cup {status}]

\* initiatePayout saves the payment.
PaymentOpens(r) ==
  /\ sender[r] = "sending" /\ outcome[r] = None
  /\ Told(r, "pending")
  /\ UNCHANGED <<profileVars, reward, buckets, cashOut, sender>>

\* It returns: accepted, unknown, or moved by someone else.
Returns(r) ==
  /\ sender[r] = "sending" /\ outcome[r] # None
  /\ sender' = [sender EXCEPT ![r] = "done"]
  /\ UNCHANGED <<profileVars, reward, buckets, cashOut, outcome, told>>

\* It throws: no provider took the payout, and no row or a refused one is left.
Throws(r) ==
  /\ sender[r] = "sending"
  /\ \/ outcome[r] = None /\ UNCHANGED <<outcome, told>>
     \/ outcome[r] \in Open /\ Told(r, "failed")
  /\ sender' = [sender EXCEPT ![r] = "threw"]
  /\ UNCHANGED <<profileVars, reward, buckets, cashOut>>

\* The process dies with the request; nobody takes it up again.
Crash(r) ==
  /\ sender[r] \in {"sending", "threw"}
  /\ sender' = [sender EXCEPT ![r] = "done"]
  /\ UNCHANGED <<profileVars, reward, buckets, cashOut, outcome, told>>

\* A callback or a check of the payment (external: see PayoutGateway).
PaymentMoves(r) ==
  /\ \/ outcome[r] \in Open /\ \E status \in Statuses : Told(r, status)
     \/ outcome[r] \in Refused /\ Told(r, "succeeded")
  /\ UNCHANGED <<profileVars, reward, buckets, cashOut, sender>>

\* settleReservedWithdrawal, for a withdrawal that keeps its reservation.
SettleReserved(r, status) ==
  LET paid == status = "succeeded" IN
  /\ buckets' = Move(Earner[r], "reserved",
                     IF paid THEN "withdrawn" ELSE "available",
                     cashOut[r].tokens)
  /\ cashOut' = [cashOut EXCEPT ![r].status = status, ![r].refunded = ~paid]

\* The catch of requestWithdrawal: failWithdrawal, unless it is settled.
Fail(r) ==
  /\ sender[r] = "threw"
  /\ sender' = [sender EXCEPT ![r] = "done"]
  /\ IF cashOut[r].status \in Open THEN SettleReserved(r, "failed")
     ELSE UNCHANGED <<buckets, cashOut>>
  /\ UNCHANGED <<profileVars, reward, outcome, told>>

\* settleSucceededAfterRefund takes the tokens a second time, spent or not.
Recover(r) ==
  /\ buckets' = Move(Earner[r], "available", "withdrawn", cashOut[r].tokens)
  /\ cashOut' = [cashOut EXCEPT ![r].status = "succeeded"]

\* Mutant: a late refusal is applied to a withdrawal that was refunded.
SettlesAgain(r, status) ==
  /\ cashOut[r].status # "succeeded"
  /\ status = "succeeded" => cashOut[r].status \in Open

\* A final withdrawal takes no other answer than a success after a refund.
Settles(r, status) == cashOut[r].status \in Open

\* applyPaymentToWithdrawal locks the withdrawal, not the payment: the status
\* is the one its caller was given.
Apply(r, status) ==
  /\ status \in told[r]
  /\ \/ Settles(r, status) /\ status \notin Open /\ SettleReserved(r, status)
     \/ /\ cashOut[r].status \in Open /\ status \in Open
        /\ cashOut' = [cashOut EXCEPT ![r].status = status]
        /\ UNCHANGED buckets
     \/ /\ cashOut[r].status \in Refused /\ status = "succeeded"
        /\ Recover(r)
  /\ UNCHANGED <<profileVars, reward, sender, outcome, told>>

----------------------------------------------------------------------------
CallStep(k) == \/ \E u \in Invitees : \/ \E p \in Members : ReadAttach(k, u, p)
                                      \/ ReadRefresh(k, u)
               \/ Attach(k) \/ Refresh(k) \/ CallEnds(k)

RewardStep(s) == Award(s) \/ Release(s) \/ Reverse(s)

WithdrawalStep(r) ==
  \/ \E n \in CashOutAmounts : ReserveWithdrawal(r, n)
  \/ PaymentOpens(r) \/ Returns(r) \/ Throws(r) \/ Crash(r)
  \/ PaymentMoves(r) \/ Fail(r)
  \/ \E status \in Statuses : Apply(r, status)

ReferralsNext ==
  \/ \E k \in Calls : CallStep(k)
  \/ \E s \in Sources : RewardStep(s)
  \/ \E r \in CashOuts : WithdrawalStep(r)

ReferralsSpec == ReferralsInit /\ [][ReferralsNext]_referralsVars

----------------------------------------------------------------------------
(* What the service promises.                                              *)

\* Sums over the ledger of an account: its withdrawals, bonuses and rewards.
Mine(u) == {r \in CashOuts : Earner[r] = u}
Tokens(S) == SumOver([r \in CashOuts |-> cashOut[r].tokens], S)
Withdrawn(u, statuses) == Tokens({r \in Mine(u) : cashOut[r].status \in statuses})

Invited(u) == {v \in Invitees : <<u, v>> \in bonuses}
Bonuses(u) == SumOver([v \in Invitees |-> Bonus], Invited(u))

RewardsOf(u) == {s \in Sources : reward[s].status # None /\ reward[s].to = u}
Earned(S) == SumOver([s \in Sources |-> Share], S)
Held(u) == {s \in RewardsOf(u) : reward[s].status = "pending"}
Ended(u) == {s \in RewardsOf(u) : reward[s].status = "available"}
Released(u) == {s \in RewardsOf(u) : reward[s].released}

\* The four buckets say what the rewards, the bonuses and the withdrawals say,
\* in whatever order holds end, payments are reversed and answers are applied
\* (awardReward, reverseReward, releaseRewardById, applyPaymentToWithdrawal).
BucketsBalance ==
  \A u \in Members :
    LET open == Withdrawn(u, Open)
        paid == Withdrawn(u, {"succeeded"})
    IN /\ buckets[u].pending = Earned(Held(u))
       /\ buckets[u].reserved = open
       /\ buckets[u].withdrawn = paid
       /\ buckets[u].available + open + paid = Bonuses(u) + Earned(Ended(u))

\* Nobody is paid more tokens than bonuses and ended holds ever gave them, but
\* for payments that were refused first (reserveWithdrawal, failWithdrawal).
PaidWithinRewards ==
  \A u \in Members :
    Tokens({r \in Mine(u) : outcome[r] = "succeeded" /\ told[r] \cap Refused = {}})
      <= Bonuses(u) + Earned(Released(u))

\* An inviter once attached is never replaced and never lost, whatever requests
\* of the invitee run at the same time (registerUserInternal).
ReferrerKept ==
  [][\A u \in Members :
       profile[u].referrer # None =>
         profile'[u].referrer = profile[u].referrer]_referralsVars

----------------------------------------------------------------------------
(* Why the promises hold: an inductive invariant.                          *)

\* A withdrawal is refused only by an answer someone was told, or because its
\* request failed before it opened a payment, and opens none any more.
CashOutInv(r) ==
  /\ outcome[r] = None <=> told[r] = {}
  /\ outcome[r] # None => outcome[r] \in told[r]
  /\ cashOut[r].status = None <=> sender[r] = "idle"
  /\ sender[r] = "idle" => outcome[r] = None
  /\ sender[r] = "threw" \/ cashOut[r].status \in Refused =>
       \/ told[r] \cap Refused # {}
       \/ outcome[r] = None /\ sender[r] # "sending"

RewardInv(s) == reward[s].status = "available" => reward[s].released

\* Finitely many rows were ever made, so that they can be summed.
FinitelyMany ==
  /\ IsFiniteSet({r \in CashOuts : cashOut[r].status # None})
  /\ \A u \in Members : IsFiniteSet(Invited(u)) /\ IsFiniteSet(RewardsOf(u))

\* The withdrawals that were never refused are within what was ever earned.
Committed(u) == {r \in Mine(u) : cashOut[r].status \in Open \cup {"succeeded"}
                                  /\ told[r] \cap Refused = {}}

ReferralsIInv ==
  /\ ReferralsTypeOK
  /\ FinitelyMany
  /\ BucketsBalance
  /\ \A r \in CashOuts : CashOutInv(r)
  /\ \A s \in Sources : RewardInv(s)
  /\ \A u \in Members : Tokens(Committed(u)) <= Bonuses(u) + Earned(Released(u))
=============================================================================
