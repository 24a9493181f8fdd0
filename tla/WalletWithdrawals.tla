------------------------- MODULE WalletWithdrawals -------------------------
(***************************************************************************)
(* WalletWithdrawalsService: a user turns purchased tokens into cash.  The *)
(* tokens are reserved in one transaction (account and withdrawal rows     *)
(* locked), the payout is sent outside any lock through PayoutGateway, and *)
(* settle applies what the payment row says, from whichever caller comes   *)
(* first: the submitting request, a status read, the cron, a callback.     *)
(***************************************************************************)
EXTENDS PayoutGateway, TokenMovement, Sums

CONSTANTS
  Users,
  Owner,        \* Owner[r]: the user whose idempotency key r is
  Amounts,      \* token amounts a user asks for, spends or is credited
  Opening,      \* wallet rows the accounts may start with
  MaxBalance    \* bound: credits stop once a user has received this much

VARIABLES
  account,      \* account[u]: the POINTS row of wallet_accounts
  withdrawal,   \* withdrawal[r]: the wallet_withdrawals row
  refunds,      \* refunds[r]: WITHDRAWAL_REFUND ledger entries of r
  earned        \* history: u's wallet had no withdrawal ever touched it

walletVars == <<account, withdrawal, refunds, earned>>
vars == <<gatewayVars, walletVars>>

ASSUME WalletAssumption ==
  /\ Owner \in [Requests -> Users]
  /\ Amounts \subseteq Nat \ {0}
  /\ \A w \in Opening : w \in Wallet /\ Coherent(w) /\ w.reserved = 0
  /\ MaxBalance \in Nat

Settled == {"succeeded", "failed", "cancelled", "review"}
Withdrawal == [status : Open \cup Settled \cup {None}, tokens : Nat,
               released : BOOLEAN, linked : BOOLEAN]
NoWithdrawal == [status |-> None, tokens |-> 0, released |-> FALSE,
                 linked |-> FALSE]

TypeOK ==
  /\ GatewayTypeOK
  /\ account \in [Users -> Wallet]
  /\ \A u \in Users : Coherent(account[u])
  /\ withdrawal \in [Requests -> Withdrawal]
  /\ refunds \in [Requests -> Nat]

Init ==
  /\ GatewayInit
  /\ account \in [Users -> Opening]
  /\ withdrawal = [r \in Requests |-> NoWithdrawal]
  /\ refunds = [r \in Requests |-> 0]
  /\ earned = account

----------------------------------------------------------------------------
\* Purchased tokens only, moved to the reserved column.
Taken(w, n) == [Moved(w, -n, 0, TRUE) EXCEPT !.reserved = @ + n]

\* The reserving transaction of `request'; a retry under the same key finds
\* the row, even concurrently, and never submits.
Reserve(r, n) ==
  LET u == Owner[r] IN
  /\ withdrawal[r].status = None
  /\ MovementAllowed(account[u], -n, 0, TRUE)
  /\ account' = [account EXCEPT ![u] = Taken(@, n)]
  /\ withdrawal' = [withdrawal EXCEPT ![r] =
       [status |-> "pending", tokens |-> n, released |-> FALSE, linked |-> FALSE]]
  /\ submit' = [submit EXCEPT ![r].pc = "claim"]
  /\ UNCHANGED <<payment, transfer, check, refunds, earned>>

\* Mutant: the refund comes back as reward tokens.
ReturnedAsRewards(w, n) == [Moved(w, n, 0, FALSE) EXCEPT !.reserved = @ - n]

\* Undo the reservation of r: tokens go back as purchased tokens.
Returned(w, n) == [Moved(w, n, n, FALSE) EXCEPT !.reserved = @ - n]

\* releaseUnsent: the initiation threw before any payment row existed.
Unsent(r) == /\ ~withdrawal[r].released /\ ~withdrawal[r].linked
             /\ withdrawal[r].status = "pending"
             /\ payment[r] = NoPayment

ReleaseUnsent(r) ==
  LET n == withdrawal[r].tokens IN
  /\ submit[r].pc = "unsent"
  /\ submit' = [submit EXCEPT ![r].pc = "done"]
  /\ IF Unsent(r)
     THEN /\ account' = [account EXCEPT ![Owner[r]] = Returned(@, n)]
          /\ withdrawal' = [withdrawal EXCEPT ![r].status = "failed",
                                              ![r].released = TRUE]
          /\ refunds' = [refunds EXCEPT ![r] = @ + 1]
     ELSE UNCHANGED <<account, withdrawal, refunds>>
  /\ UNCHANGED <<payment, transfer, check, earned>>

\* Mutant: settle ignores every withdrawal already processed.
CanSettleOpen(r) == payment[r] # NoPayment /\ withdrawal[r].status \in Open

\* settle, on the locked account, withdrawal and re-read payment rows.
CanSettle(r) == /\ payment[r] # NoPayment
                /\ withdrawal[r].status \notin {"succeeded", "review"}

\* A success after the tokens went back: block the wallet for review.
SettleLateSuccess(r) ==
  /\ CanSettle(r) /\ withdrawal[r].released
  /\ payment[r].status = "succeeded"
  /\ account' = [account EXCEPT ![Owner[r]].blocked = TRUE]
  /\ withdrawal' = [withdrawal EXCEPT ![r].status = "review", ![r].linked = TRUE]
  /\ UNCHANGED refunds

\* Mutants: releasedAt is not looked at before a success or a refusal.
SettleSuccessAnyway(r) ==
  /\ CanSettle(r) /\ payment[r].status = "succeeded"
  /\ account' = [account EXCEPT ![Owner[r]].reserved = @ - withdrawal[r].tokens]
  /\ withdrawal' = [withdrawal EXCEPT ![r].status = "succeeded", ![r].linked = TRUE]
  /\ UNCHANGED refunds

SettleRefusalAnyway(r) ==
  /\ CanSettle(r) /\ payment[r].status \in Refused
  /\ account' = [account EXCEPT ![Owner[r]] = Returned(@, withdrawal[r].tokens)]
  /\ withdrawal' = [withdrawal EXCEPT ![r].status = payment[r].status,
                                      ![r].released = TRUE, ![r].linked = TRUE]
  /\ refunds' = [refunds EXCEPT ![r] = @ + 1]

SettleSuccess(r) ==
  /\ CanSettle(r) /\ ~withdrawal[r].released
  /\ payment[r].status = "succeeded"
  /\ account' = [account EXCEPT ![Owner[r]].reserved = @ - withdrawal[r].tokens]
  /\ withdrawal' = [withdrawal EXCEPT ![r].status = "succeeded", ![r].linked = TRUE]
  /\ UNCHANGED refunds

SettleRefusal(r) ==
  /\ CanSettle(r) /\ ~withdrawal[r].released
  /\ payment[r].status \in Refused
  /\ account' = [account EXCEPT ![Owner[r]] = Returned(@, withdrawal[r].tokens)]
  /\ withdrawal' = [withdrawal EXCEPT ![r].status = payment[r].status,
                                      ![r].released = TRUE, ![r].linked = TRUE]
  /\ refunds' = [refunds EXCEPT ![r] = @ + 1]

SettleOpen(r) ==
  /\ CanSettle(r)
  /\ withdrawal[r].released => payment[r].status # "succeeded"
  /\ ~withdrawal[r].released => payment[r].status \in Open
  /\ withdrawal' = [withdrawal EXCEPT ![r].linked = TRUE,
       ![r].status = IF withdrawal[r].released THEN @ ELSE payment[r].status]
  /\ UNCHANGED <<account, refunds>>

Settle(r) ==
  /\ SettleLateSuccess(r) \/ SettleSuccess(r) \/ SettleRefusal(r) \/ SettleOpen(r)
  /\ UNCHANGED <<gatewayVars, earned>>

----------------------------------------------------------------------------
(* Every other movement of the wallet (bookings, transfers, subscriptions, *)
(* loyalty, top-ups) goes through the same applyTokenMovement.             *)

Spend(u, n) ==
  /\ MovementAllowed(account[u], -n, 0, FALSE)
  /\ account' = [account EXCEPT ![u] = Moved(@, -n, 0, FALSE)]
  /\ earned' = [earned EXCEPT
       ![u].balance = @ - n,
       ![u].withdrawable = @ + PurchasedDelta(account[u], -n, 0, FALSE)]
  /\ UNCHANGED <<gatewayVars, withdrawal, refunds>>

Credit(u, n, k) ==
  /\ MovementAllowed(account[u], n, k, FALSE)
  /\ earned[u].balance + n <= MaxBalance
  /\ account' = [account EXCEPT ![u] = Moved(@, n, k, FALSE)]
  /\ earned' = [earned EXCEPT ![u].balance = @ + n, ![u].withdrawable = @ + k]
  /\ UNCHANGED <<gatewayVars, withdrawal, refunds>>

Next ==
  \/ GatewayStep /\ UNCHANGED walletVars
  \/ \E r \in Requests, n \in Amounts : Reserve(r, n)
  \/ \E r \in Requests : ReleaseUnsent(r) \/ Settle(r)
  \/ \E u \in Users, n \in Amounts :
       Spend(u, n) \/ \E k \in {0, n} : Credit(u, n, k)

Spec == Init /\ [][Next]_vars

----------------------------------------------------------------------------
(* What the service promises.                                              *)

\* The tokens of u's withdrawals in one of `statuses', according to the rows w.
TokensIn(w, u, statuses) ==
  SumOver([r \in Requests |-> w[r].tokens],
          {r \in Requests : Owner[r] = u /\ w[r].status \in statuses})

\* Tokens are neither made nor lost by withdrawals: the reserved column is the
\* sum of the open ones, and what a user ever received and did not spend is in
\* the wallet, reserved, or paid out (request, settle, releaseUnsent).
Conservation ==
  \A u \in Users :
    LET held == TokensIn(withdrawal, u, Open)
        paid == TokensIn(withdrawal, u, {"succeeded"})
    IN /\ account[u].reserved = held
       /\ account[u].balance + held + paid = earned[u].balance
       /\ account[u].withdrawable + held + paid = earned[u].withdrawable

\* One request sends at most one transfer, over both providers, whatever
\* fails, times out or crashes (initiatePayout's failover).
OneTransfer ==
  \A r \in Requests, p, q \in Providers :
    transfer[r][p] # "missing" /\ transfer[r][q] # "missing" => p = q

\* Tokens go back only when no provider holds or ever accepted the money: the
\* transfer was never sent, or a provider refused it (settle, releaseUnsent).
ReturnedNotPaid ==
  \A r \in Requests : withdrawal[r].released =>
    \A p \in Providers : transfer[r][p] \in {"missing", "refused", "reversed"}

\* A withdrawal is reported paid only when a provider paid it; one put under
\* review was both returned and paid.
PaidIsPaid ==
  \A r \in Requests : withdrawal[r].status \in {"succeeded", "review"} =>
    /\ \E p \in Providers : transfer[r][p] \in {"paid", "reversed"}
    /\ withdrawal[r].released <=> withdrawal[r].status = "review"

\* The ledger has one refund of a withdrawal iff its tokens went back.
RefundOnce ==
  \A r \in Requests : refunds[r] = IF withdrawal[r].released THEN 1 ELSE 0

\* A payment seen as succeeded stays so: no late answer, stale status check or
\* failover's unlocked save takes it back.
SuccessIsFinal ==
  [][\A r \in Requests : payment[r].status = "succeeded"
                           => payment'[r].status = "succeeded"]_vars

\* Once a withdrawal is under review its owner's balance never goes down, by
\* any operation of the wallet, and the review is never closed silently.
ReviewFreezes ==
  [][\A r \in Requests : withdrawal[r].status = "review" =>
       /\ account'[Owner[r]].balance >= account[Owner[r]].balance
       /\ withdrawal'[r].status = "review"]_vars

----------------------------------------------------------------------------
(* Liveness.  The cron asks about every open order and settles what it     *)
(* finds; it runs for ever, so a step that keeps being possible is taken,  *)
(* and every provider call has a timeout, so a check ends.                 *)
(* Of the providers we assume that, asked again and again, they sometimes  *)
(* answer with the decision they made, and that they repeat a notification *)
(* that was not acknowledged.                                              *)

Decided(r) == transfer[r][payment[r].provider] \in {"paid", "refused", "reversed"}

AskAbout(r) == \E c \in Checkers : Poll(c, r)
NotifyAbout(r) == \E c \in Checkers : Notify(c, r)
Answer(r) == \E c \in Checkers :
  ProviderAnswers(c) /\ check[c].req = r /\ check'[c].view \in {"paid", "refused"}
Learn(r) == \E c \in Checkers :
  CommitCheck(c) /\ check[c].req = r /\ check[c].view \in {"paid", "refused"}

Ends(c) == ProviderAnswers(c) \/ CommitCheck(c) \/ DropCheck(c)

FairTo(r) ==
  /\ WF_vars(Settle(r))
  /\ SF_vars(AskAbout(r) /\ UNCHANGED walletVars)
  /\ SF_vars(Answer(r) /\ UNCHANGED walletVars)
  /\ SF_vars(Learn(r) /\ UNCHANGED walletVars)

Fairness ==
  /\ \A c \in Checkers : WF_vars(Ends(c) /\ UNCHANGED walletVars)
  /\ \A r \in Requests : FairTo(r)

FairSpec == Spec /\ Fairness

\* Only a notification brings back a withdrawal that was already returned.
NotificationsRepeated ==
  \A r \in Requests : SF_vars(NotifyAbout(r) /\ UNCHANGED walletVars)

\* Once the order is known and the provider has decided, the withdrawal does
\* not stay open: reconcile finds it and settles it.
EventuallySettled ==
  \A r \in Requests :
    (payment[r].order # None /\ Decided(r)) ~> withdrawal[r].status \in Settled

PaidAfterReturn(r, p) == withdrawal[r].released /\ transfer[r][p] = "reversed"
UnderReview(r) == withdrawal[r].status = "review" /\ account[Owner[r]].blocked

\* On FlexPay a success that comes after the tokens went back ends in review,
\* with the wallet's debits blocked, if the notifications are repeated: settle
\* looks at a payment whose withdrawal was already returned.
LateFlexPayReviewed ==
  NotificationsRepeated =>
    \A r \in Requests : PaidAfterReturn(r, "flexpay") ~> UnderReview(r)
----------------------------------------------------------------------------
(* Why the promises hold: the inductive invariant the proofs use.          *)

\* A withdrawal holds its tokens until its payment is proved final; one whose
\* tokens went back can send nothing more.
WithdrawalInv(r) ==
  /\ withdrawal[r].status = None <=> submit[r].pc = "idle"
  /\ withdrawal[r].released <=>
       withdrawal[r].status \in {"failed", "cancelled", "review"}
  /\ withdrawal[r].released =>
       /\ submit[r].pc \in {"answered", "done"}
       /\ \A p \in Providers : transfer[r][p] \in NotPaid
       /\ submit[r].pc = "answered" =>
            \E p \in Providers : transfer[r][p] # "missing"
  /\ withdrawal[r].status \in {"succeeded", "review"} =>
       \E p \in Providers : transfer[r][p] \in Received
  /\ refunds[r] = IF withdrawal[r].released THEN 1 ELSE 0

IInv == TypeOK /\ GatewayInv /\ \A r \in Requests : WithdrawalInv(r)

\* The books: finitely many withdrawals were ever made, so they can be summed,
\* and every history is a row of whole amounts, negative ones too.
Books ==
  /\ IsFiniteSet({r \in Requests : withdrawal[r].status # None})
  /\ earned \in [Users -> [balance : Int, withdrawable : Int, reserved : Int,
                           blocked : BOOLEAN]]
  /\ Conservation

----------------------------------------------------------------------------
(* Withdrawals implement the payout contract.                              *)

Phase(w) == CASE w.status = None -> "idle"
              [] w.status \in Open -> "held"
              [] w.status = "succeeded" -> "paid"
              [] w.status = "review" -> "review"
              [] OTHER -> "returned"

Contract == INSTANCE PayoutContract WITH
  phase <- [r \in Requests |-> Phase(withdrawal[r])],
  money <- [r \in Requests |-> Money(transfer[r])]

\* The service, its gateway and its retries do no more than the contract says.
RefinesContract == Contract!Spec
=============================================================================
