------------------------- MODULE Withdrawals_proofs ------------------------
(***************************************************************************)
(* What the two services that tokens are withdrawn from promise: first     *)
(* WalletWithdrawals, for every set of users, requests and checkers, every *)
(* provider order and every amount; then, from the same facts about sums,  *)
(* Referrals, for every set of members, sources of rewards, withdrawals    *)
(* and amounts.                                                            *)
(***************************************************************************)
EXTENDS WalletWithdrawals, Referrals, PayoutGateway_proofs

----------------------------------------------------------------------------
(* Token arithmetic.                                                       *)

\* An allowed movement leaves a wallet row well typed and its purchased part
\* between zero and the balance, the database's CHECK constraints.
LEMMA MovedCoherent ==
  ASSUME NEW w \in Wallet, NEW d \in Int, NEW k \in Nat, NEW po \in BOOLEAN,
         MovementAllowed(w, d, k, po)
  PROVE  /\ Moved(w, d, k, po) \in Wallet
         /\ Coherent(Moved(w, d, k, po))
         /\ Moved(w, d, k, po).reserved = w.reserved
         /\ Moved(w, d, k, po).blocked = w.blocked
         /\ Moved(w, d, k, po).balance = w.balance + d
         /\ Moved(w, d, k, po).withdrawable = w.withdrawable + PurchasedDelta(w, d, k, po)
<1> DEFINE pd == PurchasedDelta(w, d, k, po)
<1>1. w.balance \in Nat /\ w.withdrawable \in Nat /\ w.reserved \in Int
  BY DEF Wallet
<1>2. /\ w.balance + d >= 0
      /\ pd \in Int /\ w.withdrawable + pd >= 0
      /\ w.withdrawable + pd <= w.balance + d
  <2>1. CASE d >= 0
    BY <1>1, <2>1 DEF MovementAllowed, Coherent, PurchasedDelta
  <2>2. CASE d < 0 /\ po
    BY <1>1, <2>2 DEF MovementAllowed, Coherent, PurchasedDelta
  <2>3. CASE d < 0 /\ ~po
    BY <1>1, <2>3 DEF MovementAllowed, Coherent, PurchasedDelta,
                      PurchasedSpill, Larger
  <2> QED BY <2>1, <2>2, <2>3
<1> DEFINE b == w.balance + d
           x == w.withdrawable + pd
<1>3. Moved(w, d, k, po) = [w EXCEPT !.balance = b, !.withdrawable = x]
  BY DEF Moved
<1>4. b \in Nat /\ x \in Nat /\ x <= b
  BY <1>1, <1>2
<1>5. b = w.balance + d /\ x = w.withdrawable + PurchasedDelta(w, d, k, po)
  OBVIOUS
<1> HIDE DEF b, x
<1>6. Moved(w, d, k, po) \in Wallet
  BY <1>3, <1>4 DEF Wallet
<1>7. /\ Moved(w, d, k, po).reserved = w.reserved
      /\ Moved(w, d, k, po).blocked = w.blocked
      /\ Moved(w, d, k, po).balance = b
      /\ Moved(w, d, k, po).withdrawable = x
  BY <1>3 DEF Wallet
<1>8. Coherent(Moved(w, d, k, po))
  BY <1>4, <1>7 DEF Coherent
<1> QED BY <1>5, <1>6, <1>7, <1>8

\* Giving reserved tokens back needs no condition on the wallet: it may even
\* be blocked.
LEMMA ReturnedCoherent ==
  ASSUME NEW w \in Wallet, Coherent(w), NEW n \in Nat
  PROVE  /\ Returned(w, n) \in Wallet
         /\ Coherent(Returned(w, n))
         /\ Returned(w, n).blocked = w.blocked
         /\ Returned(w, n).balance = w.balance + n
         /\ Returned(w, n).withdrawable = w.withdrawable + n
         /\ Returned(w, n).reserved = w.reserved - n
<1> DEFINE b == w.balance + n
           x == w.withdrawable + n
           z == w.reserved - n
<1>1. Moved(w, n, n, FALSE) = [w EXCEPT !.balance = b, !.withdrawable = x]
  BY DEF Moved, PurchasedDelta
<1>2. Returned(w, n) =
        [[w EXCEPT !.balance = b, !.withdrawable = x] EXCEPT !.reserved = z]
  BY <1>1 DEF Returned, Wallet
<1>3. b \in Nat /\ x \in Nat /\ z \in Int /\ 0 <= x /\ x <= b
  BY DEF Wallet, Coherent
<1>4. b = w.balance + n /\ x = w.withdrawable + n /\ z = w.reserved - n
  OBVIOUS
<1> HIDE DEF b, x, z
<1>5. /\ Returned(w, n) \in Wallet
      /\ Returned(w, n).blocked = w.blocked
      /\ Returned(w, n).balance = b
      /\ Returned(w, n).withdrawable = x
      /\ Returned(w, n).reserved = z
  BY <1>2, <1>3 DEF Wallet
<1> QED BY <1>3, <1>4, <1>5 DEF Coherent

\* A refund restores at most the purchased tokens the debit took, and never a
\* negative amount.
LEMMA RefundBounded ==
  ASSUME NEW d \in Int, NEW f \in Int, NEW n \in Nat
  PROVE  /\ RefundablePurchased(d, f, n) \in Nat
         /\ RefundablePurchased(d, f, n) <= n
         /\ f <= d => f + RefundablePurchased(d, f, n) <= d
  BY DEF RefundablePurchased, Larger, Smaller

----------------------------------------------------------------------------
(* Type correctness.                                                       *)

\* The reserving transaction passes every CHECK of wallet_accounts.
LEMMA ReserveTyped ==
  ASSUME TypeOK, NEW r \in Requests, NEW n \in Amounts, Reserve(r, n)
  PROVE  TypeOK'
<1> DEFINE u == Owner[r]
           w == Moved(account[u], -n, 0, TRUE)
<1>1. u \in Users /\ n \in Nat /\ -n \in Int
  BY WalletAssumption
<1>2. account[u] \in Wallet /\ MovementAllowed(account[u], -n, 0, TRUE)
  BY <1>1 DEF TypeOK, Reserve
<1>3. w \in Wallet /\ Coherent(w)
  BY <1>1, <1>2, MovedCoherent
<1> HIDE DEF u, w
<1>4. w.reserved + n \in Int
  BY <1>1, <1>3 DEF Wallet
<1>5. /\ [w EXCEPT !.reserved = w.reserved + n] \in Wallet
      /\ Coherent([w EXCEPT !.reserved = w.reserved + n])
  BY <1>3, <1>4 DEF Wallet, Coherent
<1>6. account' = [account EXCEPT ![u] = [w EXCEPT !.reserved = w.reserved + n]]
  BY DEF Reserve, Taken, u, w
<1>7. /\ account' \in [Users -> Wallet]
      /\ \A v \in Users : Coherent(account'[v])
  BY <1>5, <1>6 DEF TypeOK
<1>8. withdrawal' \in [Requests -> Withdrawal]
  BY <1>1 DEF TypeOK, Reserve, Withdrawal, Open
<1>9. GatewayTypeOK'
  BY DEF TypeOK, Reserve, GatewayTypeOK, Submission
<1>10. refunds' \in [Requests -> Nat]
  BY DEF TypeOK, Reserve
<1> QED BY <1>7, <1>8, <1>9, <1>10 DEF TypeOK, Coherent

\* Undoing a reservation passes every CHECK of wallet_accounts.
LEMMA ReleaseUnsentTyped ==
  ASSUME TypeOK, NEW r \in Requests, ReleaseUnsent(r)
  PROVE  TypeOK'
<1> DEFINE n == withdrawal[r].tokens
<1>1. Owner[r] \in Users /\ n \in Nat
  BY WalletAssumption DEF TypeOK, Withdrawal
<1>2. /\ Returned(account[Owner[r]], n) \in Wallet
      /\ Coherent(Returned(account[Owner[r]], n))
  BY <1>1, ReturnedCoherent DEF TypeOK
<1>3. GatewayTypeOK'
  BY DEF TypeOK, ReleaseUnsent, GatewayTypeOK, Submission
<1>4. CASE Unsent(r)
  <2>1. /\ account' = [account EXCEPT ![Owner[r]] = Returned(account[Owner[r]], n)]
        /\ withdrawal' = [withdrawal EXCEPT ![r].status = "failed",
                                            ![r].released = TRUE]
        /\ refunds' = [refunds EXCEPT ![r] = @ + 1]
    BY <1>4 DEF ReleaseUnsent
  <2>2. /\ account' \in [Users -> Wallet]
        /\ \A v \in Users : Coherent(account'[v])
    BY <1>2, <2>1 DEF TypeOK
  <2>3. withdrawal' \in [Requests -> Withdrawal]
    BY <2>1 DEF TypeOK, Withdrawal, Settled
  <2>4. refunds' \in [Requests -> Nat]
    BY <2>1 DEF TypeOK
  <2> QED BY <1>3, <2>2, <2>3, <2>4 DEF TypeOK, Coherent
<1>5. CASE ~Unsent(r)
  BY <1>3, <1>5 DEF ReleaseUnsent, TypeOK, Coherent
<1> QED BY <1>4, <1>5

\* So does every settlement.
LEMMA SettleTyped ==
  ASSUME TypeOK, NEW r \in Requests, Settle(r)
  PROVE  TypeOK'
<1> DEFINE n == withdrawal[r].tokens
           w == account[Owner[r]]
<1>1. Owner[r] \in Users /\ n \in Nat /\ w \in Wallet /\ Coherent(w)
  BY WalletAssumption DEF TypeOK, Withdrawal
<1>2. GatewayTypeOK'
  BY DEF TypeOK, Settle, gatewayVars, GatewayTypeOK
<1>3. CASE SettleLateSuccess(r)
  <2>1. [w EXCEPT !.blocked = TRUE] \in Wallet /\ Coherent([w EXCEPT !.blocked = TRUE])
    BY <1>1 DEF Wallet, Coherent
  <2>2. account' = [account EXCEPT ![Owner[r]] = [w EXCEPT !.blocked = TRUE]]
    BY <1>1, <1>3 DEF SettleLateSuccess, TypeOK
  <2>3. account' \in [Users -> Wallet] /\ \A v \in Users : Coherent(account'[v])
    BY <2>1, <2>2 DEF TypeOK
  <2>4. withdrawal' \in [Requests -> Withdrawal]
    BY <1>3 DEF TypeOK, SettleLateSuccess, Withdrawal, Settled
  <2> QED BY <1>2, <1>3, <2>3, <2>4 DEF TypeOK, SettleLateSuccess, Coherent
<1>4. CASE SettleSuccess(r)
  <2>1. w.reserved - n \in Int
    BY <1>1 DEF Wallet
  <2>2. /\ [w EXCEPT !.reserved = w.reserved - n] \in Wallet
        /\ Coherent([w EXCEPT !.reserved = w.reserved - n])
    BY <1>1, <2>1 DEF Wallet, Coherent
  <2>3. account' = [account EXCEPT ![Owner[r]] = [w EXCEPT !.reserved = w.reserved - n]]
    BY <1>1, <1>4 DEF SettleSuccess, TypeOK
  <2>4. account' \in [Users -> Wallet] /\ \A v \in Users : Coherent(account'[v])
    BY <2>2, <2>3 DEF TypeOK
  <2>5. withdrawal' \in [Requests -> Withdrawal]
    BY <1>4 DEF TypeOK, SettleSuccess, Withdrawal, Settled
  <2> QED BY <1>2, <1>4, <2>4, <2>5 DEF TypeOK, SettleSuccess, Coherent
<1>5. CASE SettleRefusal(r)
  <2>1. Returned(w, n) \in Wallet /\ Coherent(Returned(w, n))
    BY <1>1, ReturnedCoherent
  <2>2. account' \in [Users -> Wallet] /\ \A v \in Users : Coherent(account'[v])
    BY <1>5, <2>1 DEF TypeOK, SettleRefusal
  <2>3. withdrawal' \in [Requests -> Withdrawal]
    BY <1>5 DEF TypeOK, SettleRefusal, Withdrawal, Settled, Refused
  <2>4. refunds' \in [Requests -> Nat]
    BY <1>5 DEF TypeOK, SettleRefusal
  <2> QED BY <1>2, <2>2, <2>3, <2>4 DEF TypeOK, Coherent
<1>6. CASE SettleOpen(r)
  <2>1. PICK st \in Open \cup Settled \cup {None} :
          withdrawal' = [withdrawal EXCEPT ![r].linked = TRUE, ![r].status = st]
    BY <1>6 DEF SettleOpen, TypeOK, Withdrawal
  <2>2. withdrawal' \in [Requests -> Withdrawal]
    BY <2>1 DEF TypeOK, Withdrawal
  <2> QED BY <1>2, <1>6, <2>2 DEF TypeOK, SettleOpen, Coherent
<1> QED BY <1>3, <1>4, <1>5, <1>6 DEF Settle

\* So does every other movement.
LEMMA MovementTyped ==
  ASSUME TypeOK, NEW u \in Users, NEW d \in Int, NEW k \in Nat,
         MovementAllowed(account[u], d, k, FALSE),
         account' = [account EXCEPT ![u] = Moved(@, d, k, FALSE)],
         UNCHANGED <<gatewayVars, withdrawal, refunds>>
  PROVE  TypeOK'
<1>1. /\ Moved(account[u], d, k, FALSE) \in Wallet
      /\ Coherent(Moved(account[u], d, k, FALSE))
  BY MovedCoherent DEF TypeOK
<1>2. account' \in [Users -> Wallet] /\ \A v \in Users : Coherent(account'[v])
  BY <1>1 DEF TypeOK
<1> QED BY <1>2 DEF TypeOK, GatewayTypeOK, gatewayVars, Coherent

\* The rows start well typed.
LEMMA InitTyped == Init => TypeOK
<1> SUFFICES ASSUME Init PROVE TypeOK
  OBVIOUS
<1>1. GatewayTypeOK
  BY DEF Init, GatewayInit, GatewayTypeOK, NotSubmitted, Submission, Fates
<1>2. account \in [Users -> Wallet] /\ \A u \in Users : Coherent(account[u])
  BY WalletAssumption DEF Init
<1>3. withdrawal \in [Requests -> Withdrawal]
  BY DEF Init, NoWithdrawal, Withdrawal
<1> QED BY <1>1, <1>2, <1>3 DEF TypeOK, Init

\* Every step keeps every row well typed.
LEMMA NextTyped == TypeOK /\ [Next]_vars => TypeOK'
<1> SUFFICES ASSUME TypeOK, [Next]_vars PROVE TypeOK'
  OBVIOUS
<1>1. CASE GatewayStep /\ UNCHANGED walletVars
  <2>1. GatewayTypeOK'
    BY <1>1, GatewayTyped DEF TypeOK
  <2> QED BY <1>1, <2>1 DEF TypeOK, walletVars, Coherent
<1>2. CASE \E r \in Requests, n \in Amounts : Reserve(r, n)
  BY <1>2, ReserveTyped
<1>3. CASE \E r \in Requests : ReleaseUnsent(r) \/ Settle(r)
  BY <1>3, ReleaseUnsentTyped, SettleTyped
<1>4. ASSUME NEW u \in Users, NEW n \in Amounts, Spend(u, n) PROVE TypeOK'
  <2>1. -n \in Int /\ 0 \in Nat
    BY WalletAssumption
  <2> QED BY <1>4, <2>1, MovementTyped DEF Spend
<1>5. ASSUME NEW u \in Users, NEW n \in Amounts, NEW k \in {0, n}, Credit(u, n, k)
      PROVE TypeOK'
  <2>1. n \in Int /\ k \in Nat
    BY WalletAssumption
  <2> QED BY <1>5, <2>1, MovementTyped DEF Credit
<1>6. CASE UNCHANGED vars
  BY <1>6 DEF vars, gatewayVars, walletVars, TypeOK, GatewayTypeOK, Coherent
<1> QED BY <1>1, <1>2, <1>3, <1>4, <1>5, <1>6 DEF Next

\* Type correctness: every row keeps a status its column allows, and no wallet's
\* purchased part ever leaves the range the database checks.
THEOREM TypeCorrect == Spec => []TypeOK
  BY InitTyped, NextTyped, PTL DEF Spec

----------------------------------------------------------------------------
(* The inductive invariant: GatewayInv, of which PayoutGateway_proofs tells  *)
(* how the gateway keeps it, and WithdrawalInv.                              *)

\* What a withdrawal relies on is left alone by every step of the gateway.
LEMMA GatewayStepInv ==
  ASSUME IInv, TypeOK', GatewayStep, UNCHANGED walletVars
  PROVE  IInv'
<1>1. ASSUME NEW q \in Requests PROVE WithdrawalInv(q)'
  <2>1. /\ WithdrawalInv(q)
        /\ withdrawal'[q] = withdrawal[q] /\ refunds'[q] = refunds[q]
    BY DEF IInv, walletVars
  <2>2. Advances(q) /\ \A p \in Providers : Moves(q, p)
    BY GatewayEffect DEF IInv
  <2>3. \A p \in Providers :
          /\ transfer[q][p] \in Received => transfer'[q][p] \in Received
          /\ transfer[q][p] # "missing" => transfer'[q][p] # "missing"
          /\ \/ transfer[q][p] \notin NotPaid \/ submit[q].pc = "attempt"
             \/ transfer'[q][p] \in NotPaid
    BY <2>2 DEF Moves, Received, NotPaid
  <2>4. submit'[q].pc = "idle" <=> submit[q].pc = "idle"
    BY <2>2 DEF Advances
  <2>5. withdrawal[q].released =>
          /\ submit'[q].pc \in {"answered", "done"}
          /\ \A p \in Providers : transfer'[q][p] \in NotPaid
          /\ submit'[q].pc = "answered" =>
               \E p \in Providers : transfer'[q][p] # "missing"
    BY <2>1, <2>2, <2>3 DEF WithdrawalInv, Advances
  <2> QED BY <2>1, <2>3, <2>4, <2>5 DEF WithdrawalInv
<1>2. GatewayInv'
  BY GatewayInductive DEF IInv
<1> QED BY <1>1, <1>2 DEF IInv

\* A reserved withdrawal has no payment row and no transfer yet.
LEMMA ReserveInv ==
  ASSUME IInv, TypeOK', NEW r \in Requests, NEW n \in Amounts, Reserve(r, n)
  PROVE  IInv'
<1>1. submit[r].pc = "idle" /\ payment[r] = NoPayment /\ refunds[r] = 0
  BY DEF IInv, GatewayInv, SubmissionInv, WithdrawalInv, Reserve, None
<1>2. /\ submit'[r].pc = "claim"
      /\ \A q \in Requests : q # r => submit'[q] = submit[q]
      /\ withdrawal'[r].status = "pending" /\ ~withdrawal'[r].released
      /\ \A q \in Requests : q # r => withdrawal'[q] = withdrawal[q]
  BY DEF Reserve, IInv, TypeOK, GatewayTypeOK, Submission
<1>3. UNCHANGED <<payment, transfer, check, refunds>>
  BY DEF Reserve
<1>4. GatewayInv'
  BY <1>1, <1>2, <1>3, UnpaidMoveInv DEF IInv, TypeOK
<1>5. ASSUME NEW q \in Requests PROVE WithdrawalInv(q)'
  BY <1>1, <1>2, <1>3 DEF IInv, WithdrawalInv, None
<1> QED BY <1>4, <1>5 DEF IInv

\* releaseUnsent gives tokens back only when no payment row exists, so nothing
\* was ever sent.
LEMMA ReleaseUnsentInv ==
  ASSUME IInv, TypeOK', NEW r \in Requests, ReleaseUnsent(r)
  PROVE  IInv'
<1>1. /\ submit[r].pc = "unsent" /\ payment[r] = NoPayment
      /\ \A p \in Providers : transfer[r][p] = "missing"
      /\ ~withdrawal[r].released /\ refunds[r] = 0
      /\ withdrawal[r].status # None
  BY DEF IInv, GatewayInv, SubmissionInv, WithdrawalInv, ReleaseUnsent
<1>2. /\ submit'[r].pc = "done"
      /\ \A q \in Requests : q # r => submit'[q] = submit[q]
      /\ UNCHANGED <<payment, transfer, check>>
  BY DEF ReleaseUnsent, IInv, TypeOK, GatewayTypeOK, Submission
<1>3. /\ \A q \in Requests : q # r =>
           withdrawal'[q] = withdrawal[q] /\ refunds'[q] = refunds[q]
      /\ \/ /\ withdrawal'[r].status = "failed" /\ withdrawal'[r].released
            /\ refunds'[r] = 1
         \/ withdrawal'[r] = withdrawal[r] /\ refunds'[r] = refunds[r]
  <2>1. CASE Unsent(r)
    BY <1>1, <2>1 DEF ReleaseUnsent, IInv, TypeOK, Withdrawal
  <2>2. CASE ~Unsent(r)
    BY <2>2 DEF ReleaseUnsent
  <2> QED BY <2>1, <2>2
<1>4. GatewayInv'
  BY <1>1, <1>2, UnpaidMoveInv DEF IInv, TypeOK
<1>5. ASSUME NEW q \in Requests PROVE WithdrawalInv(q)'
  <2>1. CASE q = r
    BY <1>1, <1>2, <1>3, <2>1 DEF IInv, WithdrawalInv, NotPaid, None
  <2>2. CASE q # r
    BY <1>2, <1>3, <2>2 DEF IInv, WithdrawalInv
  <2> QED BY <2>1, <2>2
<1> QED BY <1>4, <1>5 DEF IInv

\* settle, whoever runs it and however late, closes a withdrawal only as its
\* payment row says, once.
LEMMA SettleInv ==
  ASSUME IInv, TypeOK', NEW r \in Requests, Settle(r)
  PROVE  IInv'
<1>1. UNCHANGED <<payment, transfer, submit, check>>
  BY DEF Settle, gatewayVars
<1>2. /\ payment[r] # NoPayment /\ CanSettle(r)
      /\ submit[r].pc # "idle"
      /\ payment[r].provider \in Providers
  BY RowTyped DEF IInv, GatewayInv, SubmissionInv, Settle, SettleLateSuccess,
                  SettleSuccess, SettleRefusal, SettleOpen, CanSettle
<1>3. \A q \in Requests : q # r =>
        withdrawal'[q] = withdrawal[q] /\ refunds'[q] = refunds[q]
  BY DEF Settle, SettleLateSuccess, SettleSuccess, SettleRefusal, SettleOpen,
         IInv, TypeOK
<1>4. SubmissionInv(r) /\ PaymentInv(r) /\ WithdrawalInv(r)
  BY DEF IInv, GatewayInv
<1>5. WithdrawalInv(r)'
  <2>1. CASE SettleLateSuccess(r)
    <3>1. /\ withdrawal'[r].status = "review" /\ withdrawal'[r].released
          /\ withdrawal[r].released /\ refunds'[r] = refunds[r]
          /\ transfer[r][payment[r].provider] \in Received
      BY <1>2, <1>4, <2>1 DEF SettleLateSuccess, PaymentInv, IInv, TypeOK, Withdrawal
    <3> QED BY <1>1, <1>2, <1>4, <3>1 DEF WithdrawalInv, None
  <2>2. CASE SettleSuccess(r)
    <3>1. /\ withdrawal'[r].status = "succeeded" /\ ~withdrawal'[r].released
          /\ ~withdrawal[r].released /\ refunds'[r] = refunds[r]
          /\ transfer[r][payment[r].provider] \in Received
      BY <1>2, <1>4, <2>2 DEF SettleSuccess, PaymentInv, IInv, TypeOK, Withdrawal
    <3> QED BY <1>1, <1>2, <1>4, <3>1 DEF WithdrawalInv, None
  <2>3. CASE SettleRefusal(r)
    <3>1. /\ withdrawal'[r].status \in Refused /\ withdrawal'[r].released
          /\ ~withdrawal[r].released /\ refunds'[r] = refunds[r] + 1
          /\ transfer[r][payment[r].provider] \in NotPaid
          /\ transfer[r][payment[r].provider] = "missing" => submit[r].pc = "done"
      BY <1>2, <1>4, <2>3 DEF SettleRefusal, PaymentInv, IInv, TypeOK, Withdrawal
    <3>2. \A p \in Providers : p # payment[r].provider => transfer[r][p] = "missing"
      BY <1>4 DEF SubmissionInv
    <3>3. transfer[r][payment[r].provider] # "missing"
            => submit[r].pc \in {"answered", "done"}
      BY <1>2, <1>4 DEF SubmissionInv
    <3> QED BY <1>1, <1>2, <1>4, <3>1, <3>2, <3>3
               DEF WithdrawalInv, NotPaid, Refused, None
  <2>4. CASE SettleOpen(r)
    <3>1. /\ withdrawal'[r].released = withdrawal[r].released
          /\ refunds'[r] = refunds[r]
          /\ withdrawal[r].status \notin {"succeeded", "review"}
          /\ withdrawal'[r].status = IF withdrawal[r].released
                                     THEN withdrawal[r].status ELSE payment[r].status
          /\ ~withdrawal[r].released => payment[r].status \in Open
      BY <1>2, <2>4 DEF SettleOpen, CanSettle, IInv, TypeOK, Withdrawal
    <3> QED BY <1>1, <1>2, <1>4, <3>1 DEF WithdrawalInv, Open, None
  <2> QED BY <2>1, <2>2, <2>3, <2>4 DEF Settle
<1>6. ASSUME NEW q \in Requests PROVE WithdrawalInv(q)'
  BY <1>1, <1>3, <1>5 DEF IInv, WithdrawalInv
<1>7. GatewayInv'
  BY <1>1, GatewayStutterInv DEF IInv, gatewayVars
<1> QED BY <1>6, <1>7 DEF IInv

\* Steps that leave every row of withdrawals, payments and checks alone.
LEMMA StutterInv ==
  ASSUME IInv, TypeOK', UNCHANGED <<gatewayVars, withdrawal, refunds>>
  PROVE  IInv'
<1>1. ASSUME NEW q \in Requests PROVE WithdrawalInv(q)'
  BY DEF IInv, WithdrawalInv, gatewayVars
<1>2. GatewayInv'
  BY GatewayStutterInv DEF IInv
<1> QED BY <1>1, <1>2 DEF IInv

\* Nothing is reserved, opened or sent at first.
LEMMA InitInv == Init => IInv
<1> SUFFICES ASSUME Init PROVE IInv
  OBVIOUS
<1>1. ASSUME NEW q \in Requests PROVE WithdrawalInv(q)
  BY DEF Init, GatewayInit, NotSubmitted, NoWithdrawal, None, WithdrawalInv
<1> QED BY <1>1, InitTyped, GatewayInitInv DEF IInv, Init

\* The invariant is inductive: one lemma per action.
LEMMA NextInv == IInv /\ [Next]_vars => IInv'
<1> SUFFICES ASSUME IInv, [Next]_vars PROVE IInv'
  OBVIOUS
<1>1. TypeOK'
  BY NextTyped DEF IInv
<1>2. CASE GatewayStep /\ UNCHANGED walletVars
  BY <1>1, <1>2, GatewayStepInv
<1>3. CASE \E r \in Requests, n \in Amounts : Reserve(r, n)
  BY <1>1, <1>3, ReserveInv
<1>4. CASE \E r \in Requests : ReleaseUnsent(r) \/ Settle(r)
  BY <1>1, <1>4, ReleaseUnsentInv, SettleInv
<1>5. CASE \E u \in Users, n \in Amounts :
             Spend(u, n) \/ \E k \in {0, n} : Credit(u, n, k)
  BY <1>1, <1>5, StutterInv DEF Spend, Credit
<1>6. CASE UNCHANGED vars
  BY <1>1, <1>6, StutterInv DEF vars, walletVars
<1> QED BY <1>2, <1>3, <1>4, <1>5, <1>6 DEF Next

\* The inductive invariant holds in every reachable state.
THEOREM Invariance == Spec => []IInv
  BY InitInv, NextInv, PTL DEF Spec

----------------------------------------------------------------------------
(* What follows from it.                                                   *)

\* However providers are ordered, fail, time out or are lost sight of in a
\* crash, a request sends at most one transfer (initiatePayout's failover).
THEOREM SingleTransfer == Spec => []OneTransfer
<1>1. IInv => OneTransfer
  BY DEF IInv, GatewayInv, SubmissionInv, OneTransfer
<1> QED BY <1>1, Invariance, PTL

\* Tokens went back only if no provider holds the money or accepted it.
THEOREM ReturnsAreSafe == Spec => []ReturnedNotPaid
<1>1. IInv => ReturnedNotPaid
  BY DEF IInv, WithdrawalInv, NotPaid, ReturnedNotPaid
<1> QED BY <1>1, Invariance, PTL

\* A withdrawal reported paid was paid by a provider; in review, it was also
\* returned.
THEOREM PaidWasPaid == Spec => []PaidIsPaid
<1>1. IInv => PaidIsPaid
  BY DEF IInv, WithdrawalInv, Received, PaidIsPaid
<1> QED BY <1>1, Invariance, PTL

\* The ledger holds exactly one refund of a returned withdrawal and none of any
\* other, however many callbacks, polls and crons settle it.
THEOREM SingleRefund == Spec => []RefundOnce
<1>1. IInv => RefundOnce
  BY DEF IInv, WithdrawalInv, RefundOnce
<1> QED BY <1>1, Invariance, PTL

----------------------------------------------------------------------------
(* The books: what is reserved, paid out and left in a wallet adds up.     *)

\* What one withdrawal adds to the tokens held and to the tokens paid out.
HeldOf(w) == IF w.status \in Open THEN w.tokens ELSE 0
PaidOf(w) == IF w.status = "succeeded" THEN w.tokens ELSE 0

\* The tokens of some of a user's withdrawals are summed over finitely many.
LEMMA TokensNat ==
  ASSUME TypeOK, IsFiniteSet({q \in Requests : withdrawal[q].status # None}),
         NEW u \in Users, NEW X, None \notin X
  PROVE  TokensIn(withdrawal, u, X) \in Nat
<1> DEFINE f == [q \in Requests |-> withdrawal[q].tokens]
           S == {q \in Requests : Owner[q] = u /\ withdrawal[q].status \in X}
<1>1. S \subseteq {q \in Requests : withdrawal[q].status # None}
  OBVIOUS
<1>2. IsFiniteSet(S)
  BY <1>1, FS_Subset
<1>3. \A q \in S : f[q] \in Nat
  BY DEF TypeOK, Withdrawal
<1>4. SumOver(f, S) \in Nat
  BY <1>2, <1>3, SumIsNat
<1> QED BY <1>4 DEF TokensIn

\* A withdrawal that changes alone moves its owner's sum, and no other's.
LEMMA TokensChange ==
  ASSUME TypeOK, TypeOK', IsFiniteSet({q \in Requests : withdrawal[q].status # None}),
         NEW r \in Requests, NEW u \in Users, NEW X, None \notin X,
         \A q \in Requests : q # r => withdrawal'[q] = withdrawal[q]
  PROVE  /\ TokensIn(withdrawal, u, X) \in Nat
         /\ TokensIn(withdrawal', u, X) = TokensIn(withdrawal, u, X)
              + (IF Owner[r] = u /\ withdrawal'[r].status \in X
                 THEN withdrawal'[r].tokens ELSE 0)
              - (IF Owner[r] = u /\ withdrawal[r].status \in X
                 THEN withdrawal[r].tokens ELSE 0)
<1> DEFINE f == [q \in Requests |-> withdrawal[q].tokens]
           g == [q \in Requests |-> withdrawal'[q].tokens]
           S == {q \in Requests : Owner[q] = u /\ withdrawal[q].status \in X}
           T == {q \in Requests : Owner[q] = u /\ withdrawal'[q].status \in X}
<1>1. IsFiniteSet(S)
  <2>1. S \subseteq {q \in Requests : withdrawal[q].status # None}
    OBVIOUS
  <2> QED BY <2>1, FS_Subset
<1>2. \A q \in Requests : f[q] \in Nat /\ g[q] \in Nat
  BY DEF TypeOK, Withdrawal
<1>3. S \subseteq Requests /\ T \subseteq Requests
  OBVIOUS
<1>4. S \ {r} = T \ {r} /\ \A q \in S \ {r} : g[q] = f[q]
  OBVIOUS
<1>5. /\ r \in S <=> Owner[r] = u /\ withdrawal[r].status \in X
      /\ r \in T <=> Owner[r] = u /\ withdrawal'[r].status \in X
      /\ f[r] = withdrawal[r].tokens /\ g[r] = withdrawal'[r].tokens
  OBVIOUS
<1>6. /\ TokensIn(withdrawal, u, X) = SumOver(f, S)
      /\ TokensIn(withdrawal', u, X) = SumOver(g, T)
  BY DEF TokensIn
<1> HIDE DEF f, g, S, T
<1>7. SumOver(f, S) \in Nat
  BY <1>1, <1>2, <1>3, SumIsNat
<1>8. SumOver(g, T) = SumOver(f, S) + (IF r \in T THEN g[r] ELSE 0)
                                    - (IF r \in S THEN f[r] ELSE 0)
  BY <1>1, <1>2, <1>3, <1>4, SumChanges
<1> QED BY <1>5, <1>6, <1>7, <1>8

\* The books still balance when one withdrawal moves h tokens into those held
\* and p into those paid, and its owner's wallet pays for both.
LEMMA BooksMove ==
  ASSUME TypeOK, TypeOK', Books, NEW r \in Requests, NEW h \in Int, NEW p \in Int,
         \A q \in Requests : q # r => withdrawal'[q] = withdrawal[q],
         HeldOf(withdrawal'[r]) = HeldOf(withdrawal[r]) + h,
         PaidOf(withdrawal'[r]) = PaidOf(withdrawal[r]) + p,
         \A u \in Users : u # Owner[r] => account'[u] = account[u],
         account'[Owner[r]].reserved = account[Owner[r]].reserved + h,
         account'[Owner[r]].balance = account[Owner[r]].balance - h - p,
         account'[Owner[r]].withdrawable = account[Owner[r]].withdrawable - h - p,
         UNCHANGED earned
  PROVE  Books'
<1> DEFINE used == {q \in Requests : withdrawal[q].status # None}
           usedNow == {q \in Requests : withdrawal'[q].status # None}
<1>1. IsFiniteSet(used)
  BY DEF Books
<1>2. IsFiniteSet(usedNow)
  <2>1. usedNow \subseteq used \cup {r}
    OBVIOUS
  <2>2. IsFiniteSet(used \cup {r})
    BY <1>1, FS_AddElement
  <2> QED BY <2>1, <2>2, FS_Subset
<1>3. ASSUME NEW u \in Users
      PROVE  LET held == TokensIn(withdrawal', u, Open)
                 paid == TokensIn(withdrawal', u, {"succeeded"})
             IN /\ account'[u].reserved = held
                /\ account'[u].balance + held + paid = earned'[u].balance
                /\ account'[u].withdrawable + held + paid = earned'[u].withdrawable
  <2> DEFINE held == TokensIn(withdrawal, u, Open)
             paid == TokensIn(withdrawal, u, {"succeeded"})
             heldNow == TokensIn(withdrawal', u, Open)
             paidNow == TokensIn(withdrawal', u, {"succeeded"})
  <2>1. /\ held \in Nat /\ paid \in Nat
        /\ heldNow = held + (IF Owner[r] = u /\ withdrawal'[r].status \in Open
                             THEN withdrawal'[r].tokens ELSE 0)
                          - (IF Owner[r] = u /\ withdrawal[r].status \in Open
                             THEN withdrawal[r].tokens ELSE 0)
        /\ paidNow = paid + (IF Owner[r] = u /\ withdrawal'[r].status \in {"succeeded"}
                             THEN withdrawal'[r].tokens ELSE 0)
                          - (IF Owner[r] = u /\ withdrawal[r].status \in {"succeeded"}
                             THEN withdrawal[r].tokens ELSE 0)
    BY <1>1, TokensChange DEF Open, None
  <2>2. /\ account[u].reserved = held
        /\ account[u].balance + held + paid = earned[u].balance
        /\ account[u].withdrawable + held + paid = earned[u].withdrawable
    BY DEF Books, Conservation
  <2>3. /\ account[u].reserved \in Int
        /\ account[u].balance \in Int /\ account[u].withdrawable \in Int
        /\ earned'[u] = earned[u]
    BY DEF TypeOK, Wallet
  <2>4. /\ HeldOf(withdrawal[r]) \in Int /\ PaidOf(withdrawal[r]) \in Int
    BY DEF TypeOK, Withdrawal, HeldOf, PaidOf
  <2> HIDE DEF held, paid, heldNow, paidNow
  <2>5. CASE Owner[r] = u
    <3>1. heldNow = held + h /\ paidNow = paid + p
      BY <2>1, <2>4, <2>5 DEF HeldOf, PaidOf
    <3> QED BY <2>1, <2>2, <2>3, <2>5, <3>1 DEF heldNow, paidNow
  <2>6. CASE Owner[r] # u
    <3>1. heldNow = held /\ paidNow = paid
      BY <2>1, <2>6
    <3> QED BY <2>2, <2>3, <2>6, <3>1 DEF heldNow, paidNow
  <2> QED BY <2>5, <2>6
<1> QED BY <1>2, <1>3 DEF Books, Conservation

\* Reserving moves purchased tokens from the balance to the reserved column.
LEMMA ReserveBooks ==
  ASSUME IInv, TypeOK', Books, NEW r \in Requests, NEW n \in Amounts, Reserve(r, n)
  PROVE  Books'
<1> DEFINE u == Owner[r]
           w == Moved(account[u], -n, 0, TRUE)
<1>1. u \in Users /\ n \in Nat /\ n > 0 /\ -n \in Int
  BY WalletAssumption
<1>2. account[u] \in Wallet /\ MovementAllowed(account[u], -n, 0, TRUE)
  BY <1>1 DEF IInv, TypeOK, Reserve
<1>3. /\ w \in Wallet /\ w.reserved = account[u].reserved
      /\ w.balance = account[u].balance - n
      /\ w.withdrawable = account[u].withdrawable - n
  <2>1. PurchasedDelta(account[u], -n, 0, TRUE) = -n
    BY <1>1 DEF PurchasedDelta
  <2>2. /\ w \in Wallet /\ w.reserved = account[u].reserved
        /\ w.balance = account[u].balance + (-n)
        /\ w.withdrawable = account[u].withdrawable + (-n)
    <3>1. 0 \in Nat /\ TRUE \in BOOLEAN
      OBVIOUS
    <3>2. /\ w \in Wallet /\ w.reserved = account[u].reserved
          /\ w.balance = account[u].balance + (-n)
          /\ w.withdrawable = account[u].withdrawable
                                + PurchasedDelta(account[u], -n, 0, TRUE)
      <4> HIDE DEF u
      <4> QED BY <1>1, <1>2, <3>1, MovedCoherent
    <3> QED BY <2>1, <3>2
  <2>3. account[u].balance \in Int /\ account[u].withdrawable \in Int
    BY <1>2 DEF Wallet
  <2> QED BY <1>1, <2>2, <2>3
<1> HIDE DEF w
<1>4. account' = [account EXCEPT ![u] = [w EXCEPT !.reserved = w.reserved + n]]
  BY DEF Reserve, Taken, w
<1>5. /\ account'[u].reserved = account[u].reserved + n
      /\ account'[u].balance = account[u].balance - n - 0
      /\ account'[u].withdrawable = account[u].withdrawable - n - 0
  <2>1. account'[u] = [w EXCEPT !.reserved = w.reserved + n]
    BY <1>1, <1>4 DEF IInv, TypeOK
  <2>2. /\ account'[u].reserved = w.reserved + n
        /\ account'[u].balance = w.balance
        /\ account'[u].withdrawable = w.withdrawable
    BY <1>3, <2>1 DEF Wallet
  <2>3. w.balance \in Int /\ w.withdrawable \in Int
    BY <1>3 DEF Wallet
  <2> QED BY <1>3, <2>2, <2>3
<1>6. \A v \in Users : v # u => account'[v] = account[v]
  BY <1>4 DEF IInv, TypeOK
<1>7. /\ withdrawal'[r].status = "pending" /\ withdrawal'[r].tokens = n
      /\ withdrawal[r].status = None
      /\ \A q \in Requests : q # r => withdrawal'[q] = withdrawal[q]
      /\ UNCHANGED earned
  BY DEF Reserve, IInv, TypeOK
<1>8. /\ HeldOf(withdrawal'[r]) = HeldOf(withdrawal[r]) + n
      /\ PaidOf(withdrawal'[r]) = PaidOf(withdrawal[r]) + 0
  BY <1>1, <1>7 DEF HeldOf, PaidOf, Open, None
<1> HIDE DEF u
<1>9. n \in Int /\ 0 \in Int
  BY <1>1
<1> QED BY <1>5, <1>6, <1>7, <1>8, <1>9, BooksMove DEF IInv, u

\* What a withdrawal that is closed as refused held goes back to its owner.
LEMMA ReturnBooks ==
  ASSUME IInv, TypeOK', Books, NEW r \in Requests,
         withdrawal[r].status \in Open,
         withdrawal'[r].status \in Refused,
         \A q \in Requests : q # r => withdrawal'[q] = withdrawal[q],
         account' = [account EXCEPT ![Owner[r]] = Returned(@, withdrawal[r].tokens)],
         UNCHANGED earned
  PROVE  Books'
<1> DEFINE u == Owner[r]
           n == withdrawal[r].tokens
<1>1. /\ u \in Users /\ n \in Nat /\ account[u] \in Wallet /\ Coherent(account[u])
      /\ account \in [Users -> Wallet]
  BY WalletAssumption DEF IInv, TypeOK, Withdrawal
<1>2. /\ account'[u] = Returned(account[u], n)
      /\ \A v \in Users : v # u => account'[v] = account[v]
  BY <1>1
<1>3. /\ Returned(account[u], n).reserved = account[u].reserved - n
      /\ Returned(account[u], n).balance = account[u].balance + n
      /\ Returned(account[u], n).withdrawable = account[u].withdrawable + n
  BY <1>1, ReturnedCoherent
<1>4. /\ account[u].reserved \in Int /\ account[u].balance \in Int
      /\ account[u].withdrawable \in Int
  BY <1>1 DEF Wallet
<1>5. /\ HeldOf(withdrawal'[r]) = HeldOf(withdrawal[r]) + (-n)
      /\ PaidOf(withdrawal'[r]) = PaidOf(withdrawal[r]) + 0
  BY <1>1 DEF HeldOf, PaidOf, Open, Refused
<1> HIDE DEF u, n
<1>6. -n \in Int /\ 0 \in Int
  BY <1>1
<1>7. /\ account'[u].reserved = account[u].reserved + (-n)
      /\ account'[u].balance = account[u].balance - (-n) - 0
      /\ account'[u].withdrawable = account[u].withdrawable - (-n) - 0
  BY <1>1, <1>2, <1>3, <1>4
<1> QED BY <1>2, <1>5, <1>6, <1>7, BooksMove DEF IInv, u

\* A withdrawal that is not settled still holds its tokens, unless they went
\* back.
LEMMA SettlesHeld ==
  ASSUME IInv, NEW r \in Requests, CanSettle(r)
  PROVE  /\ withdrawal[r] \in Withdrawal
         /\ ~withdrawal[r].released <=> withdrawal[r].status \in Open
         /\ \A q \in Requests : q # r => (Settle(r) => withdrawal'[q] = withdrawal[q])
<1>1. withdrawal[r] \in Withdrawal
  BY DEF IInv, TypeOK
<1>2. withdrawal[r].status # None
  BY DEF IInv, GatewayInv, SubmissionInv, WithdrawalInv, CanSettle
<1>3. withdrawal[r].released <=> withdrawal[r].status \in {"failed", "cancelled", "review"}
  BY DEF IInv, WithdrawalInv
<1>4. \A q \in Requests : q # r => (Settle(r) => withdrawal'[q] = withdrawal[q])
  BY DEF Settle, SettleLateSuccess, SettleSuccess, SettleRefusal, SettleOpen, IInv, TypeOK
<1> QED BY <1>1, <1>2, <1>3, <1>4 DEF CanSettle, Withdrawal, Settled, Open

\* A settlement takes the tokens out of the reserved column once: for good, or
\* back into the balance.
LEMMA SettleBooks ==
  ASSUME IInv, TypeOK', Books, NEW r \in Requests, Settle(r)
  PROVE  Books'
<1> DEFINE u == Owner[r]
           n == withdrawal[r].tokens
<1>1. /\ u \in Users /\ n \in Nat /\ account[u] \in Wallet
      /\ account[u].reserved \in Int /\ account[u].balance \in Int
      /\ account[u].withdrawable \in Int /\ account \in [Users -> Wallet]
      /\ withdrawal \in [Requests -> Withdrawal]
  BY WalletAssumption DEF IInv, TypeOK, Withdrawal, Wallet
<1>2. CanSettle(r) /\ UNCHANGED earned
  BY DEF Settle, SettleLateSuccess, SettleSuccess, SettleRefusal, SettleOpen
<1>3. /\ ~withdrawal[r].released <=> withdrawal[r].status \in Open
      /\ \A q \in Requests : q # r => withdrawal'[q] = withdrawal[q]
  BY <1>2, SettlesHeld
<1>4. CASE SettleRefusal(r)
  <2>1. withdrawal'[r].status \in Refused
    BY <1>1, <1>4 DEF SettleRefusal, Withdrawal
  <2> QED BY <1>2, <1>3, <1>4, <2>1, ReturnBooks DEF SettleRefusal
<1>5. ASSUME NEW p \in Int,
             HeldOf(withdrawal'[r]) = HeldOf(withdrawal[r]) + (-p),
             PaidOf(withdrawal'[r]) = PaidOf(withdrawal[r]) + p,
             \A v \in Users : v # u => account'[v] = account[v],
             account'[u].reserved = account[u].reserved - p,
             account'[u].balance = account[u].balance,
             account'[u].withdrawable = account[u].withdrawable
      PROVE  Books'
  <2>1. -p \in Int
    BY <1>5
  <2>2. /\ account'[u].reserved = account[u].reserved + (-p)
        /\ account'[u].balance = account[u].balance - (-p) - p
        /\ account'[u].withdrawable = account[u].withdrawable - (-p) - p
    BY <1>1, <1>5
  <2> HIDE DEF n
  <2> QED BY <1>2, <1>3, <1>5, <2>1, <2>2, BooksMove DEF IInv
<1>6. CASE SettleLateSuccess(r)
  <2>1. /\ withdrawal[r].status \notin Open /\ withdrawal'[r].status = "review"
        /\ withdrawal[r].status # "succeeded"
    BY <1>1, <1>2, <1>3, <1>6 DEF SettleLateSuccess, CanSettle, Withdrawal
  <2>2. /\ \A v \in Users : v # u => account'[v] = account[v]
        /\ account'[u].reserved = account[u].reserved
        /\ account'[u].balance = account[u].balance
        /\ account'[u].withdrawable = account[u].withdrawable
    BY <1>1, <1>6 DEF SettleLateSuccess, Wallet
  <2>3. /\ HeldOf(withdrawal'[r]) = 0 /\ HeldOf(withdrawal[r]) = 0
        /\ PaidOf(withdrawal'[r]) = 0 /\ PaidOf(withdrawal[r]) = 0
    BY <2>1 DEF HeldOf, PaidOf, Open
  <2>4. /\ HeldOf(withdrawal'[r]) = HeldOf(withdrawal[r]) + (-0)
        /\ PaidOf(withdrawal'[r]) = PaidOf(withdrawal[r]) + 0
        /\ account'[u].reserved = account[u].reserved - 0
    BY <1>1, <2>2, <2>3
  <2> QED BY <1>5, <2>2, <2>4
<1>7. CASE SettleSuccess(r)
  <2>1. /\ withdrawal[r].status \in Open /\ withdrawal'[r].status = "succeeded"
        /\ withdrawal'[r].tokens = n
    BY <1>1, <1>3, <1>7 DEF SettleSuccess, Withdrawal
  <2>2. /\ \A v \in Users : v # u => account'[v] = account[v]
        /\ account'[u].reserved = account[u].reserved - n
        /\ account'[u].balance = account[u].balance
        /\ account'[u].withdrawable = account[u].withdrawable
    BY <1>1, <1>7 DEF SettleSuccess, Wallet
  <2>3. /\ HeldOf(withdrawal'[r]) = HeldOf(withdrawal[r]) + (-n)
        /\ PaidOf(withdrawal'[r]) = PaidOf(withdrawal[r]) + n
    BY <1>1, <2>1 DEF HeldOf, PaidOf, Open
  <2>4. n \in Int
    BY <1>1
  <2> HIDE DEF n
  <2> QED BY <1>5, <2>2, <2>3, <2>4
<1>8. CASE SettleOpen(r)
  <2>1. /\ withdrawal'[r].tokens = n
        /\ withdrawal'[r].status = withdrawal[r].status
           \/ (withdrawal[r].status \in Open /\ withdrawal'[r].status \in Open)
        /\ account' = account
    BY <1>1, <1>3, <1>8 DEF SettleOpen, Withdrawal
  <2>2. /\ HeldOf(withdrawal'[r]) = HeldOf(withdrawal[r])
        /\ PaidOf(withdrawal'[r]) = PaidOf(withdrawal[r])
        /\ HeldOf(withdrawal[r]) \in Int /\ PaidOf(withdrawal[r]) \in Int
    BY <1>1, <2>1 DEF HeldOf, PaidOf, Open
  <2>3. /\ HeldOf(withdrawal'[r]) = HeldOf(withdrawal[r]) + (-0)
        /\ PaidOf(withdrawal'[r]) = PaidOf(withdrawal[r]) + 0
        /\ account'[u].reserved = account[u].reserved - 0
    BY <1>1, <2>1, <2>2
  <2> QED BY <1>5, <2>1, <2>3
<1> QED BY <1>4, <1>6, <1>7, <1>8 DEF Settle

\* Any other movement of a wallet is entered on both sides of the books.
LEMMA MovementBooks ==
  ASSUME IInv, Books, NEW u \in Users, NEW d \in Int, NEW k \in Nat,
         MovementAllowed(account[u], d, k, FALSE),
         account' = [account EXCEPT ![u] = Moved(@, d, k, FALSE)],
         earned' = [earned EXCEPT ![u].balance = @ + d,
           ![u].withdrawable = @ + PurchasedDelta(account[u], d, k, FALSE)],
         UNCHANGED withdrawal
  PROVE  Books'
<1> DEFINE pd == PurchasedDelta(account[u], d, k, FALSE)
           w == Moved(account[u], d, k, FALSE)
           held(v) == TokensIn(withdrawal, v, Open)
           paid(v) == TokensIn(withdrawal, v, {"succeeded"})
           History == [balance : Int, withdrawable : Int, reserved : Int,
                       blocked : BOOLEAN]
<1>1. account \in [Users -> Wallet] /\ earned \in [Users -> History]
  BY DEF IInv, TypeOK, Books
<1>2. /\ w.reserved = account[u].reserved /\ w.balance = account[u].balance + d
      /\ w.withdrawable = account[u].withdrawable + pd /\ w \in Wallet
  BY <1>1, MovedCoherent
<1>3. /\ account[u].balance \in Int /\ account[u].withdrawable \in Int
      /\ earned[u].balance \in Int /\ earned[u].withdrawable \in Int
      /\ earned[u] \in History
  BY <1>1 DEF Wallet
<1>4. pd \in Int
  BY <1>3 DEF PurchasedDelta, PurchasedSpill, Larger
<1> HIDE DEF pd, w
<1>5. /\ account'[u] = w
      /\ \A v \in Users : v # u => account'[v] = account[v] /\ earned'[v] = earned[v]
  BY <1>1 DEF w
<1>6. earned' = [earned EXCEPT ![u].balance = earned[u].balance + d,
                               ![u].withdrawable = earned[u].withdrawable + pd]
  BY DEF pd
<1>7. /\ earned' \in [Users -> History]
      /\ earned'[u].balance = earned[u].balance + d
      /\ earned'[u].withdrawable = earned[u].withdrawable + pd
  <2> DEFINE b == earned[u].balance + d
             x == earned[u].withdrawable + pd
  <2>1. b \in Int /\ x \in Int
    BY <1>3, <1>4
  <2> HIDE DEF b, x
  <2>2. earned' = [earned EXCEPT ![u].balance = b, ![u].withdrawable = x]
    BY <1>6 DEF b, x
  <2> DEFINE e == [earned[u] EXCEPT !.balance = b, !.withdrawable = x]
  <2>3. e \in History /\ e.balance = b /\ e.withdrawable = x
    BY <1>3, <2>1
  <2>4. earned' = [earned EXCEPT ![u] = e]
    BY <1>1, <1>3, <2>2
  <2> HIDE DEF e, History
  <2>5. earned' \in [Users -> History] /\ earned'[u] = e
    BY <1>1, <2>3, <2>4
  <2> QED BY <2>3, <2>5 DEF b, x
<1>8. ASSUME NEW v \in Users
      PROVE  /\ account'[v].reserved = held(v)
             /\ account'[v].balance + held(v) + paid(v) = earned'[v].balance
             /\ account'[v].withdrawable + held(v) + paid(v) = earned'[v].withdrawable
  <2>1. /\ account[v].reserved = held(v)
        /\ account[v].balance + held(v) + paid(v) = earned[v].balance
        /\ account[v].withdrawable + held(v) + paid(v) = earned[v].withdrawable
    BY DEF Books, Conservation
  <2>2. held(v) \in Int /\ paid(v) \in Int
    <3>1. IsFiniteSet({q \in Requests : withdrawal[q].status # None})
      BY DEF Books
    <3> QED BY <3>1, TokensNat DEF IInv, Open, None
  <2> HIDE DEF held, paid
  <2>3. CASE v # u
    BY <1>5, <2>1, <2>3
  <2>4. CASE v = u
    <3> DEFINE h == held(v)
               p == paid(v)
    <3>1. h \in Int /\ p \in Int
      BY <2>2
    <3>2. /\ account'[v].reserved = account[v].reserved
          /\ account'[v].balance = account[v].balance + d
          /\ account'[v].withdrawable = account[v].withdrawable + pd
          /\ earned'[v].balance = earned[v].balance + d
          /\ earned'[v].withdrawable = earned[v].withdrawable + pd
          /\ account[v].balance \in Int /\ account[v].withdrawable \in Int
      BY <1>2, <1>3, <1>5, <1>7, <2>4
    <3>3. /\ account[v].reserved = h
          /\ account[v].balance + h + p = earned[v].balance
          /\ account[v].withdrawable + h + p = earned[v].withdrawable
      BY <2>1
    <3> HIDE DEF h, p
    <3>4. earned[v].balance \in Int /\ earned[v].withdrawable \in Int
      BY <1>3, <2>4
    <3> DEFINE a == account[v].balance
               b == account[v].withdrawable
               e == earned[v].balance
               x == earned[v].withdrawable
    <3>5. /\ a \in Int /\ b \in Int /\ e \in Int /\ x \in Int
          /\ a + h + p = e /\ b + h + p = x
      BY <3>2, <3>3, <3>4
    <3> HIDE DEF a, b, e, x
    <3>6. (a + d) + h + p = e + d /\ (b + pd) + h + p = x + pd
      BY <1>4, <3>1, <3>5
    <3>7. /\ account'[v].reserved = h
          /\ account'[v].balance + h + p = earned'[v].balance
          /\ account'[v].withdrawable + h + p = earned'[v].withdrawable
      <4>1. /\ account'[v].balance = a + d /\ account'[v].withdrawable = b + pd
            /\ earned'[v].balance = e + d /\ earned'[v].withdrawable = x + pd
            /\ account'[v].reserved = h
        BY <3>2, <3>3 DEF a, b, e, x
      <4> QED BY <3>6, <4>1, Zenon
    <3> QED BY <3>7 DEF h, p
  <2> QED BY <2>3, <2>4
<1>9. IsFiniteSet({q \in Requests : withdrawal'[q].status # None})
  BY DEF Books
<1>10. \A v \in Users : held(v)' = held(v) /\ paid(v)' = paid(v)
  OBVIOUS
<1> QED BY <1>7, <1>8, <1>9, <1>10 DEF Books, Conservation

\* The wallets start with their own history and no withdrawals.
LEMMA InitBooks == Init => Books
<1> SUFFICES ASSUME Init PROVE Books
  OBVIOUS
<1>1. \A q \in Requests : withdrawal[q].status = None
  BY DEF Init, NoWithdrawal
<1>2. {q \in Requests : withdrawal[q].status # None} = {}
  BY <1>1
<1>3. IsFiniteSet({q \in Requests : withdrawal[q].status # None})
  BY <1>2, FS_EmptySet
<1>4. ASSUME NEW u \in Users
      PROVE  /\ TokensIn(withdrawal, u, Open) = 0
             /\ TokensIn(withdrawal, u, {"succeeded"}) = 0
             /\ earned[u] = account[u] /\ account[u] \in Wallet
             /\ account[u].reserved = 0
  <2>1. /\ {r \in Requests : Owner[r] = u /\ withdrawal[r].status \in Open} = {}
        /\ {r \in Requests : Owner[r] = u /\ withdrawal[r].status \in {"succeeded"}} = {}
    BY <1>1 DEF Open, None
  <2>2. /\ TokensIn(withdrawal, u, Open) = 0
        /\ TokensIn(withdrawal, u, {"succeeded"}) = 0
    BY <2>1, SumEmpty DEF TokensIn
  <2> QED BY <2>2, WalletAssumption DEF Init
<1>5. earned \in [Users -> [balance : Int, withdrawable : Int, reserved : Int,
                            blocked : BOOLEAN]]
  BY <1>4 DEF Init, Wallet
<1>6. Conservation
  BY <1>4 DEF Conservation, Wallet
<1> QED BY <1>3, <1>5, <1>6 DEF Books

\* Every step of the service keeps the books.
LEMMA NextBooks == IInv /\ Books /\ [Next]_vars => Books'
<1> SUFFICES ASSUME IInv, Books, [Next]_vars PROVE Books'
  OBVIOUS
<1>1. TypeOK'
  BY NextTyped DEF IInv
<1>2. CASE UNCHANGED <<account, withdrawal, earned>>
  BY <1>2 DEF Books, Conservation
<1>3. ASSUME NEW r \in Requests, NEW n \in Amounts, Reserve(r, n) PROVE Books'
  BY <1>1, <1>3, ReserveBooks
<1>4. ASSUME NEW r \in Requests, ReleaseUnsent(r) PROVE Books'
  <2>1. CASE ~Unsent(r)
    BY <1>2, <1>4, <2>1 DEF ReleaseUnsent
  <2>2. CASE Unsent(r)
    <3>1. /\ withdrawal[r].status \in Open /\ withdrawal'[r].status \in Refused
          /\ \A q \in Requests : q # r => withdrawal'[q] = withdrawal[q]
      BY <1>4, <2>2 DEF ReleaseUnsent, Unsent, IInv, TypeOK, Withdrawal, Open, Refused
    <3> QED BY <1>1, <1>4, <2>2, <3>1, ReturnBooks DEF ReleaseUnsent
  <2> QED BY <2>1, <2>2
<1>5. ASSUME NEW r \in Requests, Settle(r) PROVE Books'
  BY <1>1, <1>5, SettleBooks
<1>6. ASSUME NEW u \in Users, NEW n \in Amounts, Spend(u, n) PROVE Books'
  <2>1. n \in Nat /\ -n \in Int /\ 0 \in Nat
    BY WalletAssumption
  <2>2. earned' = [earned EXCEPT ![u].balance = @ + (-n),
           ![u].withdrawable = @ + PurchasedDelta(account[u], -n, 0, FALSE)]
    <3>1. earned[u].balance - n = earned[u].balance + (-n)
      BY <2>1 DEF Books
    <3> QED BY <1>6, <3>1 DEF Spend
  <2> QED BY <1>6, <2>1, <2>2, MovementBooks DEF Spend
<1>7. ASSUME NEW u \in Users, NEW n \in Amounts, NEW k \in {0, n}, Credit(u, n, k)
      PROVE Books'
  <2>1. n \in Int /\ n >= 0 /\ k \in Nat
    BY WalletAssumption
  <2>2. PurchasedDelta(account[u], n, k, FALSE) = k
    BY <2>1 DEF PurchasedDelta
  <2> QED BY <1>7, <2>1, <2>2, MovementBooks DEF Credit
<1> QED BY <1>2, <1>3, <1>4, <1>5, <1>6, <1>7 DEF Next, vars, walletVars

LEMMA BooksKeptAlways == Spec => []Books
  BY InitBooks, NextBooks, Invariance, PTL DEF Spec

\* No token is made or lost by withdrawals, however their answers arrive: a
\* wallet's reserved column is the sum of its open withdrawals, and balance,
\* reserved and paid out together are what it received and did not spend
\* (request, settle, releaseUnsent).
THEOREM TokensConserved == Spec => []Conservation
<1>1. Books => Conservation
  BY DEF Books
<1> QED BY <1>1, BooksKeptAlways, PTL

\* The CHECK of the wallet table (CHK_wallet_accounts_withdrawable), which no
\* transaction of withdrawals can make fail.
RowCheck ==
  \A u \in Users : /\ account[u].withdrawable >= 0
                   /\ account[u].withdrawable <= account[u].balance
                   /\ account[u].reserved >= 0

\* No wallet row ever breaks that CHECK: the reserved column, which every
\* settlement lowers without a look, is never lowered below zero.
THEOREM RowsPassTheCheck == Spec => []RowCheck
<1>1. IInv /\ Books => RowCheck
  <2> SUFFICES ASSUME IInv, Books, NEW u \in Users
               PROVE  /\ account[u].withdrawable >= 0
                      /\ account[u].withdrawable <= account[u].balance
                      /\ account[u].reserved >= 0
    BY DEF RowCheck
  <2>1. account[u] \in Wallet /\ Coherent(account[u])
    BY DEF IInv, TypeOK
  <2>2. account[u].reserved = TokensIn(withdrawal, u, Open)
    BY DEF Books, Conservation
  <2>3. TokensIn(withdrawal, u, Open) \in Nat
    BY TokensNat DEF IInv, Books, Open, None
  <2> QED BY <2>1, <2>2, <2>3 DEF Wallet, Coherent
<1> QED BY <1>1, BooksKeptAlways, Invariance, PTL

\* Rewards never leave as money: what is being paid out and was paid out comes
\* from tokens that were purchased.
PurchasedOnly ==
  \A u \in Users : TokensIn(withdrawal, u, Open) + TokensIn(withdrawal, u, {"succeeded"})
                     <= earned[u].withdrawable

\* Whatever the wallet earns and spends meanwhile, withdrawals open and paid
\* stay within its purchased tokens (request, changeBalance).
THEOREM RewardsStay == Spec => []PurchasedOnly
<1>1. IInv /\ Books => PurchasedOnly
  <2> SUFFICES ASSUME IInv, Books, NEW u \in Users
               PROVE  TokensIn(withdrawal, u, Open) + TokensIn(withdrawal, u, {"succeeded"})
                        <= earned[u].withdrawable
    BY DEF PurchasedOnly
  <2> DEFINE held == TokensIn(withdrawal, u, Open)
             paid == TokensIn(withdrawal, u, {"succeeded"})
             left == account[u].withdrawable
  <2>1. left \in Nat
    BY DEF IInv, TypeOK, Wallet
  <2>2. left + held + paid = earned[u].withdrawable
    BY DEF Books, Conservation
  <2>3. held \in Nat /\ paid \in Nat
    BY TokensNat DEF IInv, Books, Open, None
  <2> HIDE DEF held, paid, left
  <2>4. held + paid <= earned[u].withdrawable
    BY <2>1, <2>2, <2>3
  <2> QED BY <2>4 DEF held, paid
<1> QED BY <1>1, BooksKeptAlways, Invariance, PTL

----------------------------------------------------------------------------
(* Action properties.                                                      *)

\* The status of a payment only moves from open on, and from refused to
\* succeeded, whatever answer is committed and however late.
PaymentFlow ==
  [][\A r \in Requests : StatusMoves(payment[r].status, payment'[r].status)]_vars

\* This is all that Referrals, the other service that pays tokens out, takes
\* of the gateway (OpenPayment, Throws, PaymentMoves of that module).
THEOREM StatusesMove == Spec => PaymentFlow
<1> DEFINE Flow == \A r \in Requests : StatusMoves(payment[r].status, payment'[r].status)
<1>1. IInv /\ [Next]_vars => Flow
  <2> SUFFICES ASSUME IInv, [Next]_vars, NEW r \in Requests
               PROVE  StatusMoves(payment[r].status, payment'[r].status)
    OBVIOUS
  <2>1. CASE [GatewayStep]_gatewayVars
    BY <2>1, RowMoves DEF IInv
  <2>2. CASE UNCHANGED payment
    BY <2>2 DEF StatusMoves
  <2> QED
    BY <2>1, <2>2 DEF Next, Reserve, ReleaseUnsent, Settle, Spend, Credit, vars, gatewayVars
<1>2. IInv /\ [Next]_vars => [Flow]_vars
  BY <1>1
<1> QED BY <1>2, Invariance, PTL DEF Spec, PaymentFlow

\* A success is never taken back.
THEOREM SuccessKept == Spec => SuccessIsFinal
<1> DEFINE Flow == \A r \in Requests : StatusMoves(payment[r].status, payment'[r].status)
           Keeps == \A r \in Requests :
             payment[r].status = "succeeded" => payment'[r].status = "succeeded"
<1>1. Flow => Keeps
  BY DEF StatusMoves, Open, Refused, None
<1>2. [Flow]_vars => [Keeps]_vars
  BY <1>1
<1> QED BY <1>2, StatusesMove, PTL DEF PaymentFlow, SuccessIsFinal

\* Nothing the service does lifts the block it put on a reviewed wallet.
ReviewBlocks ==
  \A r \in Requests : withdrawal[r].status = "review" => account[Owner[r]].blocked

\* One step keeps every reviewed wallet blocked, its balance from falling and
\* the review open.
LEMMA ReviewStep ==
  ASSUME IInv, ReviewBlocks, [Next]_vars
  PROVE  /\ ReviewBlocks'
         /\ \A r \in Requests : withdrawal[r].status = "review" =>
              /\ account'[Owner[r]].balance >= account[Owner[r]].balance
              /\ withdrawal'[r].status = "review"
<1> DEFINE Frozen(u) == /\ account[u].blocked => account'[u].blocked
                       /\ account'[u].balance >= account[u].balance
           Kept(r) == withdrawal[r].status = "review" => withdrawal'[r].status = "review"
           New(r) == withdrawal'[r].status = "review" =>
                       withdrawal[r].status = "review" \/ account'[Owner[r]].blocked
<1>1. SUFFICES (\A u \in Users : account[u].blocked => Frozen(u))
               /\ (\A r \in Requests : Kept(r) /\ New(r))
  BY WalletAssumption DEF ReviewBlocks
<1>2. /\ account \in [Users -> Wallet] /\ \A u \in Users : account[u].balance \in Nat
      /\ withdrawal \in [Requests -> Withdrawal]
      /\ \A r \in Requests : Owner[r] \in Users
      /\ \A u \in Users : Coherent(account[u])
  BY WalletAssumption DEF IInv, TypeOK, Wallet
<1>3. CASE UNCHANGED <<account, withdrawal>>
  BY <1>2, <1>3
<1>4. ASSUME NEW r \in Requests, NEW n \in Amounts, Reserve(r, n)
      PROVE  (\A u \in Users : account[u].blocked => Frozen(u))
             /\ (\A q \in Requests : Kept(q) /\ New(q))
  <2>1. ~account[Owner[r]].blocked
    BY <1>4, WalletAssumption DEF Reserve, MovementAllowed
  <2>2. /\ \A u \in Users : u # Owner[r] => account'[u] = account[u]
        /\ \A q \in Requests : q # r => withdrawal'[q] = withdrawal[q]
        /\ withdrawal'[r].status = "pending" /\ withdrawal[r].status = None
    BY <1>2, <1>4 DEF Reserve
  <2> QED BY <1>2, <2>1, <2>2 DEF None
<1>5. ASSUME NEW r \in Requests, ReleaseUnsent(r)
      PROVE  (\A u \in Users : account[u].blocked => Frozen(u))
             /\ (\A q \in Requests : Kept(q) /\ New(q))
  <2> DEFINE n == withdrawal[r].tokens
             w == account[Owner[r]]
  <2>1. n \in Nat /\ w \in Wallet /\ Coherent(w)
    BY <1>2 DEF Withdrawal
  <2>2. /\ Returned(w, n).blocked = w.blocked
        /\ Returned(w, n).balance = w.balance + n
    BY <2>1, ReturnedCoherent
  <2>3. CASE Unsent(r)
    <3>1. /\ account' = [account EXCEPT ![Owner[r]] = Returned(w, n)]
          /\ withdrawal[r].status = "pending"
          /\ withdrawal'[r].status = "failed"
          /\ \A q \in Requests : q # r => withdrawal'[q] = withdrawal[q]
      BY <1>2, <1>5, <2>3 DEF ReleaseUnsent, Unsent, Withdrawal
    <3>2. Frozen(Owner[r])
      BY <1>2, <2>1, <2>2, <3>1
    <3>3. \A u \in Users : u # Owner[r] => Frozen(u)
      BY <1>2, <3>1
    <3> QED BY <3>1, <3>2, <3>3
  <2>4. CASE ~Unsent(r)
    BY <1>2, <1>5, <2>4 DEF ReleaseUnsent
  <2> QED BY <2>3, <2>4
<1>6. ASSUME NEW r \in Requests, Settle(r)
      PROVE  (\A u \in Users : account[u].blocked => Frozen(u))
             /\ (\A q \in Requests : Kept(q) /\ New(q))
  <2> DEFINE n == withdrawal[r].tokens
             w == account[Owner[r]]
  <2>1. n \in Nat /\ w \in Wallet /\ Coherent(w)
    BY <1>2 DEF Withdrawal
  <2>2. withdrawal[r].status # "review"
    BY <1>6 DEF Settle, SettleLateSuccess, SettleSuccess, SettleRefusal, SettleOpen,
                CanSettle
  <2>3. \A q \in Requests : q # r => withdrawal'[q] = withdrawal[q]
    BY <1>2, <1>6 DEF Settle, SettleLateSuccess, SettleSuccess, SettleRefusal,
                      SettleOpen
  <2>4. CASE SettleLateSuccess(r)
    <3>1. account' = [account EXCEPT ![Owner[r]] = [w EXCEPT !.blocked = TRUE]]
      BY <1>2, <2>4 DEF SettleLateSuccess
    <3>2. \A u \in Users : Frozen(u)
      BY <1>2, <2>1, <3>1 DEF Wallet
    <3>3. account'[Owner[r]].blocked
      BY <1>2, <2>1, <3>1 DEF Wallet
    <3> QED BY <2>2, <2>3, <3>2, <3>3
  <2>5. CASE SettleSuccess(r)
    <3>1. /\ account' = [account EXCEPT ![Owner[r]] = [w EXCEPT !.reserved = w.reserved - n]]
          /\ withdrawal'[r].status = "succeeded"
      BY <1>2, <2>5 DEF SettleSuccess, Withdrawal
    <3>2. \A u \in Users : Frozen(u)
      BY <1>2, <2>1, <3>1 DEF Wallet
    <3> QED BY <2>2, <2>3, <3>1, <3>2
  <2>6. CASE SettleRefusal(r)
    <3>1. /\ account' = [account EXCEPT ![Owner[r]] = Returned(w, n)]
          /\ withdrawal'[r].status \in Refused
      BY <1>2, <2>6 DEF SettleRefusal, Withdrawal
    <3>2. /\ Returned(w, n).blocked = w.blocked
          /\ Returned(w, n).balance = w.balance + n
      BY <2>1, ReturnedCoherent
    <3>3. Frozen(Owner[r])
      BY <1>2, <2>1, <3>1, <3>2
    <3>4. \A u \in Users : u # Owner[r] => Frozen(u)
      BY <1>2, <3>1
    <3> QED BY <2>2, <2>3, <3>1, <3>3, <3>4 DEF Refused
  <2>7. CASE SettleOpen(r)
    <3>1. /\ withdrawal'[r].status # "review" /\ account' = account
      BY <1>2, <2>2, <2>7 DEF SettleOpen, Withdrawal, Open
    <3> QED BY <1>2, <2>2, <2>3, <3>1
  <2> QED BY <1>6, <2>4, <2>5, <2>6, <2>7 DEF Settle
<1>7. ASSUME NEW u \in Users, NEW n \in Amounts,
             Spend(u, n) \/ \E k \in {0, n} : Credit(u, n, k)
      PROVE  (\A v \in Users : account[v].blocked => Frozen(v))
             /\ (\A q \in Requests : Kept(q) /\ New(q))
  <2>1. UNCHANGED withdrawal /\ \A v \in Users : v # u => account'[v] = account[v]
    BY <1>2, <1>7 DEF Spend, Credit
  <2>2. account[u].blocked => Frozen(u)
    <3>1. CASE Spend(u, n)
      BY <3>1, WalletAssumption DEF Spend, MovementAllowed
    <3>2. CASE \E k \in {0, n} : Credit(u, n, k)
      <4>1. PICK k \in {0, n} : Credit(u, n, k)
        BY <3>2
      <4>2. n \in Nat /\ n \in Int /\ k \in Nat /\ FALSE \in BOOLEAN
        BY WalletAssumption
      <4>3. account[u] \in Wallet /\ MovementAllowed(account[u], n, k, FALSE)
        BY <1>2, <4>1 DEF Credit
      <4>4. /\ Moved(account[u], n, k, FALSE).blocked = account[u].blocked
            /\ Moved(account[u], n, k, FALSE).balance = account[u].balance + n
        BY <4>2, <4>3, MovedCoherent
      <4>5. account'[u] = Moved(account[u], n, k, FALSE)
        BY <1>2, <4>1 DEF Credit
      <4>6. account[u].balance \in Nat
        BY <1>2
      <4>7. account[u].balance + n >= account[u].balance
        BY <4>2, <4>6
      <4> QED BY <4>4, <4>5, <4>7
    <3> QED BY <1>7, <3>1, <3>2
  <2> QED BY <1>2, <2>1, <2>2
<1> QED
  BY <1>3, <1>4, <1>5, <1>6, <1>7 DEF Next, vars, walletVars

\* A wallet under review is never debited and the review is never closed by
\* the service itself: only people end it.
THEOREM ReviewHolds == Spec => ReviewFreezes
<1>1. Init => ReviewBlocks
  BY DEF Init, NoWithdrawal, None, ReviewBlocks
<1>2. IInv /\ ReviewBlocks /\ [Next]_vars => ReviewBlocks'
  BY ReviewStep
<1>3. Spec => []ReviewBlocks
  BY <1>1, <1>2, Invariance, PTL DEF Spec
<1>4. IInv /\ ReviewBlocks /\ [Next]_vars =>
        [\A r \in Requests : withdrawal[r].status = "review" =>
           /\ account'[Owner[r]].balance >= account[Owner[r]].balance
           /\ withdrawal'[r].status = "review"]_vars
  BY ReviewStep
<1> QED BY <1>3, <1>4, Invariance, PTL DEF Spec, ReviewFreezes

----------------------------------------------------------------------------
(* Refinement: each step is a step of PayoutContract or changes neither the *)
(* phase nor the money of any request.                                     *)

PhaseMap == [r \in Requests |-> Phase(withdrawal[r])]
MoneyMap == [r \in Requests |-> Money(transfer[r])]

\* One request's funds move, no other's do.
LEMMA PhaseStep ==
  ASSUME TypeOK, NEW r \in Requests, NEW to,
         \A q \in Requests : q # r => withdrawal'[q] = withdrawal[q],
         Phase(withdrawal'[r]) = to
  PROVE  PhaseMap' = [PhaseMap EXCEPT ![r] = to]
<1>1. \A q \in Requests :
        PhaseMap'[q] = IF q = r THEN to ELSE PhaseMap[q]
  BY DEF PhaseMap
<1>2. PhaseMap' = [q \in Requests |-> IF q = r THEN to ELSE PhaseMap[q]]
  BY <1>1 DEF PhaseMap
<1> QED BY <1>2 DEF PhaseMap

\* One request's transfer moves, no other does.
LEMMA MoneyStep ==
  ASSUME NEW r \in Requests, NEW to,
         \A q \in Requests : q # r => transfer'[q] = transfer[q],
         Money(transfer'[r]) = to
  PROVE  MoneyMap' = [MoneyMap EXCEPT ![r] = to]
<1>1. \A q \in Requests :
        MoneyMap'[q] = IF q = r THEN to ELSE MoneyMap[q]
  BY DEF MoneyMap
<1>2. MoneyMap' = [q \in Requests |-> IF q = r THEN to ELSE MoneyMap[q]]
  BY <1>1 DEF MoneyMap
<1> QED BY <1>2 DEF MoneyMap

\* A withdrawal whose submission is under way still holds its tokens.
LEMMA SubmittedHeld ==
  ASSUME IInv, NEW r \in Requests, submit[r].pc # "idle",
         ~withdrawal[r].released,
         withdrawal[r].status \notin {"succeeded", "review"}
  PROVE  Phase(withdrawal[r]) = "held"
  BY DEF IInv, WithdrawalInv, TypeOK, Withdrawal, Settled, Phase

\* What the gateway does is the contract's Send or Decide, or not seen by it.
LEMMA GatewayRefines ==
  ASSUME IInv, GatewayStep, UNCHANGED walletVars
  PROVE  \/ \E r \in Requests : Contract!Send(r) \/ Contract!Decide(r)
         \/ UNCHANGED <<PhaseMap, MoneyMap>>
<1>1. PhaseMap' = PhaseMap
  BY DEF walletVars, PhaseMap
<1>2. CASE UNCHANGED transfer
  BY <1>1, <1>2 DEF MoneyMap
<1>3. ASSUME NEW r \in Requests,
             \A q \in Requests : q # r => transfer'[q] = transfer[q],
             submit[r].pc = "attempt", Money(transfer[r]) = "missing",
             Money(transfer'[r]) \in {"missing", "sent"}
      PROVE  Contract!Send(r) \/ UNCHANGED <<PhaseMap, MoneyMap>>
  <2>1. Phase(withdrawal[r]) = "held"
    <3>1. \A p \in Providers : transfer[r][p] = "missing"
      BY <1>3 DEF IInv, GatewayInv, SubmissionInv
    <3>2. ~withdrawal[r].released /\ withdrawal[r].status \notin {"succeeded", "review"}
      BY <1>3, <3>1 DEF IInv, WithdrawalInv, Received
    <3> QED BY <1>3, <3>2, SubmittedHeld
  <2>2. MoneyMap' = [MoneyMap EXCEPT ![r] = Money(transfer'[r])]
    BY <1>3, MoneyStep
  <2>3. CASE Money(transfer'[r]) = "missing"
    BY <1>1, <1>3, <2>2, <2>3 DEF MoneyMap
  <2>4. CASE Money(transfer'[r]) = "sent"
    BY <1>1, <1>3, <2>1, <2>2, <2>4
       DEF Contract!Send, Contract!Money, PhaseMap, MoneyMap
  <2> QED BY <1>3, <2>3, <2>4
<1>4. ASSUME NEW r \in Requests, NEW v,
             \A q \in Requests : q # r => transfer'[q] = transfer[q],
             Money(transfer'[r]) = v,
             \/ Money(transfer[r]) = "sent" /\ v \in {"paid", "refused"}
             \/ Money(transfer[r]) = "refused" /\ v = "reversed"
      PROVE  Contract!Decide(r)
  <2>1. MoneyMap' = [MoneyMap EXCEPT ![r] = v]
    BY <1>4, MoneyStep
  <2> QED BY <1>1, <1>4, <2>1
             DEF Contract!Decide, Contract!Money, PhaseMap, MoneyMap
<1> QED BY <1>2, <1>3, <1>4, MoneyMoves DEF IInv

\* A settlement is the contract's Pay, Return or Review, or changes no phase.
LEMMA SettleRefines ==
  ASSUME IInv, NEW r \in Requests, Settle(r)
  PROVE  \/ Contract!Pay(r) \/ Contract!Return(r) \/ Contract!Review(r)
         \/ UNCHANGED <<PhaseMap, MoneyMap>>
<1>1. MoneyMap' = MoneyMap
  BY DEF Settle, gatewayVars, MoneyMap
<1>2. /\ payment[r] # NoPayment /\ CanSettle(r) /\ submit[r].pc # "idle"
      /\ payment[r].provider \in Providers
  BY RowTyped DEF IInv, GatewayInv, SubmissionInv, Settle, SettleLateSuccess,
                  SettleSuccess, SettleRefusal, SettleOpen, CanSettle
<1>3. \A q \in Requests : q # r => withdrawal'[q] = withdrawal[q]
  BY DEF Settle, SettleLateSuccess, SettleSuccess, SettleRefusal, SettleOpen,
         IInv, TypeOK
<1>4. PaymentInv(r) /\ WithdrawalInv(r) /\ TypeOK
  BY DEF IInv, GatewayInv
<1> DEFINE fate == transfer[r][payment[r].provider]
<1>5. Money(transfer[r]) = fate
  BY <1>2, RowMoney DEF IInv
<1>6. CASE SettleLateSuccess(r)
  <2>1. /\ withdrawal[r].released /\ withdrawal[r].status \in Refused
        /\ withdrawal'[r].status = "review" /\ fate = "reversed"
    BY <1>2, <1>4, <1>6 DEF SettleLateSuccess, CanSettle, PaymentInv, WithdrawalInv,
       NotPaid, Received, Refused, TypeOK, Withdrawal
  <2>2. Money(transfer[r]) = "reversed"
    BY <1>5, <2>1
  <2>3. Phase(withdrawal[r]) = "returned" /\ Phase(withdrawal'[r]) = "review"
    BY <2>1 DEF Phase, Refused, Open, None
  <2>4. PhaseMap' = [PhaseMap EXCEPT ![r] = "review"]
    BY <1>3, <1>4, <2>3, PhaseStep
  <2> QED BY <1>1, <2>2, <2>3, <2>4
             DEF Contract!Review, Contract!Phase, PhaseMap, MoneyMap
<1>7. CASE SettleSuccess(r)
  <2>1. /\ ~withdrawal[r].released /\ withdrawal'[r].status = "succeeded"
        /\ withdrawal[r].status \notin {"succeeded", "review"} /\ fate \in Received
    BY <1>2, <1>4, <1>7 DEF SettleSuccess, CanSettle, PaymentInv, TypeOK, Withdrawal
  <2>2. Money(transfer[r]) \in Received
    BY <1>5, <2>1
  <2>3. Phase(withdrawal[r]) = "held" /\ Phase(withdrawal'[r]) = "paid"
    BY <1>2, <2>1, SubmittedHeld DEF Phase, Open, None
  <2>4. PhaseMap' = [PhaseMap EXCEPT ![r] = "paid"]
    BY <1>3, <1>4, <2>3, PhaseStep
  <2> QED BY <1>1, <2>2, <2>3, <2>4
             DEF Contract!Pay, Contract!Phase, PhaseMap, MoneyMap, Received
<1>8. CASE SettleRefusal(r)
  <2>1. /\ ~withdrawal[r].released /\ withdrawal'[r].status \in Refused
        /\ withdrawal[r].status \notin {"succeeded", "review"} /\ fate \in NotPaid
    BY <1>2, <1>4, <1>8 DEF SettleRefusal, CanSettle, PaymentInv, TypeOK, Withdrawal
  <2>2. Money(transfer[r]) \in NotPaid
    BY <1>5, <2>1
  <2>3. Phase(withdrawal[r]) = "held" /\ Phase(withdrawal'[r]) = "returned"
    BY <1>2, <2>1, SubmittedHeld DEF Phase, Open, None, Refused
  <2>4. PhaseMap' = [PhaseMap EXCEPT ![r] = "returned"]
    BY <1>3, <1>4, <2>3, PhaseStep
  <2> QED BY <1>1, <2>2, <2>3, <2>4
             DEF Contract!Return, Contract!Phase, PhaseMap, MoneyMap, NotPaid
<1>9. CASE SettleOpen(r)
  <2>1. Phase(withdrawal'[r]) = Phase(withdrawal[r])
    <3>1. CASE withdrawal[r].released
      BY <1>4, <1>9, <3>1 DEF SettleOpen, TypeOK, Withdrawal, Phase
    <3>2. CASE ~withdrawal[r].released
      <4>1. withdrawal'[r].status \in Open
        BY <1>4, <1>9, <3>2 DEF SettleOpen, TypeOK, Withdrawal
      <4>2. Phase(withdrawal'[r]) = "held"
        BY <4>1 DEF Phase, Open, None
      <4> QED BY <1>2, <3>2, <4>2, SubmittedHeld DEF CanSettle
    <3> QED BY <3>1, <3>2
  <2>2. PhaseMap' = [PhaseMap EXCEPT ![r] = Phase(withdrawal[r])]
    BY <1>3, <1>4, <2>1, PhaseStep
  <2>3. PhaseMap' = PhaseMap
    BY <2>2 DEF PhaseMap
  <2> QED BY <1>1, <2>3
<1> QED BY <1>6, <1>7, <1>8, <1>9 DEF Settle

\* Reserving is the contract's Hold.
LEMMA ReserveRefines ==
  ASSUME IInv, NEW r \in Requests, NEW n \in Amounts, Reserve(r, n)
  PROVE  Contract!Hold(r)
<1>1. /\ withdrawal'[r].status = "pending" /\ withdrawal[r].status = None
      /\ \A q \in Requests : q # r => withdrawal'[q] = withdrawal[q]
      /\ MoneyMap' = MoneyMap
  BY DEF Reserve, IInv, TypeOK, MoneyMap
<1>2. Phase(withdrawal[r]) = "idle" /\ Phase(withdrawal'[r]) = "held"
  BY <1>1 DEF Phase, Open, None
<1>3. PhaseMap' = [PhaseMap EXCEPT ![r] = "held"]
  BY <1>1, <1>2, PhaseStep DEF IInv
<1> QED BY <1>1, <1>2, <1>3 DEF Contract!Hold, Contract!Phase, PhaseMap, MoneyMap

\* Undoing a reservation nothing was sent for is the contract's Return.
LEMMA ReleaseRefines ==
  ASSUME IInv, NEW r \in Requests, ReleaseUnsent(r)
  PROVE  Contract!Return(r) \/ UNCHANGED <<PhaseMap, MoneyMap>>
<1>1. MoneyMap' = MoneyMap
  BY DEF ReleaseUnsent, MoneyMap
<1>2. CASE ~Unsent(r)
  BY <1>1, <1>2 DEF ReleaseUnsent, PhaseMap
<1>3. CASE Unsent(r)
  <2>1. /\ withdrawal[r].status = "pending" /\ withdrawal'[r].status = "failed"
        /\ \A q \in Requests : q # r => withdrawal'[q] = withdrawal[q]
    BY <1>3 DEF ReleaseUnsent, Unsent, IInv, TypeOK, Withdrawal
  <2>2. Phase(withdrawal[r]) = "held" /\ Phase(withdrawal'[r]) = "returned"
    BY <2>1 DEF Phase, Open, None
  <2>3. PhaseMap' = [PhaseMap EXCEPT ![r] = "returned"]
    BY <2>1, <2>2, PhaseStep DEF IInv
  <2>4. Money(transfer[r]) = "missing"
    BY <1>3 DEF Unsent, IInv, GatewayInv, SubmissionInv, Money, Providers
  <2> QED BY <1>1, <2>2, <2>3, <2>4
             DEF Contract!Return, Contract!Phase, PhaseMap, MoneyMap
<1> QED BY <1>2, <1>3

\* No funds are held and nothing is sent at first.
LEMMA InitRefines == Init => Contract!Init
<1> SUFFICES ASSUME Init PROVE Contract!Init
  OBVIOUS
<1>1. ASSUME NEW r \in Requests PROVE Phase(withdrawal[r]) = "idle"
  BY DEF Init, NoWithdrawal, Phase, Open, None
<1>2. ASSUME NEW r \in Requests PROVE Money(transfer[r]) = "missing"
  BY DEF Init, GatewayInit, Money, Providers
<1>3. PhaseMap = [r \in Requests |-> "idle"]
  BY <1>1, Zenon DEF PhaseMap
<1>4. MoneyMap = [r \in Requests |-> "missing"]
  BY <1>2, Zenon DEF MoneyMap
<1> QED BY <1>3, <1>4 DEF Contract!Init, PhaseMap, MoneyMap

\* Every step is a step of the contract or changes nothing it sees.
LEMMA NextRefines ==
  IInv /\ [Next]_vars => [Contract!Next]_(Contract!contractVars)
<1> SUFFICES ASSUME IInv, [Next]_vars
             PROVE  Contract!Next \/ UNCHANGED <<PhaseMap, MoneyMap>>
  BY DEF Contract!contractVars, PhaseMap, MoneyMap
<1>1. CASE GatewayStep /\ UNCHANGED walletVars
  BY <1>1, GatewayRefines DEF Contract!Next
<1>2. ASSUME NEW r \in Requests, NEW n \in Amounts, Reserve(r, n) PROVE Contract!Next
  BY <1>2, ReserveRefines DEF Contract!Next
<1>3. ASSUME NEW r \in Requests, ReleaseUnsent(r)
      PROVE  Contract!Next \/ UNCHANGED <<PhaseMap, MoneyMap>>
  BY <1>3, ReleaseRefines DEF Contract!Next
<1>4. ASSUME NEW r \in Requests, Settle(r)
      PROVE  Contract!Next \/ UNCHANGED <<PhaseMap, MoneyMap>>
  BY <1>4, SettleRefines DEF Contract!Next
<1>5. CASE UNCHANGED <<gatewayVars, withdrawal>>
  BY <1>5 DEF gatewayVars, PhaseMap, MoneyMap
<1> QED
  BY <1>1, <1>2, <1>3, <1>4, <1>5 DEF Next, Spend, Credit, vars, walletVars

\* Withdrawals, with their two providers, failover, retries, stale answers and
\* crashes, do nothing the payout contract does not allow.
THEOREM Refinement == Spec => RefinesContract
  BY InitRefines, NextRefines, Invariance, PTL
     DEF Spec, RefinesContract, Contract!Spec

----------------------------------------------------------------------------
(***************************************************************************)
(* Referrals, the other service that tokens are withdrawn from, for every  *)
(* set of members, sources of rewards, withdrawals and amounts that its    *)
(* ReferralsAssumption allows.  It shares nothing with the wallets above   *)
(* but the statuses of payments and the facts about sums.                  *)
(***************************************************************************)

\* One more or one fewer reward among finitely many is one share.
LEMMA EarnedChanges ==
  ASSUME NEW S \in SUBSET Sources, IsFiniteSet(S), NEW T \in SUBSET Sources,
         NEW s \in Sources, S \ {s} = T \ {s}
  PROVE  /\ IsFiniteSet(T) /\ Earned(S) \in Nat
         /\ Earned(T) = Earned(S) + (IF s \in T THEN Share ELSE 0)
                                      - (IF s \in S THEN Share ELSE 0)
<1> DEFINE f == [x \in Sources |-> Share]
<1>1. \A x \in Sources : f[x] = Share /\ f[x] \in Nat
  BY ReferralsAssumption
<1>2. Earned(S) = SumOver(f, S) /\ Earned(T) = SumOver(f, T)
  BY DEF Earned
<1> HIDE DEF f
<1>3. SumOver(f, S) \in Nat
  BY <1>1, SumIsNat
<1>4. /\ IsFiniteSet(T)
      /\ SumOver(f, T) = SumOver(f, S) + (IF s \in T THEN f[s] ELSE 0)
                                       - (IF s \in S THEN f[s] ELSE 0)
  <2>1. \A x \in S \cup T \cup {s} : f[x] \in Nat /\ f[x] \in Nat
    BY <1>1
  <2> QED BY <2>1, SumChanges
<1> QED BY <1>1, <1>2, <1>3, <1>4

\* What has been earned grows with the rewards.
LEMMA EarnedGrowsWith ==
  ASSUME NEW T \in SUBSET Sources, IsFiniteSet(T), NEW S \in SUBSET T
  PROVE  /\ Earned(S) \in Nat /\ Earned(T) \in Nat
         /\ Earned(S) <= Earned(T)
<1> DEFINE f == [x \in Sources |-> Share]
<1>1. \A x \in Sources : f[x] \in Nat
  BY ReferralsAssumption
<1>2. Earned(S) = SumOver(f, S) /\ Earned(T) = SumOver(f, T)
  BY DEF Earned
<1> HIDE DEF f
<1>3. SumOver(f, T) \in Nat
  BY <1>1, SumIsNat
<1>4. SumOver(f, S) \in Nat /\ SumOver(f, S) <= SumOver(f, T)
  <2>1. /\ \A x \in T : f[x] \in Nat
        /\ \A x \in S : f[x] \in Nat /\ (f[x] # 0 => x \in T /\ f[x] <= f[x])
    BY <1>1
  <2> QED BY <2>1, SumGrows
<1> QED BY <1>2, <1>3, <1>4

\* A reward that changes alone moves what its inviter has in the hold, and
\* after it, by one share.
LEMMA RewardChanges ==
  ASSUME FinitelyMany, NEW s \in Sources, NEW u \in Members,
         \A q \in Sources : q # s => reward'[q] = reward[q]
  PROVE  /\ IsFiniteSet(RewardsOf(u)')
         /\ Earned(Held(u)) \in Nat /\ Earned(Ended(u)) \in Nat
         /\ Earned(Held(u))' = Earned(Held(u))
              + (IF s \in Held(u)' THEN Share ELSE 0)
              - (IF s \in Held(u) THEN Share ELSE 0)
         /\ Earned(Ended(u))' = Earned(Ended(u))
              + (IF s \in Ended(u)' THEN Share ELSE 0)
              - (IF s \in Ended(u) THEN Share ELSE 0)
<1>1. IsFiniteSet(RewardsOf(u))
  BY DEF FinitelyMany
<1>2. /\ RewardsOf(u) \in SUBSET Sources /\ RewardsOf(u)' \in SUBSET Sources
      /\ Held(u) \in SUBSET RewardsOf(u) /\ Ended(u) \in SUBSET RewardsOf(u)
      /\ Held(u)' \in SUBSET Sources /\ Ended(u)' \in SUBSET Sources
  BY DEF RewardsOf, Held, Ended
<1>3. IsFiniteSet(Held(u)) /\ IsFiniteSet(Ended(u))
  BY <1>1, <1>2, FS_Subset
<1>4. /\ RewardsOf(u) \ {s} = RewardsOf(u)' \ {s}
      /\ Held(u) \ {s} = Held(u)' \ {s}
      /\ Ended(u) \ {s} = Ended(u)' \ {s}
  BY DEF RewardsOf, Held, Ended
<1>5. IsFiniteSet(RewardsOf(u)')
  BY <1>1, <1>2, <1>4, EarnedChanges
<1>6. /\ Earned(Held(u))' = Earned(Held(u)')
      /\ Earned(Ended(u))' = Earned(Ended(u)')
  BY DEF Earned, SumOver, Units
<1>7. Held(u) \in SUBSET Sources /\ Ended(u) \in SUBSET Sources
  BY <1>2
<1> DEFINE H == Held(u)
           J == Held(u)'
           E == Ended(u)
           F == Ended(u)'
<1> HIDE DEF H, J, E, F
<1>8. /\ Earned(H) \in Nat
      /\ Earned(J) = Earned(H) + (IF s \in J THEN Share ELSE 0)
                                   - (IF s \in H THEN Share ELSE 0)
  BY <1>2, <1>3, <1>4, <1>7, EarnedChanges DEF H, J
<1>9. /\ Earned(E) \in Nat
      /\ Earned(F) = Earned(E) + (IF s \in F THEN Share ELSE 0)
                                   - (IF s \in E THEN Share ELSE 0)
  BY <1>2, <1>3, <1>4, <1>7, EarnedChanges DEF E, F
<1> QED BY <1>5, <1>6, <1>8, <1>9 DEF H, J, E, F

\* The tokens of some of a user's withdrawals are summed over finitely many; a
\* withdrawal that changes alone moves its owner's sums, and no other's.
LEMMA WithdrawnChanges ==
  ASSUME ReferralsTypeOK, FinitelyMany, cashOut' \in [CashOuts -> CashOut],
         NEW r \in CashOuts, NEW u \in Members, NEW X, None \notin X,
         \A q \in CashOuts : q # r => cashOut'[q] = cashOut[q]
  PROVE  /\ Withdrawn(u, X) \in Nat
         /\ Withdrawn(u, X)' = Withdrawn(u, X)
              + (IF Earner[r] = u /\ cashOut'[r].status \in X
                 THEN cashOut'[r].tokens ELSE 0)
              - (IF Earner[r] = u /\ cashOut[r].status \in X
                 THEN cashOut[r].tokens ELSE 0)
<1> DEFINE f == [q \in CashOuts |-> cashOut[q].tokens]
           g == [q \in CashOuts |-> cashOut'[q].tokens]
           S == {q \in Mine(u) : cashOut[q].status \in X}
           T == {q \in Mine(u) : cashOut'[q].status \in X}
<1>1. IsFiniteSet(S)
  <2>1. S \subseteq {q \in CashOuts : cashOut[q].status # None}
    BY DEF Mine
  <2> QED BY <2>1, FS_Subset DEF FinitelyMany
<1>2. \A q \in CashOuts : f[q] \in Nat /\ g[q] \in Nat
  BY DEF ReferralsTypeOK, CashOut
<1>3. S \subseteq CashOuts /\ T \subseteq CashOuts
  BY DEF Mine
<1>4. S \ {r} = T \ {r} /\ \A q \in S \ {r} : g[q] = f[q]
  BY <1>3
<1>5. /\ r \in S <=> Earner[r] = u /\ cashOut[r].status \in X
      /\ r \in T <=> Earner[r] = u /\ cashOut'[r].status \in X
      /\ f[r] = cashOut[r].tokens /\ g[r] = cashOut'[r].tokens
  BY DEF Mine
<1>6. /\ Withdrawn(u, X) = SumOver(f, S)
      /\ Withdrawn(u, X)' = SumOver(g, T)
  BY DEF Withdrawn, Tokens, Mine
<1> HIDE DEF f, g, S, T
<1>7. SumOver(f, S) \in Nat
  BY <1>1, <1>2, <1>3, SumIsNat
<1>8. SumOver(g, T) = SumOver(f, S) + (IF r \in T THEN g[r] ELSE 0)
                                    - (IF r \in S THEN f[r] ELSE 0)
  BY <1>1, <1>2, <1>3, <1>4, SumChanges
<1> QED BY <1>5, <1>6, <1>7, <1>8

\* Nothing else moves the sums.
LEMMA SumsKept ==
  ASSUME FinitelyMany, NEW u \in Members
  PROVE  /\ UNCHANGED reward =>
              /\ RewardsOf(u)' = RewardsOf(u) /\ Released(u)' = Released(u)
              /\ Earned(Held(u))' = Earned(Held(u))
              /\ Earned(Ended(u))' = Earned(Ended(u))
              /\ Earned(Released(u))' = Earned(Released(u))
         /\ UNCHANGED bonuses => /\ Invited(u)' = Invited(u)
                                 /\ Bonuses(u)' = Bonuses(u)
         /\ UNCHANGED cashOut => \A X : Withdrawn(u, X)' = Withdrawn(u, X)
<1>1. ASSUME UNCHANGED reward
      PROVE  /\ RewardsOf(u)' = RewardsOf(u) /\ Released(u)' = Released(u)
             /\ Earned(Held(u))' = Earned(Held(u))
             /\ Earned(Ended(u))' = Earned(Ended(u))
             /\ Earned(Released(u))' = Earned(Released(u))
  BY <1>1 DEF RewardsOf, Released, Held, Ended, Earned, SumOver, Units
<1>2. ASSUME UNCHANGED bonuses
      PROVE  Invited(u)' = Invited(u) /\ Bonuses(u)' = Bonuses(u)
  BY <1>2 DEF Invited, Bonuses, SumOver, Units
<1>3. ASSUME UNCHANGED cashOut, NEW X
      PROVE  Withdrawn(u, X)' = Withdrawn(u, X)
  BY <1>3 DEF Withdrawn, Tokens, Mine, SumOver, Units
<1> QED BY <1>1, <1>2, <1>3

\* An attachment that the ledger does not have adds one bonus.
LEMMA BonusAdded ==
  ASSUME FinitelyMany, NEW u \in Invitees, NEW p \in Members, <<p, u>> \notin bonuses,
         bonuses' = bonuses \cup {<<p, u>>}, NEW v \in Members
  PROVE  /\ IsFiniteSet(Invited(v)') /\ Bonuses(v) \in Nat
         /\ Bonuses(v)' = Bonuses(v) + (IF v = p THEN Bonus ELSE 0)
<1> DEFINE f == [x \in Invitees |-> Bonus]
           S == Invited(v)
           T == Invited(v)'
<1>1. \A x \in Invitees : f[x] = Bonus /\ f[x] \in Nat
  BY ReferralsAssumption
<1>2. S \subseteq Invitees /\ T \subseteq Invitees /\ IsFiniteSet(S)
  BY DEF Invited, FinitelyMany
<1>3. v = p => S \ {u} = T \ {u}
  BY DEF Invited
<1>4. /\ v = p => u \in T /\ u \notin S
      /\ v # p => S = T
  BY DEF Invited
<1>5. Bonuses(v) = SumOver(f, S) /\ Bonuses(v)' = SumOver(f, T)
  BY DEF Bonuses, SumOver, Units
<1> HIDE DEF f, S, T
<1>6. SumOver(f, S) \in Nat
  BY <1>1, <1>2, SumIsNat
<1>7. CASE v = p
  <2>1. \A x \in S \cup T \cup {u} : f[x] \in Nat /\ f[x] \in Nat
    BY <1>1, <1>2
  <2>2. /\ IsFiniteSet(T)
        /\ SumOver(f, T) = SumOver(f, S) + (IF u \in T THEN f[u] ELSE 0)
                                         - (IF u \in S THEN f[u] ELSE 0)
    <3>1. S \ {u} = T \ {u} /\ \A x \in S \ {u} : f[x] = f[x]
      BY <1>3, <1>7
    <3> QED BY <1>2, <2>1, <3>1, SumChanges
  <2> QED BY <1>1, <1>4, <1>5, <1>6, <1>7, <2>2 DEF T
<1>8. CASE v # p
  <2>1. S = T
    BY <1>4, <1>8
  <2>2. IsFiniteSet(T)
    BY <1>2, <2>1
  <2> QED BY <1>5, <1>6, <1>8, <2>1, <2>2 DEF T
<1> QED BY <1>7, <1>8

----------------------------------------------------------------------------
(* Moving tokens between the buckets of an account.                        *)

Buckets == [pending : Int, available : Int, reserved : Int, withdrawn : Int]

LEMMA GainBuckets ==
  ASSUME ReferralsTypeOK, NEW u \in Members, NEW b \in {"pending", "available"}, NEW n \in Int,
         buckets' = Gain(u, b, n)
  PROVE  /\ buckets' \in [Members -> Buckets]
         /\ \A v \in Members : v # u => buckets'[v] = buckets[v]
         /\ buckets'[u].pending = buckets[u].pending + (IF b = "pending" THEN n ELSE 0)
         /\ buckets'[u].available = buckets[u].available + (IF b = "available" THEN n ELSE 0)
         /\ buckets'[u].reserved = buckets[u].reserved
         /\ buckets'[u].withdrawn = buckets[u].withdrawn
<1>1. buckets \in [Members -> Buckets] /\ buckets[u] \in Buckets
  BY DEF ReferralsTypeOK, Account, Buckets
<1>2. CASE b = "pending"
  BY <1>1, <1>2 DEF Gain, Buckets
<1>3. CASE b = "available"
  BY <1>1, <1>3 DEF Gain, Buckets
<1> QED BY <1>2, <1>3

LEMMA MoveBuckets ==
  ASSUME ReferralsTypeOK, NEW u \in Members, NEW n \in Int,
         NEW a \in {"pending", "available", "reserved"},
         NEW b \in {"available", "reserved", "withdrawn"}, a # b,
         buckets' = Move(u, a, b, n)
  PROVE  /\ buckets' \in [Members -> Buckets]
         /\ \A v \in Members : v # u => buckets'[v] = buckets[v]
         /\ buckets'[u].pending = buckets[u].pending - (IF a = "pending" THEN n ELSE 0)
         /\ buckets'[u].available = buckets[u].available
              - (IF a = "available" THEN n ELSE 0) + (IF b = "available" THEN n ELSE 0)
         /\ buckets'[u].reserved = buckets[u].reserved
              - (IF a = "reserved" THEN n ELSE 0) + (IF b = "reserved" THEN n ELSE 0)
         /\ buckets'[u].withdrawn = buckets[u].withdrawn + (IF b = "withdrawn" THEN n ELSE 0)
<1>1. buckets \in [Members -> Buckets] /\ buckets[u] \in Buckets
  BY DEF ReferralsTypeOK, Account, Buckets
<1>2. CASE a = "pending"
  BY <1>1, <1>2 DEF Move, Buckets
<1>3. CASE a = "available"
  BY <1>1, <1>3 DEF Move, Buckets
<1>4. CASE a = "reserved"
  BY <1>1, <1>4 DEF Move, Buckets
<1> QED BY <1>2, <1>3, <1>4

----------------------------------------------------------------------------
(* Types.                                                                  *)

\* The rows, but for what is in the buckets.
RowsTyped ==
  /\ profile \in [Members -> Profile]
  /\ call \in [Calls -> Call \cup {NoCall}]
  /\ bonuses \subseteq Members \X Invitees
  /\ reward \in [Sources -> Reward \cup {NoReward}]
  /\ cashOut \in [CashOuts -> CashOut]
  /\ sender \in [CashOuts -> {"idle", "sending", "threw", "done"}]
  /\ outcome \in [CashOuts -> Statuses \cup {None}]
  /\ told \in [CashOuts -> SUBSET Statuses]

\* What a request about a profile read before.
LEMMA ReferralCalls ==
  ASSUME ReferralsTypeOK, NEW k \in Calls
  PROVE  /\ call[k].kind = "attach" =>
              call[k] \in [kind : {"attach"}, user : Invitees, to : Members, seen : Profile]
         /\ call[k].kind = "refresh" =>
              call[k] \in [kind : {"refresh"}, user : Invitees, seen : Profile]
<1>1. call[k] \in Call \cup {NoCall}
  BY DEF ReferralsTypeOK
<1> QED BY <1>1 DEF Call, NoCall, None

LEMMA CallRows ==
  ASSUME ReferralsTypeOK, NEW k \in Calls, CallStep(k)
  PROVE  RowsTyped'
<1>1. ASSUME NEW u \in Invitees, NEW p \in Members, ReadAttach(k, u, p)
      PROVE  RowsTyped'
  <2>1. [kind |-> "attach", user |-> u, to |-> p, seen |-> profile[u]] \in Call
    BY ReferralsAssumption DEF Call, ReferralsTypeOK
  <2> QED BY <1>1, <2>1 DEF ReadAttach, ReferralsTypeOK, RowsTyped, withdrawalVars
<1>2. ASSUME NEW u \in Invitees, ReadRefresh(k, u) PROVE RowsTyped'
  <2>1. [kind |-> "refresh", user |-> u, seen |-> profile[u]] \in Call
    BY ReferralsAssumption DEF Call, ReferralsTypeOK
  <2> QED BY <1>2, <2>1 DEF ReadRefresh, ReferralsTypeOK, RowsTyped, withdrawalVars
<1>3. CASE Attach(k)
  <2>1. call[k].user \in Invitees /\ call[k].to \in Members /\ call[k].seen \in Profile
    BY <1>3, ReferralCalls DEF Attach
  <2>2. profile' \in [Members -> Profile]
    <3>1. [call[k].seen EXCEPT !.referrer = call[k].to] \in Profile
      BY <2>1 DEF Profile
    <3> QED BY <1>3, <3>1 DEF Attach, ReferralsTypeOK
  <2>3. bonuses' \subseteq Members \X Invitees
    BY <1>3, <2>1 DEF Attach, ReferralsTypeOK
  <2>4. call' \in [Calls -> Call \cup {NoCall}]
    BY <1>3 DEF Attach, ReferralsTypeOK
  <2>5. UNCHANGED <<reward, withdrawalVars>>
    BY <1>3 DEF Attach
  <2> QED BY <2>2, <2>3, <2>4, <2>5 DEF ReferralsTypeOK, RowsTyped, withdrawalVars
<1>4. CASE Refresh(k)
  <2>1. call[k].user \in Invitees /\ call[k].seen \in Profile
    BY <1>4, ReferralCalls DEF Refresh
  <2> QED BY <1>4, <2>1 DEF Refresh, ReferralsTypeOK, RowsTyped, withdrawalVars
<1>5. CASE CallEnds(k)
  BY <1>5 DEF CallEnds, ReferralsTypeOK, RowsTyped, withdrawalVars
<1> QED BY <1>1, <1>2, <1>3, <1>4, <1>5 DEF CallStep

\* A reward that exists, and the states its transactions find and leave.
LEMMA RewardRows ==
  ASSUME ReferralsTypeOK, NEW s \in Sources, RewardStep(s)
  PROVE  /\ RowsTyped'
         /\ \A q \in Sources : q # s => reward'[q] = reward[q]
         /\ UNCHANGED <<bonuses, cashOut, sender, outcome, told>>
         /\ \/ /\ Award(s) /\ reward[s] = NoReward
               /\ reward'[s].status = "pending" /\ ~reward'[s].released
            \/ /\ ~Award(s) /\ reward[s] \in Reward /\ reward'[s].to = reward[s].to
               /\ reward[s].status \in {"pending", "available"}
               /\ \/ /\ Release(s) /\ reward[s].status = "pending"
                     /\ reward'[s].status = "available" /\ reward'[s].released
                  \/ /\ Reverse(s) /\ reward'[s].status = "reversed"
                     /\ reward'[s].released = reward[s].released
         /\ reward'[s] \in Reward
<1>1. reward[s] \in Reward \/ reward[s] = NoReward
  BY DEF ReferralsTypeOK
<1>2. CASE Award(s)
  <2> DEFINE w == [status |-> "pending", to |-> profile[Payer[s]].referrer,
                   released |-> FALSE]
  <2>1. Payer[s] \in Members /\ profile[Payer[s]] \in Profile
    BY ReferralsAssumption DEF ReferralsTypeOK
  <2>2. w \in Reward
    BY <1>2, <2>1 DEF Award, Profile, Reward
  <2>3. profile' \in [Members -> Profile]
    BY <1>2, <2>1 DEF Award, ReferralsTypeOK, Profile
  <2>4. /\ reward' \in [Sources -> Reward \cup {NoReward}]
        /\ \A q \in Sources : q # s => reward'[q] = reward[q]
        /\ reward'[s] = w /\ reward[s] = NoReward
        /\ UNCHANGED <<call, bonuses, withdrawalVars>>
    BY <1>2, <2>2 DEF Award, ReferralsTypeOK
  <2>5. w.status = "pending" /\ w.released = FALSE
    OBVIOUS
  <2> HIDE DEF w
  <2> QED BY <1>2, <2>2, <2>3, <2>4, <2>5 DEF ReferralsTypeOK, RowsTyped, withdrawalVars
<1>3. CASE Release(s)
  <2>1. reward[s].status = "pending" /\ reward[s] \in Reward /\ ~Award(s)
    BY <1>1, <1>3 DEF Release, NoReward, None, Award
  <2>2. /\ reward' \in [Sources -> Reward \cup {NoReward}]
        /\ \A q \in Sources : q # s => reward'[q] = reward[q]
        /\ reward'[s] \in Reward /\ reward'[s].to = reward[s].to
        /\ reward'[s].status = "available" /\ reward'[s].released
        /\ UNCHANGED <<profile, call, bonuses, withdrawalVars>>
    BY <1>3, <2>1 DEF Release, ReferralsTypeOK, Reward, profileVars
  <2> QED BY <1>3, <2>1, <2>2 DEF ReferralsTypeOK, RowsTyped, withdrawalVars
<1>4. CASE Reverse(s)
  <2>1. /\ reward[s].status \in {"pending", "available"} /\ reward[s] \in Reward
        /\ ~Award(s)
    BY <1>1, <1>4 DEF Reverse, NoReward, None, Award
  <2>2. /\ reward' \in [Sources -> Reward \cup {NoReward}]
        /\ \A q \in Sources : q # s => reward'[q] = reward[q]
        /\ reward'[s] \in Reward /\ reward'[s].to = reward[s].to
        /\ reward'[s].status = "reversed" /\ reward'[s].released = reward[s].released
        /\ UNCHANGED <<profile, call, bonuses, withdrawalVars>>
    BY <1>4, <2>1 DEF Reverse, ReferralsTypeOK, Reward, profileVars
  <2> QED BY <1>4, <2>1, <2>2 DEF ReferralsTypeOK, RowsTyped, withdrawalVars
<1> QED BY <1>2, <1>3, <1>4 DEF RewardStep

\* A withdrawal settles by a status it was told, or by the failure of its
\* request.
LEMMA SettleRow ==
  ASSUME ReferralsTypeOK, NEW r \in CashOuts, NEW status \in Statuses,
         \/ SettleReserved(r, status)
         \/ Recover(r) /\ status = "succeeded"
         \/ cashOut' = [cashOut EXCEPT ![r].status = status]
  PROVE  /\ cashOut' \in [CashOuts -> CashOut]
         /\ \A q \in CashOuts : q # r => cashOut'[q] = cashOut[q]
         /\ cashOut'[r].status = status /\ cashOut'[r].tokens = cashOut[r].tokens
<1>1. CASE SettleReserved(r, status)
  <2>1. PICK b \in BOOLEAN :
          cashOut' = [cashOut EXCEPT ![r].status = status, ![r].refunded = b]
    BY <1>1 DEF SettleReserved
  <2> QED BY <2>1 DEF ReferralsTypeOK, CashOut
<1>2. CASE cashOut' = [cashOut EXCEPT ![r].status = status]
  BY <1>2 DEF ReferralsTypeOK, CashOut
<1> QED BY <1>1, <1>2 DEF Recover

LEMMA WithdrawalRows ==
  ASSUME ReferralsTypeOK, NEW r \in CashOuts, WithdrawalStep(r)
  PROVE  RowsTyped'
<1>1. UNCHANGED <<profile, call, bonuses, reward>>
  BY DEF WithdrawalStep, ReserveWithdrawal, PaymentOpens, Returns, Throws, Crash,
         PaymentMoves, Fail, Apply, profileVars
<1>2. /\ sender' \in [CashOuts -> {"idle", "sending", "threw", "done"}]
      /\ outcome' \in [CashOuts -> Statuses \cup {None}]
      /\ told' \in [CashOuts -> SUBSET Statuses]
  <2>1. ASSUME NEW status \in Statuses, Told(r, status)
        PROVE  /\ outcome' \in [CashOuts -> Statuses \cup {None}]
               /\ told' \in [CashOuts -> SUBSET Statuses]
    BY <2>1 DEF Told, ReferralsTypeOK
  <2>2. {"pending", "failed", "succeeded"} \subseteq Statuses
    BY DEF Statuses, Terminal, Open, Refused
  <2>3. \/ UNCHANGED <<outcome, told>>
        \/ \E status \in Statuses : Told(r, status)
    BY <2>2 DEF WithdrawalStep, ReserveWithdrawal, PaymentOpens, Returns, Throws, Crash,
         PaymentMoves, Fail, Apply
  <2>4. \/ UNCHANGED sender
        \/ \E v \in {"sending", "threw", "done"} : sender' = [sender EXCEPT ![r] = v]
    BY DEF WithdrawalStep, ReserveWithdrawal, PaymentOpens, Returns, Throws, Crash,
         PaymentMoves, Fail, Apply
  <2> QED BY <2>1, <2>3, <2>4 DEF ReferralsTypeOK
<1>3. cashOut' \in [CashOuts -> CashOut]
  <2>1. ASSUME NEW n \in CashOutAmounts, ReserveWithdrawal(r, n) PROVE cashOut' \in [CashOuts -> CashOut]
    <3>1. [status |-> "pending", tokens |-> n, refunded |-> FALSE] \in CashOut
      BY ReferralsAssumption DEF CashOut, Statuses, Terminal, Open
    <3> QED BY <2>1, <3>1 DEF ReserveWithdrawal, ReferralsTypeOK
  <2>2. CASE Fail(r)
    <3>1. "failed" \in Statuses
      BY DEF Statuses, Terminal, Refused
    <3>2. SettleReserved(r, "failed") \/ UNCHANGED cashOut
      BY <2>2 DEF Fail
    <3>3. CASE SettleReserved(r, "failed")
      BY <3>1, <3>3, SettleRow
    <3> QED BY <3>2, <3>3 DEF ReferralsTypeOK
  <2>3. ASSUME NEW status \in Statuses, Apply(r, status)
        PROVE  cashOut' \in [CashOuts -> CashOut]
    <3>1. \/ SettleReserved(r, status)
          \/ Recover(r) /\ status = "succeeded"
          \/ cashOut' = [cashOut EXCEPT ![r].status = status]
      BY <2>3 DEF Apply
    <3> QED BY <3>1, SettleRow
  <2>4. CASE UNCHANGED cashOut
    BY <2>4 DEF ReferralsTypeOK
  <2> QED BY <2>1, <2>2, <2>3, <2>4
          DEF WithdrawalStep, PaymentOpens, Returns, Throws, Crash, PaymentMoves
<1> QED BY <1>1, <1>2, <1>3 DEF ReferralsTypeOK, RowsTyped

\* The buckets are typed because they balance.
LEMMA BalancedTyped ==
  RowsTyped /\ buckets \in [Members -> Buckets] /\ FinitelyMany
    /\ BucketsBalance => ReferralsTypeOK
<1> SUFFICES ASSUME RowsTyped, buckets \in [Members -> Buckets], FinitelyMany,
                    BucketsBalance
             PROVE  ReferralsTypeOK
  OBVIOUS
<1>1. ASSUME NEW u \in Members PROVE buckets[u] \in Account
  <2>1. Earned(Held(u)) \in Nat
    <3>1. Held(u) \in SUBSET RewardsOf(u) /\ RewardsOf(u) \in SUBSET Sources
      BY DEF Held, RewardsOf
    <3>2. IsFiniteSet(RewardsOf(u))
      BY DEF FinitelyMany
    <3> QED BY <3>1, <3>2, EarnedGrowsWith
  <2>2. ASSUME NEW X, None \notin X PROVE Withdrawn(u, X) \in Nat
    <3> DEFINE f == [q \in CashOuts |-> cashOut[q].tokens]
               S == {q \in Mine(u) : cashOut[q].status \in X}
    <3>1. S \subseteq {q \in CashOuts : cashOut[q].status # None}
      BY <2>2 DEF Mine
    <3>2. IsFiniteSet(S)
      BY <3>1, FS_Subset DEF FinitelyMany
    <3>3. \A q \in S : f[q] \in Nat
      BY <3>1 DEF RowsTyped, CashOut
    <3>4. Withdrawn(u, X) = SumOver(f, S)
      BY DEF Withdrawn, Tokens, Mine
    <3> HIDE DEF f, S
    <3> QED BY <3>2, <3>3, <3>4, SumIsNat
  <2>3. Withdrawn(u, Open) \in Nat /\ Withdrawn(u, {"succeeded"}) \in Nat
    BY <2>2 DEF Open, None
  <2>4. /\ buckets[u].pending \in Nat /\ buckets[u].reserved \in Nat
        /\ buckets[u].withdrawn \in Nat /\ buckets[u] \in Buckets
    BY <2>1, <2>3 DEF BucketsBalance
  <2> QED BY <2>4 DEF Buckets, Account
<1> QED BY <1>1 DEF ReferralsTypeOK, RowsTyped

----------------------------------------------------------------------------
(* The four buckets balance.                                               *)

\* Where a reward puts its share, in the ledger and in the buckets.
LEMMA RewardBooks ==
  ASSUME ReferralsTypeOK, FinitelyMany, BucketsBalance,
         NEW s \in Sources, RewardStep(s)
  PROVE  buckets' \in [Members -> Buckets] /\ FinitelyMany' /\ BucketsBalance'
<1> DEFINE p == reward'[s].to
           was == reward[s].status
           is == reward'[s].status
<1>1. /\ \A q \in Sources : q # s => reward'[q] = reward[q]
      /\ UNCHANGED <<bonuses, cashOut>>
      /\ p \in Members /\ Share \in Int /\ -Share \in Int /\ is # None
      /\ was # None => reward[s].to = p
  BY RewardRows, ReferralsAssumption DEF NoReward, Reward, None
<1>2. /\ buckets' \in [Members -> Buckets]
      /\ \A v \in Members : v # p => buckets'[v] = buckets[v]
      /\ buckets'[p].pending = buckets[p].pending + (IF is = "pending" THEN Share ELSE 0)
                                              - (IF was = "pending" THEN Share ELSE 0)
      /\ buckets'[p].available = buckets[p].available
                                 + (IF is = "available" THEN Share ELSE 0)
                                 - (IF was = "available" THEN Share ELSE 0)
      /\ buckets'[p].reserved = buckets[p].reserved
      /\ buckets'[p].withdrawn = buckets[p].withdrawn
  <2>0. buckets[p].pending \in Int /\ buckets[p].available \in Int
    BY <1>1 DEF ReferralsTypeOK, Account
  <2>1. CASE Award(s)
    <3>1. is = "pending" /\ was = None
      BY <2>1, RewardRows DEF NoReward
    <3>2. buckets' = Gain(p, "pending", Share)
      BY <2>1 DEF Award, ReferralsTypeOK
    <3> QED BY <1>1, <2>0, <3>1, <3>2, GainBuckets DEF None
  <2>2. CASE Release(s)
    <3>1. is = "available" /\ was = "pending" /\ reward[s].to = p
      <4>1. reward'[s].status = "available" /\ was = "pending"
        BY <2>2 DEF Release, ReferralsTypeOK, Reward, NoReward
      <4> QED BY <1>1, <4>1 DEF None
    <3>2. buckets' = Move(p, "pending", "available", Share)
      BY <2>2, <3>1 DEF Release
    <3> HIDE DEF p, was, is
    <3>3. /\ buckets' \in [Members -> Buckets]
          /\ \A v \in Members : v # p => buckets'[v] = buckets[v]
          /\ buckets'[p].pending = buckets[p].pending - Share
          /\ buckets'[p].available = buckets[p].available - 0 + Share
          /\ buckets'[p].reserved = buckets[p].reserved - 0 + 0
          /\ buckets'[p].withdrawn = buckets[p].withdrawn + 0
      BY <1>1, <3>2, MoveBuckets
    <3>4. buckets[p].reserved \in Int /\ buckets[p].withdrawn \in Int
      BY <1>1 DEF ReferralsTypeOK, Account
    <3> QED BY <1>1, <2>0, <3>1, <3>3, <3>4
  <2>3. CASE Reverse(s)
    <3>1. /\ is = "reversed" /\ was \in {"pending", "available"} /\ reward[s].to = p
      <4>1. reward'[s].status = "reversed" /\ was \in {"pending", "available"}
        BY <2>3 DEF Reverse, ReferralsTypeOK, Reward, NoReward
      <4> QED BY <1>1, <4>1 DEF None
    <3>2. buckets' = Gain(p, was, -Share)
      BY <2>3, <3>1 DEF Reverse
    <3> HIDE DEF p, was, is
    <3>3. /\ buckets' \in [Members -> Buckets]
          /\ \A v \in Members : v # p => buckets'[v] = buckets[v]
          /\ buckets'[p].pending = buckets[p].pending + (IF was = "pending" THEN -Share ELSE 0)
          /\ buckets'[p].available = buckets[p].available
                                     + (IF was = "available" THEN -Share ELSE 0)
          /\ buckets'[p].reserved = buckets[p].reserved
          /\ buckets'[p].withdrawn = buckets[p].withdrawn
      BY <1>1, <3>1, <3>2, GainBuckets
    <3> QED BY <1>1, <2>0, <3>1, <3>3
  <2> QED BY <2>1, <2>2, <2>3 DEF RewardStep
<1>3. ASSUME NEW u \in Members
      PROVE  /\ s \in Held(u)' <=> u = p /\ is = "pending"
             /\ s \in Ended(u)' <=> u = p /\ is = "available"
             /\ s \in Held(u) <=> u = p /\ was = "pending"
             /\ s \in Ended(u) <=> u = p /\ was = "available"
  BY <1>1 DEF Held, Ended, RewardsOf, None
<1>4. FinitelyMany'
  <2>1. ASSUME NEW u \in Members
        PROVE  IsFiniteSet(Invited(u)') /\ IsFiniteSet(RewardsOf(u)')
    BY <1>1, RewardChanges, SumsKept DEF FinitelyMany
  <2>2. IsFiniteSet({r \in CashOuts : cashOut'[r].status # None})
    BY <1>1 DEF FinitelyMany
  <2> QED BY <2>1, <2>2 DEF FinitelyMany
<1>5. ASSUME NEW u \in Members
      PROVE  /\ buckets'[u].pending = Earned(Held(u))'
             /\ buckets'[u].reserved = Withdrawn(u, Open)'
             /\ buckets'[u].withdrawn = Withdrawn(u, {"succeeded"})'
             /\ buckets'[u].available + Withdrawn(u, Open)' + Withdrawn(u, {"succeeded"})'
                  = Bonuses(u)' + Earned(Ended(u))'
  <2> DEFINE H == Earned(Held(u))
             E == Earned(Ended(u))
             O == Withdrawn(u, Open)
             P == Withdrawn(u, {"succeeded"})
             B == Bonuses(u)
             J == Earned(Held(u))'
             F == Earned(Ended(u))'
  <2>1. /\ H \in Nat /\ E \in Nat
        /\ J = H + (IF u = p /\ is = "pending" THEN Share ELSE 0)
                 - (IF u = p /\ was = "pending" THEN Share ELSE 0)
        /\ F = E + (IF u = p /\ is = "available" THEN Share ELSE 0)
                 - (IF u = p /\ was = "available" THEN Share ELSE 0)
    <3>1. /\ H \in Nat /\ E \in Nat
          /\ J = H + (IF s \in Held(u)' THEN Share ELSE 0)
                   - (IF s \in Held(u) THEN Share ELSE 0)
          /\ F = E + (IF s \in Ended(u)' THEN Share ELSE 0)
                   - (IF s \in Ended(u) THEN Share ELSE 0)
      BY <1>1, RewardChanges
    <3> HIDE DEF H, E, J, F, p, is, was
    <3> QED BY <1>3, <3>1
  <2>2. /\ Withdrawn(u, Open)' = O /\ Withdrawn(u, {"succeeded"})' = P
        /\ Bonuses(u)' = B
    BY <1>1, SumsKept DEF Open
  <2>3. /\ buckets[u].pending = H /\ buckets[u].reserved = O /\ buckets[u].withdrawn = P
        /\ buckets[u].available + O + P = B + E
        /\ O \in Int /\ P \in Int /\ buckets[u].available \in Int /\ B \in Int
    <3>1. buckets[u] \in Account
      BY DEF ReferralsTypeOK
    <3>2. B \in Int
      <4> DEFINE f == [v \in Invitees |-> Bonus]
      <4>1. IsFiniteSet(Invited(u)) /\ \A v \in Invited(u) : f[v] \in Nat
        BY ReferralsAssumption DEF FinitelyMany, Invited
      <4>2. B = SumOver(f, Invited(u))
        BY DEF Bonuses
      <4> HIDE DEF f, B
      <4> QED BY <4>1, <4>2, SumIsNat
    <3>3. /\ buckets[u].pending = H /\ buckets[u].reserved = O /\ buckets[u].withdrawn = P
          /\ buckets[u].available + O + P = B + E
      BY DEF BucketsBalance
    <3> HIDE DEF H, E, O, P, B
    <3> QED BY <3>1, <3>2, <3>3 DEF Account
  <2> HIDE DEF H, E, O, P, B, J, F, p, is, was
  <2>4. /\ buckets'[u].pending = J /\ buckets'[u].reserved = O /\ buckets'[u].withdrawn = P
        /\ buckets'[u].available + O + P = B + F
    <3>1. CASE u = p
      <4> DEFINE i == IF is = "pending" THEN Share ELSE 0
                 j == IF was = "pending" THEN Share ELSE 0
                 k == IF is = "available" THEN Share ELSE 0
                 l == IF was = "available" THEN Share ELSE 0
      <4>1. i \in Int /\ j \in Int /\ k \in Int /\ l \in Int
        BY <1>1
      <4>2. /\ buckets'[u].pending = buckets[u].pending + i - j
            /\ buckets'[u].available = buckets[u].available + k - l
            /\ buckets'[u].reserved = buckets[u].reserved
            /\ buckets'[u].withdrawn = buckets[u].withdrawn
        BY <1>2, <3>1
      <4>3. J = H + i - j /\ F = E + k - l
        <5>1. /\ (IF u = p /\ is = "pending" THEN Share ELSE 0) = i
              /\ (IF u = p /\ was = "pending" THEN Share ELSE 0) = j
              /\ (IF u = p /\ is = "available" THEN Share ELSE 0) = k
              /\ (IF u = p /\ was = "available" THEN Share ELSE 0) = l
          BY <3>1
        <5> HIDE DEF i, j, k, l
        <5> QED BY <2>1, <5>1
      <4>4. H \in Int /\ E \in Int
        BY <2>1
      <4> HIDE DEF i, j, k, l
      <4>5. buckets'[u].pending = J
        BY <2>3, <4>2, <4>3
      <4>6. buckets'[u].reserved = O /\ buckets'[u].withdrawn = P
        BY <2>3, <4>2
      <4>7. buckets'[u].available + O + P = B + F
        <5> DEFINE a == buckets[u].available
                   b == buckets'[u].available
        <5>1. /\ a \in Int /\ O \in Int /\ P \in Int /\ B \in Int
              /\ a + O + P = B + E
          BY <2>3
        <5>2. b = a + k - l
          BY <4>2
        <5>3. F = E + k - l
          BY <4>3
        <5> HIDE DEF a, b
        <5>4. b + O + P = B + F
          BY <4>1, <4>4, <5>1, <5>2, <5>3
        <5> QED BY <5>4 DEF b
      <4> QED BY <4>5, <4>6, <4>7
    <3>2. CASE u # p
      BY <1>2, <2>1, <2>3, <3>2
    <3> QED BY <3>1, <3>2
  <2> QED BY <2>2, <2>4 DEF J, F
<1> QED BY <1>2, <1>4, <1>5 DEF BucketsBalance, Open

\* The sums of an account are natural numbers.
LEMMA SumsNat ==
  ASSUME ReferralsTypeOK, FinitelyMany, NEW u \in Members
  PROVE  /\ Earned(Held(u)) \in Nat /\ Earned(Ended(u)) \in Nat
         /\ Earned(Released(u)) \in Nat /\ Bonuses(u) \in Nat
         /\ Withdrawn(u, Open) \in Nat /\ Withdrawn(u, {"succeeded"}) \in Nat
<1>1. /\ Earned(Held(u)) \in Nat /\ Earned(Ended(u)) \in Nat
      /\ Earned(Released(u)) \in Nat
  <2>1. /\ Held(u) \in SUBSET RewardsOf(u) /\ Ended(u) \in SUBSET RewardsOf(u)
        /\ Released(u) \in SUBSET RewardsOf(u)
        /\ RewardsOf(u) \in SUBSET Sources
    BY DEF Held, Ended, Released, RewardsOf
  <2>2. IsFiniteSet(RewardsOf(u))
    BY DEF FinitelyMany
  <2> QED BY <2>1, <2>2, EarnedGrowsWith
<1>2. Bonuses(u) \in Nat
  <2> DEFINE f == [v \in Invitees |-> Bonus]
  <2>1. IsFiniteSet(Invited(u)) /\ \A v \in Invited(u) : f[v] \in Nat
    BY ReferralsAssumption DEF FinitelyMany, Invited
  <2>2. Bonuses(u) = SumOver(f, Invited(u))
    BY DEF Bonuses
  <2> HIDE DEF f
  <2> QED BY <2>1, <2>2, SumIsNat
<1>3. ASSUME NEW X, None \notin X PROVE Withdrawn(u, X) \in Nat
  <2> DEFINE f == [q \in CashOuts |-> cashOut[q].tokens]
             S == {q \in Mine(u) : cashOut[q].status \in X}
  <2>1. S \subseteq {q \in CashOuts : cashOut[q].status # None}
    BY <1>3 DEF Mine
  <2>2. IsFiniteSet(S)
    BY <2>1, FS_Subset DEF FinitelyMany
  <2>3. \A q \in S : f[q] \in Nat
    BY <2>1 DEF ReferralsTypeOK, CashOut
  <2>4. Withdrawn(u, X) = SumOver(f, S)
    BY DEF Withdrawn, Tokens, Mine
  <2> HIDE DEF f, S
  <2> QED BY <2>2, <2>3, <2>4, SumIsNat
<1> QED BY <1>1, <1>2, <1>3 DEF Open, None

\* The bonus of an attachment is available at once.
LEMMA AttachBooks ==
  ASSUME ReferralsTypeOK, FinitelyMany, BucketsBalance, NEW k \in Calls, Attach(k)
  PROVE  buckets' \in [Members -> Buckets] /\ FinitelyMany' /\ BucketsBalance'
<1> DEFINE u == call[k].user
           p == call[k].to
           new == call[k].seen.referrer = None /\ <<p, u>> \notin bonuses
<1>1. /\ u \in Invitees /\ p \in Members /\ Bonus \in Nat /\ Bonus \in Int
      /\ UNCHANGED <<reward, cashOut>>
  BY ReferralCalls, ReferralsAssumption DEF Attach, withdrawalVars
<1>2. IsFiniteSet({r \in CashOuts : cashOut'[r].status # None})
  BY <1>1 DEF FinitelyMany
<1>3. CASE new
  <2>1. bonuses' = bonuses \cup {<<p, u>>} /\ buckets' = Gain(p, "available", Bonus)
    BY <1>3 DEF Attach
  <2>2. <<p, u>> \notin bonuses
    BY <1>3
  <2> HIDE DEF u, p, new
  <2>3. /\ buckets' \in [Members -> Buckets]
        /\ \A v \in Members : v # p => buckets'[v] = buckets[v]
        /\ buckets'[p].pending = buckets[p].pending + 0
        /\ buckets'[p].available = buckets[p].available + Bonus
        /\ buckets'[p].reserved = buckets[p].reserved
        /\ buckets'[p].withdrawn = buckets[p].withdrawn
    BY <1>1, <2>1, GainBuckets
  <2>4. FinitelyMany'
    <3>1. ASSUME NEW v \in Members
          PROVE  IsFiniteSet(Invited(v)') /\ IsFiniteSet(RewardsOf(v)')
      <4>1. IsFiniteSet(Invited(v)')
        BY <1>1, <2>1, <2>2, BonusAdded
      <4>2. RewardsOf(v)' = RewardsOf(v)
        BY <1>1, SumsKept
      <4> QED BY <4>1, <4>2 DEF FinitelyMany
    <3> QED BY <1>2, <3>1 DEF FinitelyMany
  <2>5. ASSUME NEW v \in Members
        PROVE  /\ buckets'[v].pending = Earned(Held(v))'
               /\ buckets'[v].reserved = Withdrawn(v, Open)'
               /\ buckets'[v].withdrawn = Withdrawn(v, {"succeeded"})'
               /\ buckets'[v].available + Withdrawn(v, Open)'
                    + Withdrawn(v, {"succeeded"})' = Bonuses(v)' + Earned(Ended(v))'
    <3> DEFINE H == Earned(Held(v))
               E == Earned(Ended(v))
               O == Withdrawn(v, Open)
               P == Withdrawn(v, {"succeeded"})
               B == Bonuses(v)
               C == Bonuses(v)'
    <3>1. /\ Earned(Held(v))' = H /\ Earned(Ended(v))' = E
          /\ Withdrawn(v, Open)' = O /\ Withdrawn(v, {"succeeded"})' = P
      BY <1>1, SumsKept DEF Open
    <3>2. C = B + (IF v = p THEN Bonus ELSE 0)
      BY <1>1, <2>1, <2>2, BonusAdded
    <3>3. /\ buckets[v].pending = H /\ buckets[v].reserved = O /\ buckets[v].withdrawn = P
          /\ buckets[v].available + O + P = B + E
      BY DEF BucketsBalance
    <3>4. /\ H \in Nat /\ E \in Nat /\ B \in Nat /\ O \in Nat /\ P \in Nat
          /\ buckets[v].available \in Int
      <4>1. buckets[v] \in Account
        BY DEF ReferralsTypeOK
      <4> QED BY <4>1, SumsNat DEF Account
    <3> HIDE DEF H, E, O, P, B, C
    <3>5. /\ buckets'[v].pending = H /\ buckets'[v].reserved = O /\ buckets'[v].withdrawn = P
          /\ buckets'[v].available + O + P = C + E
      <4>1. CASE v = p
        BY <1>1, <2>3, <3>2, <3>3, <3>4, <4>1
      <4>2. CASE v # p
        BY <2>3, <3>2, <3>3, <3>4, <4>2
      <4> QED BY <4>1, <4>2
    <3> QED BY <3>1, <3>5 DEF C
  <2> QED BY <2>3, <2>4, <2>5 DEF BucketsBalance, Open
<1>4. CASE ~new
  <2>1. UNCHANGED <<bonuses, buckets>>
    BY <1>4 DEF Attach
  <2>2. buckets' \in [Members -> Buckets]
    BY <2>1 DEF ReferralsTypeOK, Account, Buckets
  <2>3. FinitelyMany'
    <3>1. ASSUME NEW v \in Members
          PROVE  IsFiniteSet(Invited(v)') /\ IsFiniteSet(RewardsOf(v)')
      BY <1>1, <2>1, SumsKept DEF FinitelyMany
    <3> QED BY <1>2, <3>1 DEF FinitelyMany
  <2>4. ASSUME NEW v \in Members
        PROVE  /\ buckets'[v].pending = Earned(Held(v))'
               /\ buckets'[v].reserved = Withdrawn(v, Open)'
               /\ buckets'[v].withdrawn = Withdrawn(v, {"succeeded"})'
               /\ buckets'[v].available + Withdrawn(v, Open)'
                    + Withdrawn(v, {"succeeded"})' = Bonuses(v)' + Earned(Ended(v))'
    BY <1>1, <2>1, SumsKept DEF BucketsBalance, Open
  <2> QED BY <2>2, <2>3, <2>4 DEF BucketsBalance, Open
<1> QED BY <1>3, <1>4

\* The buckets still balance when one withdrawal moves h tokens into those held
\* and m into those paid, out of what its owner has available.
LEMMA CashOutBooks ==
  ASSUME ReferralsTypeOK, FinitelyMany, BucketsBalance,
         NEW r \in CashOuts, NEW h \in Int, NEW m \in Int,
         cashOut' \in [CashOuts -> CashOut],
         \A q \in CashOuts : q # r => cashOut'[q] = cashOut[q],
         (IF cashOut'[r].status \in Open THEN cashOut'[r].tokens ELSE 0)
           = (IF cashOut[r].status \in Open THEN cashOut[r].tokens ELSE 0) + h,
         (IF cashOut'[r].status \in {"succeeded"} THEN cashOut'[r].tokens ELSE 0)
           = (IF cashOut[r].status \in {"succeeded"} THEN cashOut[r].tokens ELSE 0) + m,
         \A v \in Members : v # Earner[r] => buckets'[v] = buckets[v],
         buckets'[Earner[r]].pending = buckets[Earner[r]].pending,
         buckets'[Earner[r]].available = buckets[Earner[r]].available - h - m,
         buckets'[Earner[r]].reserved = buckets[Earner[r]].reserved + h,
         buckets'[Earner[r]].withdrawn = buckets[Earner[r]].withdrawn + m,
         UNCHANGED <<bonuses, reward>>
  PROVE  FinitelyMany' /\ BucketsBalance'
<1>1. FinitelyMany'
  <2> DEFINE used == {q \in CashOuts : cashOut[q].status # None}
             usedNow == {q \in CashOuts : cashOut'[q].status # None}
  <2>1. IsFiniteSet(usedNow)
    <3>1. usedNow \subseteq used \cup {r}
      OBVIOUS
    <3>2. IsFiniteSet(used \cup {r})
      BY FS_AddElement DEF FinitelyMany
    <3> QED BY <3>1, <3>2, FS_Subset
  <2>2. ASSUME NEW v \in Members
        PROVE  IsFiniteSet(Invited(v)') /\ IsFiniteSet(RewardsOf(v)')
    BY SumsKept DEF FinitelyMany
  <2> QED BY <2>1, <2>2 DEF FinitelyMany
<1>2. ASSUME NEW v \in Members
      PROVE  /\ buckets'[v].pending = Earned(Held(v))'
             /\ buckets'[v].reserved = Withdrawn(v, Open)'
             /\ buckets'[v].withdrawn = Withdrawn(v, {"succeeded"})'
             /\ buckets'[v].available + Withdrawn(v, Open)'
                  + Withdrawn(v, {"succeeded"})' = Bonuses(v)' + Earned(Ended(v))'
  <2> DEFINE H == Earned(Held(v))
             E == Earned(Ended(v))
             O == Withdrawn(v, Open)
             P == Withdrawn(v, {"succeeded"})
             B == Bonuses(v)
             Q == Withdrawn(v, Open)'
             N == Withdrawn(v, {"succeeded"})'
             heldWas == IF cashOut[r].status \in Open THEN cashOut[r].tokens ELSE 0
             heldIs == IF cashOut'[r].status \in Open THEN cashOut'[r].tokens ELSE 0
             paidWas == IF cashOut[r].status \in {"succeeded"} THEN cashOut[r].tokens ELSE 0
             paidIs == IF cashOut'[r].status \in {"succeeded"} THEN cashOut'[r].tokens ELSE 0
  <2>1. /\ Earned(Held(v))' = H /\ Earned(Ended(v))' = E /\ Bonuses(v)' = B
    BY SumsKept
  <2>2. /\ Q = O + (IF Earner[r] = v THEN heldIs ELSE 0) - (IF Earner[r] = v THEN heldWas ELSE 0)
        /\ N = P + (IF Earner[r] = v THEN paidIs ELSE 0) - (IF Earner[r] = v THEN paidWas ELSE 0)
    <3>1. /\ Open' = Open /\ None \notin Open /\ None \notin {"succeeded"}
      BY DEF Open, None
    <3>2. Q = O + (IF Earner[r] = v /\ cashOut'[r].status \in Open
                   THEN cashOut'[r].tokens ELSE 0)
                - (IF Earner[r] = v /\ cashOut[r].status \in Open
                   THEN cashOut[r].tokens ELSE 0)
      BY <3>1, WithdrawnChanges
    <3>3. N = P + (IF Earner[r] = v /\ cashOut'[r].status \in {"succeeded"}
                   THEN cashOut'[r].tokens ELSE 0)
                - (IF Earner[r] = v /\ cashOut[r].status \in {"succeeded"}
                   THEN cashOut[r].tokens ELSE 0)
      BY <3>1, WithdrawnChanges
    <3> HIDE DEF O, P, Q, N
    <3> QED BY <3>2, <3>3
  <2>3. /\ buckets[v].pending = H /\ buckets[v].reserved = O /\ buckets[v].withdrawn = P
        /\ buckets[v].available + O + P = B + E
    BY DEF BucketsBalance
  <2>4. /\ H \in Nat /\ E \in Nat /\ B \in Nat /\ O \in Nat /\ P \in Nat
        /\ buckets[v].available \in Int
    <3>1. buckets[v] \in Account
      BY DEF ReferralsTypeOK
    <3> QED BY <3>1, SumsNat DEF Account
  <2>5. /\ heldWas \in Int /\ paidWas \in Int
        /\ heldIs = heldWas + h /\ paidIs = paidWas + m
    <3>1. cashOut[r].tokens \in Int
      BY DEF ReferralsTypeOK, CashOut
    <3> QED BY <3>1
  <2> HIDE DEF H, E, O, P, B, Q, N, heldWas, heldIs, paidWas, paidIs
  <2>6. /\ buckets'[v].pending = H /\ buckets'[v].reserved = Q /\ buckets'[v].withdrawn = N
        /\ buckets'[v].available + Q + N = B + E
    <3>1. CASE Earner[r] = v
      <4>1. Q = O + h /\ N = P + m
        BY <2>2, <2>4, <2>5, <3>1
      <4> QED BY <2>3, <2>4, <3>1, <4>1
    <3>2. CASE Earner[r] # v
      <4>1. Q = O /\ N = P
        BY <2>2, <2>4, <3>2
      <4> QED BY <2>3, <2>4, <3>2, <4>1
    <3> QED BY <3>1, <3>2
  <2> QED BY <2>1, <2>6 DEF Q, N
<1> QED BY <1>1, <1>2 DEF BucketsBalance, Open

\* Nothing the books count has changed.
LEMMA BooksKept ==
  ASSUME ReferralsTypeOK, FinitelyMany, BucketsBalance,
         UNCHANGED <<bonuses, reward, buckets, cashOut>>
  PROVE  buckets' \in [Members -> Buckets] /\ FinitelyMany' /\ BucketsBalance'
<1>1. buckets' \in [Members -> Buckets]
  BY DEF ReferralsTypeOK, Account, Buckets
<1>2. FinitelyMany'
  <2>1. ASSUME NEW v \in Members
        PROVE  IsFiniteSet(Invited(v)') /\ IsFiniteSet(RewardsOf(v)')
    BY SumsKept DEF FinitelyMany
  <2>2. IsFiniteSet({q \in CashOuts : cashOut'[q].status # None})
    BY DEF FinitelyMany
  <2> QED BY <2>1, <2>2 DEF FinitelyMany
<1>3. ASSUME NEW v \in Members
      PROVE  /\ buckets'[v].pending = Earned(Held(v))'
             /\ buckets'[v].reserved = Withdrawn(v, Open)'
             /\ buckets'[v].withdrawn = Withdrawn(v, {"succeeded"})'
             /\ buckets'[v].available + Withdrawn(v, Open)'
                  + Withdrawn(v, {"succeeded"})' = Bonuses(v)' + Earned(Ended(v))'
  BY SumsKept DEF BucketsBalance, Open
<1> QED BY <1>1, <1>2, <1>3 DEF BucketsBalance, Open

\* A reservation holds what was available.
LEMMA CashOutReserved ==
  ASSUME ReferralsTypeOK, FinitelyMany, BucketsBalance,
         NEW r \in CashOuts, NEW n \in CashOutAmounts, ReserveWithdrawal(r, n)
  PROVE  /\ cashOut[r].status = None
         /\ cashOut'[r].status = "pending" /\ cashOut'[r].tokens = n
         /\ \A q \in CashOuts : q # r => cashOut'[q] = cashOut[q]
         /\ buckets' \in [Members -> Buckets] /\ FinitelyMany' /\ BucketsBalance'
<1>1. Earner[r] \in Members /\ n \in Nat /\ n \in Int
  BY ReferralsAssumption
<1>2. /\ cashOut[r].status = None
      /\ cashOut'[r] = [status |-> "pending", tokens |-> n, refunded |-> FALSE]
      /\ \A q \in CashOuts : q # r => cashOut'[q] = cashOut[q]
      /\ buckets' = Move(Earner[r], "available", "reserved", n)
      /\ UNCHANGED <<bonuses, reward>>
  BY DEF ReserveWithdrawal, ReferralsTypeOK, profileVars
<1>3. cashOut' \in [CashOuts -> CashOut]
  BY WithdrawalRows DEF RowsTyped, WithdrawalStep
<1>4. /\ buckets' \in [Members -> Buckets]
      /\ \A v \in Members : v # Earner[r] => buckets'[v] = buckets[v]
      /\ buckets'[Earner[r]].pending = buckets[Earner[r]].pending - 0
      /\ buckets'[Earner[r]].available = buckets[Earner[r]].available - n + 0
      /\ buckets'[Earner[r]].reserved = buckets[Earner[r]].reserved - 0 + n
      /\ buckets'[Earner[r]].withdrawn = buckets[Earner[r]].withdrawn + 0
  BY <1>1, <1>2, MoveBuckets
<1>5. buckets[Earner[r]] \in Buckets
  BY <1>1 DEF ReferralsTypeOK, Account, Buckets
<1>6. /\ buckets'[Earner[r]].pending = buckets[Earner[r]].pending
      /\ buckets'[Earner[r]].available = buckets[Earner[r]].available - n - 0
      /\ buckets'[Earner[r]].reserved = buckets[Earner[r]].reserved + n
      /\ buckets'[Earner[r]].withdrawn = buckets[Earner[r]].withdrawn + 0
  BY <1>1, <1>4, <1>5 DEF Buckets
<1>7. /\ (IF cashOut'[r].status \in Open THEN cashOut'[r].tokens ELSE 0)
             = (IF cashOut[r].status \in Open THEN cashOut[r].tokens ELSE 0) + n
      /\ (IF cashOut'[r].status \in {"succeeded"} THEN cashOut'[r].tokens ELSE 0)
             = (IF cashOut[r].status \in {"succeeded"} THEN cashOut[r].tokens ELSE 0) + 0
  BY <1>1, <1>2 DEF Open, None
<1>8. FinitelyMany' /\ BucketsBalance'
  BY <1>1, <1>2, <1>3, <1>4, <1>6, <1>7, CashOutBooks
<1> QED BY <1>2, <1>4, <1>8

\* A settlement, or a payment after a refusal, moves the tokens of its row.
LEMMA CashOutSettled ==
  ASSUME ReferralsTypeOK, FinitelyMany, BucketsBalance,
         NEW r \in CashOuts, NEW status \in Statuses,
         \/ cashOut[r].status \in Open /\ status \notin Open /\ SettleReserved(r, status)
         \/ cashOut[r].status \in Refused /\ status = "succeeded" /\ Recover(r),
         UNCHANGED <<bonuses, reward>>
  PROVE  buckets' \in [Members -> Buckets] /\ FinitelyMany' /\ BucketsBalance'
<1> DEFINE t == cashOut[r].tokens
           u == Earner[r]
<1>1. u \in Members /\ t \in Nat /\ t \in Int /\ -t \in Int /\ buckets[u] \in Buckets
  BY ReferralsAssumption DEF ReferralsTypeOK, CashOut, Account, Buckets
<1>2. /\ cashOut' \in [CashOuts -> CashOut]
      /\ \A q \in CashOuts : q # r => cashOut'[q] = cashOut[q]
      /\ cashOut'[r].status = status /\ cashOut'[r].tokens = t
  BY SettleRow
<1>3. CASE /\ cashOut[r].status \in Open /\ status = "succeeded"
           /\ SettleReserved(r, status)
  <2>1. buckets' = Move(u, "reserved", "withdrawn", t)
    BY <1>3 DEF SettleReserved
  <2>2. /\ cashOut[r].status \in Open /\ cashOut[r].status # "succeeded"
        /\ "succeeded" \notin Open
    BY <1>3 DEF Open
  <2>3. /\ (IF cashOut'[r].status \in Open THEN cashOut'[r].tokens ELSE 0)
               = (IF cashOut[r].status \in Open THEN t ELSE 0) + (-t)
        /\ (IF cashOut'[r].status \in {"succeeded"} THEN cashOut'[r].tokens ELSE 0)
               = (IF cashOut[r].status \in {"succeeded"} THEN t ELSE 0) + t
    BY <1>1, <1>2, <1>3, <2>2
  <2>4. /\ buckets' \in [Members -> Buckets]
        /\ \A v \in Members : v # u => buckets'[v] = buckets[v]
        /\ buckets'[u].pending = buckets[u].pending - 0
        /\ buckets'[u].available = buckets[u].available - 0 + 0
        /\ buckets'[u].reserved = buckets[u].reserved - t + 0
        /\ buckets'[u].withdrawn = buckets[u].withdrawn + t
    BY <1>1, <2>1, MoveBuckets
  <2>5. /\ buckets'[u].pending = buckets[u].pending
        /\ buckets'[u].available = buckets[u].available - (-t) - t
        /\ buckets'[u].reserved = buckets[u].reserved + (-t)
        /\ buckets'[u].withdrawn = buckets[u].withdrawn + t
    <3> HIDE DEF t, u
    <3> QED BY <1>1, <2>4 DEF Buckets
  <2> QED BY <1>1, <1>2, <2>3, <2>4, <2>5, CashOutBooks
<1>4. CASE /\ cashOut[r].status \in Open /\ status \in Refused
           /\ SettleReserved(r, status)
  <2>1. buckets' = Move(u, "reserved", "available", t)
    BY <1>4 DEF SettleReserved, Refused
  <2>2. /\ cashOut[r].status \in Open /\ cashOut[r].status # "succeeded"
        /\ status \notin Open /\ status # "succeeded"
    BY <1>4 DEF Open, Refused
  <2>3. /\ (IF cashOut'[r].status \in Open THEN cashOut'[r].tokens ELSE 0)
               = (IF cashOut[r].status \in Open THEN t ELSE 0) + (-t)
        /\ (IF cashOut'[r].status \in {"succeeded"} THEN cashOut'[r].tokens ELSE 0)
               = (IF cashOut[r].status \in {"succeeded"} THEN t ELSE 0) + 0
    BY <1>1, <1>2, <2>2
  <2>4. /\ buckets' \in [Members -> Buckets]
        /\ \A v \in Members : v # u => buckets'[v] = buckets[v]
        /\ buckets'[u].pending = buckets[u].pending - 0
        /\ buckets'[u].available = buckets[u].available - 0 + t
        /\ buckets'[u].reserved = buckets[u].reserved - t + 0
        /\ buckets'[u].withdrawn = buckets[u].withdrawn + 0
    BY <1>1, <2>1, MoveBuckets
  <2>5. /\ buckets'[u].pending = buckets[u].pending
        /\ buckets'[u].available = buckets[u].available - (-t) - 0
        /\ buckets'[u].reserved = buckets[u].reserved + (-t)
        /\ buckets'[u].withdrawn = buckets[u].withdrawn + 0
    <3> HIDE DEF t, u
    <3> QED BY <1>1, <2>4 DEF Buckets
  <2> QED BY <1>1, <1>2, <2>3, <2>4, <2>5, CashOutBooks
<1>5. CASE cashOut[r].status \in Refused /\ status = "succeeded" /\ Recover(r)
  <2>1. buckets' = Move(u, "available", "withdrawn", t)
    BY <1>5 DEF Recover
  <2>2. /\ cashOut[r].status \notin Open /\ cashOut[r].status # "succeeded"
        /\ "succeeded" \notin Open
    BY <1>5 DEF Open, Refused
  <2>3. /\ (IF cashOut'[r].status \in Open THEN cashOut'[r].tokens ELSE 0)
               = (IF cashOut[r].status \in Open THEN t ELSE 0) + 0
        /\ (IF cashOut'[r].status \in {"succeeded"} THEN cashOut'[r].tokens ELSE 0)
               = (IF cashOut[r].status \in {"succeeded"} THEN t ELSE 0) + t
    BY <1>1, <1>2, <1>5, <2>2
  <2>4. /\ buckets' \in [Members -> Buckets]
        /\ \A v \in Members : v # u => buckets'[v] = buckets[v]
        /\ buckets'[u].pending = buckets[u].pending - 0
        /\ buckets'[u].available = buckets[u].available - t + 0
        /\ buckets'[u].reserved = buckets[u].reserved - 0 + 0
        /\ buckets'[u].withdrawn = buckets[u].withdrawn + t
    BY <1>1, <2>1, MoveBuckets
  <2>5. /\ buckets'[u].pending = buckets[u].pending
        /\ buckets'[u].available = buckets[u].available - 0 - t
        /\ buckets'[u].reserved = buckets[u].reserved + 0
        /\ buckets'[u].withdrawn = buckets[u].withdrawn + t
    <3> HIDE DEF t, u
    <3> QED BY <1>1, <2>4 DEF Buckets
  <2> DEFINE none == 0
  <2>6. /\ none \in Int
        /\ (IF cashOut'[r].status \in Open THEN cashOut'[r].tokens ELSE 0)
               = (IF cashOut[r].status \in Open THEN t ELSE 0) + none
        /\ buckets'[u].available = buckets[u].available - none - t
        /\ buckets'[u].reserved = buckets[u].reserved + none
    BY <2>3, <2>5
  <2> HIDE DEF none
  <2> QED BY <1>1, <1>2, <2>3, <2>4, <2>5, <2>6, CashOutBooks
<1> QED BY <1>3, <1>4, <1>5 DEF Statuses, Terminal, Open, Refused

LEMMA WithdrawalBooks ==
  ASSUME ReferralsTypeOK, FinitelyMany, BucketsBalance,
         NEW r \in CashOuts, WithdrawalStep(r)
  PROVE  buckets' \in [Members -> Buckets] /\ FinitelyMany' /\ BucketsBalance'
<1>1. UNCHANGED <<bonuses, reward>>
  BY DEF WithdrawalStep, ReserveWithdrawal, PaymentOpens, Returns, Throws, Crash,
         PaymentMoves, Fail, Apply, profileVars
<1>2. ASSUME NEW n \in CashOutAmounts, ReserveWithdrawal(r, n)
      PROVE  buckets' \in [Members -> Buckets] /\ FinitelyMany' /\ BucketsBalance'
  BY <1>2, CashOutReserved
<1>3. CASE UNCHANGED <<buckets, cashOut>>
  BY <1>1, <1>3, BooksKept
<1>4. ASSUME NEW status \in Statuses,
             \/ cashOut[r].status \in Open /\ status \notin Open /\ SettleReserved(r, status)
             \/ cashOut[r].status \in Refused /\ status = "succeeded" /\ Recover(r)
      PROVE  buckets' \in [Members -> Buckets] /\ FinitelyMany' /\ BucketsBalance'
  BY <1>1, <1>4, CashOutSettled
<1>5. CASE Fail(r)
  <2>1. "failed" \in Statuses /\ "failed" \notin Open
    BY DEF Statuses, Terminal, Refused, Open
  <2>2. \/ UNCHANGED <<buckets, cashOut>>
        \/ cashOut[r].status \in Open /\ SettleReserved(r, "failed")
    BY <1>5 DEF Fail
  <2> QED BY <1>3, <1>4, <2>1, <2>2
\* One open status follows another.
<1>6. ASSUME NEW status \in Open, cashOut[r].status \in Open, UNCHANGED buckets,
             cashOut' = [cashOut EXCEPT ![r].status = status]
      PROVE  buckets' \in [Members -> Buckets] /\ FinitelyMany' /\ BucketsBalance'
  <2>1. status \in Statuses /\ status # "succeeded" /\ cashOut[r].status # "succeeded"
    BY <1>6 DEF Statuses, Terminal, Open
  <2>2. /\ cashOut' \in [CashOuts -> CashOut]
        /\ \A q \in CashOuts : q # r => cashOut'[q] = cashOut[q]
        /\ cashOut'[r].status = status /\ cashOut'[r].tokens = cashOut[r].tokens
    BY <1>6, <2>1, SettleRow
  <2>3. /\ buckets' \in [Members -> Buckets]
        /\ buckets[Earner[r]] \in Buckets /\ buckets' = buckets
        /\ cashOut[r].tokens \in Int
    <3>1. buckets \in [Members -> Buckets]
      BY DEF ReferralsTypeOK, Account, Buckets
    <3>2. Earner[r] \in Members
      BY ReferralsAssumption
    <3>3. cashOut[r].tokens \in Int
      BY DEF ReferralsTypeOK, CashOut
    <3> QED BY <1>6, <3>1, <3>2, <3>3
  <2> DEFINE none == 0
  <2>4. /\ none \in Int
        /\ (IF cashOut'[r].status \in Open THEN cashOut'[r].tokens ELSE 0)
               = (IF cashOut[r].status \in Open THEN cashOut[r].tokens ELSE 0) + none
        /\ (IF cashOut'[r].status \in {"succeeded"} THEN cashOut'[r].tokens ELSE 0)
               = (IF cashOut[r].status \in {"succeeded"} THEN cashOut[r].tokens ELSE 0) + none
        /\ \A v \in Members : v # Earner[r] => buckets'[v] = buckets[v]
        /\ buckets'[Earner[r]].pending = buckets[Earner[r]].pending
        /\ buckets'[Earner[r]].available = buckets[Earner[r]].available - none - none
        /\ buckets'[Earner[r]].reserved = buckets[Earner[r]].reserved + none
        /\ buckets'[Earner[r]].withdrawn = buckets[Earner[r]].withdrawn + none
    BY <1>6, <2>1, <2>2, <2>3 DEF Buckets
  <2> HIDE DEF none
  <2>5. FinitelyMany' /\ BucketsBalance'
    BY <1>1, <2>2, <2>4, CashOutBooks
  <2> QED BY <2>3, <2>5
<1>7. ASSUME NEW status \in Statuses, Apply(r, status)
      PROVE  buckets' \in [Members -> Buckets] /\ FinitelyMany' /\ BucketsBalance'
  <2>1. \/ cashOut[r].status \in Open /\ status \notin Open /\ SettleReserved(r, status)
        \/ /\ cashOut[r].status \in Open /\ status \in Open /\ UNCHANGED buckets
           /\ cashOut' = [cashOut EXCEPT ![r].status = status]
        \/ cashOut[r].status \in Refused /\ status = "succeeded" /\ Recover(r)
    BY <1>7 DEF Apply, Settles
  <2> QED BY <1>4, <1>6, <2>1
<1> QED BY <1>2, <1>3, <1>5, <1>7
        DEF WithdrawalStep, PaymentOpens, Returns, Throws, Crash, PaymentMoves

LEMMA CallBooks ==
  ASSUME ReferralsTypeOK, FinitelyMany, BucketsBalance,
         NEW k \in Calls, CallStep(k)
  PROVE  buckets' \in [Members -> Buckets] /\ FinitelyMany' /\ BucketsBalance'
<1>1. Attach(k) \/ UNCHANGED <<bonuses, reward, buckets, cashOut>>
  BY DEF CallStep, ReadAttach, ReadRefresh, Refresh, CallEnds, withdrawalVars
<1> QED BY <1>1, AttachBooks, BooksKept

\* What balances stays typed.
LEMMA ReferralTypes ==
  ASSUME ReferralsTypeOK, FinitelyMany, BucketsBalance, [ReferralsNext]_referralsVars
  PROVE  ReferralsTypeOK' /\ FinitelyMany' /\ BucketsBalance'
<1>1. RowsTyped' /\ buckets' \in [Members -> Buckets] /\ FinitelyMany' /\ BucketsBalance'
  <2>1. ASSUME NEW k \in Calls, CallStep(k)
        PROVE  /\ RowsTyped' /\ buckets' \in [Members -> Buckets]
               /\ FinitelyMany' /\ BucketsBalance'
    BY <2>1, CallRows, CallBooks
  <2>2. ASSUME NEW s \in Sources, RewardStep(s)
        PROVE  /\ RowsTyped' /\ buckets' \in [Members -> Buckets]
               /\ FinitelyMany' /\ BucketsBalance'
    BY <2>2, RewardRows, RewardBooks
  <2>3. ASSUME NEW r \in CashOuts, WithdrawalStep(r)
        PROVE  /\ RowsTyped' /\ buckets' \in [Members -> Buckets]
               /\ FinitelyMany' /\ BucketsBalance'
    BY <2>3, WithdrawalRows, WithdrawalBooks
  <2>4. CASE UNCHANGED referralsVars
    <3>1. UNCHANGED <<bonuses, reward, buckets, cashOut>> /\ RowsTyped'
      BY <2>4 DEF referralsVars, profileVars, withdrawalVars, RowsTyped, ReferralsTypeOK
    <3> QED BY <3>1, BooksKept
  <2> QED BY <2>1, <2>2, <2>3, <2>4 DEF ReferralsNext
<1>2. (RowsTyped /\ buckets \in [Members -> Buckets] /\ FinitelyMany
         /\ BucketsBalance => ReferralsTypeOK)'
  BY BalancedTyped, PTL
<1> QED BY <1>1, <1>2 DEF Buckets

----------------------------------------------------------------------------
(* Nobody is paid more than bonuses and ended holds gave.                  *)

\* What a withdrawal keeps through every step but its reservation: its
\* tokens, the answers told of it, and that no refusal is forgotten.
LEMMA CashOutKeeps ==
  ASSUME ReferralsTypeOK, NEW q \in CashOuts, CashOutInv(q), [ReferralsNext]_referralsVars
  PROVE  /\ CashOutInv(q)'
         /\ \/ \E n \in CashOutAmounts : ReserveWithdrawal(q, n)
            \/ /\ cashOut'[q].tokens = cashOut[q].tokens
               /\ told[q] \subseteq told'[q]
               /\ /\ cashOut'[q].status \in Open \cup {"succeeded"}
                  /\ told'[q] \cap Refused = {}
                  => cashOut[q].status \in Open \cup {"succeeded"}
<1> USE DEF CashOutInv
<1>1. /\ cashOut[q].status \in Statuses \cup {None}
      /\ told[q] \subseteq Statuses
      /\ outcome[q] \in Statuses \cup {None}
  BY DEF ReferralsTypeOK, CashOut
<1>2. CASE /\ cashOut'[q] = cashOut[q] /\ sender'[q] = sender[q]
           /\ outcome'[q] = outcome[q] /\ told'[q] = told[q]
  BY <1>2
<1>3. CASE UNCHANGED <<cashOut, sender, outcome, told>>
  BY <1>2, <1>3
<1>4. ASSUME NEW n \in CashOutAmounts, ReserveWithdrawal(q, n) PROVE CashOutInv(q)'
  <2>1. /\ cashOut[q].status = None /\ cashOut'[q].status = "pending"
        /\ sender'[q] = "sending" /\ outcome'[q] = outcome[q] /\ told'[q] = told[q]
    BY <1>4 DEF ReserveWithdrawal, ReferralsTypeOK
  <2> QED BY <2>1 DEF None, Refused
\* A payment is answered, and its withdrawal is as it was.
<1>5. ASSUME NEW status \in Statuses, Told(q, status), UNCHANGED cashOut,
             sender[q] = "sending" \/ outcome[q] # None,
             \/ UNCHANGED sender
             \/ sender' = [sender EXCEPT ![q] = "threw"] /\ status \in Refused
      PROVE  /\ CashOutInv(q)' /\ cashOut'[q] = cashOut[q]
             /\ told[q] \subseteq told'[q]
  <2>1. /\ cashOut'[q] = cashOut[q]
        /\ outcome'[q] = status /\ told'[q] = told[q] \cup {status}
        /\ status # None
    BY <1>5 DEF Told, ReferralsTypeOK, Statuses, Terminal, Open, Refused, None
  <2>2. CASE UNCHANGED sender
    BY <1>1, <1>5, <2>1, <2>2 DEF Statuses, Terminal, Open, Refused, None
  <2>3. CASE sender' = [sender EXCEPT ![q] = "threw"] /\ status \in Refused
    <3>1. sender'[q] = "threw" /\ sender[q] # "idle"
      BY <1>5, <2>3 DEF ReferralsTypeOK
    <3> QED BY <2>1, <2>3, <3>1
  <2> QED BY <1>5, <2>1, <2>2, <2>3
<1>6. CASE PaymentOpens(q)
  <2>1. "pending" \in Statuses
    BY DEF Statuses, Terminal, Open
  <2> QED BY <1>5, <1>6, <2>1 DEF PaymentOpens
<1>7. CASE Returns(q) \/ Crash(q)
  <2>1. /\ sender[q] \in {"sending", "threw"} /\ sender'[q] = "done"
        /\ UNCHANGED <<cashOut, outcome, told>>
    BY <1>7 DEF Returns, Crash, ReferralsTypeOK
  <2> QED BY <1>1, <2>1 DEF None
<1>8. CASE Throws(q)
  <2>1. "failed" \in Statuses /\ "failed" \in Refused /\ None \notin Open
    BY DEF Statuses, Terminal, Open, Refused, None
  <2>2. CASE outcome[q] = None /\ UNCHANGED <<outcome, told>>
    <3>1. /\ sender[q] = "sending" /\ sender'[q] = "threw"
          /\ UNCHANGED <<cashOut, outcome, told>>
      BY <1>8, <2>2 DEF Throws, ReferralsTypeOK
    <3> QED BY <2>2, <3>1
  <2>3. CASE outcome[q] \in Open /\ Told(q, "failed")
    BY <1>5, <1>8, <2>1, <2>3 DEF Throws
  <2> QED BY <1>8, <2>2, <2>3 DEF Throws
<1>9. CASE PaymentMoves(q)
  <2>1. None \notin Open /\ None \notin Refused /\ "succeeded" \in Statuses
    BY DEF Statuses, Terminal, Open, Refused, None
  <2>2. /\ outcome[q] # None /\ UNCHANGED <<cashOut, sender>>
        /\ \E status \in Statuses : Told(q, status)
    BY <1>9, <2>1 DEF PaymentMoves
  <2> QED BY <1>5, <2>2
<1>10. CASE Fail(q)
  <2>1. /\ sender[q] = "threw" /\ sender'[q] = "done"
        /\ outcome'[q] = outcome[q] /\ told'[q] = told[q]
    BY <1>10 DEF Fail, ReferralsTypeOK
  <2>2. CASE cashOut[q].status \in Open
    <3>1. "failed" \in Statuses /\ "failed" \in Refused /\ "failed" # None
      BY DEF Statuses, Terminal, Refused, None
    <3>2. cashOut'[q].status = "failed" /\ cashOut'[q].tokens = cashOut[q].tokens
      BY <1>10, <2>2, <3>1, SettleRow DEF Fail
    <3> QED BY <2>1, <2>2, <3>1, <3>2
  <2>3. CASE cashOut[q].status \notin Open
    BY <1>10, <2>1, <2>3 DEF Fail
  <2> QED BY <2>2, <2>3
<1>11. ASSUME NEW status \in Statuses, Apply(q, status)
       PROVE  /\ CashOutInv(q)'
              /\ cashOut'[q].tokens = cashOut[q].tokens /\ told'[q] = told[q]
              /\ /\ cashOut'[q].status \in Open \cup {"succeeded"}
                 /\ told'[q] \cap Refused = {}
                 => cashOut[q].status \in Open \cup {"succeeded"}
  <2>1. /\ status \in told[q] /\ UNCHANGED <<sender, outcome, told>>
        /\ cashOut[q].status \in Open \cup Refused
        /\ \/ SettleReserved(q, status)
           \/ Recover(q) /\ status = "succeeded"
           \/ cashOut' = [cashOut EXCEPT ![q].status = status]
    BY <1>11 DEF Apply, Settles
  <2>2. cashOut'[q].status = status /\ cashOut'[q].tokens = cashOut[q].tokens
    BY <2>1, SettleRow
  <2>3. status # None /\ cashOut[q].status # None
    BY <2>1 DEF Statuses, Terminal, Open, Refused, None
  <2>4. outcome[q] # None /\ sender[q] # "idle"
    BY <2>1, <2>3
  <2> QED BY <2>1, <2>2, <2>3, <2>4
<1>12. ASSUME NEW r \in CashOuts, r # q, WithdrawalStep(r)
       PROVE  /\ cashOut'[q] = cashOut[q] /\ sender'[q] = sender[q]
              /\ outcome'[q] = outcome[q] /\ told'[q] = told[q]
  BY <1>12 DEF WithdrawalStep, ReserveWithdrawal, PaymentOpens, Returns, Throws, Crash,
               PaymentMoves, Fail, Apply, Told, SettleReserved, Recover, ReferralsTypeOK
<1>13. ASSUME NEW k \in Calls, CallStep(k) PROVE UNCHANGED <<cashOut, sender, outcome, told>>
  BY <1>13 DEF CallStep, ReadAttach, ReadRefresh, Attach, Refresh, CallEnds,
               withdrawalVars
<1>14. ASSUME NEW s \in Sources, RewardStep(s) PROVE UNCHANGED <<cashOut, sender, outcome, told>>
  BY <1>14, RewardRows
<1>15. CASE UNCHANGED referralsVars
  BY <1>3, <1>15 DEF referralsVars, withdrawalVars
<1>16. CASE WithdrawalStep(q)
  <2> HIDE DEF CashOutInv
  <2> QED BY <1>4, <1>6, <1>7, <1>8, <1>9, <1>10, <1>11, <1>16 DEF WithdrawalStep
<1> QED BY <1>2, <1>3, <1>12, <1>13, <1>14, <1>15, <1>16 DEF ReferralsNext

\* A reward that was released stays released, and its inviter's.
LEMMA RewardKeeps ==
  ASSUME ReferralsTypeOK, NEW s \in Sources, RewardInv(s), [ReferralsNext]_referralsVars
  PROVE  /\ RewardInv(s)'
         /\ reward[s].status # None /\ reward[s].released
              => /\ reward'[s].status # None /\ reward'[s].released
                 /\ reward'[s].to = reward[s].to
<1>1. CASE reward'[s] = reward[s]
  BY <1>1 DEF RewardInv
<1>2. CASE RewardStep(s)
  BY <1>2, RewardRows DEF RewardInv, NoReward, None
<1>3. ASSUME NEW q \in Sources, q # s, RewardStep(q) PROVE reward'[s] = reward[s]
  BY <1>3, RewardRows
<1>4. ASSUME NEW k \in Calls, CallStep(k) PROVE reward' = reward
  BY <1>4 DEF CallStep, ReadAttach, ReadRefresh, Attach, Refresh, CallEnds
<1>5. ASSUME NEW r \in CashOuts, WithdrawalStep(r) PROVE reward' = reward
  BY <1>5 DEF WithdrawalStep, ReserveWithdrawal, PaymentOpens, Returns, Throws, Crash,
              PaymentMoves, Fail, Apply
<1>6. CASE UNCHANGED referralsVars
  BY <1>1, <1>6 DEF referralsVars
<1> QED BY <1>1, <1>2, <1>3, <1>4, <1>5, <1>6 DEF ReferralsNext

\* What bonuses and ended holds gave is never less.
LEMMA GivenGrows ==
  ASSUME ReferralsTypeOK, FinitelyMany, FinitelyMany',
         \A s \in Sources : RewardInv(s), [ReferralsNext]_referralsVars, NEW u \in Members
  PROVE  /\ Bonuses(u) \in Nat /\ Bonuses(u)' \in Nat
         /\ Earned(Released(u)) \in Nat /\ Earned(Released(u))' \in Nat
         /\ Bonuses(u) + Earned(Released(u))
              <= Bonuses(u)' + Earned(Released(u))'
<1>1. /\ Bonuses(u) \in Nat /\ Bonuses(u)' \in Nat
      /\ Bonuses(u) <= Bonuses(u)'
  <2> DEFINE f == [x \in Invitees |-> Bonus]
             S == Invited(u)
             T == Invited(u)'
  <2>1. bonuses \subseteq bonuses'
    <3>1. ASSUME NEW k \in Calls, CallStep(k) PROVE bonuses \subseteq bonuses'
      BY <3>1 DEF CallStep, ReadAttach, ReadRefresh, Attach, Refresh, CallEnds
    <3>2. ASSUME NEW s \in Sources, RewardStep(s) PROVE bonuses \subseteq bonuses'
      BY <3>2, RewardRows
    <3>3. ASSUME NEW r \in CashOuts, WithdrawalStep(r) PROVE bonuses \subseteq bonuses'
      BY <3>3 DEF WithdrawalStep, ReserveWithdrawal, PaymentOpens, Returns, Throws, Crash,
                  PaymentMoves, Fail, Apply, profileVars
    <3>4. CASE UNCHANGED referralsVars
      BY <3>4 DEF referralsVars, profileVars
    <3> QED BY <3>1, <3>2, <3>3, <3>4 DEF ReferralsNext
  <2>2. S \subseteq T /\ T \subseteq Invitees /\ IsFiniteSet(T)
    <3>1. IsFiniteSet(Invited(u)')
      BY DEF FinitelyMany
    <3> QED BY <2>1, <3>1 DEF Invited
  <2>3. \A x \in Invitees : f[x] \in Nat
    BY ReferralsAssumption
  <2>4. Bonuses(u) = SumOver(f, S) /\ Bonuses(u)' = SumOver(f, T)
    BY DEF Bonuses, SumOver, Units
  <2> HIDE DEF f, S, T
  <2>5. SumOver(f, S) \in Nat /\ SumOver(f, S) <= SumOver(f, T)
    <3>1. /\ \A x \in T : f[x] \in Nat
          /\ \A x \in S : f[x] \in Nat /\ (f[x] # 0 => x \in T /\ f[x] <= f[x])
      BY <2>2, <2>3
    <3> QED BY <2>2, <3>1, SumGrows
  <2>6. SumOver(f, T) \in Nat
    BY <2>2, <2>3, SumIsNat
  <2> QED BY <2>4, <2>5, <2>6
<1>2. /\ Earned(Released(u)) \in Nat /\ Earned(Released(u))' \in Nat
      /\ Earned(Released(u)) <= Earned(Released(u))'
  <2>1. Released(u) \subseteq Released(u)'
    BY RewardKeeps DEF Released, RewardsOf
  <2>2. Released(u)' \in SUBSET Sources /\ IsFiniteSet(Released(u)')
    <3>1. Released(u)' \subseteq RewardsOf(u)' /\ Released(u)' \in SUBSET Sources
      BY DEF Released, RewardsOf
    <3>2. IsFiniteSet(RewardsOf(u)')
      BY DEF FinitelyMany
    <3> QED BY <3>1, <3>2, FS_Subset
  <2>3. Earned(Released(u))' = Earned(Released(u)')
    BY DEF Earned, SumOver, Units
  <2> QED BY <2>1, <2>2, <2>3, EarnedGrowsWith
<1> QED BY <1>1, <1>2

\* Two sums over different rows are no less than the sum over any of the rows.
LEMMA SumsCover ==
  ASSUME NEW f, NEW S, IsFiniteSet(S), NEW T, IsFiniteSet(T), NEW U,
         U \subseteq S \cup T, \A x \in S \cup T : f[x] \in Nat
  PROVE  SumOver(f, U) \in Nat /\ SumOver(f, U) <= SumOver(f, S) + SumOver(f, T)
<1> DEFINE A == Units(f, S)
           B == Units(f, T)
           C == Units(f, U)
<1>1. IsFiniteSet(A) /\ IsFiniteSet(B)
  BY SumIsNat
<1>2. C \subseteq A \cup B
  BY DEF Units
<1> HIDE DEF A, B, C
<1>3. /\ IsFiniteSet(A \cup B) /\ Cardinality(A \cap B) \in Nat
      /\ Cardinality(A) \in Nat /\ Cardinality(B) \in Nat
      /\ Cardinality(A \cup B) = Cardinality(A) + Cardinality(B) - Cardinality(A \cap B)
  BY <1>1, FS_Union, FS_Intersection, FS_CardinalityType
<1>4. /\ Cardinality(C) \in Nat /\ Cardinality(C) <= Cardinality(A \cup B)
      /\ Cardinality(A \cup B) \in Nat
  BY <1>2, <1>3, FS_Subset, FS_CardinalityType
<1>5. Cardinality(C) <= Cardinality(A) + Cardinality(B)
  BY <1>3, <1>4
<1> QED BY <1>4, <1>5 DEF SumOver, A, B, C

\* While nothing is owed, what is open and paid is within what was given: the
\* books balance, and a hold that is over was released.
HoldsEnded == \A s \in Sources : RewardInv(s)
Covered ==
  \A u \in Members : buckets[u].available >= 0
    => Tokens(Committed(u)) <= Bonuses(u) + Earned(Released(u))

LEMMA WithinBudget ==
  ReferralsTypeOK /\ FinitelyMany /\ BucketsBalance /\ HoldsEnded => Covered
<1> SUFFICES ASSUME ReferralsTypeOK, FinitelyMany, BucketsBalance,
                    \A s \in Sources : RewardInv(s),
                    NEW u \in Members, buckets[u].available >= 0
             PROVE  Tokens(Committed(u)) <= Bonuses(u) + Earned(Released(u))
  BY DEF HoldsEnded, Covered
<1> DEFINE f == [q \in CashOuts |-> cashOut[q].tokens]
           S == {q \in Mine(u) : cashOut[q].status \in Open}
           T == {q \in Mine(u) : cashOut[q].status \in {"succeeded"}}
           U == Committed(u)
<1>1. U \subseteq S \cup T
  BY DEF Committed
<1>2. IsFiniteSet(S) /\ IsFiniteSet(T) /\ \A q \in S \cup T : f[q] \in Nat
  <2>1. S \cup T \subseteq {q \in CashOuts : cashOut[q].status # None}
    BY DEF Mine, Open, None
  <2>2. IsFiniteSet(S) /\ IsFiniteSet(T)
    BY <2>1, FS_Subset DEF FinitelyMany
  <2>3. \A q \in CashOuts : f[q] \in Nat
    BY DEF ReferralsTypeOK, CashOut
  <2> QED BY <2>1, <2>2, <2>3
<1>3. /\ Withdrawn(u, Open) = SumOver(f, S)
      /\ Withdrawn(u, {"succeeded"}) = SumOver(f, T)
      /\ Tokens(U) = SumOver(f, U)
  BY DEF Withdrawn, Tokens
<1> DEFINE open == Withdrawn(u, Open)
           paid == Withdrawn(u, {"succeeded"})
           over == Earned(Ended(u))
<1>4. /\ buckets[u].available + open + paid = Bonuses(u) + over
      /\ buckets[u].available \in Int
  <2>1. buckets[u] \in Account
    BY DEF ReferralsTypeOK
  <2> QED BY <2>1 DEF BucketsBalance, Account
<1>5. over <= Earned(Released(u)) /\ Earned(Released(u)) \in Nat
  <2>1. /\ Ended(u) \in SUBSET Released(u) /\ Released(u) \in SUBSET Sources
        /\ Released(u) \subseteq RewardsOf(u)
    BY DEF Ended, Released, RewardInv, RewardsOf
  <2>2. IsFiniteSet(Released(u))
    BY <2>1, FS_Subset DEF FinitelyMany
  <2> QED BY <2>1, <2>2, EarnedGrowsWith
<1>6. open \in Nat /\ paid \in Nat /\ over \in Nat /\ Bonuses(u) \in Nat
  BY SumsNat
<1> HIDE DEF f, S, T, U
<1>7. Tokens(U) \in Nat /\ Tokens(U) <= open + paid
  BY <1>1, <1>2, <1>3, SumsCover
<1> HIDE DEF open, paid, over
<1> QED BY <1>4, <1>5, <1>6, <1>7 DEF U

\* No other step commits more tokens, so the budget holds.
LEMMA ReferralBudget ==
  ASSUME ReferralsIInv, ReferralsTypeOK', FinitelyMany', BucketsBalance',
         \A s \in Sources : RewardInv(s)', [ReferralsNext]_referralsVars, NEW u \in Members
  PROVE  Tokens(Committed(u))' <= Bonuses(u)' + Earned(Released(u))'
<1> USE DEF ReferralsIInv
<1>1. CASE \E r \in CashOuts : \E n \in CashOutAmounts : Earner[r] = u /\ ReserveWithdrawal(r, n)
  <2>1. PICK r \in CashOuts : \E n \in CashOutAmounts : Earner[r] = u /\ ReserveWithdrawal(r, n)
    BY <1>1
  <2>2. PICK n \in CashOutAmounts : Earner[r] = u /\ ReserveWithdrawal(r, n)
    BY <2>1
  <2>3. /\ buckets[u].available >= n /\ n \in Int
        /\ buckets' = Move(u, "available", "reserved", n)
    BY <2>2, ReferralsAssumption DEF ReserveWithdrawal, Spendable
  <2>4. buckets'[u].available = buckets[u].available - n + 0
    BY <2>3, MoveBuckets
  <2>5. buckets[u].available \in Int
    BY DEF ReferralsTypeOK, Account
  <2>6. buckets'[u].available >= 0
    BY <2>3, <2>4, <2>5
  <2>7. (ReferralsTypeOK /\ FinitelyMany /\ BucketsBalance /\ HoldsEnded
           => Covered)'
    BY WithinBudget, PTL
  <2> QED BY <2>6, <2>7 DEF HoldsEnded, Covered
<1>2. CASE ~(\E r \in CashOuts : \E n \in CashOutAmounts : Earner[r] = u /\ ReserveWithdrawal(r, n))
  <2> DEFINE f == [q \in CashOuts |-> cashOut[q].tokens]
             g == [q \in CashOuts |-> cashOut'[q].tokens]
             S == Committed(u)
             T == Committed(u)'
  <2>1. ASSUME NEW q \in CashOuts, Earner[q] = u
        PROVE  /\ g[q] = f[q] /\ told[q] \subseteq told'[q]
               /\ /\ cashOut'[q].status \in Open \cup {"succeeded"}
                  /\ told'[q] \cap Refused = {}
                  => cashOut[q].status \in Open \cup {"succeeded"}
    BY <1>2, <2>1, CashOutKeeps
  <2>2. T \subseteq S /\ S \subseteq CashOuts
    BY <2>1 DEF Committed, Mine, Open, Refused
  <2>3. IsFiniteSet(S)
    <3>1. S \subseteq {q \in CashOuts : cashOut[q].status # None}
      BY DEF Committed, Mine, Open, None
    <3> QED BY <3>1, FS_Subset DEF FinitelyMany
  <2>4. \A q \in T : g[q] = f[q]
    BY <2>1 DEF Committed, Mine
  <2>5. \A q \in CashOuts : f[q] \in Nat
    BY DEF ReferralsTypeOK, CashOut
  <2>6. Tokens(Committed(u)) = SumOver(f, S) /\ Tokens(Committed(u))' = SumOver(g, T)
    BY DEF Tokens, SumOver, Units
  <2> HIDE DEF f, g, S, T
  <2>7. SumOver(f, S) \in Nat
    BY <2>2, <2>3, <2>5, SumIsNat
  <2>8. SumOver(g, T) \in Nat /\ SumOver(g, T) <= SumOver(f, S)
    <3>1. /\ \A x \in S : f[x] \in Nat
          /\ \A x \in T : g[x] \in Nat /\ (g[x] # 0 => x \in S /\ g[x] <= f[x])
      BY <2>2, <2>4, <2>5
    <3> QED BY <2>3, <3>1, SumGrows
  <2>9. Tokens(Committed(u)) <= Bonuses(u) + Earned(Released(u))
    OBVIOUS
  <2> QED BY <2>6, <2>7, <2>8, <2>9, GivenGrows
<1> QED BY <1>1, <1>2

----------------------------------------------------------------------------
(* The theorems of Referrals.                                              *)

\* Without rows, nothing is summed.
LEMMA InitReferrals ==
  ASSUME ReferralsInit
  PROVE  ReferralsIInv
<1> USE DEF ReferralsInit
<1>1. IsFiniteSet({})
  BY FS_EmptySet
<1>2. \A f : SumOver(f, {}) = 0
  BY SumEmpty
<1>3. ReferralsTypeOK
  BY DEF ReferralsTypeOK, Profile, NewProfile, NoCall, NoReward, Account, NewAccount,
         CashOut, NoCashOut, None
<1>4. /\ {r \in CashOuts : cashOut[r].status # None} = {}
      /\ \A u \in Members : Invited(u) = {} /\ RewardsOf(u) = {}
  BY DEF NoCashOut, NoReward, Invited, RewardsOf
<1>5. FinitelyMany
  BY <1>1, <1>4 DEF FinitelyMany
<1>6. ASSUME NEW u \in Members
      PROVE  /\ Earned(Held(u)) = 0 /\ Earned(Ended(u)) = 0
             /\ Earned(Released(u)) = 0 /\ Bonuses(u) = 0
             /\ Withdrawn(u, Open) = 0 /\ Withdrawn(u, {"succeeded"}) = 0
             /\ Tokens(Committed(u)) = 0
  <2>1. Held(u) = {} /\ Ended(u) = {} /\ Released(u) = {} /\ Invited(u) = {}
    BY <1>4 DEF Held, Ended, Released
  <2>2. /\ {r \in Mine(u) : cashOut[r].status \in Open} = {}
        /\ {r \in Mine(u) : cashOut[r].status \in {"succeeded"}} = {}
        /\ Committed(u) = {}
    BY DEF Mine, NoCashOut, Open, None, Committed
  <2> QED BY <1>2, <2>1, <2>2 DEF Earned, Bonuses, Withdrawn, Tokens
<1>7. BucketsBalance
  <2>1. \A u \in Members : buckets[u] = NewAccount
    OBVIOUS
  <2> QED BY <1>6, <2>1 DEF BucketsBalance, NewAccount
<1>8. \A r \in CashOuts : CashOutInv(r)
  BY DEF CashOutInv, NoCashOut, None, Refused
<1>9. \A s \in Sources : RewardInv(s)
  BY DEF RewardInv, NoReward, None
<1> QED BY <1>3, <1>5, <1>6, <1>7, <1>8, <1>9 DEF ReferralsIInv

LEMMA NextReferrals ==
  ASSUME ReferralsIInv, [ReferralsNext]_referralsVars
  PROVE  ReferralsIInv'
<1>1. ReferralsTypeOK' /\ FinitelyMany' /\ BucketsBalance'
  BY ReferralTypes DEF ReferralsIInv
<1>2. ASSUME NEW q \in CashOuts PROVE CashOutInv(q)'
  BY CashOutKeeps DEF ReferralsIInv
<1>3. ASSUME NEW s \in Sources PROVE RewardInv(s)'
  BY RewardKeeps DEF ReferralsIInv
<1>4. ASSUME NEW u \in Members
      PROVE  Tokens(Committed(u))' <= Bonuses(u)' + Earned(Released(u))'
  BY <1>1, <1>3, ReferralBudget
<1> QED BY <1>1, <1>2, <1>3, <1>4 DEF ReferralsIInv

LEMMA ReferralInvariant == ReferralsSpec => []ReferralsIInv
<1>1. ReferralsInit => ReferralsIInv
  BY InitReferrals
<1>2. ReferralsIInv /\ [ReferralsNext]_referralsVars => ReferralsIInv'
  BY NextReferrals
<1> QED BY <1>1, <1>2, PTL DEF ReferralsSpec

\* The rows of the referral tables stay well typed; in particular no bucket but
\* the available one ever goes below zero (the CHECKs of AddReferralProgram).
THEOREM ReferralsTyped == ReferralsSpec => []ReferralsTypeOK
<1>1. ReferralsIInv => ReferralsTypeOK
  BY DEF ReferralsIInv
<1> QED BY <1>1, ReferralInvariant, PTL

\* The four buckets of every account say what its rewards, bonuses and
\* withdrawals say.
THEOREM ReferralsBalance == ReferralsSpec => []BucketsBalance
<1>1. ReferralsIInv => BucketsBalance
  BY DEF ReferralsIInv
<1> QED BY <1>1, ReferralInvariant, PTL

\* Nobody is paid more tokens than bonuses and ended holds gave, but for
\* payments that were refused first.
THEOREM ReferralsWithinRewards == ReferralsSpec => []PaidWithinRewards
<1>1. ReferralsIInv => PaidWithinRewards
  <2> SUFFICES ASSUME ReferralsIInv, NEW u \in Members
               PROVE  Tokens({r \in Mine(u) : /\ outcome[r] = "succeeded"
                                                  /\ told[r] \cap Refused = {}})
                        <= Bonuses(u) + Earned(Released(u))
    BY DEF PaidWithinRewards
  <2> DEFINE f == [q \in CashOuts |-> cashOut[q].tokens]
             S == {r \in Mine(u) : /\ outcome[r] = "succeeded"
                                      /\ told[r] \cap Refused = {}}
             T == Committed(u)
  <2> USE DEF ReferralsIInv
  <2>1. S \subseteq T /\ T \subseteq CashOuts
    <3>1. ASSUME NEW r \in S PROVE cashOut[r].status \in Open \cup {"succeeded"}
      <4>1. /\ CashOutInv(r) /\ outcome[r] # None /\ told[r] \cap Refused = {}
            /\ cashOut[r].status \in Statuses \cup {None}
        BY DEF Mine, None, ReferralsTypeOK, CashOut
      <4> QED BY <4>1 DEF CashOutInv, Statuses, Terminal
    <3> QED BY <3>1 DEF Committed, Mine
  <2>2. IsFiniteSet(T)
    <3>1. T \subseteq {q \in CashOuts : cashOut[q].status # None}
      BY DEF Committed, Mine, Open, None
    <3> QED BY <3>1, FS_Subset DEF FinitelyMany
  <2>3. \A q \in CashOuts : f[q] \in Nat
    BY DEF ReferralsTypeOK, CashOut
  <2>4. Tokens(S) = SumOver(f, S) /\ Tokens(T) = SumOver(f, T)
    BY DEF Tokens
  <2>5. Tokens(T) <= Bonuses(u) + Earned(Released(u))
    OBVIOUS
  <2>6. Bonuses(u) \in Nat /\ Earned(Released(u)) \in Nat
    BY SumsNat
  <2> HIDE DEF f, S, T
  <2>7. SumOver(f, S) \in Nat /\ SumOver(f, S) <= SumOver(f, T) /\ SumOver(f, T) \in Nat
    <3>1. /\ \A x \in T : f[x] \in Nat
          /\ \A x \in S : f[x] \in Nat /\ (f[x] # 0 => x \in T /\ f[x] <= f[x])
      BY <2>1, <2>3
    <3> QED BY <2>2, <3>1, SumGrows, SumIsNat
  <2>8. Tokens(S) <= Bonuses(u) + Earned(Released(u))
    BY <2>4, <2>5, <2>6, <2>7
  <2> QED BY <2>8 DEF S
<1> QED BY <1>1, ReferralInvariant, PTL
=============================================================================
