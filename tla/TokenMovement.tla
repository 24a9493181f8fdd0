--------------------------- MODULE TokenMovement ---------------------------
(***************************************************************************)
(* The arithmetic of wallet-origin.ts, on hundredths of a token: every     *)
(* wallet row holds a total balance and, inside it, the purchased (cash    *)
(* redeemable) part; tokens reserved for a withdrawal are in neither.      *)
(* A movement is signed; a debit spends reward tokens                      *)
(* first unless it reserves a cash withdrawal (purchasedOnly).             *)
(***************************************************************************)
EXTENDS Integers

\* A wallet row as far as a movement reads or writes it.
Wallet == [balance : Nat, withdrawable : Nat, reserved : Int, blocked : BOOLEAN]

Coherent(w) == 0 <= w.withdrawable /\ w.withdrawable <= w.balance

\* The larger of two integers, for the spill of a debit over the rewards.
Larger(a, b) == IF a >= b THEN a ELSE b
Smaller(a, b) == IF a <= b THEN a ELSE b

\* Math.max(0, -delta - (total - purchased)): what a debit of n takes from
\* the purchased part once the rewards are exhausted.
PurchasedSpill(w, n) == Larger(0, n - (w.balance - w.withdrawable))

\* The part of a signed movement that touches purchased tokens.
PurchasedDelta(w, delta, credit, purchasedOnly) ==
  IF delta >= 0 THEN credit
  ELSE IF purchasedOnly THEN delta ELSE -PurchasedSpill(w, -delta)

\* Mutant: a withdrawal checks the total balance, not the purchased part.
AllowedOnTotal(w, delta, credit, purchasedOnly) ==
  /\ Coherent(w) /\ delta # 0
  /\ delta < 0 => ~w.blocked /\ w.balance + delta >= 0
  /\ delta > 0 => 0 <= credit /\ credit <= delta

\* Mutant: a blocked wallet may still be debited.
AllowedWhenBlocked(w, delta, credit, purchasedOnly) ==
  /\ Coherent(w) /\ delta # 0
  /\ delta < 0 => /\ w.balance + delta >= 0
                  /\ purchasedOnly => w.withdrawable + delta >= 0
  /\ delta > 0 => 0 <= credit /\ credit <= delta

\* applyTokenMovement throws, and the caller's transaction rolls back, unless
\* this holds.
MovementAllowed(w, delta, credit, purchasedOnly) ==
  /\ Coherent(w)
  /\ delta # 0
  /\ delta < 0 => /\ ~w.blocked
                  /\ w.balance + delta >= 0
                  /\ purchasedOnly => w.withdrawable + delta >= 0
  /\ delta > 0 => 0 <= credit /\ credit <= delta

\* The wallet row after an allowed movement.
Moved(w, delta, credit, purchasedOnly) ==
  [w EXCEPT !.balance = @ + delta,
            !.withdrawable = @ + PurchasedDelta(w, delta, credit, purchasedOnly)]

\* refundablePurchasedTokens: purchased tokens come back first, never more of
\* them than the debit took and earlier refunds have not yet restored.
RefundAllowed(debit, refunded, n) == n <= debit - refunded

RefundablePurchased(purchasedDebit, purchasedRefunded, n) ==
  Larger(0, Smaller(n, purchasedDebit - purchasedRefunded))
=============================================================================
