------------------------- MODULE TokenRides_proofs -------------------------
(***************************************************************************)
(* Theorems about TokenRides, for any rides, requests, modes and amounts:  *)
(* the types, that tokens come back within what was taken, that an entry   *)
(* of the ledger is final, and that what is earned or marked as paid was   *)
(* paid.                                                                   *)
(***************************************************************************)
EXTENDS TokenRides, FiniteSetTheorems, TLAPS

----------------------------------------------------------------------------
(* Calls.                                                                  *)

Working == [pc : Steps, b : Bookings, row : Row, stop : BOOLEAN]
Becomes(k, work) == call' = [call EXCEPT ![k] = work]

LEMMA Amounts ==
  /\ Fare \in Nat /\ Reduced \in Nat /\ 0 < Reduced /\ Reduced < Fare
  /\ Purchase \in Nat /\ 0 < Purchase
  BY TokenRidesAssumption

\* A request at one of its steps knows its booking and a row of it.
LEMMA CallOn ==
  ASSUME TypeOK, NEW k \in Calls, call[k].pc \in Steps
  PROVE  call[k] \in Working /\ call[k] # Idle
  BY DEF TypeOK, Call, Idle, Steps, Working

LEMMA IdleIsCall == Idle \in Call /\ Working \subseteq Call
  BY DEF Call, Working

\* Where a request may go, and what it then has in hand.
LEMMA Onward ==
  ASSUME TypeOK, NEW k \in Calls, call[k].pc \in Steps
  PROVE  /\ \A pc \in Steps : Goes(k, pc) =>
              \E work \in Working : /\ Becomes(k, work)
                                    /\ work.b = call[k].b /\ work.row = call[k].row
         /\ \A pc \in Steps, row \in Row : GoesWith(k, pc, row) =>
              \E work \in Working : /\ Becomes(k, work)
                                    /\ work.b = call[k].b /\ work.row = row
<1>0. call[k] \in Working /\ call \in [Calls -> Call]
  BY CallOn DEF TypeOK
<1>1. ASSUME NEW pc \in Steps, Goes(k, pc)
      PROVE  \E work \in Working : /\ Becomes(k, work)
                                   /\ work.b = call[k].b /\ work.row = call[k].row
  <2> DEFINE work == [call[k] EXCEPT !.pc = pc]
  <2>1. work \in Working /\ work.b = call[k].b /\ work.row = call[k].row
    BY <1>0 DEF Working
  <2>2. Becomes(k, work)
    BY <1>0, <1>1 DEF Goes, Becomes
  <2> QED  BY <2>1, <2>2
<1>2. ASSUME NEW pc \in Steps, NEW row \in Row, GoesWith(k, pc, row)
      PROVE  \E work \in Working : /\ Becomes(k, work)
                                   /\ work.b = call[k].b /\ work.row = row
  <2> DEFINE there == [call[k] EXCEPT !.pc = pc]
             work == [there EXCEPT !.row = row]
  <2>1. there \in Working /\ there.b = call[k].b
    BY <1>0 DEF Working
  <2>2. call' = [call EXCEPT ![k] = work]
    BY <1>0, <1>2 DEF GoesWith
  <2> HIDE DEF there
  <2>3. work \in Working /\ work.b = there.b /\ work.row = row
    BY <2>1 DEF Working
  <2> QED  BY <2>1, <2>2, <2>3 DEF Becomes
<1> QED  BY <1>1, <1>2

----------------------------------------------------------------------------
(* The wallet.                                                             *)

LEMMA CreditMoves ==
  ASSUME NEW w \in Wallet, Coherent(w), NEW n \in Nat, NEW credit \in Nat, credit <= n
  PROVE  Moved(w, n, credit, FALSE) \in Wallet /\ Coherent(Moved(w, n, credit, FALSE))
<1>1. PurchasedDelta(w, n, credit, FALSE) = credit
  BY DEF PurchasedDelta
<1>2. Moved(w, n, credit, FALSE) =
        [w EXCEPT !.balance = w.balance + n, !.withdrawable = w.withdrawable + credit]
  BY <1>1 DEF Moved, Wallet
<1>3. w.balance \in Nat /\ w.withdrawable \in Nat /\ w.withdrawable <= w.balance
  BY DEF Wallet, Coherent
<1>4. /\ w.balance + n \in Nat /\ w.withdrawable + credit \in Nat
      /\ w.withdrawable + credit <= w.balance + n
  BY <1>3
<1> DEFINE total == w.balance + n
           part == w.withdrawable + credit
           new == [w EXCEPT !.balance = total, !.withdrawable = part]
<1>5. Moved(w, n, credit, FALSE) = new
  BY <1>2
<1>6. total \in Nat /\ part \in Nat /\ part <= total
  BY <1>4
<1> HIDE DEF total, part
<1>7. new \in Wallet /\ new.balance = total /\ new.withdrawable = part
  BY <1>6 DEF Wallet
<1> HIDE DEF new
<1>8. Coherent(new)
  BY <1>6, <1>7 DEF Coherent
<1> QED  BY <1>5, <1>7, <1>8

LEMMA DebitMoves ==
  ASSUME NEW w \in Wallet, Coherent(w), NEW n \in Nat, 0 < n,
         MovementAllowed(w, -n, 0, FALSE)
  PROVE  /\ Moved(w, -n, 0, FALSE) \in Wallet /\ Coherent(Moved(w, -n, 0, FALSE))
         /\ PurchasedSpill(w, n) \in Nat /\ PurchasedSpill(w, n) <= n
<1> DEFINE spill == PurchasedSpill(w, n)
           total == w.balance + (-n)
           part == w.withdrawable + (-spill)
           new == [w EXCEPT !.balance = total, !.withdrawable = part]
<1>1. w.balance \in Nat /\ w.withdrawable \in Nat /\ w.withdrawable <= w.balance
  BY DEF Wallet, Coherent
<1>2. -n < 0 /\ w.balance + (-n) >= 0
  BY <1>1 DEF MovementAllowed
<1>3. /\ spill \in Nat /\ spill <= n /\ spill <= w.withdrawable
      /\ spill >= n - (w.balance - w.withdrawable)
  BY <1>1, <1>2 DEF PurchasedSpill, Larger
<1>4. total \in Nat /\ part \in Nat /\ part <= total
  <2> HIDE DEF spill
  <2> QED  BY <1>1, <1>2, <1>3
<1>5. PurchasedDelta(w, -n, 0, FALSE) = -spill
  <2>1. -(-n) = n  OBVIOUS
  <2> QED  BY <1>2, <2>1 DEF PurchasedDelta
<1>6. Moved(w, -n, 0, FALSE) = new
  BY <1>5 DEF Moved, Wallet
<1> HIDE DEF total, part
<1>7. new \in Wallet /\ new.balance = total /\ new.withdrawable = part
  BY <1>4 DEF Wallet
<1> HIDE DEF new, spill
<1>8. Coherent(new)
  BY <1>4, <1>7 DEF Coherent
<1> QED  BY <1>3, <1>6, <1>7, <1>8 DEF spill

\* The wallet and the ledger after a step of the wallet service.
WalletTyped == wallet' \in Wallet /\ Coherent(wallet')

\* What the ledger of a booking satisfies.
EntriesTrue(e) ==
  /\ RefundedPurchased(e) <= e.debitPurchased
  /\ e.refund > 0 => Refunded(e) <= e.debit
  /\ e.debit = 0 => e.debitPurchased = 0 /\ e.refund = 0

LedgerTrue == \A b \in Bookings : EntriesTrue(ledger[b])

\* Nothing that was paid is unpaid.
Grows ==
  \A b \in Bookings :
    /\ ledger[b].debit > 0 => ledger'[b].debit > 0
    /\ payment[b].status = "succeeded" => payment'[b].status = "succeeded"

LedgerSafe ==
  /\ WalletTyped /\ ledger' \in [Bookings -> Entries] /\ LedgerTrue'
  /\ \A b \in Bookings : ledger[b].debit > 0 => ledger'[b].debit > 0

LEMMA LedgerIs == IInv => LedgerTrue
  BY DEF IInv, LedgerTrue, EntriesTrue, ReturnedWithinDebit, DebitFirst

\* One booking's entries change.
LEMMA LedgerChange ==
  ASSUME TypeOK, LedgerTrue, NEW b \in Bookings, NEW e \in Entries, WalletTyped,
         ledger' = [ledger EXCEPT ![b] = e], EntriesTrue(e),
         ledger[b].debit > 0 => e.debit > 0
  PROVE  LedgerSafe
<1>1. ledger' \in [Bookings -> Entries]
  BY DEF TypeOK
<1>2. \A c \in Bookings : ledger'[c] = IF c = b THEN e ELSE ledger[c]
  BY DEF TypeOK
<1>3. LedgerTrue'
  <2> SUFFICES ASSUME NEW c \in Bookings PROVE EntriesTrue(ledger'[c])
    BY DEF LedgerTrue, EntriesTrue, Refunded, RefundedPurchased
  <2> QED  BY <1>2 DEF LedgerTrue
<1> QED  BY <1>1, <1>2, <1>3 DEF LedgerSafe

LEMMA LedgerKept ==
  ASSUME TypeOK, LedgerTrue, WalletTyped, ledger' = ledger
  PROVE  LedgerSafe
  BY DEF LedgerSafe, TypeOK, LedgerTrue, EntriesTrue, Refunded, RefundedPurchased

LEMMA PaysSafe ==
  ASSUME TypeOK, LedgerTrue, NEW b \in Bookings, NEW fare \in Nat, 0 < fare,
         ~PayRefused(b, fare), Pays(b, fare)
  PROVE  LedgerSafe /\ ledger'[b].debit > 0
<1>0. wallet \in Wallet /\ Coherent(wallet) /\ ledger[b] \in Entries /\ EntriesTrue(ledger[b])
  BY DEF TypeOK, LedgerTrue
<1>1. CASE ledger[b].debit > 0
  BY <1>0, <1>1, LedgerKept DEF Pays, WalletUnchanged, WalletTyped
<1>2. CASE ~(ledger[b].debit > 0)
  <2> DEFINE spill == PurchasedSpill(wallet, fare)
             e == [ledger[b] EXCEPT !.debit = fare, !.debitPurchased = spill]
  <2>1. ledger[b].debit = 0 /\ ledger[b].refund = 0
    <3>1. ledger[b].debit \in Nat /\ ledger[b].refund \in Nat
      BY <1>0 DEF Entries
    <3>2. ~(ledger[b].refund > 0)
      BY DEF PayRefused
    <3> QED  BY <1>2, <3>1, <3>2
  <2>2. MovementAllowed(wallet, -fare, 0, FALSE)
    BY <2>1 DEF PayRefused
  <2>3. WalletTyped /\ spill \in Nat
    BY <1>0, <1>2, <2>2, DebitMoves DEF Pays, WalletTyped
  <2>4. ledger' = [ledger EXCEPT ![b] = e]
    BY <1>0, <1>2 DEF Pays, TypeOK
  <2> HIDE DEF spill
  <2>5. /\ e \in Entries /\ e.debit = fare /\ e.debitPurchased = spill
        /\ e.refund = ledger[b].refund /\ e.adjust = ledger[b].adjust
        /\ e.refundPurchased = ledger[b].refundPurchased
        /\ e.adjustPurchased = ledger[b].adjustPurchased
    BY <1>0, <2>3 DEF Entries
  <2> HIDE DEF e
  <2>6. EntriesTrue(e)
    <3>1. /\ ledger[b].refundPurchased + ledger[b].adjustPurchased <= 0
      BY <1>0, <2>1 DEF EntriesTrue, RefundedPurchased
    <3>2. ledger[b].refundPurchased \in Nat /\ ledger[b].adjustPurchased \in Nat
      BY <1>0 DEF Entries
    <3> QED  BY <2>1, <2>3, <2>5, <3>1, <3>2 DEF EntriesTrue, RefundedPurchased, Refunded
  <2>7. LedgerSafe
    BY <2>3, <2>4, <2>5, <2>6, LedgerChange
  <2>8. ledger'[b].debit > 0
    BY <2>4, <2>5 DEF TypeOK
  <2> QED  BY <2>7, <2>8
<1> QED  BY <1>1, <1>2

LEMMA CreditOfBounds ==
  ASSUME TypeOK, LedgerTrue, NEW b \in Bookings, NEW n \in Nat
  PROVE  /\ CreditOf(b, n) \in Nat /\ CreditOf(b, n) <= n
         /\ RefundedPurchased(ledger[b]) + CreditOf(b, n) <= ledger[b].debitPurchased
<1>1. ledger[b] \in Entries /\ EntriesTrue(ledger[b])
  BY DEF TypeOK, LedgerTrue
<1>2. /\ ledger[b].debitPurchased \in Nat /\ RefundedPurchased(ledger[b]) \in Nat
      /\ RefundedPurchased(ledger[b]) <= ledger[b].debitPurchased
  BY <1>1 DEF Entries, EntriesTrue, RefundedPurchased
<1> QED  BY <1>2 DEF CreditOf, RefundablePurchased, Larger, Smaller

LEMMA RefundsSafe ==
  ASSUME TypeOK, LedgerTrue, NEW b \in Bookings, ledger[b].refund = 0, LeftToRefund(b) > 0,
         Refunds(b)
  PROVE  LedgerSafe
<1> DEFINE n == LeftToRefund(b)
           part == CreditOf(b, n)
           e == [ledger[b] EXCEPT !.refund = n, !.refundPurchased = part]
<1>0. wallet \in Wallet /\ Coherent(wallet) /\ ledger[b] \in Entries /\ EntriesTrue(ledger[b])
  BY DEF TypeOK, LedgerTrue
<1>1. n \in Nat /\ n = ledger[b].debit - ledger[b].adjust
  BY <1>0 DEF LeftToRefund, Refunded, Entries
<1>2. /\ part \in Nat /\ part <= n
      /\ RefundedPurchased(ledger[b]) + part <= ledger[b].debitPurchased
  BY <1>1, CreditOfBounds
<1>3. wallet' = Moved(wallet, n, part, FALSE) /\ ledger' = [ledger EXCEPT ![b] = e]
  BY DEF Refunds, TypeOK
<1> HIDE DEF n, part
<1>4. WalletTyped
  BY <1>0, <1>1, <1>2, <1>3, CreditMoves DEF WalletTyped
<1>5. /\ e \in Entries /\ e.refund = n /\ e.refundPurchased = part
      /\ e.debit = ledger[b].debit /\ e.debitPurchased = ledger[b].debitPurchased
      /\ e.adjust = ledger[b].adjust
      /\ e.adjustPurchased = ledger[b].adjustPurchased
  BY <1>0, <1>1, <1>2 DEF Entries
<1> HIDE DEF e
<1>6. EntriesTrue(e)
  <2>1. /\ ledger[b].refundPurchased \in Nat /\ ledger[b].adjustPurchased \in Nat
        /\ ledger[b].adjust \in Nat /\ ledger[b].debit \in Nat
        /\ ledger[b].debitPurchased \in Nat
    BY <1>0 DEF Entries
  <2>2. n > 0
    BY DEF n
  <2>3. ledger[b].adjustPurchased + part <= ledger[b].debitPurchased
    BY <1>2, <2>1 DEF RefundedPurchased
  <2> QED  BY <1>1, <1>2, <1>5, <2>1, <2>2, <2>3 DEF EntriesTrue, RefundedPurchased, Refunded
<1> QED  BY <1>3, <1>4, <1>5, <1>6, LedgerChange

LEMMA AdjustsSafe ==
  ASSUME TypeOK, LedgerTrue, NEW b \in Bookings, NEW n \in Nat, ~AdjustRefused(b, n),
         Adjusts(b, n)
  PROVE  LedgerSafe
<1>0. wallet \in Wallet /\ Coherent(wallet) /\ ledger[b] \in Entries /\ EntriesTrue(ledger[b])
  BY DEF TypeOK, LedgerTrue
<1>1. CASE ledger[b].adjust > 0
  BY <1>0, <1>1, LedgerKept DEF Adjusts, WalletUnchanged, WalletTyped
<1>2. CASE ~(ledger[b].adjust > 0)
  <2> DEFINE part == CreditOf(b, n)
             e == [ledger[b] EXCEPT !.adjust = n, !.adjustPurchased = part]
  <2>1. /\ part \in Nat /\ part <= n
        /\ RefundedPurchased(ledger[b]) + part <= ledger[b].debitPurchased
    BY CreditOfBounds
  <2>2. wallet' = Moved(wallet, n, part, FALSE) /\ ledger' = [ledger EXCEPT ![b] = e]
    BY <1>2 DEF Adjusts, TypeOK
  <2> HIDE DEF part
  <2>3. WalletTyped
    BY <1>0, <2>1, <2>2, CreditMoves DEF WalletTyped
  <2>4. /\ e \in Entries /\ e.adjust = n /\ e.adjustPurchased = part
        /\ e.debit = ledger[b].debit /\ e.debitPurchased = ledger[b].debitPurchased
        /\ e.refund = ledger[b].refund
        /\ e.refundPurchased = ledger[b].refundPurchased
    BY <1>0, <2>1 DEF Entries
  <2> HIDE DEF e
  <2>5. EntriesTrue(e)
    <3>1. /\ ledger[b].refundPurchased \in Nat /\ ledger[b].adjustPurchased \in Nat
          /\ ledger[b].adjust = 0 /\ ledger[b].debit \in Nat /\ ledger[b].refund \in Nat
          /\ ledger[b].debitPurchased \in Nat
      BY <1>0, <1>2 DEF Entries
    <3>2. ledger[b].debit > 0 => n <= ledger[b].debit - ledger[b].refund
      <4>1. Refunded(ledger[b]) = ledger[b].refund
        BY <3>1 DEF Refunded
      <4> QED  BY <3>1, <4>1 DEF AdjustRefused, RefundAllowed
    <3>3. ledger[b].debit = 0 => ledger[b].debitPurchased = 0 /\ ledger[b].refund = 0
      BY <1>0 DEF EntriesTrue
    <3>4. ledger[b].refundPurchased + part <= ledger[b].debitPurchased
      BY <2>1, <3>1 DEF RefundedPurchased
    <3> QED  BY <2>1, <2>4, <3>1, <3>2, <3>3, <3>4 DEF EntriesTrue, RefundedPurchased, Refunded
  <2> QED  BY <2>2, <2>3, <2>4, <2>5, LedgerChange
<1> QED  BY <1>1, <1>2

LEMMA RewardedSafe ==
  ASSUME TypeOK, NEW b \in Bookings, NEW parts \in SUBSET {"base", "bonus"}, Rewarded(b, parts)
  PROVE  /\ WalletTyped /\ ledger' = ledger
         /\ rewards' \in [Bookings -> SUBSET {"base", "bonus"}]
<1> DEFINE new == parts \ rewards[b]
           n == Cardinality(new)
<1>1. n \in Nat
  <2>1. IsFiniteSet({"base", "bonus"})
    <3>1. IsFiniteSet({"base"}) /\ {"base"} \cup {"bonus"} = {"base", "bonus"}
      BY FS_Singleton
    <3> QED  BY <3>1, FS_AddElement
  <2> QED  BY <2>1, FS_Subset, FS_CardinalityType
<1>2. wallet' = [wallet EXCEPT !.balance = wallet.balance + n] /\ ledger' = ledger
      /\ rewards' = [rewards EXCEPT ![b] = rewards[b] \cup parts]
  BY DEF Rewarded, TypeOK
<1> HIDE DEF n
<1>3. wallet.balance \in Nat /\ wallet.withdrawable <= wallet.balance /\ 0 <= wallet.withdrawable
      /\ wallet \in Wallet /\ wallet.withdrawable \in Nat
  BY DEF TypeOK, Wallet, Coherent
<1> DEFINE total == wallet.balance + n
<1>4. total \in Nat /\ wallet.withdrawable <= total
  BY <1>1, <1>3
<1> HIDE DEF total
<1>5. [wallet EXCEPT !.balance = total] \in Wallet
      /\ [wallet EXCEPT !.balance = total].balance = total
      /\ [wallet EXCEPT !.balance = total].withdrawable = wallet.withdrawable
  BY <1>3, <1>4 DEF Wallet
<1>6. WalletTyped
  BY <1>2, <1>3, <1>4, <1>5 DEF WalletTyped, Coherent, total
<1> QED  BY <1>2, <1>6 DEF TypeOK

----------------------------------------------------------------------------
(* Steps.                                                                  *)

RowsTrue == \A b \in Bookings : RowTrue(b, booking[b])

\* What a step leaves in the tables, and in the hands of a request.
TablesSafe ==
  /\ LedgerSafe
  /\ rewards' \in [Bookings -> SUBSET {"base", "bonus"}]
  /\ booking' \in [Bookings -> Row] /\ RowsTrue'
  /\ payment' \in [Bookings -> Payment]
  /\ \A b \in Bookings : payment[b].status = "succeeded" => payment'[b].status = "succeeded"
  /\ stop' \in [Bookings -> Stop]
  /\ earned' \in [Bookings -> {0, Reduced, Fare}] /\ EarningBacked'

StepIsSafe(k) ==
  /\ TablesSafe /\ repair' = repair
  /\ \/ Becomes(k, Idle)
     \/ \E work \in Working : Becomes(k, work) /\ RowTrue(work.b, work.row)'

Facts(k) ==
  /\ TypeOK /\ LedgerTrue /\ RowsTrue /\ EarningBacked
  /\ call[k] # Idle => RowTrue(call[k].b, call[k].row)

LEMMA FactsHold == \A k \in Calls : IInv => Facts(k)
  BY LedgerIs DEF IInv, Facts, RowsTrue

\* A row that is saved is as true as the one it replaces was.
LEMMA SavesSafe ==
  ASSUME TypeOK, RowsTrue, NEW b \in Bookings, NEW row \in Row, Saves(b, row),
         UNCHANGED <<ledger, payment>>, RowTrue(b, row)
  PROVE  booking' \in [Bookings -> Row] /\ RowsTrue'
<1>1. booking' \in [Bookings -> Row]
  BY DEF Saves, TypeOK
<1>2. \A c \in Bookings : booking'[c] = IF c = b THEN row ELSE booking[c]
  BY DEF Saves, TypeOK
<1>3. \A c \in Bookings : RowTrue(c, booking'[c])
  BY <1>2 DEF RowsTrue
<1>4. RowsTrue'
  BY <1>3 DEF RowsTrue, RowTrue, Succeeded
<1> QED  BY <1>1, <1>4

LEMMA RowsKept ==
  ASSUME TypeOK, RowsTrue, UNCHANGED <<ledger, payment, booking>>
  PROVE  booking' \in [Bookings -> Row] /\ RowsTrue'
  BY DEF TypeOK, RowsTrue, RowTrue, Succeeded

\* Steps that neither touch the ledger nor a payment nor an earning.
LEMMA QuietSafe ==
  ASSUME NEW k \in Calls, Facts(k), WalletTyped,
         UNCHANGED <<ledger, payment, earned, repair>>,
         rewards' \in [Bookings -> SUBSET {"base", "bonus"}],
         stop' \in [Bookings -> Stop],
         booking' \in [Bookings -> Row], RowsTrue',
         \/ Becomes(k, Idle)
         \/ \E work \in Working : Becomes(k, work) /\ RowTrue(work.b, work.row)
  PROVE  StepIsSafe(k)
<1>1. LedgerSafe
  BY LedgerKept DEF Facts
<1>2. EarningBacked'
  BY DEF Facts, EarningBacked
<1>3. \A work : RowTrue(work.b, work.row) => RowTrue(work.b, work.row)'
  BY DEF RowTrue, Succeeded
<1> QED  BY <1>1, <1>2, <1>3 DEF StepIsSafe, TablesSafe, Facts, TypeOK

LEMMA WalletKept ==
  ASSUME TypeOK, wallet' = wallet
  PROVE  WalletTyped
  BY DEF TypeOK, WalletTyped

LEMMA RowsOf ==
  ASSUME NEW row \in Row
  PROVE  /\ [row EXCEPT !.status = "completed"] \in Row
         /\ [row EXCEPT !.status = "cancelled"] \in Row
         /\ [row EXCEPT !.fare = Reduced] \in Row
         /\ \A b : RowTrue(b, row) =>
              /\ RowTrue(b, [row EXCEPT !.status = "completed"])
              /\ RowTrue(b, [row EXCEPT !.status = "cancelled"])
              /\ RowTrue(b, [row EXCEPT !.fare = Reduced])
<1>1. /\ [row EXCEPT !.status = "completed"] \in Row
      /\ [row EXCEPT !.status = "cancelled"] \in Row
      /\ [row EXCEPT !.fare = Reduced] \in Row
  BY DEF Row
<1>2. ASSUME NEW b, RowTrue(b, row)
      PROVE  /\ RowTrue(b, [row EXCEPT !.status = "completed"])
             /\ RowTrue(b, [row EXCEPT !.status = "cancelled"])
             /\ RowTrue(b, [row EXCEPT !.fare = Reduced])
  BY <1>2 DEF Row, RowTrue, Succeeded
<1> QED  BY <1>1, <1>2

\* A row that does not say it is paid.
LEMMA UnpaidRow ==
  ASSUME NEW row \in Row, NEW b, NEW paid \in {None, "pending", "cancelled"}
  PROVE  /\ [row EXCEPT !.paid = paid] \in Row
         /\ RowTrue(b, [row EXCEPT !.paid = paid])
  BY DEF Row, RowTrue, Succeeded, None

LEMMA CallFacts ==
  ASSUME NEW k \in Calls, Facts(k), call[k].pc \in Steps
  PROVE  /\ call[k].b \in Bookings /\ call[k].row \in Row
         /\ RowTrue(call[k].b, call[k].row) /\ booking[call[k].b] \in Row
         /\ RowTrue(call[k].b, booking[call[k].b])
  BY CallOn DEF Facts, Working, TypeOK, RowsTrue

\* A request that goes on with the row it has, or with another.
LEMMA GoesSafely ==
  ASSUME NEW k \in Calls, Facts(k), call[k].pc \in Steps
  PROVE  /\ \A pc \in Steps : Goes(k, pc) =>
              \E work \in Working : Becomes(k, work) /\ RowTrue(work.b, work.row)
         /\ \A pc \in Steps, row \in Row : GoesWith(k, pc, row) /\ RowTrue(call[k].b, row) =>
              \E work \in Working : Becomes(k, work) /\ RowTrue(work.b, work.row)
         /\ Ends(k) => Becomes(k, Idle)
         /\ Settled(k) => \/ Becomes(k, Idle)
                          \/ \E work \in Working : Becomes(k, work) /\ RowTrue(work.b, work.row)
<1>0. TypeOK /\ RowTrue(call[k].b, call[k].row)
  BY CallOn DEF Facts
<1>1. ASSUME NEW pc \in Steps, Goes(k, pc)
      PROVE  \E work \in Working : Becomes(k, work) /\ RowTrue(work.b, work.row)
  BY <1>0, <1>1, Onward
<1>2. ASSUME NEW pc \in Steps, NEW row \in Row, GoesWith(k, pc, row), RowTrue(call[k].b, row)
      PROVE  \E work \in Working : Becomes(k, work) /\ RowTrue(work.b, work.row)
  BY <1>0, <1>2, Onward
<1>3. Ends(k) => Becomes(k, Idle)
  BY DEF Ends, Becomes
<1>4. Settled(k) => Goes(k, "settled") \/ Ends(k)
  BY DEF Settled
<1>5. "settled" \in Steps  BY DEF Steps
<1> QED  BY <1>1, <1>2, <1>3, <1>4, <1>5

\* Steps that reward.
LEMMA RewardSafe ==
  ASSUME NEW k \in Calls, Facts(k), Reward(k) \/ Finalize(k) \/ Bonus(k)
  PROVE  StepIsSafe(k)
<1>0. call[k].pc \in Steps
  BY DEF Reward, Finalize, Bonus, At, Steps
<1>1. call[k].b \in Bookings /\ TypeOK /\ RowsTrue
  BY <1>0, CallFacts DEF Facts
<1>2. UNCHANGED <<booking, payment, stop, earned, repair>>
  BY DEF Reward, Finalize, Bonus
<1>3. PICK parts \in SUBSET {"base", "bonus"} : Rewarded(call[k].b, parts)
  BY DEF Reward, Finalize, Bonus, BaseOf
<1>4. /\ WalletTyped /\ ledger' = ledger
      /\ rewards' \in [Bookings -> SUBSET {"base", "bonus"}]
  BY <1>1, <1>3, RewardedSafe
<1>5. \/ \E pc \in Steps : Goes(k, pc)
      \/ Settled(k)
  BY DEF Reward, Finalize, Bonus, Steps
<1>6. \/ Becomes(k, Idle)
      \/ \E work \in Working : Becomes(k, work) /\ RowTrue(work.b, work.row)
  BY <1>0, <1>5, GoesSafely
<1>7. booking' \in [Bookings -> Row] /\ RowsTrue'
  BY <1>1, <1>2, <1>4, RowsKept
<1> QED  BY <1>1, <1>2, <1>4, <1>6, <1>7, QuietSafe DEF TypeOK

\* Steps that save a row and change nothing else.
LEMMA SaveSafe ==
  ASSUME NEW k \in Calls, Facts(k), call[k].pc \in Steps,
         NEW row \in Row, RowTrue(call[k].b, row), Saves(call[k].b, row),
         UNCHANGED <<wallet, ledger, rewards, payment, stop, earned, repair>>,
         \/ Ends(k) \/ \E pc \in Steps : Goes(k, pc)
         \/ \E pc \in Steps : GoesWith(k, pc, row)
  PROVE  StepIsSafe(k)
<1>1. TypeOK /\ RowsTrue /\ call[k].b \in Bookings
  BY CallFacts DEF Facts
<1>2. booking' \in [Bookings -> Row] /\ RowsTrue'
  BY <1>1, SavesSafe
<1>3. \/ Becomes(k, Idle)
      \/ \E work \in Working : Becomes(k, work) /\ RowTrue(work.b, work.row)
  BY GoesSafely
<1> QED  BY <1>1, <1>2, <1>3, QuietSafe, WalletKept DEF TypeOK

LEMMA SavingSteps ==
  ASSUME NEW k \in Calls, Facts(k),
         \/ SaveSettled(k) \/ SaveCash(k) \/ Defer(k) \/ SaveMode(k) \/ SavePay(k)
         \/ ApplyPayment(k) \/ SaveCancelled(k) \/ SaveRefunded(k) \/ SaveStop(k)
         \/ CompleteStop(k) \/ Dropoff(k)
  PROVE  StepIsSafe(k)
<1>0. call[k].pc \in Steps
  BY DEF SaveSettled, SaveCash, Defer, SaveMode, SavePay, ApplyPayment, SaveCancelled,
     SaveRefunded, SaveStop, CompleteStop, Dropoff, At, Steps
<1>1. /\ call[k].b \in Bookings /\ call[k].row \in Row
      /\ RowTrue(call[k].b, call[k].row) /\ booking[call[k].b] \in Row
      /\ RowTrue(call[k].b, booking[call[k].b])
  BY <1>0, CallFacts
<1>2. UNCHANGED <<wallet, ledger, rewards, payment, stop, earned, repair>>
  BY DEF SaveSettled, SaveCash, Defer, SaveMode, SavePay, ApplyPayment, SaveCancelled,
     SaveRefunded, SaveStop, CompleteStop, Dropoff
<1>3. CASE \/ SaveSettled(k) \/ SaveMode(k) \/ SavePay(k) \/ ApplyPayment(k)
           \/ SaveCancelled(k) \/ SaveRefunded(k) \/ SaveStop(k)
  <2>1. Saves(call[k].b, call[k].row)
    BY <1>3 DEF SaveSettled, SaveMode, SavePay, ApplyPayment, SaveCancelled,
       SaveRefunded, SaveStop
  <2>2. Ends(k) \/ \E pc \in Steps : Goes(k, pc)
    BY <1>3 DEF SaveSettled, SaveMode, SavePay, ApplyPayment, SaveCancelled,
       SaveRefunded, SaveStop, Steps
  <2> QED  BY <1>0, <1>1, <1>2, <2>1, <2>2, SaveSafe
<1>4. CASE SaveCash(k)
  <2> DEFINE row == [call[k].row EXCEPT !.paid = None]
  <2>1. row \in Row /\ RowTrue(call[k].b, row)
    BY <1>1, UnpaidRow
  <2>2. Saves(call[k].b, row) /\ GoesWith(k, "finalize", row)
    BY <1>4 DEF SaveCash
  <2> HIDE DEF row
  <2> QED  BY <1>0, <1>2, <2>1, <2>2, SaveSafe DEF Steps
<1>5. CASE Defer(k)
  <2> DEFINE row == [call[k].row EXCEPT !.paid = "pending"]
  <2>1. row \in Row /\ RowTrue(call[k].b, row)
    BY <1>1, UnpaidRow
  <2>2. Saves(call[k].b, row) /\ GoesWith(k, "finalize", row)
    BY <1>5 DEF Defer
  <2> HIDE DEF row
  <2> QED  BY <1>0, <1>2, <2>1, <2>2, SaveSafe DEF Steps
<1>6. CASE CompleteStop(k)
  <2> DEFINE row == [call[k].row EXCEPT !.status = "completed"]
  <2>1. row \in Row /\ RowTrue(call[k].b, row)
    BY <1>1, RowsOf
  <2>2. Saves(call[k].b, row) /\ GoesWith(k, "reward", row)
    BY <1>6 DEF CompleteStop
  <2> HIDE DEF row
  <2> QED  BY <1>0, <1>2, <2>1, <2>2, SaveSafe DEF Steps
<1>7. CASE Dropoff(k)
  <2> DEFINE row == [booking[call[k].b] EXCEPT !.status = "completed"]
             mine == [call[k].row EXCEPT !.status = "completed"]
  <2>1. row \in Row /\ RowTrue(call[k].b, row) /\ mine \in Row /\ RowTrue(call[k].b, mine)
    BY <1>1, RowsOf
  <2>2. Saves(call[k].b, row) /\ GoesWith(k, "reward", mine)
    BY <1>7 DEF Dropoff
  <2> HIDE DEF row, mine
  <2>3. booking' \in [Bookings -> Row] /\ RowsTrue'
    BY <1>1, <1>2, <2>1, <2>2, SavesSafe DEF Facts
  <2>4. \E work \in Working : Becomes(k, work) /\ RowTrue(work.b, work.row)
    BY <1>0, <2>1, <2>2, GoesSafely DEF Steps
  <2> QED  BY <1>2, <2>3, <2>4, QuietSafe, WalletKept DEF TypeOK, Facts
<1> QED  BY <1>3, <1>4, <1>5, <1>6, <1>7

\* Steps that only go on.
LEMMA PassingSteps ==
  ASSUME NEW k \in Calls, Facts(k), CaptureFails(k) \/ RefundedAlready(k) \/ Drop(k)
  PROVE  StepIsSafe(k)
<1>1. UNCHANGED <<wallet, ledger, rewards, booking, payment, stop, earned, repair>>
  BY DEF CaptureFails, RefundedAlready, Drop
<1>2. \/ Becomes(k, Idle)
      \/ \E work \in Working : Becomes(k, work) /\ RowTrue(work.b, work.row)
  <2>1. CASE CaptureFails(k)
    <3>1. call[k].pc \in Steps /\ Goes(k, "defer") /\ "defer" \in Steps
      BY <2>1 DEF CaptureFails, At, Steps
    <3> QED  BY <3>1, GoesSafely
  <2>2. CASE RefundedAlready(k)
    <3>1. /\ call[k].pc \in Steps /\ "saveRefunded" \in Steps
          /\ GoesWith(k, "saveRefunded", [call[k].row EXCEPT !.paid = "cancelled"])
      BY <2>2 DEF RefundedAlready, At, Steps
    <3>2. /\ [call[k].row EXCEPT !.paid = "cancelled"] \in Row
          /\ RowTrue(call[k].b, [call[k].row EXCEPT !.paid = "cancelled"])
      BY <3>1, CallFacts, UnpaidRow
    <3> QED  BY <3>1, <3>2, GoesSafely
  <2>3. CASE Drop(k)
    BY <2>3 DEF Drop, Ends, Becomes
  <2> QED  BY <2>1, <2>2, <2>3
<1>3. booking' \in [Bookings -> Row] /\ RowsTrue'
  BY <1>1, RowsKept DEF Facts
<1> QED  BY <1>1, <1>2, <1>3, QuietSafe, WalletKept DEF TypeOK, Facts

LEMMA MarkSafe ==
  ASSUME NEW k \in Calls, Facts(k), MarkSettled(k)
  PROVE  StepIsSafe(k)
<1>1. call[k].pc \in Steps  BY DEF MarkSettled, At, Steps
<1>2. call[k].b \in Bookings  BY <1>1, CallFacts
<1>3. stop' \in [Bookings -> Stop]
  BY <1>2 DEF MarkSettled, Facts, TypeOK, Stop
<1>4. UNCHANGED <<wallet, ledger, rewards, booking, payment, earned, repair>> /\ Becomes(k, Idle)
  BY DEF MarkSettled, Ends, Becomes
<1>5. booking' \in [Bookings -> Row] /\ RowsTrue'
  BY <1>4, RowsKept DEF Facts
<1> QED  BY <1>3, <1>4, <1>5, QuietSafe, WalletKept DEF TypeOK, Facts

\* An earning is of a row that was paid.
LEMMA EarnSafe ==
  ASSUME NEW k \in Calls, Facts(k), Earn(k)
  PROVE  StepIsSafe(k)
<1>0. call[k].pc \in Steps  BY DEF Earn, At, Steps
<1>1. /\ call[k].b \in Bookings /\ call[k].row \in Row /\ RowTrue(call[k].b, call[k].row)
      /\ TypeOK /\ LedgerTrue /\ RowsTrue /\ EarningBacked
  BY <1>0, CallFacts DEF Facts
<1>2. UNCHANGED <<wallet, ledger, rewards, booking, payment, stop, repair>>
  BY DEF Earn
<1>3. earned' = earned \/ (MayEarn(call[k].row) /\ Earns(call[k].b, call[k].row.fare))
  BY DEF Earn
<1>4. call[k].row.fare \in {Reduced, Fare}
  BY <1>1 DEF Row
<1>5. earned' \in [Bookings -> {0, Reduced, Fare}]
  BY <1>1, <1>3, <1>4 DEF Earns, TypeOK
<1>6. EarningBacked'
  <2>1. \A c \in Bookings \ {call[k].b} : earned'[c] = earned[c]
    BY <1>1, <1>3 DEF Earns, TypeOK
  <2>2. earned' = earned \/ ledger[call[k].b].debit > 0 \/ payment[call[k].b].status = "succeeded"
    BY <1>1, <1>3 DEF MayEarn, RowTrue
  <2> QED  BY <1>1, <1>2, <2>1, <2>2 DEF EarningBacked
<1>7. Goes(k, "bonus") \/ Ends(k)
  BY DEF Earn
<1>8. \/ Becomes(k, Idle)
      \/ \E work \in Working : Becomes(k, work) /\ RowTrue(work.b, work.row)
  BY <1>0, <1>7, GoesSafely DEF Steps
<1>9. \A work : RowTrue(work.b, work.row) => RowTrue(work.b, work.row)'
  BY <1>2 DEF RowTrue, Succeeded
<1>10. LedgerSafe /\ booking' \in [Bookings -> Row] /\ RowsTrue'
  BY <1>1, <1>2, LedgerKept, RowsKept, WalletKept
<1> QED  BY <1>1, <1>2, <1>5, <1>6, <1>8, <1>9, <1>10 DEF StepIsSafe, TablesSafe, TypeOK

----------------------------------------------------------------------------
(* The steps that move tokens.                                             *)

\* What was true of a row stays true.
LEMMA StaysTrue ==
  ASSUME LedgerSafe, NEW b \in Bookings, NEW row, RowTrue(b, row),
         payment[b].status = "succeeded" => payment'[b].status = "succeeded"
  PROVE  RowTrue(b, row)'
  BY DEF LedgerSafe, RowTrue, Succeeded

LEMMA LedgerStepSafe ==
  ASSUME NEW k \in Calls, Facts(k), LedgerSafe,
         UNCHANGED <<rewards, booking, payment, stop, earned, repair>>,
         \/ Becomes(k, Idle)
         \/ \E work \in Working : Becomes(k, work) /\ RowTrue(work.b, work.row)
  PROVE  StepIsSafe(k)
<1>1. \A b \in Bookings : RowTrue(b, booking'[b])
  BY DEF Facts, RowsTrue
<1>2. \A b \in Bookings : \A row : RowTrue(b, row) => RowTrue(b, row)'
  BY StaysTrue
<1>3. RowsTrue'
  BY <1>1, <1>2 DEF RowsTrue
<1>4. EarningBacked'
  BY DEF Facts, EarningBacked, LedgerSafe
<1>5. \A work \in Working : RowTrue(work.b, work.row) => RowTrue(work.b, work.row)'
  BY <1>2 DEF Working
<1> QED  BY <1>3, <1>4, <1>5 DEF StepIsSafe, TablesSafe, Facts, TypeOK

LEMMA CapturedSafe ==
  ASSUME TypeOK, LedgerTrue, RowsTrue, EarningBacked, NEW b \in Bookings,
         ~CaptureRefused(b), Captured(b), payment' = payment
  PROVE  /\ LedgerSafe
         /\ booking' \in [Bookings -> Row] /\ RowsTrue'
         /\ earned' \in [Bookings -> {0, Reduced, Fare}] /\ EarningBacked'
<1> DEFINE row == booking[b]
           paid == [row EXCEPT !.paid = "succeeded"]
<1>0. row \in Row /\ RowTrue(b, row) /\ row.fare \in {Reduced, Fare} /\ wallet \in Wallet
  BY DEF TypeOK, RowsTrue, Row
<1>1. CASE Succeeded(row)
  <2>1. UNCHANGED <<wallet, ledger, booking, earned>>
    BY <1>1 DEF Captured, WalletUnchanged
  <2>2. LedgerSafe
    BY <2>1, LedgerKept, WalletKept
  <2>3. booking' \in [Bookings -> Row] /\ RowsTrue'
    BY <2>1, RowsKept
  <2> QED  BY <2>1, <2>2, <2>3 DEF TypeOK, EarningBacked
<1>2. CASE ~Succeeded(row)
  <2>1. Pays(b, row.fare) /\ Saves(b, paid) /\ ~PayRefused(b, row.fare) /\ row.mode = "points"
    BY <1>2 DEF Captured, CaptureRefused
  <2>2. row.fare \in Nat /\ 0 < row.fare
    BY <1>0, Amounts
  <2>3. LedgerSafe /\ ledger'[b].debit > 0
    BY <2>1, <2>2, PaysSafe
  <2>4. paid \in Row /\ paid.mode = "points"
    BY <1>0, <2>1 DEF Row
  <2>5. earned' = earned \/ earned' = [earned EXCEPT ![b] = row.fare]
    BY <1>2 DEF Captured, Earns
  <2> HIDE DEF paid, row
  <2>6. booking' \in [Bookings -> Row]
        /\ \A c \in Bookings : booking'[c] = IF c = b THEN paid ELSE booking[c]
    BY <2>1, <2>4 DEF Saves, TypeOK
  <2>7. \A r : r = paid => RowTrue(b, r)'
    BY <2>3, <2>4 DEF RowTrue, Succeeded
  <2>8. \A c \in Bookings : \A r : RowTrue(c, r) => RowTrue(c, r)'
    BY <2>3, StaysTrue
  <2>9. \A c \in Bookings : c # b => RowTrue(c, booking'[c])
    BY <2>6 DEF RowsTrue
  <2>10. RowsTrue'
    BY <2>6, <2>7, <2>8, <2>9 DEF RowsTrue, RowTrue, Succeeded
  <2>11. earned' \in [Bookings -> {0, Reduced, Fare}]
    BY <1>0, <2>5 DEF TypeOK
  <2>12. EarningBacked'
    <3> SUFFICES ASSUME NEW c \in Bookings, earned'[c] > 0
                 PROVE  ledger'[c].debit > 0 \/ payment'[c].status = "succeeded"
      BY DEF EarningBacked
    <3>1. CASE c = b  BY <3>1, <2>3
    <3>2. CASE c # b
      <4>1. earned[c] > 0
        BY <2>5, <3>2 DEF TypeOK
      <4> QED  BY <4>1, <2>3 DEF EarningBacked, LedgerSafe
    <3> QED  BY <3>1, <3>2
  <2> QED  BY <2>3, <2>6, <2>10, <2>11, <2>12
<1> QED  BY <1>1, <1>2

LEMMA CaptureSafe ==
  ASSUME NEW k \in Calls, Facts(k), Capture(k) \/ PayMode(k)
  PROVE  StepIsSafe(k)
<1>0. call[k].pc \in Steps  BY DEF Capture, PayMode, At, Steps
<1>x. PICK b \in Bookings : b = call[k].b
  BY <1>0, CallFacts
<1>1. /\ TypeOK /\ LedgerTrue /\ RowsTrue /\ EarningBacked
  BY DEF Facts
<1>2. UNCHANGED <<rewards, payment, stop, repair>> /\ ~CaptureRefused(b) /\ Captured(b)
  BY <1>x DEF Capture, PayMode
<1>3. /\ LedgerSafe
      /\ booking' \in [Bookings -> Row] /\ RowsTrue'
      /\ earned' \in [Bookings -> {0, Reduced, Fare}] /\ EarningBacked'
  BY <1>1, <1>2, CapturedSafe
<1>4. GoesWith(k, "finalize", booking'[b]) \/ Ends(k)
  BY <1>x DEF Capture, PayMode
<1>5. /\ Ends(k) => Becomes(k, Idle)
      /\ \A row \in Row : GoesWith(k, "finalize", row) =>
           \E work \in Working : Becomes(k, work) /\ work.b = b /\ work.row = row
  BY <1>0, <1>x, <1>1, Onward DEF Ends, Becomes, Steps
<1>6. booking'[b] \in Row /\ \A row : row = booking'[b] => RowTrue(b, row)'
  BY <1>1, <1>3 DEF RowsTrue, RowTrue, Succeeded
<1>7. GoesWith(k, "finalize", booking'[b]) =>
        \E work \in Working : Becomes(k, work) /\ work.b = b /\ work.row = booking'[b]
  BY <1>5, <1>6
<1>8. ASSUME NEW work \in Working, work.b = b, work.row = booking'[b]
      PROVE  RowTrue(work.b, work.row)'
  BY <1>6, <1>8 DEF RowTrue, Succeeded
<1>9. \/ Becomes(k, Idle)
      \/ \E work \in Working : Becomes(k, work) /\ RowTrue(work.b, work.row)'
  BY <1>4, <1>5, <1>7, <1>8
<1> QED  BY <1>1, <1>2, <1>3, <1>9 DEF StepIsSafe, TablesSafe, TypeOK

LEMMA RefundSafe ==
  ASSUME NEW k \in Calls, Facts(k), Refund(k)
  PROVE  StepIsSafe(k)
<1> DEFINE row == [call[k].row EXCEPT !.paid = "cancelled"]
<1>0. call[k].pc \in Steps  BY DEF Refund, At, Steps
<1>1. call[k].b \in Bookings /\ row \in Row /\ RowTrue(call[k].b, row)
  BY <1>0, CallFacts, UnpaidRow
<1>2. LedgerSafe
  BY <1>1, RefundsSafe DEF Refund, Facts
<1>3. GoesWith(k, "saveRefunded", row)
  BY DEF Refund
<1> HIDE DEF row
<1>4. \E work \in Working : Becomes(k, work) /\ RowTrue(work.b, work.row)
  BY <1>0, <1>1, <1>3, GoesSafely DEF Steps
<1> QED  BY <1>2, <1>4, LedgerStepSafe DEF Refund

LEMMA AdjustSafe ==
  ASSUME NEW k \in Calls, Facts(k), Adjust(k)
  PROVE  StepIsSafe(k)
<1>0. call[k].pc \in Steps /\ call[k].b \in Bookings
  BY CallFacts DEF Adjust, At, Steps
<1>1. Fare - Reduced \in Nat  BY Amounts
<1>2. LedgerSafe
  BY <1>0, <1>1, AdjustsSafe DEF Adjust, Facts
<1>3. \E pc \in Steps : Goes(k, pc)
  BY DEF Adjust, Steps
<1>4. \E work \in Working : Becomes(k, work) /\ RowTrue(work.b, work.row)
  BY <1>0, <1>3, GoesSafely
<1> QED  BY <1>2, <1>4, LedgerStepSafe DEF Adjust

----------------------------------------------------------------------------
(* The provider's payments.                                                *)

\* A payment changes that has not succeeded.
LEMMA PaymentStep ==
  ASSUME TypeOK, LedgerTrue, RowsTrue, EarningBacked,
         NEW b \in Bookings, NEW p \in Payment, payment[b].status # "succeeded",
         payment' = [payment EXCEPT ![b] = p],
         UNCHANGED <<wallet, ledger, rewards, booking, stop, earned>>
  PROVE  TablesSafe
<1>1. payment' \in [Bookings -> Payment]
      /\ \A c \in Bookings : payment[c].status = "succeeded" => payment'[c].status = "succeeded"
  BY DEF TypeOK
<1>2. LedgerSafe
  BY LedgerKept, WalletKept
<1>3. \A c \in Bookings : \A row : RowTrue(c, row) => RowTrue(c, row)'
  BY <1>1, <1>2, StaysTrue
<1>4. \A c \in Bookings : RowTrue(c, booking'[c])
  BY DEF RowsTrue
<1>5. RowsTrue'
  BY <1>3, <1>4 DEF RowsTrue
<1>6. EarningBacked'
  BY <1>1 DEF EarningBacked
<1> QED  BY <1>1, <1>2, <1>5, <1>6 DEF TablesSafe, TypeOK

\* The row after what the provider said of a payment.
LEMMA AppliedRow ==
  ASSUME TypeOK, NEW b \in Bookings, NEW row \in Row, NEW amount \in {Reduced, Fare},
         NEW status \in {"pending", "succeeded", "failed"}
  PROVE  /\ Applied(row, status, amount) \in Row
         /\ Succeeded(Applied(row, status, amount)) => status = "succeeded"
         /\ Applied(row, status, amount).mode = "electronic"
<1> DEFINE paid == IF status = "pending" THEN "initiated" ELSE status
           fare == Smaller(row.fare, amount)
           moded == [row EXCEPT !.mode = "electronic"]
           marked == [moded EXCEPT !.paid = paid]
           new == [marked EXCEPT !.fare = fare]
<1>1. fare \in {Reduced, Fare} /\ paid \in {"initiated", "succeeded", "failed"}
      /\ (paid = "succeeded" => status = "succeeded")
  BY DEF Smaller, Row
<1>2. Applied(row, status, amount) = new
  BY DEF Applied, Row
<1> HIDE DEF fare, paid
<1>3. moded \in Row /\ moded.mode = "electronic"
  BY DEF Row
<1> HIDE DEF moded
<1>4. marked \in Row /\ marked.mode = "electronic" /\ marked.paid = paid
  BY <1>1, <1>3 DEF Row
<1> HIDE DEF marked
<1>5. new \in Row /\ new.mode = "electronic" /\ new.paid = paid
  BY <1>1, <1>4 DEF Row
<1> HIDE DEF new
<1> QED  BY <1>1, <1>2, <1>5 DEF Succeeded

LEMMA InitiateSafe ==
  ASSUME NEW k \in Calls, Facts(k), Initiate(k)
  PROVE  StepIsSafe(k)
<1> DEFINE c == call[k]
           row == Applied(c.row, "pending", c.row.fare)
           p == [status |-> "pending", amount |-> c.row.fare]
<1>0. call[k].pc \in Steps  BY DEF Initiate, At, Steps
<1>1. /\ c.b \in Bookings /\ c.row \in Row /\ c.row.fare \in {Reduced, Fare}
      /\ TypeOK /\ LedgerTrue /\ RowsTrue /\ EarningBacked
  BY <1>0, CallFacts DEF Facts, Row
<1>2. row \in Row /\ ~Succeeded(row)
  BY <1>1, AppliedRow
<1>3. p \in Payment
  BY <1>1 DEF Payment
<1>4. /\ payment[c.b].status # "succeeded" /\ payment' = [payment EXCEPT ![c.b] = p]
      /\ GoesWith(k, "apply", row)
      /\ UNCHANGED <<wallet, ledger, rewards, booking, stop, earned, repair>>
  BY DEF Initiate
<1> HIDE DEF row, p
<1>5. TablesSafe
  BY <1>1, <1>3, <1>4, PaymentStep
<1>6. PICK work \in Working : Becomes(k, work) /\ work.row = row
  BY <1>0, <1>1, <1>2, <1>4, Onward DEF Steps
<1>7. RowTrue(work.b, work.row)'
  BY <1>2, <1>6 DEF RowTrue, Succeeded
<1> QED  BY <1>4, <1>5, <1>6, <1>7 DEF StepIsSafe

----------------------------------------------------------------------------
(* Requests that begin.                                                    *)

\* The row in the hands of a new request.
LEMMA BeginsSafely ==
  ASSUME NEW k \in Calls, NEW b \in Bookings, NEW pc \in Steps, NEW row \in Row,
         RowTrue(b, row), Begins(k, Work(pc, b, row))
  PROVE  \E work \in Working : Becomes(k, work) /\ RowTrue(work.b, work.row)
<1> DEFINE work == Work(pc, b, row)
<1>1. work \in Working /\ work.b = b /\ work.row = row
  BY DEF Work, Working
<1>2. Becomes(k, work)
  BY DEF Begins, Becomes
<1> HIDE DEF work
<1> QED  BY <1>1, <1>2

\* A request reads and changes nothing yet.
LEMMA ReadSafe ==
  ASSUME NEW k \in Calls, Facts(k),
         UNCHANGED <<wallet, ledger, rewards, booking, payment, stop, earned, repair>>,
         \E work \in Working : Becomes(k, work) /\ RowTrue(work.b, work.row)
  PROVE  StepIsSafe(k)
<1>1. booking' \in [Bookings -> Row] /\ RowsTrue'
  BY RowsKept DEF Facts
<1> QED  BY <1>1, QuietSafe, WalletKept DEF TypeOK, Facts

LEMMA ReadSteps ==
  ASSUME NEW k \in Calls, NEW b \in Bookings, Facts(k),
         \/ ReadPass(k, b) \/ ReadPay(k, b) \/ ReadCallback(k, b) \/ ReadCancel(k, b)
         \/ ReadStop(k, b) \/ SettleStop(k, b) \/ \E mode \in Modes : ReadMode(k, b, mode)
  PROVE  StepIsSafe(k)
<1>0. /\ TypeOK /\ booking[b] \in Row /\ RowTrue(b, booking[b])
      /\ payment[b] \in Payment
  BY DEF Facts, TypeOK, RowsTrue
<1>1. UNCHANGED <<wallet, ledger, rewards, booking, payment, stop, earned, repair>>
  BY DEF ReadPass, ReadPay, ReadCallback, ReadCancel, ReadStop, SettleStop, ReadMode
<1>2. CASE ReadPass(k, b)
  <2>1. Begins(k, Work("dropoff", b, booking[b])) /\ "dropoff" \in Steps
    BY <1>2 DEF ReadPass, Steps
  <2> QED  BY <1>0, <1>1, <2>1, BeginsSafely, ReadSafe
<1>3. CASE \E mode \in Modes : ReadMode(k, b, mode)
  <2>0. PICK mode \in Modes : ReadMode(k, b, mode)
    BY <1>3
  <2> DEFINE paid == IF mode = "cash" THEN None ELSE "pending"
             row == [booking[b] EXCEPT !.mode = mode, !.paid = paid]
  <2>1. CASE Begins(k, Work("saveMode", b, row))
    <3>1. mode \in {"cash", "points", "electronic"}
      BY TokenRidesAssumption
    <3> DEFINE moded == [booking[b] EXCEPT !.mode = mode]
    <3>2. moded \in Row
      BY <1>0, <3>1 DEF Row
    <3>3. row = [moded EXCEPT !.paid = paid]
      BY <1>0 DEF Row
    <3>4. paid \in {None, "pending", "cancelled"}
      OBVIOUS
    <3> HIDE DEF moded, paid
    <3>5. row \in Row /\ RowTrue(b, row)
      BY <3>2, <3>3, <3>4, UnpaidRow
    <3> HIDE DEF row
    <3> QED  BY <1>1, <2>1, <3>5, BeginsSafely, ReadSafe DEF Steps
  <2>2. CASE Begins(k, Work("payMode", b, booking[b]))
    BY <1>0, <1>1, <2>2, BeginsSafely, ReadSafe DEF Steps
  <2> QED  BY <2>0, <2>1, <2>2 DEF ReadMode
<1>4. CASE ReadPay(k, b)
  <2> DEFINE row == IF booking[b].mode = "electronic" THEN booking[b]
                    ELSE [booking[b] EXCEPT !.mode = "electronic", !.paid = "pending"]
  <2>1. Begins(k, Work("savePay", b, row)) /\ ~Succeeded(booking[b])
    BY <1>4 DEF ReadPay
  <2>2. row \in Row /\ ~Succeeded(row)
    BY <1>0, <2>1 DEF Row, Succeeded
  <2> HIDE DEF row
  <2> QED  BY <1>1, <2>1, <2>2, BeginsSafely, ReadSafe DEF Steps, RowTrue
<1>5. CASE ReadCallback(k, b)
  <2> DEFINE row == Applied(booking[b], payment[b].status, payment[b].amount)
  <2>1. /\ payment[b].status \in {"pending", "succeeded", "failed"}
        /\ payment[b].amount \in {Reduced, Fare}
    BY <1>0, <1>5 DEF ReadCallback, Payment
  <2>2. row \in Row /\ RowTrue(b, row)
    BY <1>0, <2>1, AppliedRow DEF RowTrue
  <2>3. Begins(k, Work("apply", b, row))
    BY <1>5 DEF ReadCallback
  <2> HIDE DEF row
  <2> QED  BY <1>1, <2>2, <2>3, BeginsSafely, ReadSafe DEF Steps
<1>6. CASE ReadCancel(k, b)
  <2> DEFINE row == [booking[b] EXCEPT !.status = "cancelled"]
  <2>1. row \in Row /\ RowTrue(b, row)
    BY <1>0, RowsOf
  <2>2. Begins(k, Work("cancel", b, row))
    BY <1>6 DEF ReadCancel
  <2> HIDE DEF row
  <2> QED  BY <1>1, <2>1, <2>2, BeginsSafely, ReadSafe DEF Steps
<1>7. CASE ReadStop(k, b)
  <2> DEFINE row == [booking[b] EXCEPT !.fare = Reduced]
  <2>1. row \in Row /\ RowTrue(b, row)
    BY <1>0, RowsOf
  <2>2. Begins(k, Work("saveStop", b, row)) \/ Begins(k, Work("completeStop", b, booking[b]))
    BY <1>7 DEF ReadStop
  <2> HIDE DEF row
  <2> QED  BY <1>0, <1>1, <2>1, <2>2, BeginsSafely, ReadSafe DEF Steps
<1>8. CASE SettleStop(k, b)
  <2> DEFINE pc == IF stop[b].prepaid > booking[b].fare /\ PaidAhead(booking[b])
                   THEN "adjust" ELSE "reward"
             work == [Work(pc, b, booking[b]) EXCEPT !.stop = TRUE]
  <2>1. pc \in Steps
    BY DEF Steps
  <2>2. Becomes(k, work)
    BY <1>8 DEF SettleStop, Begins, Becomes
  <2> HIDE DEF pc
  <2>3. work \in Working /\ work.b = b /\ work.row = booking[b]
    BY <1>0, <2>1 DEF Work, Working
  <2> HIDE DEF work
  <2> QED  BY <1>0, <1>1, <2>2, <2>3, ReadSafe
<1> QED  BY <1>2, <1>3, <1>4, <1>5, <1>6, <1>7, <1>8

LEMMA DriverSafe ==
  ASSUME NEW k \in Calls, NEW b \in Bookings, Facts(k), DriverCompletes(k, b)
  PROVE  StepIsSafe(k)
<1> DEFINE row == [booking[b] EXCEPT !.status = "completed"]
<1>1. row \in Row /\ RowTrue(b, row)
  BY RowsOf DEF Facts, TypeOK, RowsTrue
<1>2. Saves(b, row) /\ booking'[b] = row
  BY DEF DriverCompletes, Saves, Facts, TypeOK
<1>3. Begins(k, Work("reward", b, row))
  BY <1>2 DEF DriverCompletes
<1>4. UNCHANGED <<wallet, ledger, rewards, payment, stop, earned, repair>>
  BY DEF DriverCompletes
<1> HIDE DEF row
<1>5. booking' \in [Bookings -> Row] /\ RowsTrue'
  BY <1>1, <1>2, <1>4, SavesSafe DEF Facts
<1>6. \E work \in Working : Becomes(k, work) /\ RowTrue(work.b, work.row)
  BY <1>1, <1>3, BeginsSafely DEF Steps
<1> QED  BY <1>4, <1>5, <1>6, QuietSafe, WalletKept DEF TypeOK, Facts

LEMMA CallSteps ==
  ASSUME NEW k \in Calls, Facts(k),
         Continue(k) \/ Drop(k) \/ \E b \in Bookings : Begin(k, b)
  PROVE  StepIsSafe(k)
<1>1. CASE Continue(k)
  BY <1>1, RewardSafe, SavingSteps, CaptureSafe, PassingSteps, EarnSafe, InitiateSafe,
     RefundSafe, AdjustSafe, MarkSafe DEF Continue
<1>2. CASE Drop(k)
  BY <1>2, PassingSteps
<1>3. CASE \E b \in Bookings : Begin(k, b)
  BY <1>3, ReadSteps, DriverSafe DEF Begin
<1> QED  BY <1>1, <1>2, <1>3

----------------------------------------------------------------------------
(* The steps of the others.                                                *)

LEMMA DecideSafe ==
  ASSUME TypeOK, LedgerTrue, RowsTrue, EarningBacked, NEW b \in Bookings, DecideStop(b)
  PROVE  TablesSafe
<1> DEFINE done == [booking[b] EXCEPT !.status = "completed"]
           row == [done EXCEPT !.fare = Reduced]
           new == [prepaid |-> IF Succeeded(booking[b]) THEN Fare ELSE 0,
                   state |-> "decided"]
<1>1. done \in Row /\ RowTrue(b, done)
  BY RowsOf DEF TypeOK, RowsTrue
<1>2. Saves(b, row)
  BY DEF DecideStop, Saves, TypeOK, Row
<1> HIDE DEF done
<1>3. row \in Row /\ RowTrue(b, row)
  BY <1>1, RowsOf
<1> HIDE DEF row
<1>4. new \in Stop
  BY DEF Stop
<1>5. stop' = [stop EXCEPT ![b] = new] /\ UNCHANGED <<wallet, ledger, rewards, payment, earned>>
  BY DEF DecideStop
<1> HIDE DEF new
<1>6. booking' \in [Bookings -> Row] /\ RowsTrue'
  BY <1>2, <1>3, <1>5, SavesSafe
<1>7. LedgerSafe
  BY <1>5, LedgerKept, WalletKept
<1>8. EarningBacked'
  BY <1>5 DEF EarningBacked
<1> QED  BY <1>4, <1>5, <1>6, <1>7, <1>8 DEF TablesSafe, TypeOK

LEMMA TopUpSafe ==
  ASSUME TypeOK, LedgerTrue, RowsTrue, EarningBacked, TopUp
  PROVE  TablesSafe
<1>1. WalletTyped
  <2>1. wallet \in Wallet /\ Coherent(wallet) /\ Purchase \in Nat /\ Purchase <= Purchase
    BY Amounts DEF TypeOK
  <2>2. wallet' = Moved(wallet, Purchase, Purchase, FALSE)
    BY DEF TopUp
  <2> QED  BY <2>1, <2>2, CreditMoves DEF WalletTyped
<1>2. UNCHANGED <<ledger, rewards, booking, payment, stop, earned>>
  BY DEF TopUp
<1>3. LedgerSafe /\ booking' \in [Bookings -> Row] /\ RowsTrue'
  BY <1>1, <1>2, LedgerKept, RowsKept
<1> QED  BY <1>2, <1>3 DEF TablesSafe, TypeOK, EarningBacked

LEMMA ProviderSafe ==
  ASSUME TypeOK, LedgerTrue, RowsTrue, EarningBacked, NEW b \in Bookings,
         NEW status \in {"succeeded", "failed"}, Provider(b, status)
  PROVE  TablesSafe
<1> DEFINE p == [payment[b] EXCEPT !.status = status]
<1>1. p \in Payment
  BY DEF TypeOK, Payment
<1>2. payment' = [payment EXCEPT ![b] = p]
  BY DEF Provider, TypeOK
<1> HIDE DEF p
<1> QED  BY <1>1, <1>2, PaymentStep DEF Provider

LEMMA RepairSafe ==
  ASSUME TypeOK, LedgerTrue, RowsTrue, EarningBacked, Repair
  PROVE  TablesSafe
<1>1. UNCHANGED <<rewards, payment, stop>>
  BY DEF Repair
<1>2. repair \in Bookings
  BY DEF Repair, TypeOK
<1>3. CASE ~CaptureRefused(repair) /\ Captured(repair)
  <2>1. /\ LedgerSafe /\ booking' \in [Bookings -> Row] /\ RowsTrue'
        /\ earned' \in [Bookings -> {0, Reduced, Fare}] /\ EarningBacked'
    BY <1>1, <1>2, <1>3, CapturedSafe
  <2> QED  BY <1>1, <2>1 DEF TablesSafe, TypeOK
<1>4. CASE UNCHANGED <<wallet, ledger, booking, earned>>
  <2>1. LedgerSafe /\ booking' \in [Bookings -> Row] /\ RowsTrue'
    BY <1>1, <1>4, LedgerKept, WalletKept, RowsKept
  <2> QED  BY <1>1, <1>4, <2>1 DEF TablesSafe, TypeOK, EarningBacked
<1> QED  BY <1>3, <1>4 DEF Repair, WalletUnchanged

----------------------------------------------------------------------------
(* The invariant.                                                          *)

CallsTrue == \A k \in Calls : call[k] # Idle => RowTrue(call[k].b, call[k].row)
RepairTrue == repair # None => ledger[repair].debit > 0

LEMMA InvariantIs ==
  /\ IInv => TypeOK /\ LedgerTrue /\ RowsTrue /\ EarningBacked /\ CallsTrue /\ RepairTrue
  /\ TypeOK /\ LedgerTrue /\ RowsTrue /\ EarningBacked /\ CallsTrue /\ RepairTrue => IInv
  BY LedgerIs DEF IInv, LedgerTrue, EntriesTrue, ReturnedWithinDebit, DebitFirst, RowsTrue,
     CallsTrue, RepairTrue

\* The tables are safe, the requests hold true rows, the repair has a debit.
LEMMA TablesGive ==
  ASSUME TablesSafe, call' \in [Calls -> Call], CallsTrue', RepairTrue',
         repair' \in Bookings \cup {None}
  PROVE  IInv'
<1>1. TypeOK'
  BY DEF TablesSafe, LedgerSafe, WalletTyped, TypeOK
<1>2. LedgerTrue' /\ RowsTrue' /\ EarningBacked'
  BY DEF TablesSafe, LedgerSafe
<1> QED  BY <1>1, <1>2, InvariantIs, PTL

\* Rows that are held by others stay true.
LEMMA OthersStay ==
  ASSUME TypeOK, CallsTrue, TablesSafe, NEW j \in Calls, call[j] # Idle
  PROVE  \A b, row : b = call[j].b /\ row = call[j].row => RowTrue(b, row)'
<1>1. call[j].b \in Bookings
  BY DEF TypeOK, Call
<1>2. \A b \in Bookings : \A row : RowTrue(b, row) => RowTrue(b, row)'
  BY StaysTrue DEF TablesSafe
<1> QED  BY <1>1, <1>2 DEF CallsTrue

LEMMA RepairStays ==
  ASSUME TypeOK, RepairTrue, TablesSafe, repair' = repair
  PROVE  RepairTrue' /\ repair' \in Bookings \cup {None}
  BY DEF TypeOK, RepairTrue, TablesSafe, LedgerSafe, None

LEMMA CallsKept ==
  ASSUME TypeOK, CallsTrue, TablesSafe, call' = call
  PROVE  call' \in [Calls -> Call] /\ CallsTrue'
<1>1. \A j \in Calls : call[j] # Idle =>
        \A b, row : b = call[j].b /\ row = call[j].row => RowTrue(b, row)'
  BY OthersStay
<1> QED  BY <1>1 DEF TypeOK, CallsTrue, RowTrue, Succeeded

LEMMA CallStepKeeps ==
  ASSUME IInv, NEW k \in Calls, StepIsSafe(k)
  PROVE  IInv'
<1>1. TypeOK /\ CallsTrue /\ RepairTrue /\ TablesSafe /\ repair' = repair
  BY InvariantIs DEF StepIsSafe
<1>2. \A j \in Calls : call[j] # Idle =>
        \A b, row : b = call[j].b /\ row = call[j].row => RowTrue(b, row)'
  BY <1>1, OthersStay
<1>3. call' \in [Calls -> Call] /\ CallsTrue'
  <2>1. CASE Becomes(k, Idle)
    <3>1. call' \in [Calls -> Call]
      BY <1>1, <2>1, IdleIsCall DEF TypeOK, Becomes
    <3>2. \A j \in Calls : call'[j] = IF j = k THEN Idle ELSE call[j]
      BY <1>1, <2>1 DEF TypeOK, Becomes
    <3> QED  BY <1>2, <3>1, <3>2 DEF CallsTrue, RowTrue, Succeeded
  <2>2. CASE \E work \in Working : Becomes(k, work) /\ RowTrue(work.b, work.row)'
    <3>0. PICK work \in Working : Becomes(k, work) /\ RowTrue(work.b, work.row)'
      BY <2>2
    <3>1. call' \in [Calls -> Call]
      BY <1>1, <3>0, IdleIsCall DEF TypeOK, Becomes
    <3>2. \A j \in Calls : call'[j] = IF j = k THEN work ELSE call[j]
      BY <1>1, <3>0 DEF TypeOK, Becomes
    <3> QED  BY <1>2, <3>0, <3>1, <3>2 DEF CallsTrue, RowTrue, Succeeded
  <2> QED  BY <2>1, <2>2 DEF StepIsSafe
<1>4. RepairTrue' /\ repair' \in Bookings \cup {None}
  BY <1>1, RepairStays
<1> QED  BY <1>1, <1>3, <1>4, TablesGive

LEMMA InitInvariant == Init => IInv
<1> SUFFICES ASSUME Init PROVE IInv
  OBVIOUS
<1>1. wallet \in Wallet /\ Coherent(wallet)
  BY DEF Init, Wallet, Coherent
<1>2. \A b \in Bookings : ledger[b] = NoEntries
  BY DEF Init
<1>3. NoEntries \in Entries /\ EntriesTrue(NoEntries)
  BY DEF NoEntries, Entries, EntriesTrue, Refunded, RefundedPurchased
<1>4. LedgerTrue
  BY <1>2, <1>3 DEF LedgerTrue
<1>5. TypeOK
  <2>1. ledger \in [Bookings -> Entries]
    BY <1>3 DEF Init
  <2>2. /\ booking \in [Bookings -> Row] /\ payment \in [Bookings -> Payment]
        /\ stop \in [Bookings -> Stop]
    BY DEF Init, Row, Payment, Stop
  <2>3. call \in [Calls -> Call]
    BY IdleIsCall DEF Init
  <2> QED  BY <1>1, <2>1, <2>2, <2>3 DEF Init, TypeOK
<1>6. RowsTrue
  BY DEF Init, RowsTrue, RowTrue, Succeeded, None
<1>7. EarningBacked /\ CallsTrue /\ RepairTrue
  BY DEF Init, EarningBacked, CallsTrue, RepairTrue
<1> QED  BY <1>4, <1>5, <1>6, <1>7, InvariantIs

LEMMA StepInvariant == IInv /\ [Next]_vars => IInv'
<1> SUFFICES ASSUME IInv, [Next]_vars PROVE IInv'
  OBVIOUS
<1>0. TypeOK /\ LedgerTrue /\ RowsTrue /\ EarningBacked /\ CallsTrue /\ RepairTrue
  BY InvariantIs
<1>1. ASSUME NEW k \in Calls, Continue(k) \/ Drop(k) \/ \E b \in Bookings : Begin(k, b)
      PROVE  IInv'
  <2>1. StepIsSafe(k)
    BY <1>1, FactsHold, CallSteps
  <2> QED  BY <2>1, CallStepKeeps
<1>2. ASSUME TablesSafe, UNCHANGED <<call, repair>>
      PROVE  IInv'
  BY <1>0, <1>2, CallsKept, RepairStays, TablesGive
<1>3. ASSUME NEW b \in Bookings, DecideStop(b) \/ \E s \in {"succeeded", "failed"} : Provider(b, s)
      PROVE  IInv'
  <2>1. TablesSafe
    BY <1>0, <1>3, DecideSafe, ProviderSafe
  <2>2. UNCHANGED <<call, repair>>
    BY <1>3 DEF DecideStop, Provider
  <2> QED  BY <1>2, <2>1, <2>2
<1>4. CASE TopUp
  BY <1>0, <1>2, <1>4, TopUpSafe DEF TopUp
<1>5. CASE Repair
  <2>1. TablesSafe
    BY <1>0, <1>5, RepairSafe
  <2>2. call' = call /\ repair' = None
    BY <1>5 DEF Repair
  <2>3. RepairTrue'
    BY <2>2 DEF RepairTrue
  <2> QED  BY <1>0, <2>1, <2>2, <2>3, CallsKept, TablesGive
<1>6. ASSUME UNCHANGED <<wallet, ledger, rewards, booking, payment, stop, earned>>
      PROVE  TablesSafe
  <2>1. LedgerSafe /\ booking' \in [Bookings -> Row] /\ RowsTrue'
    BY <1>0, <1>6, LedgerKept, WalletKept, RowsKept
  <2> QED  BY <1>0, <1>6, <2>1 DEF TablesSafe, TypeOK, EarningBacked
<1>7. ASSUME NEW b \in Bookings, RepairReads(b)
      PROVE  IInv'
  <2>1. TablesSafe
    BY <1>6, <1>7 DEF RepairReads
  <2>2. call' = call /\ repair' = b /\ ledger' = ledger /\ ledger[b].debit > 0
    BY <1>7 DEF RepairReads, Stranded
  <2>3. RepairTrue'
    BY <2>2 DEF RepairTrue
  <2> QED  BY <1>0, <2>1, <2>2, <2>3, CallsKept, TablesGive
<1>8. CASE UNCHANGED vars
  BY <1>2, <1>6, <1>8 DEF vars
<1> QED  BY <1>1, <1>3, <1>4, <1>5, <1>7, <1>8 DEF Next

\* The invariant, of every reachable state.
THEOREM Invariance == Spec => []IInv
  BY InitInvariant, StepInvariant, PTL DEF Spec

\* The wallet's withdrawable part never exceeds its balance, and every
\* table and request holds what it is declared to hold.
THEOREM TypeCorrect == Spec => []TypeOK
<1>1. IInv => TypeOK
  BY DEF IInv
<1> QED  BY <1>1, Invariance, PTL

\* No more tokens come back for a booking than were taken, and no more
\* purchased tokens, however captures, refunds and adjustments interleave.
THEOREM ReturnsWithinDebit == Spec => []ReturnedWithinDebit
<1>1. IInv => ReturnedWithinDebit
  BY DEF IInv
<1> QED  BY <1>1, Invariance, PTL

\* What a driver earns was paid, in tokens or by the provider.
THEOREM EarningsArePaid == Spec => []EarningBacked
<1>1. IInv => EarningBacked
  BY DEF IInv
<1> QED  BY <1>1, Invariance, PTL

\* A booking that is marked as paid in tokens has its debit.
THEOREM PaidBookingsHaveDebit == Spec => []PaidHasDebit
<1>1. IInv => PaidHasDebit
  <2> SUFFICES ASSUME IInv, NEW b \in Bookings,
                      booking[b].mode = "points" /\ Succeeded(booking[b])
               PROVE  ledger[b].debit > 0
    BY DEF PaidHasDebit
  <2>1. RowTrue(b, booking[b])
    BY DEF IInv
  <2> QED  BY <2>1 DEF RowTrue
<1> QED  BY <1>1, Invariance, PTL

----------------------------------------------------------------------------
(* What a step may never do.                                               *)

RepairIsFree == repair # None /\ repair' = None => WalletUnchanged

\* The reconciliation never takes a token.
THEOREM RepairTakesNone == Spec => RepairTakesNothing
<1>1. IInv /\ [Next]_vars => RepairIsFree
  <2> SUFFICES ASSUME IInv, [Next]_vars, repair # None, repair' = None
               PROVE  WalletUnchanged
    BY DEF RepairIsFree
  <2>1. repair' # repair
    OBVIOUS
  <2>2. Repair
    <3>1. \A k \in Calls : ~(Continue(k) \/ Drop(k) \/ \E b \in Bookings : Begin(k, b))
      <4> SUFFICES ASSUME NEW k \in Calls,
                          Continue(k) \/ Drop(k) \/ \E b \in Bookings : Begin(k, b)
                   PROVE  FALSE
        OBVIOUS
      <4>1. StepIsSafe(k)
        BY FactsHold, CallSteps
      <4> QED  BY <2>1, <4>1 DEF StepIsSafe
    <3>2. \A b \in Bookings : /\ ~DecideStop(b) /\ ~RepairReads(b)
                              /\ \A s \in {"succeeded", "failed"} : ~Provider(b, s)
      BY <2>1 DEF DecideStop, RepairReads, Provider
    <3>3. ~TopUp /\ ~UNCHANGED vars
      BY <2>1 DEF TopUp, vars
    <3> QED  BY <3>1, <3>2, <3>3 DEF Next
  <2>3. ledger[repair].debit > 0
    BY DEF IInv
  <2> QED  BY <2>2, <2>3 DEF Repair, Captured, Pays
<1> QED  BY <1>1, Invariance, PTL DEF Spec, RepairTakesNothing, RepairIsFree

\* How the ledger may change.
LedgerMoves ==
  \/ ledger' = ledger
  \/ \E b \in Bookings, fare \in Nat : Pays(b, fare)
  \/ \E b \in Bookings : ledger[b].refund = 0 /\ Refunds(b)
  \/ \E b \in Bookings : Adjusts(b, Fare - Reduced)

LEMMA LedgerSteps ==
  ASSUME IInv, [Next]_vars
  PROVE  LedgerMoves
<1>0. TypeOK
  BY DEF IInv
<1>1. ASSUME NEW b \in Bookings, Captured(b)
      PROVE  LedgerMoves
  <2>1. booking[b].fare \in Nat
    BY <1>0, Amounts DEF TypeOK, Row
  <2> QED  BY <1>1, <2>1 DEF Captured, WalletUnchanged, LedgerMoves
<1>2. ASSUME NEW k \in Calls, Continue(k) \/ Drop(k) \/ \E b \in Bookings : Begin(k, b)
      PROVE  LedgerMoves
  <2>1. CASE Capture(k) \/ PayMode(k)
    <3>1. call[k].b \in Bookings /\ Captured(call[k].b)
      <4>1. call[k].pc \in Steps
        BY <2>1 DEF Capture, PayMode, At, Steps
      <4> QED  BY <1>0, <2>1, <4>1, CallOn DEF Capture, PayMode, Working
    <3> QED  BY <1>1, <3>1
  <2>2. CASE Refund(k)
    <3>1. call[k].b \in Bookings
      BY <1>0, <2>2, CallOn DEF Refund, At, Steps, Working
    <3> QED  BY <2>2, <3>1 DEF Refund, LedgerMoves
  <2>3. CASE Adjust(k)
    <3>1. call[k].b \in Bookings
      BY <1>0, <2>3, CallOn DEF Adjust, At, Steps, Working
    <3> QED  BY <2>3, <3>1 DEF Adjust, LedgerMoves
  <2>4. CASE Reward(k) \/ Finalize(k) \/ Bonus(k)
    BY <2>4 DEF Reward, Finalize, Bonus, Rewarded, LedgerMoves
  <2>5. CASE \/ SaveSettled(k) \/ SaveCash(k) \/ CaptureFails(k) \/ Defer(k) \/ Earn(k)
             \/ Dropoff(k) \/ SaveMode(k) \/ SavePay(k) \/ Initiate(k) \/ ApplyPayment(k)
             \/ SaveCancelled(k) \/ RefundedAlready(k) \/ SaveRefunded(k) \/ SaveStop(k)
             \/ CompleteStop(k) \/ MarkSettled(k) \/ Drop(k)
    BY <2>5 DEF SaveSettled, SaveCash, CaptureFails, Defer, Earn, Dropoff, SaveMode, SavePay,
       Initiate, ApplyPayment, SaveCancelled, RefundedAlready, SaveRefunded, SaveStop,
       CompleteStop, MarkSettled, Drop, LedgerMoves
  <2>6. CASE \E b \in Bookings : Begin(k, b)
    BY <2>6 DEF Begin, ReadPass, DriverCompletes, ReadPay, ReadCallback, ReadCancel, ReadStop,
       SettleStop, ReadMode, LedgerMoves
  <2> QED  BY <1>2, <2>1, <2>2, <2>3, <2>4, <2>5, <2>6 DEF Continue
<1>3. CASE Repair
  <2>1. repair \in Bookings
    BY <1>0, <1>3 DEF Repair, TypeOK
  <2> QED  BY <1>1, <1>3, <2>1 DEF Repair, WalletUnchanged, LedgerMoves
<1>4. CASE TopUp \/ UNCHANGED vars
  BY <1>4 DEF TopUp, vars, LedgerMoves
<1>5. ASSUME NEW b \in Bookings,
             \/ DecideStop(b) \/ RepairReads(b)
             \/ \E s \in {"succeeded", "failed"} : Provider(b, s)
      PROVE  LedgerMoves
  BY <1>5 DEF DecideStop, RepairReads, Provider, LedgerMoves
<1> QED  BY <1>2, <1>3, <1>4, <1>5 DEF Next

EntriesKeep ==
  \A b \in Bookings : \A part \in {"debit", "refund", "adjust"} :
    ledger[b][part] > 0 => ledger'[b][part] = ledger[b][part]

\* An entry of the ledger is written once.
THEOREM EntriesAreFinal == Spec => EntriesFinal
<1>1. IInv /\ [Next]_vars => EntriesKeep
  <2> SUFFICES ASSUME IInv, [Next]_vars, NEW b \in Bookings,
                      NEW part \in {"debit", "refund", "adjust"}, ledger[b][part] > 0
               PROVE  ledger'[b][part] = ledger[b][part]
    BY DEF EntriesKeep
  <2>1. ledger \in [Bookings -> Entries]
    BY DEF IInv, TypeOK
  <2>2. LedgerMoves
    BY LedgerSteps
  <2>3. ASSUME NEW c \in Bookings, NEW fare \in Nat, Pays(c, fare)
        PROVE  ledger'[b][part] = ledger[b][part]
    <3>1. CASE ledger[c].debit > 0
      BY <2>3, <3>1 DEF Pays, WalletUnchanged
    <3>2. CASE ~(ledger[c].debit > 0)
      <4> DEFINE spill == PurchasedSpill(wallet, fare)
      <4>1. ledger' = [ledger EXCEPT ![c].debit = fare, ![c].debitPurchased = spill]
        BY <2>3, <3>2 DEF Pays
      <4> HIDE DEF spill
      <4> QED  BY <2>1, <3>2, <4>1 DEF Entries
    <3> QED  BY <3>1, <3>2
  <2>4. ASSUME NEW c \in Bookings, ledger[c].refund = 0, Refunds(c)
        PROVE  ledger'[b][part] = ledger[b][part]
    <3> DEFINE n == LeftToRefund(c)
               credit == CreditOf(c, n)
    <3>1. ledger' = [ledger EXCEPT ![c].refund = n, ![c].refundPurchased = credit]
      BY <2>4 DEF Refunds
    <3> HIDE DEF n, credit
    <3>2. CASE b # c
      BY <2>1, <3>1, <3>2
    <3>3. CASE b = c
      <4>1. part = "debit" \/ part = "adjust"
        BY <2>4, <3>3
      <4>2. ledger'[b].debit = ledger[b].debit /\ ledger'[b].adjust = ledger[b].adjust
        BY <2>1, <3>1, <3>3 DEF Entries
      <4> QED  BY <4>1, <4>2
    <3> QED  BY <3>2, <3>3
  <2>5. ASSUME NEW c \in Bookings, Adjusts(c, Fare - Reduced)
        PROVE  ledger'[b][part] = ledger[b][part]
    <3> DEFINE n == Fare - Reduced
               credit == CreditOf(c, n)
    <3>1. CASE ledger[c].adjust > 0
      BY <2>5, <3>1 DEF Adjusts, WalletUnchanged
    <3>2. CASE ~(ledger[c].adjust > 0)
      <4>1. ledger' = [ledger EXCEPT ![c].adjust = n, ![c].adjustPurchased = credit]
        BY <2>5, <3>2 DEF Adjusts
      <4> HIDE DEF n, credit
      <4> QED  BY <2>1, <3>2, <4>1 DEF Entries
    <3> QED  BY <3>1, <3>2
  <2> QED  BY <2>2, <2>3, <2>4, <2>5 DEF LedgerMoves
<1> QED  BY <1>1, Invariance, PTL DEF Spec, EntriesFinal, EntriesKeep
=============================================================================
