----------------------------- MODULE TokenRides -----------------------------
(***************************************************************************)
(* What a passenger pays for a ride, and what the driver earns by it.      *)
(* BookingsService saves the whole bookings row it read some database      *)
(* calls ago; only the capture of a payment in tokens and the driver's     *)
(* interruption lock the row.  WalletService changes the wallet and its    *)
(* ledger in transactions that lock the wallet, and the reconciliation     *)
(* repairs bookings whose tokens were taken.  A request that throws or     *)
(* crashes stops where it is.  Amounts are tokens; no booking has a first  *)
(* trip subsidy, so that the driver's gross earning is the fare.           *)
(***************************************************************************)
EXTENDS TokenMovement, FiniteSets

CONSTANTS
  Bookings,     \* rides of one passenger, boarded, each on a trip of its own
  Calls,        \* requests in flight
  Modes,        \* the payment modes that are offered
  Fare,         \* the agreed fare
  Reduced,      \* the fare of a ride that was interrupted
  Purchase,     \* tokens of a top-up
  MaxBalance    \* bound: no top-up beyond this balance

None == "none"

ASSUME TokenRidesAssumption ==
  /\ None \notin Bookings \cup Calls
  /\ Modes \subseteq {"cash", "points", "electronic"}
  /\ Fare \in Nat /\ Reduced \in 1..(Fare - 1)
  /\ Purchase \in Nat \ {0} /\ MaxBalance \in Nat

VARIABLES
  wallet,   \* the passenger's wallet_accounts row
  ledger,   \* ledger[b]: the wallet_ledger_entries of the booking
  rewards,  \* rewards[b]: the loyalty entries of its trip
  booking,  \* booking[b]: the bookings row
  payment,  \* payment[b]: its payment_transactions row and the provider's word
  stop,     \* stop[b]: the passenger's confirmation that he stops at a pause
  earned,   \* earned[b]: grossAmount of the driver_earnings row, 0 when none
  call,     \* call[k]: a request between two database calls
  repair    \* the booking the reconciliation is about to capture

vars == <<wallet, ledger, rewards, booking, payment, stop, earned, call, repair>>

Row == [status : {"accepted", "completed", "cancelled"},
        mode : {"cash", "points", "electronic"},
        \* "initiated": a provider's payment is linked and not decided yet.
        paid : {None, "pending", "initiated", "succeeded", "failed", "cancelled"},
        fare : {Reduced, Fare}]
Entries == [debit : Nat, debitPurchased : Nat, refund : Nat, refundPurchased : Nat,
            adjust : Nat, adjustPurchased : Nat]
NoEntries == [debit |-> 0, debitPurchased |-> 0, refund |-> 0, refundPurchased |-> 0,
              adjust |-> 0, adjustPurchased |-> 0]
Payment == [status : {None, "pending", "succeeded", "failed"}, amount : {Reduced, Fare}]
Stop == [prepaid : {0, Reduced, Fare}, state : {None, "decided", "settled"}]

Idle == [pc |-> "idle"]
Steps == {"saveMode", "payMode", "dropoff", "reward", "save", "capture", "saveCash",
          "defer", "finalize", "earn", "bonus", "settled", "cancel", "refund",
          "saveRefunded", "saveStop", "adjust", "completeStop", "savePay",
          "initiate", "apply"}
Call == {Idle} \cup [pc : Steps, b : Bookings, row : Row, stop : BOOLEAN]

TypeOK ==
  /\ wallet \in Wallet /\ Coherent(wallet)
  /\ ledger \in [Bookings -> Entries]
  /\ rewards \in [Bookings -> SUBSET {"base", "bonus"}]
  /\ booking \in [Bookings -> Row]
  /\ payment \in [Bookings -> Payment]
  /\ stop \in [Bookings -> Stop]
  /\ earned \in [Bookings -> {0, Reduced, Fare}]
  /\ call \in [Calls -> Call]
  /\ repair \in Bookings \cup {None}

Init ==
  /\ wallet = [balance |-> 0, withdrawable |-> 0, reserved |-> 0, blocked |-> FALSE]
  /\ ledger = [b \in Bookings |-> NoEntries]
  /\ rewards = [b \in Bookings |-> {}]
  /\ booking = [b \in Bookings |->
       [status |-> "accepted", mode |-> "cash", paid |-> None, fare |-> Fare]]
  /\ payment = [b \in Bookings |-> [status |-> None, amount |-> Fare]]
  /\ stop = [b \in Bookings |-> [prepaid |-> 0, state |-> None]]
  /\ earned = [b \in Bookings |-> 0]
  /\ call = [k \in Calls |-> Idle]
  /\ repair = None

----------------------------------------------------------------------------
Work(pc, b, row) == [pc |-> pc, b |-> b, row |-> row, stop |-> FALSE]
Begins(k, work) == call[k] = Idle /\ call' = [call EXCEPT ![k] = work]
At(k, pc) == call[k].pc = pc
Goes(k, pc) == call' = [call EXCEPT ![k].pc = pc]
GoesWith(k, pc, row) == call' = [call EXCEPT ![k].pc = pc, ![k].row = row]
Ends(k) == call' = [call EXCEPT ![k] = Idle]

\* The end of a settlement; that of a stop is then marked.
Settled(k) == IF call[k].stop THEN Goes(k, "settled") ELSE Ends(k)

\* The whole row is saved, whatever happened to it since it was read.
Saves(b, row) == booking' = [booking EXCEPT ![b] = row]

\* completed or dropped off, or near enough to the destination by now.
Completed(row) == row.status = "completed"
MayPayNow(row) == row.status \in {"accepted", "completed"}
Succeeded(row) == row.paid = "succeeded"

----------------------------------------------------------------------------
(* WalletService.                                                          *)

Refunded(e) == e.refund + e.adjust
RefundedPurchased(e) == e.refundPurchased + e.adjustPurchased

WalletUnchanged == UNCHANGED <<wallet, ledger>>

\* Mutant: there is no look at the balance.
PaidOnCredit(b, fare) ==
  ledger[b].refund > 0 \/ (ledger[b].debit > 0 /\ ledger[b].debit # fare)

\* Mutant: a debit that is there is refused instead of used.
DebitRefused(b, fare) ==
  \/ ledger[b].refund > 0
  \/ ledger[b].debit > 0
  \/ ledger[b].debit = 0 /\ ~MovementAllowed(wallet, -fare, 0, FALSE)

\* payForBookingWithManager, on the locked wallet: throws when the tokens came
\* back, when they were taken for another fare, or when there are too few.
PayRefused(b, fare) ==
  \/ ledger[b].refund > 0
  \/ ledger[b].debit > 0 /\ ledger[b].debit # fare
  \/ ledger[b].debit = 0 /\ ~MovementAllowed(wallet, -fare, 0, FALSE)

Pays(b, fare) ==
  IF ledger[b].debit > 0 THEN WalletUnchanged
  ELSE /\ wallet' = Moved(wallet, -fare, 0, FALSE)
       /\ ledger' = [ledger EXCEPT ![b].debit = fare,
                                   ![b].debitPurchased = PurchasedSpill(wallet, fare)]

\* changeBalance for a refund: what is left of the debit.
LeftToRefund(b) == ledger[b].debit - Refunded(ledger[b])

CreditOf(b, n) ==
  IF ledger[b].debit = 0 THEN 0
  ELSE RefundablePurchased(ledger[b].debitPurchased, RefundedPurchased(ledger[b]), n)

\* Mutant: an adjustment that came before is not taken off the refund.
RefundsAll(b) ==
  LET n == ledger[b].debit IN
  /\ wallet' = Moved(wallet, n, CreditOf(b, n), FALSE)
  /\ ledger' = [ledger EXCEPT ![b].refund = n, ![b].refundPurchased = CreditOf(b, n)]

Refunds(b) ==
  LET n == LeftToRefund(b) IN
  /\ wallet' = Moved(wallet, n, CreditOf(b, n), FALSE)
  /\ ledger' = [ledger EXCEPT ![b].refund = n, ![b].refundPurchased = CreditOf(b, n)]

\* creditBookingFareAdjustment: never more than is left of a debit.
AdjustRefused(b, n) ==
  ledger[b].adjust = 0 /\ ledger[b].debit > 0
    /\ ~RefundAllowed(ledger[b].debit, Refunded(ledger[b]), n)

Adjusts(b, n) ==
  IF ledger[b].adjust > 0 THEN WalletUnchanged
  ELSE /\ wallet' = Moved(wallet, n, CreditOf(b, n), FALSE)
       /\ ledger' = [ledger EXCEPT ![b].adjust = n, ![b].adjustPurchased = CreditOf(b, n)]

\* creditTripLoyalty: each part once, a token each; none of them is purchased.
Rewarded(b, parts) ==
  LET new == parts \ rewards[b] IN
  /\ rewards' = [rewards EXCEPT ![b] = @ \cup parts]
  /\ wallet' = [wallet EXCEPT !.balance = @ + Cardinality(new)]
  /\ UNCHANGED ledger

\* applyTopUpPayment of a proven payment.
TopUp ==
  /\ wallet.balance + Purchase <= MaxBalance
  /\ wallet' = Moved(wallet, Purchase, Purchase, FALSE)
  /\ UNCHANGED <<ledger, rewards, booking, payment, stop, earned, call, repair>>

----------------------------------------------------------------------------
(* The driver's earning: one row per booking, of the booking's fare.       *)

Earns(b, fare) == earned' = [earned EXCEPT ![b] = fare]

\* capturePointsPaymentForBooking, on the locked row.
CaptureRefused(b) ==
  LET row == booking[b] IN
  \/ row.mode # "points"
  \/ ~Succeeded(row) /\ \/ ~MayPayNow(row) \/ PayRefused(b, row.fare)
                        \/ Completed(row) /\ earned[b] \notin {0, row.fare}

\* Debit, status and earning in one transaction; a paid row is left alone.
Captured(b) ==
  IF Succeeded(booking[b]) THEN WalletUnchanged /\ UNCHANGED <<booking, earned>>
  ELSE /\ Pays(b, booking[b].fare)
       /\ Saves(b, [booking[b] EXCEPT !.paid = "succeeded"])
       /\ IF Completed(booking[b]) THEN Earns(b, booking[b].fare) ELSE UNCHANGED earned

----------------------------------------------------------------------------
(* settlePaymentAfterArrival, with the row some call has in memory.        *)

\* isCompletedPassengerRide.
BaseOf(row) == IF Completed(row) THEN {"base"} ELSE {}

Reward(k) ==
  /\ At(k, "reward") /\ Rewarded(call[k].b, BaseOf(call[k].row)) /\ Goes(k, "save")
  /\ UNCHANGED <<booking, payment, stop, earned, repair>>

SaveSettled(k) ==
  LET row == call[k].row IN
  /\ At(k, "save")
  /\ Saves(call[k].b, row)
  /\ Goes(k, IF row.mode = "cash" THEN "saveCash"
             ELSE IF row.mode = "points" /\ ~Succeeded(row) THEN "capture"
             ELSE "finalize")
  /\ UNCHANGED <<wallet, ledger, rewards, payment, stop, earned, repair>>

SaveCash(k) ==
  LET row == [call[k].row EXCEPT !.paid = None] IN
  /\ At(k, "saveCash")
  /\ Saves(call[k].b, row)
  /\ GoesWith(k, "finalize", row)
  /\ UNCHANGED <<wallet, ledger, rewards, payment, stop, earned, repair>>

Capture(k) ==
  /\ At(k, "capture") /\ ~CaptureRefused(call[k].b)
  /\ Captured(call[k].b)
  /\ GoesWith(k, "finalize", booking'[call[k].b])
  /\ UNCHANGED <<rewards, payment, stop, repair>>

\* A capture that fails leaves the payment for later.
CaptureFails(k) ==
  /\ At(k, "capture")
  /\ CaptureRefused(call[k].b) \/ booking[call[k].b].status = "accepted"
  /\ Goes(k, "defer")
  /\ UNCHANGED <<wallet, ledger, rewards, booking, payment, stop, earned, repair>>

Defer(k) ==
  LET row == [call[k].row EXCEPT !.paid = "pending"] IN
  /\ At(k, "defer")
  /\ Saves(call[k].b, row)
  /\ GoesWith(k, "finalize", row)
  /\ UNCHANGED <<wallet, ledger, rewards, payment, stop, earned, repair>>

\* finalizeCompletedBooking: the base reward, then the earning and the bonus
\* once the ride is paid.
Finalize(k) ==
  LET row == call[k].row IN
  /\ At(k, "finalize")
  /\ Rewarded(call[k].b, BaseOf(row))
  /\ IF row.mode # "cash" /\ ~Succeeded(row) THEN Settled(k) ELSE Goes(k, "earn")
  /\ UNCHANGED <<booking, payment, stop, earned, repair>>

\* Mutant: the mode is not looked at, nor the payment.
EarnsUnpaid(row) == TRUE

\* canRecordDriverEarning, without a subsidy.
MayEarn(row) == row.mode # "cash" /\ Succeeded(row)

\* recordCompletedBookingEarning; it throws when the row there is of another
\* fare, and the request ends.
Earn(k) ==
  LET c == call[k] IN
  /\ At(k, "earn")
  /\ \/ ~MayEarn(c.row) /\ Goes(k, "bonus") /\ UNCHANGED earned
     \/ /\ MayEarn(c.row) /\ earned[c.b] \in {0, c.row.fare}
        /\ Earns(c.b, c.row.fare) /\ Goes(k, "bonus")
     \/ MayEarn(c.row) /\ earned[c.b] \notin {0, c.row.fare} /\ Ends(k) /\ UNCHANGED earned
  /\ UNCHANGED <<wallet, ledger, rewards, booking, payment, stop, repair>>

\* awardLoyaltyForBooking: the bonus of a ride paid otherwise than in cash.
Bonus(k) ==
  LET row == call[k].row IN
  /\ At(k, "bonus")
  /\ Rewarded(call[k].b,
       BaseOf(row) \cup {part \in {"bonus"} : Completed(row) /\ MayEarn(row)})
  /\ Settled(k)
  /\ UNCHANGED <<booking, payment, stop, earned, repair>>

----------------------------------------------------------------------------
(* The arrival.                                                            *)

\* A GPS pass reads the row, then changes the status of the row that is still
\* accepted, and settles with the row it read.
ReadPass(k, b) ==
  /\ booking[b].status = "accepted"
  /\ Begins(k, Work("dropoff", b, booking[b]))
  /\ UNCHANGED <<wallet, ledger, rewards, booking, payment, stop, earned, repair>>

Dropoff(k) ==
  LET b == call[k].b IN
  /\ At(k, "dropoff") /\ booking[b].status = "accepted"
  /\ Saves(b, [booking[b] EXCEPT !.status = "completed"])
  /\ GoesWith(k, "reward", [call[k].row EXCEPT !.status = "completed"])
  /\ UNCHANGED <<wallet, ledger, rewards, payment, stop, earned, repair>>

\* updateStatusTransactionally, and the declarations of both: on a locked row.
DriverCompletes(k, b) ==
  /\ booking[b].status = "accepted"
  /\ Saves(b, [booking[b] EXCEPT !.status = "completed"])
  /\ Begins(k, Work("reward", b, booking'[b]))
  /\ UNCHANGED <<wallet, ledger, rewards, payment, stop, earned, repair>>

----------------------------------------------------------------------------
(* The passenger chooses how to pay, and pays.                             *)

ReadMode(k, b, mode) ==
  LET row == booking[b] IN
  /\ row.status # "cancelled" /\ ~Succeeded(row)
  /\ \/ /\ row.mode # mode
        /\ Begins(k, Work("saveMode", b,
             [row EXCEPT !.mode = mode, !.paid = IF mode = "cash" THEN None ELSE "pending"]))
     \/ row.mode = mode /\ mode = "points" /\ Begins(k, Work("payMode", b, row))
  /\ UNCHANGED <<wallet, ledger, rewards, booking, payment, stop, earned, repair>>

\* An accepted booking is captured only near the destination.
SaveMode(k) ==
  LET row == call[k].row IN
  /\ At(k, "saveMode")
  /\ Saves(call[k].b, row)
  /\ \/ row.mode = "points" /\ Goes(k, "payMode")
     \/ (row.mode # "points" \/ ~Completed(row)) /\ Ends(k)
  /\ UNCHANGED <<wallet, ledger, rewards, payment, stop, earned, repair>>

PayMode(k) ==
  LET b == call[k].b IN
  /\ At(k, "payMode") /\ ~CaptureRefused(b)
  /\ Captured(b)
  /\ IF Completed(booking[b]) THEN GoesWith(k, "finalize", booking'[b]) ELSE Ends(k)
  /\ UNCHANGED <<rewards, payment, stop, repair>>

\* initiateBookingPayment: the row of a booking that has another mode becomes
\* electronic; one that waits for a provider's payment keeps it.
ReadPay(k, b) ==
  LET row == booking[b] IN
  /\ "electronic" \in Modes /\ row.mode # "points" /\ ~Succeeded(row)
  /\ Completed(row) \/ (row.status = "accepted" /\ row.mode = "electronic")
  /\ Begins(k, Work("savePay", b,
       IF row.mode = "electronic" THEN row
       ELSE [row EXCEPT !.mode = "electronic", !.paid = "pending"]))
  /\ UNCHANGED <<wallet, ledger, rewards, booking, payment, stop, earned, repair>>

SavePay(k) ==
  /\ At(k, "savePay")
  /\ Saves(call[k].b, call[k].row)
  /\ Goes(k, "initiate")
  /\ UNCHANGED <<wallet, ledger, rewards, payment, stop, earned, repair>>

\* Mutant: the mode of the booking is not set.
AppliedKeepsMode(row, status, amount) ==
  [row EXCEPT !.paid = IF status = "pending" THEN "initiated" ELSE status,
              !.fare = Smaller(row.fare, amount)]

\* applyPaymentToBooking; the fare of an interruption stays.
Applied(row, status, amount) ==
  [row EXCEPT !.mode = "electronic",
              !.paid = IF status = "pending" THEN "initiated" ELSE status,
              !.fare = Smaller(row.fare, amount)]

\* A payment that waits for the same amount is used again.  One booking has
\* one payment that may succeed (bound).
Initiate(k) ==
  LET c == call[k] IN
  /\ At(k, "initiate") /\ payment[c.b].status # "succeeded"
  /\ payment[c.b].status = "pending" => payment[c.b].amount = c.row.fare
  /\ payment' = [payment EXCEPT ![c.b] = [status |-> "pending", amount |-> c.row.fare]]
  /\ GoesWith(k, "apply", Applied(c.row, "pending", c.row.fare))
  /\ UNCHANGED <<wallet, ledger, rewards, booking, stop, earned, repair>>

Provider(b, status) ==
  /\ payment[b].status = "pending"
  /\ payment' = [payment EXCEPT ![b].status = status]
  /\ UNCHANGED <<wallet, ledger, rewards, booking, stop, earned, call, repair>>

\* The callback, and a check of the status.
ReadCallback(k, b) ==
  /\ payment[b].status # None
  /\ Begins(k, Work("apply", b, Applied(booking[b], payment[b].status, payment[b].amount)))
  /\ UNCHANGED <<wallet, ledger, rewards, booking, payment, stop, earned, repair>>

ApplyPayment(k) ==
  LET row == call[k].row IN
  /\ At(k, "apply")
  /\ Saves(call[k].b, row)
  /\ IF Completed(row) /\ Succeeded(row) THEN Goes(k, "finalize") ELSE Ends(k)
  /\ UNCHANGED <<wallet, ledger, rewards, payment, stop, earned, repair>>

----------------------------------------------------------------------------
(* Cancellation by the passenger.                                          *)

ReadCancel(k, b) ==
  /\ booking[b].status \in {"accepted", "cancelled"}
  /\ Begins(k, Work("cancel", b, [booking[b] EXCEPT !.status = "cancelled"]))
  /\ UNCHANGED <<wallet, ledger, rewards, booking, payment, stop, earned, repair>>

SaveCancelled(k) ==
  LET row == call[k].row IN
  /\ At(k, "cancel")
  /\ Saves(call[k].b, row)
  /\ IF row.mode = "points" /\ Succeeded(row) THEN Goes(k, "refund") ELSE Ends(k)
  /\ UNCHANGED <<wallet, ledger, rewards, payment, stop, earned, repair>>

\* refundBookingPayment: nothing is returned without a debit, or twice.
Refund(k) ==
  LET c == call[k] IN
  /\ At(k, "refund") /\ ledger[c.b].refund = 0 /\ LeftToRefund(c.b) > 0
  /\ Refunds(c.b)
  /\ GoesWith(k, "saveRefunded", [c.row EXCEPT !.paid = "cancelled"])
  /\ UNCHANGED <<rewards, booking, payment, stop, earned, repair>>

\* The refund of another request came in between.
RefundedAlready(k) ==
  LET c == call[k] IN
  /\ At(k, "refund") /\ ledger[c.b].refund > 0
  /\ GoesWith(k, "saveRefunded", [c.row EXCEPT !.paid = "cancelled"])
  /\ UNCHANGED <<wallet, ledger, rewards, booking, payment, stop, earned, repair>>

SaveRefunded(k) ==
  /\ At(k, "saveRefunded")
  /\ Saves(call[k].b, call[k].row)
  /\ Ends(k)
  /\ UNCHANGED <<wallet, ledger, rewards, payment, stop, earned, repair>>

----------------------------------------------------------------------------
(* Interruptions.                                                          *)

\* completeBookingByTripInterruption: the reduced fare is saved first, then
\* the difference comes back, then the booking is completed.
ReadStop(k, b) ==
  LET row == booking[b] IN
  /\ row.status = "accepted" /\ row.paid # "initiated"
  /\ Begins(k, IF row.fare = Fare THEN Work("saveStop", b, [row EXCEPT !.fare = Reduced])
                ELSE Work("completeStop", b, row))
  /\ UNCHANGED <<wallet, ledger, rewards, booking, payment, stop, earned, repair>>

PaidAhead(row) == row.mode # "cash" /\ Succeeded(row)

SaveStop(k) ==
  LET row == call[k].row IN
  /\ At(k, "saveStop")
  /\ Saves(call[k].b, row)
  /\ Goes(k, IF PaidAhead(row) THEN "adjust" ELSE "completeStop")
  /\ UNCHANGED <<wallet, ledger, rewards, payment, stop, earned, repair>>

Adjust(k) ==
  LET c == call[k] IN
  /\ At(k, "adjust") /\ ~AdjustRefused(c.b, Fare - Reduced)
  /\ Adjusts(c.b, Fare - Reduced)
  /\ Goes(k, IF c.stop THEN "reward" ELSE "completeStop")
  /\ UNCHANGED <<rewards, booking, payment, stop, earned, repair>>

CompleteStop(k) ==
  LET row == [call[k].row EXCEPT !.status = "completed"] IN
  /\ At(k, "completeStop")
  /\ Saves(call[k].b, row)
  /\ GoesWith(k, "reward", row)
  /\ UNCHANGED <<wallet, ledger, rewards, payment, stop, earned, repair>>

\* decide: a passenger who stops while the driver has paused the trip; the
\* row is locked, and what was paid before is remembered.
DecideStop(b) ==
  LET row == booking[b] IN
  /\ stop[b].state = None
  /\ row.status = "accepted" /\ row.paid # "initiated" /\ row.fare = Fare
  /\ Saves(b, [row EXCEPT !.status = "completed", !.fare = Reduced])
  /\ stop' = [stop EXCEPT ![b] = [prepaid |-> IF Succeeded(row) THEN Fare ELSE 0,
                                  state |-> "decided"]]
  /\ UNCHANGED <<wallet, ledger, rewards, payment, earned, call, repair>>

\* settleDriverInterruptionFare, and its retry until it is marked settled.
SettleStop(k, b) ==
  LET row == booking[b]
      ahead == stop[b].prepaid > row.fare /\ PaidAhead(row) IN
  /\ stop[b].state = "decided" /\ row.fare = Reduced
  /\ Begins(k, [Work(IF ahead THEN "adjust" ELSE "reward", b, row) EXCEPT !.stop = TRUE])
  /\ UNCHANGED <<wallet, ledger, rewards, booking, payment, stop, earned, repair>>

MarkSettled(k) ==
  /\ At(k, "settled")
  /\ stop' = [stop EXCEPT ![call[k].b].state = "settled"]
  /\ Ends(k)
  /\ UNCHANGED <<wallet, ledger, rewards, booking, payment, earned, repair>>

----------------------------------------------------------------------------
(* reconcileTokenTripSettlements, every five minutes.                      *)

\* Mutant: unpaid bookings are found too.
StrandedUnpaid(b) ==
  /\ booking[b].mode = "points" /\ Completed(booking[b])
  /\ ledger[b].refund = 0
  /\ ~Succeeded(booking[b]) \/ earned[b] = 0

Stranded(b) ==
  /\ booking[b].mode = "points" /\ Completed(booking[b])
  /\ ledger[b].debit > 0 /\ ledger[b].refund = 0
  /\ ~Succeeded(booking[b]) \/ earned[b] = 0

RepairReads(b) ==
  /\ repair = None /\ Stranded(b) /\ repair' = b
  /\ UNCHANGED <<wallet, ledger, rewards, booking, payment, stop, earned, call>>

Repair ==
  /\ repair # None /\ repair' = None
  /\ \/ ~CaptureRefused(repair) /\ Captured(repair)
     \/ /\ CaptureRefused(repair) \/ ~Completed(booking[repair])
        /\ WalletUnchanged /\ UNCHANGED <<booking, earned>>
  /\ UNCHANGED <<rewards, payment, stop, call>>

----------------------------------------------------------------------------
\* An error that is not caught, or a crash, ends a request at any step.
Drop(k) ==
  /\ call[k] # Idle /\ Ends(k)
  /\ UNCHANGED <<wallet, ledger, rewards, booking, payment, stop, earned, repair>>

Begin(k, b) ==
  \/ ReadPass(k, b) \/ DriverCompletes(k, b) \/ ReadPay(k, b) \/ ReadCallback(k, b)
  \/ ReadCancel(k, b) \/ ReadStop(k, b) \/ SettleStop(k, b)
  \/ \E mode \in Modes : ReadMode(k, b, mode)

Continue(k) ==
  \/ Reward(k) \/ SaveSettled(k) \/ SaveCash(k) \/ Capture(k) \/ CaptureFails(k)
  \/ Defer(k) \/ Finalize(k) \/ Earn(k) \/ Bonus(k) \/ Dropoff(k)
  \/ SaveMode(k) \/ PayMode(k) \/ SavePay(k) \/ Initiate(k) \/ ApplyPayment(k)
  \/ SaveCancelled(k) \/ Refund(k) \/ RefundedAlready(k) \/ SaveRefunded(k)
  \/ SaveStop(k) \/ Adjust(k) \/ CompleteStop(k) \/ MarkSettled(k)

Next ==
  \/ \E k \in Calls : Continue(k) \/ Drop(k) \/ \E b \in Bookings : Begin(k, b)
  \/ \E b \in Bookings : \/ DecideStop(b) \/ RepairReads(b)
                        \/ \E s \in {"succeeded", "failed"} : Provider(b, s)
  \/ Repair \/ TopUp

Spec == Init /\ [][Next]_vars

\* The cron runs every five minutes and takes the bookings it finds in turn.
FairSpec == Spec /\ WF_vars(Repair) /\ \A b \in Bookings : SF_vars(RepairReads(b))

----------------------------------------------------------------------------
(* Properties.                                                             *)

\* However requests, retries and repairs interleave, what comes back of a
\* booking's tokens is never more than what was taken, and no more purchased
\* (cash redeemable) tokens come back than were taken.  The adjustment of an
\* electronic payment has no debit and brings no purchased token.
ReturnedWithinDebit ==
  \A b \in Bookings :
    LET e == ledger[b] IN
    /\ RefundedPurchased(e) <= e.debitPurchased
    /\ e.refund > 0 => Refunded(e) <= e.debit

\* An entry of the ledger is written once: a second capture, refund or
\* adjustment of the same booking, by a retry, another request or the
\* repair, leaves it as it is.
EntriesFinal ==
  [][\A b \in Bookings : \A part \in {"debit", "refund", "adjust"} :
       ledger[b][part] > 0 => ledger'[b][part] = ledger[b][part]]_vars

\* A driver earns only what was paid at some time: by the tokens of the
\* booking or by the provider.
EarningBacked ==
  \A b \in Bookings :
    earned[b] > 0 => ledger[b].debit > 0 \/ payment[b].status = "succeeded"

\* The alarm of the reconciliation stays silent: a booking that is marked as
\* paid in tokens has its debit, whatever row is saved over another.
PaidHasDebit ==
  \A b \in Bookings :
    booking[b].mode = "points" /\ Succeeded(booking[b]) => ledger[b].debit > 0

\* The reconciliation never takes a token, though the booking it captures may
\* have changed since it was found.
RepairTakesNothing ==
  [][repair # None /\ repair' = None => WalletUnchanged]_vars

\* Tokens that were taken without the booking being marked as paid are found
\* and the payment is completed, unless a request changes the booking.
DebitCompleted ==
  \A b \in Bookings :
    (Stranded(b) /\ ~Succeeded(booking[b]) /\ ledger[b].debit = booking[b].fare
       /\ earned[b] \in {0, booking[b].fare})
      ~> (~Stranded(b) \/ Succeeded(booking[b]) \/ ledger[b].debit # booking[b].fare)

\* atomic-token-trip-settlement.md says that the repair completes the status
\* and the driver's earning of a debited booking where one is missing.  The
\* capture leaves a booking alone that is marked as paid.
EarningCompleted ==
  \A b \in Bookings :
    (Stranded(b) /\ ledger[b].debit = booking[b].fare)
      ~> (~Stranded(b) \/ ledger[b].debit # booking[b].fare)
----------------------------------------------------------------------------
(* What makes them inductive.                                              *)

\* A row that says it is paid, in the table or in somebody's hands: by the
\* tokens of the booking or by its provider.
RowTrue(b, row) ==
  Succeeded(row) => \/ row.mode = "points" /\ ledger[b].debit > 0
                    \/ row.mode = "electronic" /\ payment[b].status = "succeeded"

\* Without a debit nothing was purchased with it, and nothing refunded.
DebitFirst ==
  \A b \in Bookings :
    ledger[b].debit = 0 => ledger[b].debitPurchased = 0 /\ ledger[b].refund = 0

IInv ==
  /\ TypeOK /\ ReturnedWithinDebit /\ DebitFirst /\ EarningBacked
  /\ \A b \in Bookings : RowTrue(b, booking[b])
  /\ \A k \in Calls : call[k] # Idle => RowTrue(call[k].b, call[k].row)
  /\ repair # None => ledger[repair].debit > 0
=============================================================================
