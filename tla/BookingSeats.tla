---------------------------- MODULE BookingSeats ----------------------------
(***************************************************************************)
(* The seats of one public trip.  BookingsService inserts bookings from an *)
(* unlocked read, changes their status in a transaction that locks the     *)
(* booking and then the trip, cancels them and changes their payment mode  *)
(* by saving the whole row it read, and recomputes availableSeats by a     *)
(* read and a save of the trip without a lock.  RideDeclarationsService    *)
(* locks the trip and then the booking.  A save waits for the lock of the  *)
(* row it writes.  Every booking takes one seat; a rejection is modelled   *)
(* as the driver's cancellation, which does the same to the seats.         *)
(***************************************************************************)
EXTENDS Integers, FiniteSets

CONSTANTS
  Bookings,     \* bookings passengers may make on the trip
  Calls,        \* requests in flight
  Total,        \* totalSeats of the trip as it was published
  MaxTotal      \* bound: the seats of a vehicle

None == "none"

ASSUME SeatsAssumption ==
  /\ None \notin Calls \cup Bookings /\ IsFiniteSet(Bookings)
  /\ Total \in Nat \ {0} /\ MaxTotal \in Nat /\ Total <= MaxTotal

VARIABLES
  trip,     \* the trips row
  booking,  \* booking[b]: the bookings row
  holder,   \* holder.trip, holder.booking[b]: the transaction with the row lock
  call,     \* call[k]: an operation between two database calls
  returned  \* bookings that got their seat back unasked (history)

vars == <<trip, booking, holder, call, returned>>

Trip == [status : {"pending", "active", "completed"},
         total : 1..MaxTotal, available : 0..MaxTotal]
Booking == [status : {None, "pending", "accepted", "cancelled", "no_show",
                      "completed"},
            aboard : BOOLEAN]
Holder == [trip : Calls \cup {None}, booking : [Bookings -> Calls \cup {None}]]

\* The changes of a transaction of the driver, and of a declaration.
Updates == {"accepted", "cancelled", "completed"}
Idle == [pc |-> "idle"]
Call == {Idle}
  \cup [pc : {"booking", "trip", "change"}, b : Bookings, to : Updates]
  \cup [pc : {"commit"}, b : Bookings, to : Updates, left : 0..MaxTotal]
  \cup [pc : {"declareTrip", "declareBooking", "declare"}, b : Bookings,
         stage : {"pickup", "dropoff"}]
  \cup [pc : {"insert"}, b : Bookings]
  \cup [pc : {"cancel", "repay"}, b : Bookings, row : Booking]
  \cup [pc : {"recount", "complete"}]
  \cup [pc : {"saveTrip"}, row : Trip, known : SUBSET Bookings]

TypeOK ==
  /\ trip \in Trip
  /\ booking \in [Bookings -> Booking]
  /\ holder \in Holder
  /\ call \in [Calls -> Call]
  /\ returned \in SUBSET Bookings

Init ==
  /\ trip = [status |-> "pending", total |-> Total, available |-> Total]
  /\ booking = [b \in Bookings |-> [status |-> None, aboard |-> FALSE]]
  /\ holder = [trip |-> None, booking |-> [b \in Bookings |-> None]]
  /\ call = [k \in Calls |-> Idle]
  /\ returned = {}

----------------------------------------------------------------------------
At(k, pc) == call[k].pc = pc
Becomes(k, work) == call' = [call EXCEPT ![k] = work]
Ends(k) == Becomes(k, Idle)
Goes(k, pc) == call' = [call EXCEPT ![k].pc = pc]
Begins(k, work) ==
  call[k] = Idle /\ Becomes(k, work) /\ UNCHANGED <<trip, booking, holder, returned>>

TripFree == holder.trip = None
BookingFree(b) == holder.booking[b] = None

AcceptedOf(rows) == {b \in Bookings : rows[b].status = "accepted"}

\* Mutant: the number may fall below zero.
LeftUnclamped(total, taken) == total - taken

LeftOver(total, taken) == IF taken < total THEN total - taken ELSE 0

\* calculateAvailableSeatsFromAcceptedBookings, getAcceptedSeatCount.
SeatsLeft(total) == LeftOver(total, Cardinality(AcceptedOf(booking)))

\* A booking is accepted again that was not, without any look at the seats.
Returns(b) ==
  returned' = IF booking[b].status # "accepted" /\ booking'[b].status = "accepted"
              THEN returned \cup {b} ELSE returned

----------------------------------------------------------------------------
(* Outside of transactions.                                                *)

SavesTrip(row, known) == [pc |-> "saveTrip", row |-> row, known |-> known]

\* recalculateAvailableSeatsForTrip: the row and the count are read, and the
\* whole row is saved when the number differs.
Recount(k) ==
  LET seats == SeatsLeft(trip.total) IN
  /\ At(k, "recount")
  /\ Becomes(k, IF seats = trip.available THEN Idle
                ELSE SavesTrip([trip EXCEPT !.available = seats], Bookings))
  /\ UNCHANGED <<trip, booking, holder, returned>>

Made == {b \in Bookings : booking[b].status # None}

\* A row that was read with its bookings cannot be saved when there is a new
\* one: the ORM would detach it from the trip.
SaveTrip(k) ==
  /\ At(k, "saveTrip") /\ TripFree /\ Made \subseteq call[k].known /\ Ends(k)
  /\ trip' = call[k].row
  /\ UNCHANGED <<booking, holder, returned>>

\* create: the checks, the insertion (a pending booking takes no seat).
ReadCreate(k, b) ==
  /\ booking[b].status = None
  /\ trip.status = "pending" \/ (trip.status = "active" /\ trip.available > 0)
  /\ SeatsLeft(trip.total) >= 1
  /\ Begins(k, [pc |-> "insert", b |-> b])

InsertBooking(k) ==
  LET b == call[k].b IN
  /\ At(k, "insert") /\ booking[b].status = None
  /\ booking' = [booking EXCEPT ![b] = [status |-> "pending", aboard |-> FALSE]]
  /\ Becomes(k, [pc |-> "recount"])
  /\ UNCHANGED <<trip, holder, returned>>

\* cancel, by the passenger or the driver.
ReadCancel(k, b) ==
  /\ booking[b].status \in {"pending", "accepted", "cancelled"}
  /\ Begins(k, [pc |-> "cancel", b |-> b, row |-> booking[b]])

SaveCancelled(k) ==
  LET c == call[k] IN
  /\ At(k, "cancel") /\ BookingFree(c.b)
  /\ booking' = [booking EXCEPT ![c.b] = [c.row EXCEPT !.status = "cancelled"]]
  /\ Becomes(k, IF c.row.status = "accepted" THEN [pc |-> "recount"] ELSE Idle)
  /\ UNCHANGED <<trip, holder, returned>>

\* updatePaymentMode: the row that was read is saved with another mode.
ReadRepay(k, b) ==
  /\ booking[b].status \in {"pending", "accepted", "completed"}
  /\ Begins(k, [pc |-> "repay", b |-> b, row |-> booking[b]])

SaveRepay(k) ==
  LET c == call[k] IN
  /\ At(k, "repay") /\ BookingFree(c.b) /\ Ends(k)
  /\ booking' = [booking EXCEPT ![c.b] = c.row]
  /\ Returns(c.b)
  /\ UNCHANGED <<trip, holder>>

\* The automatic absence, the late pickup and the arrival: conditional
\* updates by a pass that saw the trip under way.
Updated(k, b, row, next) ==
  /\ call[k] = Idle /\ BookingFree(b) /\ trip.status # "pending"
  /\ booking' = [booking EXCEPT ![b] = row]
  /\ Becomes(k, next)
  /\ Returns(b)
  /\ UNCHANGED <<trip, holder>>

NoShow(k, b) ==
  /\ booking[b].status = "accepted" /\ ~booking[b].aboard
  /\ Updated(k, b, [status |-> "no_show", aboard |-> FALSE], [pc |-> "recount"])

Pickup(k, b) ==
  /\ booking[b].status \in {"accepted", "no_show"} /\ ~booking[b].aboard
  /\ Updated(k, b, [status |-> "accepted", aboard |-> TRUE],
             IF booking[b].status = "no_show" THEN [pc |-> "recount"] ELSE Idle)

Dropoff(k, b) ==
  /\ booking[b].status = "accepted"
  /\ Updated(k, b, [status |-> "completed", aboard |-> TRUE], Idle)

OnBoard == {b \in AcceptedOf(booking) : booking[b].aboard}

\* startTrip saves the whole row it read.
ReadStart(k) ==
  /\ trip.status = "pending"
  /\ Begins(k, SavesTrip([trip EXCEPT !.status = "active"], Made))

\* completeTrip looks at the bookings, then changes the status alone.
ReadComplete(k) ==
  /\ trip.status = "active" /\ AcceptedOf(booking) = {}
  /\ Begins(k, [pc |-> "complete"])

WriteComplete(k) ==
  /\ At(k, "complete") /\ TripFree /\ trip.status = "active" /\ Ends(k)
  /\ trip' = [trip EXCEPT !.status = "completed"]
  /\ UNCHANGED <<booking, holder, returned>>

\* update: the seats that are left move with the total.
Resized(row, seats) ==
  [row EXCEPT !.total = seats,
              !.available = LeftOver(seats, row.total - row.available)]

ReadResize(k, seats) ==
  /\ seats # trip.total /\ OnBoard = {}
  /\ Begins(k, SavesTrip(Resized(trip, seats), Made))

----------------------------------------------------------------------------
(* Transactions: updateStatusTransactionally, and declare.                 *)

Locks(k, pc, b, t) ==
  /\ holder' = [trip |-> IF t THEN k ELSE holder.trip,
                booking |-> [c \in Bookings |->
                  IF c = b THEN k ELSE holder.booking[c]]]
  /\ Goes(k, pc)
  /\ UNCHANGED <<trip, booking, returned>>

Unlocked(k) ==
  [trip |-> IF holder.trip = k THEN None ELSE holder.trip,
   booking |-> [b \in Bookings |->
     IF holder.booking[b] = k THEN None ELSE holder.booking[b]]]

BeginUpdate(k, b, to) ==
  /\ booking[b].status # None
  /\ Begins(k, [pc |-> "booking", b |-> b, to |-> to])

LockBooking(k) ==
  At(k, "booking") /\ BookingFree(call[k].b) /\ Locks(k, "trip", call[k].b, FALSE)

\* Mutant: the trip is read without a lock.
ReadTripUnlocked(k) ==
  At(k, "trip") /\ Locks(k, "change", None, FALSE)

LockTrip(k) ==
  At(k, "trip") /\ TripFree /\ Locks(k, "change", None, TRUE)

Open == {"pending", "accepted"}
MayBecome(row, to) ==
  CASE to = "accepted" -> row.status = "pending" /\ trip.status \in {"pending", "active"}
    [] to = "completed" -> row.status = "accepted" /\ row.aboard
    [] OTHER -> row.status \in Open

\* The seats that the change leaves; an acceptance needs one.
Change(k) ==
  LET b == call[k].b
      to == call[k].to
      others == Cardinality(AcceptedOf(booking) \ {b})
      taken == others + IF to = "accepted" THEN 1 ELSE 0 IN
  /\ At(k, "change") /\ MayBecome(booking[b], to)
  /\ to = "accepted" => taken <= trip.total
  /\ Becomes(k, [pc |-> "commit", b |-> b, to |-> to,
                 left |-> LeftOver(trip.total, taken)])
  /\ UNCHANGED <<trip, booking, holder, returned>>

Commit(k) ==
  LET c == call[k] IN
  /\ At(k, "commit") /\ Ends(k)
  /\ booking' = [booking EXCEPT ![c.b].status = c.to]
  /\ trip' = [trip EXCEPT !.available = c.left]
  /\ holder' = Unlocked(k)
  /\ returned' = returned \ {c.b}

BeginDeclare(k, b, stage) ==
  /\ booking[b].status # None
  /\ Begins(k, [pc |-> "declareTrip", b |-> b, stage |-> stage])

DeclareLocksTrip(k) ==
  At(k, "declareTrip") /\ TripFree /\ Locks(k, "declareBooking", None, TRUE)

DeclareLocksBooking(k) ==
  /\ At(k, "declareBooking") /\ BookingFree(call[k].b)
  /\ Locks(k, "declare", call[k].b, FALSE)

\* A stage both declared.
Declare(k) ==
  LET b == call[k].b
      stage == call[k].stage IN
  /\ At(k, "declare") /\ trip.status = "active" /\ booking[b].status = "accepted"
  /\ stage = "dropoff" => booking[b].aboard
  /\ booking' = [booking EXCEPT ![b] =
       [status |-> IF stage = "pickup" THEN "accepted" ELSE "completed",
        aboard |-> TRUE]]
  /\ holder' = Unlocked(k)
  /\ Ends(k)
  /\ UNCHANGED <<trip, returned>>

\* Mutant: a refused change leaves its connection in the transaction.
RolledBackLocked(k) == Ends(k) /\ UNCHANGED <<trip, booking, holder, returned>>

\* A refusal, an error or an abort rolls the transaction back.
RolledBack(k) == Ends(k) /\ holder' = Unlocked(k) /\ UNCHANGED <<trip, booking, returned>>

\* PostgreSQL aborts one of two transactions that wait for each other; a
\* request may also end at any step by an error or a crash.
Drop(k) == call[k] # Idle /\ RolledBack(k)

\* The transaction that k waits for.
WaitsFor(k, j) ==
  \/ call[k].pc \in {"trip", "declareTrip"} /\ holder.trip = j
  \/ call[k].pc \in {"booking", "declareBooking"} /\ holder.booking[call[k].b] = j

----------------------------------------------------------------------------
Begin(k) ==
  \/ \E b \in Bookings : \/ ReadCreate(k, b) \/ ReadCancel(k, b) \/ ReadRepay(k, b)
                         \/ NoShow(k, b) \/ Pickup(k, b) \/ Dropoff(k, b)
                         \/ \E to \in Updates : BeginUpdate(k, b, to)
                         \/ \E stage \in {"pickup", "dropoff"} : BeginDeclare(k, b, stage)
  \/ ReadStart(k) \/ ReadComplete(k)
  \/ \E seats \in 1..MaxTotal : ReadResize(k, seats)

Next ==
  \E k \in Calls :
    \/ Begin(k)
    \/ Recount(k) \/ SaveTrip(k) \/ WriteComplete(k)
    \/ InsertBooking(k) \/ SaveCancelled(k) \/ SaveRepay(k)
    \/ LockBooking(k) \/ LockTrip(k) \/ Change(k) \/ Commit(k)
    \/ DeclareLocksTrip(k) \/ DeclareLocksBooking(k) \/ Declare(k)
    \/ Drop(k)

Spec == Init /\ [][Next]_vars

----------------------------------------------------------------------------
(* Properties.                                                             *)

\* Two acceptances never share a seat: when the driver accepts a booking, all
\* bookings he accepted fit the seats the trip has, whatever is cancelled,
\* recovered, recounted or resized meanwhile without a lock.  Bookings that
\* a late pickup or a stale save brought back are not counted.
AcceptedWithinSeats ==
  [][\A k \in Calls :
       call[k].pc = "commit" /\ call[k].to = "accepted" /\ booking' # booking =>
         Cardinality(AcceptedOf(booking') \ returned') <= trip.total]_vars

\* updateStatusTransactionally and declare lock in opposite orders: the only
\* transactions that may wait for each other, and that PostgreSQL has to
\* abort, are one of each on the same booking.
DeadlocksOnOneBooking ==
  \A k, j \in Calls :
    WaitsFor(k, j) /\ WaitsFor(j, k) =>
      call[k].b = call[j].b /\ call[k].pc # call[j].pc
----------------------------------------------------------------------------
(* What makes them inductive.                                              *)

TripHeldAt == {"change", "commit", "declareBooking", "declare"}
BookingHeldAt == {"trip", "change", "commit", "declare"}

\* The locks are those of the transactions that took them.
LocksInv ==
  /\ \A k \in Calls : holder.trip = k <=> call[k].pc \in TripHeldAt
  /\ \A k \in Calls, b \in Bookings :
       holder.booking[b] = k => call[k].pc \in BookingHeldAt /\ call[k].b = b

\* No row, and no row a request has in its hands, leaves more than the total.
SeatsFit ==
  /\ trip.available <= trip.total
  /\ \A k \in Calls :
       /\ At(k, "saveTrip") => call[k].row.available <= call[k].row.total
       /\ At(k, "commit") => call[k].left <= trip.total

\* Bookings the driver accepted for a seat.
Firm == AcceptedOf(booking) \ returned

\* There is a seat for the booking that is about to be accepted.
AcceptanceFits ==
  \A k \in Calls :
    At(k, "commit") /\ call[k].to = "accepted" =>
      Cardinality(Firm \ {call[k].b}) < trip.total

IInv == TypeOK /\ LocksInv /\ SeatsFit /\ AcceptanceFits
=============================================================================
