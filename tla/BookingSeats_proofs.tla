------------------------ MODULE BookingSeats_proofs ------------------------
(***************************************************************************)
(* Theorems about BookingSeats, for any bookings, requests and seats: the  *)
(* types, the order in which transactions wait for each other, and that    *)
(* acceptances never share a seat.                                         *)
(***************************************************************************)
EXTENDS BookingSeats, FiniteSetTheorems, TLAPS

----------------------------------------------------------------------------
(* Types.                                                                  *)

\* What a call knows at each of its steps.
LEMMA CallFields ==
  ASSUME NEW c \in Call
  PROVE  /\ c.pc \in {"booking", "trip", "change"} =>
              c \in [pc : {"booking", "trip", "change"}, b : Bookings, to : Updates]
         /\ c.pc = "commit" =>
              c \in [pc : {"commit"}, b : Bookings, to : Updates, left : 0..MaxTotal]
         /\ c.pc \in {"declareTrip", "declareBooking", "declare"} =>
              c \in [pc : {"declareTrip", "declareBooking", "declare"}, b : Bookings,
                     stage : {"pickup", "dropoff"}]
         /\ c.pc = "insert" => c \in [pc : {"insert"}, b : Bookings]
         /\ c.pc \in {"cancel", "repay"} =>
              c \in [pc : {"cancel", "repay"}, b : Bookings, row : Booking]
         /\ c.pc \in {"recount", "complete"} => c \in [pc : {"recount", "complete"}]
         /\ c.pc = "saveTrip" =>
              c \in [pc : {"saveTrip"}, row : Trip, known : SUBSET Bookings]
  BY DEF Call, Idle

LEMMA BecomesTyped ==
  ASSUME TypeOK, NEW k \in Calls, NEW work \in Call, Becomes(k, work)
  PROVE  call' \in [Calls -> Call]
  BY DEF TypeOK, Becomes

\* The accepted bookings can be counted, and what is left is a number of seats.
LEMMA Counting ==
  /\ \A rows : IsFiniteSet(AcceptedOf(rows))
  /\ \A S \in SUBSET Bookings : IsFiniteSet(S) /\ Cardinality(S) \in Nat
  /\ \A total \in 1..MaxTotal, taken \in Nat : LeftOver(total, taken) \in 0..MaxTotal
<1>1. \A S \in SUBSET Bookings : IsFiniteSet(S) /\ Cardinality(S) \in Nat
  BY SeatsAssumption, FS_Subset, FS_CardinalityType
<1>2. \A rows : IsFiniteSet(AcceptedOf(rows))
  BY <1>1 DEF AcceptedOf
<1>3. \A total \in 1..MaxTotal, taken \in Nat : LeftOver(total, taken) \in 0..MaxTotal
  BY SeatsAssumption DEF LeftOver
<1> QED  BY <1>1, <1>2, <1>3

LEMMA InitTyped == Init => TypeOK
  BY SeatsAssumption DEF Init, TypeOK, Trip, Booking, Holder, Call, Idle

\* A call that begins or goes on takes nothing with it that is not typed.
LEMMA LocksTyped ==
  ASSUME TypeOK, NEW k \in Calls, NEW pc, NEW b, NEW t \in BOOLEAN,
         Locks(k, pc, b, t), [call[k] EXCEPT !.pc = pc] \in Call
  PROVE  TypeOK'
<1>1. call' \in [Calls -> Call]
  BY DEF TypeOK, Locks, Goes
<1>2. holder' \in Holder
  BY DEF TypeOK, Locks, Holder
<1> QED  BY <1>1, <1>2 DEF TypeOK, Locks

LEMMA UnlockedTyped ==
  ASSUME TypeOK, NEW k \in Calls
  PROVE  Unlocked(k) \in Holder
  BY DEF TypeOK, Unlocked, Holder

LEMMA ResizedFits ==
  ASSUME TypeOK, SeatsFit, NEW seats \in 1..MaxTotal
  PROVE  /\ Resized(trip, seats) \in Trip
         /\ Resized(trip, seats).available <= Resized(trip, seats).total
<1> DEFINE left == LeftOver(seats, trip.total - trip.available)
<1>1. trip \in Trip /\ trip.total \in 1..MaxTotal /\ trip.available \in 0..MaxTotal
  BY DEF TypeOK, Trip
<1>2. left \in 0..seats /\ seats \in Int /\ MaxTotal \in Int
  BY <1>1, SeatsAssumption DEF SeatsFit, LeftOver
<1> HIDE DEF left
<1>3. [trip EXCEPT !.total = seats, !.available = left] \in Trip
  <2>1. left \in 0..MaxTotal  BY <1>2
  <2> QED  BY <1>1, <2>1 DEF Trip
<1>4. [trip EXCEPT !.total = seats, !.available = left].available = left
  /\ [trip EXCEPT !.total = seats, !.available = left].total = seats
  BY <1>1 DEF Trip
<1> QED  BY <1>2, <1>3, <1>4 DEF left, Resized

LEMMA BeginTyped ==
  ASSUME TypeOK, SeatsFit, NEW k \in Calls, Begin(k)
  PROVE  TypeOK'
<1> USE DEF Begins
<1>1. ASSUME NEW work \in Call, Begins(k, work) PROVE TypeOK'
  BY <1>1, BecomesTyped DEF TypeOK
<1>2. ASSUME NEW b \in Bookings, NEW row \in Booking, NEW next \in Call,
             Updated(k, b, row, next) PROVE TypeOK'
  <2>1. call' \in [Calls -> Call]  BY <1>2, BecomesTyped DEF Updated
  <2>2. booking' \in [Bookings -> Booking] /\ returned' \in SUBSET Bookings
    BY <1>2 DEF Updated, Returns, TypeOK
  <2> QED  BY <1>2, <2>1, <2>2 DEF Updated, TypeOK
<1>3. \A b \in Bookings : [pc |-> "recount"] \in Call /\ Idle \in Call
        /\ [pc |-> "insert", b |-> b] \in Call /\ booking[b] \in Booking
        /\ [pc |-> "cancel", b |-> b, row |-> booking[b]] \in Call
        /\ [pc |-> "repay", b |-> b, row |-> booking[b]] \in Call
  BY DEF TypeOK, Call
<1>4. \A b \in Bookings, to \in Updates : [pc |-> "booking", b |-> b, to |-> to] \in Call
  BY DEF Call
<1>5. \A b \in Bookings, stage \in {"pickup", "dropoff"} :
        [pc |-> "declareTrip", b |-> b, stage |-> stage] \in Call
  BY DEF Call
<1>6. \A row \in Trip : SavesTrip(row, Made) \in Call
  BY DEF Call, SavesTrip, Made
<1>7. /\ [trip EXCEPT !.status = "active"] \in Trip
      /\ \A seats \in 1..MaxTotal : Resized(trip, seats) \in Trip
  BY ResizedFits DEF TypeOK, Trip
<1>8. ASSUME NEW b \in Bookings, ReadCreate(k, b) \/ ReadCancel(k, b) \/ ReadRepay(k, b)
      PROVE TypeOK'
  BY <1>8, <1>1, <1>3 DEF ReadCreate, ReadCancel, ReadRepay
<1>9. ASSUME NEW b \in Bookings, NoShow(k, b) \/ Pickup(k, b) \/ Dropoff(k, b)
      PROVE TypeOK'
  <2>1. /\ [status |-> "no_show", aboard |-> FALSE] \in Booking
        /\ [status |-> "accepted", aboard |-> TRUE] \in Booking
        /\ [status |-> "completed", aboard |-> TRUE] \in Booking
    BY DEF Booking
  <2> QED  BY <1>9, <1>2, <1>3, <2>1 DEF NoShow, Pickup, Dropoff
<1>10. ASSUME NEW b \in Bookings, NEW to \in Updates, BeginUpdate(k, b, to) PROVE TypeOK'
  BY <1>10, <1>1, <1>4 DEF BeginUpdate
<1>11. ASSUME NEW b \in Bookings, NEW stage \in {"pickup", "dropoff"},
              BeginDeclare(k, b, stage) PROVE TypeOK'
  BY <1>11, <1>1, <1>5 DEF BeginDeclare
<1>12. ASSUME ReadStart(k) \/ ReadComplete(k) PROVE TypeOK'
  <2>1. [pc |-> "complete"] \in Call  BY DEF Call
  <2> QED  BY <1>12, <2>1, <1>1, <1>6, <1>7 DEF ReadStart, ReadComplete
<1>13. ASSUME NEW seats \in 1..MaxTotal, ReadResize(k, seats) PROVE TypeOK'
  BY <1>13, <1>1, <1>6, <1>7 DEF ReadResize
<1> QED  BY <1>8, <1>9, <1>10, <1>11, <1>12, <1>13 DEF Begin

LEMMA OutsideTyped ==
  ASSUME TypeOK, NEW k \in Calls,
         \/ Recount(k) \/ SaveTrip(k) \/ WriteComplete(k)
         \/ InsertBooking(k) \/ SaveCancelled(k) \/ SaveRepay(k)
  PROVE  TypeOK'
<1>0. call[k] \in Call /\ Idle \in Call /\ [pc |-> "recount"] \in Call
  BY DEF TypeOK, Call
<1>1. CASE Recount(k)
  <2> DEFINE row == [trip EXCEPT !.available = SeatsLeft(trip.total)]
  <2>1. row \in Trip
    BY Counting DEF TypeOK, Trip, SeatsLeft, AcceptedOf
  <2>2. SavesTrip(row, Bookings) \in Call
    BY <2>1 DEF SavesTrip, Call
  <2>3. call' \in [Calls -> Call]
    BY <1>1, <1>0, <2>2, BecomesTyped DEF Recount
  <2> QED  BY <1>1, <2>3 DEF Recount, TypeOK
<1>2. CASE SaveTrip(k)
  BY <1>2, <1>0, CallFields, BecomesTyped DEF SaveTrip, At, Ends, TypeOK
<1>3. CASE WriteComplete(k)
  BY <1>3, <1>0, BecomesTyped DEF WriteComplete, Ends, TypeOK, Trip
<1>4. CASE InsertBooking(k)
  BY <1>4, <1>0, CallFields, BecomesTyped DEF InsertBooking, At, TypeOK, Booking
<1>5. CASE SaveCancelled(k)
  BY <1>5, <1>0, CallFields, BecomesTyped DEF SaveCancelled, At, TypeOK, Booking
<1>6. CASE SaveRepay(k)
  BY <1>6, <1>0, CallFields, BecomesTyped DEF SaveRepay, At, Ends, TypeOK, Returns
<1> QED  BY <1>1, <1>2, <1>3, <1>4, <1>5, <1>6

LEMMA InsideTyped ==
  ASSUME TypeOK, NEW k \in Calls,
         \/ LockBooking(k) \/ LockTrip(k) \/ Change(k) \/ Commit(k)
         \/ DeclareLocksTrip(k) \/ DeclareLocksBooking(k) \/ Declare(k)
         \/ Drop(k)
  PROVE  TypeOK'
<1>0. call[k] \in Call /\ Idle \in Call
  BY DEF TypeOK, Call
<1>1. CASE LockBooking(k)
  <2>1. [call[k] EXCEPT !.pc = "trip"] \in Call
    BY <1>1, <1>0, CallFields DEF LockBooking, At, Call
  <2> QED  BY <1>1, <2>1, LocksTyped DEF LockBooking
<1>2. CASE LockTrip(k)
  <2>1. [call[k] EXCEPT !.pc = "change"] \in Call
    BY <1>2, <1>0, CallFields DEF LockTrip, At, Call
  <2> QED  BY <1>2, <2>1, LocksTyped DEF LockTrip
<1>3. CASE Change(k)
  <2> DEFINE b == call[k].b
             others == Cardinality(AcceptedOf(booking) \ {b})
             taken == others + IF call[k].to = "accepted" THEN 1 ELSE 0
             work == [pc |-> "commit", b |-> b, to |-> call[k].to,
                      left |-> LeftOver(trip.total, taken)]
  <2>1. b \in Bookings /\ call[k].to \in Updates
    BY <1>3, <1>0, CallFields DEF Change, At
  <2>2. taken \in Nat
    BY Counting DEF AcceptedOf
  <2>3. LeftOver(trip.total, taken) \in 0..MaxTotal
    BY <2>2, Counting DEF TypeOK, Trip
  <2>4. work \in Call
    BY <2>1, <2>3 DEF Call
  <2> QED  BY <1>3, <2>4, BecomesTyped DEF Change, TypeOK
<1>4. CASE Commit(k)
  <2>1. call[k] \in [pc : {"commit"}, b : Bookings, to : Updates, left : 0..MaxTotal]
    BY <1>4, <1>0, CallFields DEF Commit, At
  <2>2. booking' \in [Bookings -> Booking] /\ trip' \in Trip
    BY <1>4, <2>1 DEF Commit, TypeOK, Booking, Trip, Updates
  <2> QED  BY <1>4, <1>0, <2>2, BecomesTyped, UnlockedTyped DEF Commit, Ends, TypeOK
<1>5. CASE DeclareLocksTrip(k)
  <2>1. [call[k] EXCEPT !.pc = "declareBooking"] \in Call
    BY <1>5, <1>0, CallFields DEF DeclareLocksTrip, At, Call
  <2> QED  BY <1>5, <2>1, LocksTyped DEF DeclareLocksTrip
<1>6. CASE DeclareLocksBooking(k)
  <2>1. [call[k] EXCEPT !.pc = "declare"] \in Call
    BY <1>6, <1>0, CallFields DEF DeclareLocksBooking, At, Call
  <2> QED  BY <1>6, <2>1, LocksTyped DEF DeclareLocksBooking
<1>7. CASE Declare(k)
  <2>1. booking' \in [Bookings -> Booking]
    BY <1>7, <1>0, CallFields DEF Declare, At, TypeOK, Booking
  <2> QED  BY <1>7, <1>0, <2>1, BecomesTyped, UnlockedTyped DEF Declare, Ends, TypeOK
<1>8. CASE Drop(k)
  BY <1>8, <1>0, BecomesTyped, UnlockedTyped DEF Drop, RolledBack, Ends, TypeOK
<1> QED  BY <1>1, <1>2, <1>3, <1>4, <1>5, <1>6, <1>7, <1>8

LEMMA StepTyped == TypeOK /\ SeatsFit /\ Next => TypeOK'
  BY BeginTyped, OutsideTyped, InsideTyped DEF Next

----------------------------------------------------------------------------
(* Locks.                                                                  *)

\* A step outside of transactions changes neither the locks nor who needs one.
LEMMA LocksKept ==
  ASSUME TypeOK, LocksInv, NEW k \in Calls, NEW work, Becomes(k, work), holder' = holder,
         call[k].pc \notin TripHeldAt \cup BookingHeldAt,
         work.pc \notin TripHeldAt \cup BookingHeldAt
  PROVE  LocksInv'
  BY SeatsAssumption DEF TypeOK, LocksInv, Becomes

\* The steps a call begins with.
EarlyAt == {"idle", "insert", "cancel", "repay", "saveTrip", "recount", "complete",
            "booking", "declareTrip"}

LEMMA BeginEffect ==
  ASSUME TypeOK, SeatsFit, NEW k \in Calls, Begin(k)
  PROVE  /\ call[k] = Idle /\ UNCHANGED <<trip, holder>>
         /\ \E work : /\ Becomes(k, work) /\ work.pc \in EarlyAt
                      /\ work.pc = "saveTrip" => work.row.available <= work.row.total
<1>1. CASE \E b \in Bookings : ReadCreate(k, b) \/ ReadCancel(k, b) \/ ReadRepay(k, b)
  BY <1>1 DEF ReadCreate, ReadCancel, ReadRepay, Begins, EarlyAt
<1>2. CASE \E b \in Bookings : NoShow(k, b) \/ Pickup(k, b) \/ Dropoff(k, b)
  BY <1>2 DEF NoShow, Pickup, Dropoff, Updated, EarlyAt, Idle
<1>3. CASE \E b \in Bookings, to \in Updates : BeginUpdate(k, b, to)
  BY <1>3 DEF BeginUpdate, Begins, EarlyAt
<1>4. CASE \E b \in Bookings, stage \in {"pickup", "dropoff"} : BeginDeclare(k, b, stage)
  BY <1>4 DEF BeginDeclare, Begins, EarlyAt
<1>5. CASE ReadStart(k)
  <2> DEFINE work == SavesTrip([trip EXCEPT !.status = "active"], Made)
  <2>1. work.pc = "saveTrip" /\ work.row.available <= work.row.total
    BY DEF SeatsFit, TypeOK, Trip, SavesTrip
  <2>2. call[k] = Idle /\ Becomes(k, work) /\ UNCHANGED <<trip, holder>>
    BY <1>5 DEF ReadStart, Begins
  <2> HIDE DEF work
  <2> QED  BY <2>1, <2>2 DEF EarlyAt
<1>6. CASE ReadComplete(k)
  BY <1>6 DEF ReadComplete, Begins, EarlyAt
<1>7. CASE \E seats \in 1..MaxTotal : ReadResize(k, seats)
  <2>1. PICK seats \in 1..MaxTotal : ReadResize(k, seats)  BY <1>7
  <2>2. Resized(trip, seats).available <= Resized(trip, seats).total
    BY ResizedFits
  <2> QED  BY <2>1, <2>2 DEF ReadResize, Begins, EarlyAt, SavesTrip
<1> QED  BY <1>1, <1>2, <1>3, <1>4, <1>5, <1>6, <1>7 DEF Begin

LEMMA OutsideEffect ==
  ASSUME TypeOK, SeatsFit, NEW k \in Calls,
         \/ Recount(k) \/ SaveTrip(k) \/ WriteComplete(k)
         \/ InsertBooking(k) \/ SaveCancelled(k) \/ SaveRepay(k)
  PROVE  /\ call[k].pc \in EarlyAt /\ UNCHANGED holder
         /\ trip' # trip => TripFree
         /\ trip'.available <= trip'.total
         /\ \E work : /\ Becomes(k, work) /\ work.pc \in EarlyAt
                      /\ work.pc = "saveTrip" => work.row.available <= work.row.total
<1>0. Idle.pc = "idle" /\ trip.available <= trip.total
  BY DEF Idle, SeatsFit
<1>1. CASE Recount(k)
  <2> DEFINE row == [trip EXCEPT !.available = SeatsLeft(trip.total)]
             work == SavesTrip(row, Bookings)
  <2>1. Cardinality(AcceptedOf(booking)) \in Nat
    BY Counting DEF AcceptedOf
  <2>2. work.pc = "saveTrip" /\ work.row.available <= work.row.total
    BY <2>1 DEF TypeOK, Trip, SeatsLeft, LeftOver, SavesTrip
  <2>3. /\ call[k].pc = "recount" /\ UNCHANGED <<trip, holder>>
        /\ Becomes(k, Idle) \/ Becomes(k, work)
    BY <1>1 DEF Recount, At
  <2> HIDE DEF work
  <2> QED  BY <1>0, <2>2, <2>3 DEF EarlyAt
<1>2. CASE SaveTrip(k)
  BY <1>0, <1>2 DEF SaveTrip, At, Ends, EarlyAt, SeatsFit
<1>3. CASE WriteComplete(k)
  BY <1>0, <1>3 DEF WriteComplete, At, Ends, EarlyAt, TypeOK, Trip
<1>4. CASE InsertBooking(k) \/ SaveCancelled(k) \/ SaveRepay(k)
  BY <1>0, <1>4 DEF InsertBooking, SaveCancelled, SaveRepay, At, Ends, EarlyAt
<1> QED  BY <1>1, <1>2, <1>3, <1>4

LEMMA EarlyHolds == EarlyAt \cap (TripHeldAt \cup BookingHeldAt) = {}
  BY DEF EarlyAt, TripHeldAt, BookingHeldAt

LEMMA LocksStep ==
  ASSUME TypeOK, LocksInv, SeatsFit, Next
  PROVE  LocksInv'
<1>1. PICK k \in Calls :
        \/ Begin(k)
        \/ Recount(k) \/ SaveTrip(k) \/ WriteComplete(k)
        \/ InsertBooking(k) \/ SaveCancelled(k) \/ SaveRepay(k)
        \/ LockBooking(k) \/ LockTrip(k) \/ Change(k) \/ Commit(k)
        \/ DeclareLocksTrip(k) \/ DeclareLocksBooking(k) \/ Declare(k)
        \/ Drop(k)
  BY DEF Next
<1>0. call[k] \in Call /\ None \notin Calls \cup Bookings
  BY SeatsAssumption DEF TypeOK
<1>2. CASE Begin(k)
  BY <1>2, BeginEffect, LocksKept, EarlyHolds DEF Idle, EarlyAt
<1>3. CASE \/ Recount(k) \/ SaveTrip(k) \/ WriteComplete(k)
           \/ InsertBooking(k) \/ SaveCancelled(k) \/ SaveRepay(k)
  <2>1. /\ call[k].pc \in EarlyAt /\ UNCHANGED holder
        /\ \E work : Becomes(k, work) /\ work.pc \in EarlyAt
    BY <1>3, OutsideEffect
  <2> QED  BY <2>1, LocksKept, EarlyHolds
<1>4. CASE LockBooking(k)
  <2>1. call[k].b \in Bookings  BY <1>4, <1>0, CallFields DEF LockBooking, At
  <2> QED
    BY <1>4, <1>0, <2>1 DEF LockBooking, Locks, Goes, At, BookingFree, LocksInv, TypeOK,
       Holder, TripHeldAt, BookingHeldAt
<1>5. CASE LockTrip(k)
  BY <1>5, <1>0 DEF LockTrip, Locks, Goes, At, TripFree, LocksInv, TypeOK,
     Holder, TripHeldAt, BookingHeldAt
<1>6. CASE Change(k)
  BY <1>6, <1>0 DEF Change, Becomes, At, LocksInv, TypeOK, TripHeldAt, BookingHeldAt
<1>7. CASE DeclareLocksTrip(k)
  BY <1>7, <1>0 DEF DeclareLocksTrip, Locks, Goes, At, TripFree, LocksInv, TypeOK,
     Holder, TripHeldAt, BookingHeldAt
<1>8. CASE DeclareLocksBooking(k)
  <2>1. call[k].b \in Bookings  BY <1>8, <1>0, CallFields DEF DeclareLocksBooking, At
  <2> QED
    BY <1>8, <1>0, <2>1 DEF DeclareLocksBooking, Locks, Goes, At, BookingFree, LocksInv,
       TypeOK, Holder, TripHeldAt, BookingHeldAt
<1>9. ASSUME Ends(k), holder' = Unlocked(k) PROVE LocksInv'
  BY <1>9, <1>0 DEF Ends, Becomes, Idle, Unlocked, LocksInv, TypeOK, Holder,
     TripHeldAt, BookingHeldAt
<1>10. CASE Commit(k) \/ Declare(k) \/ Drop(k)
  BY <1>9, <1>10 DEF Commit, Declare, Drop, RolledBack
<1> QED  BY <1>1, <1>2, <1>3, <1>4, <1>5, <1>6, <1>7, <1>8, <1>10

----------------------------------------------------------------------------
(* Seats.                                                                  *)

\* A step that no transaction ends with leaves no firm booking more.
LEMMA SmallerFits ==
  ASSUME TypeOK, TypeOK', AcceptanceFits, Firm' \subseteq Firm,
         \A j \in Calls : call'[j].pc = "commit" =>
           call'[j] = call[j] /\ trip'.total = trip.total
  PROVE  AcceptanceFits'
<1> SUFFICES ASSUME NEW j \in Calls, At(j, "commit")', call'[j].to = "accepted"
             PROVE  Cardinality(Firm' \ {call'[j].b}) < trip'.total
  BY DEF AcceptanceFits
<1>1. call'[j] = call[j] /\ trip'.total = trip.total
  BY DEF At
<1>2. Cardinality(Firm \ {call[j].b}) < trip.total
  BY <1>1 DEF AcceptanceFits, At
<1>3. Cardinality(Firm' \ {call[j].b}) <= Cardinality(Firm \ {call[j].b})
  BY Counting, FS_Subset DEF Firm, AcceptedOf
<1>4. /\ Cardinality(Firm' \ {call[j].b}) \in Nat
      /\ Cardinality(Firm \ {call[j].b}) \in Nat /\ trip.total \in Nat
  BY Counting, SeatsAssumption DEF Firm, AcceptedOf, TypeOK, Trip
<1> QED  BY <1>1, <1>2, <1>3, <1>4

\* What is brought back unasked is not firm.
LEMMA ReturnedNotFirm ==
  ASSUME NEW b \in Bookings, NEW row, TypeOK, booking' = [booking EXCEPT ![b] = row], Returns(b)
  PROVE  Firm' \subseteq Firm
  BY DEF Firm, AcceptedOf, Returns, TypeOK

LEMMA BeginFirm ==
  ASSUME TypeOK, NEW k \in Calls, Begin(k)
  PROVE  Firm' \subseteq Firm
<1>1. ASSUME UNCHANGED <<booking, returned>> PROVE Firm' = Firm
  BY <1>1 DEF Firm, AcceptedOf
<1>2. CASE \E b \in Bookings : NoShow(k, b) \/ Pickup(k, b) \/ Dropoff(k, b)
  BY <1>2, ReturnedNotFirm DEF NoShow, Pickup, Dropoff, Updated
<1>3. CASE UNCHANGED <<booking, returned>>
  BY <1>1, <1>3
<1> QED
  BY <1>2, <1>3 DEF Begin, ReadCreate, ReadCancel, ReadRepay, BeginUpdate, BeginDeclare,
     ReadStart, ReadComplete, ReadResize, Begins

LEMMA OutsideFirm ==
  ASSUME TypeOK, NEW k \in Calls,
         \/ Recount(k) \/ SaveTrip(k) \/ WriteComplete(k)
         \/ InsertBooking(k) \/ SaveCancelled(k) \/ SaveRepay(k)
  PROVE  Firm' \subseteq Firm
<1>0. call[k] \in Call  BY DEF TypeOK
<1>1. CASE Recount(k) \/ SaveTrip(k) \/ WriteComplete(k)
  BY <1>1 DEF Recount, SaveTrip, WriteComplete, Firm, AcceptedOf
<1>2. CASE InsertBooking(k)
  BY <1>0, <1>2, CallFields DEF InsertBooking, At, Firm, AcceptedOf, TypeOK
<1>3. CASE SaveCancelled(k)
  BY <1>0, <1>3, CallFields DEF SaveCancelled, At, Firm, AcceptedOf, TypeOK, Booking
<1>4. CASE SaveRepay(k)
  <2>1. call[k].b \in Bookings  BY <1>0, <1>4, CallFields DEF SaveRepay, At
  <2> QED  BY <1>4, <2>1, ReturnedNotFirm DEF SaveRepay
<1> QED  BY <1>1, <1>2, <1>3, <1>4

\* A commit adds its own booking at most, and only when it accepts it.
LEMMA CommitFirm ==
  ASSUME TypeOK, NEW k \in Calls, Commit(k)
  PROVE  /\ call[k].b \in Bookings
         /\ Firm' \subseteq Firm \cup {call[k].b}
         /\ call[k].to # "accepted" => Firm' \subseteq Firm
<1>1. call[k] \in [pc : {"commit"}, b : Bookings, to : Updates, left : 0..MaxTotal]
  BY CallFields DEF TypeOK, Commit, At
<1> QED  BY <1>1 DEF Commit, Firm, AcceptedOf, TypeOK, Booking

LEMMA DeclareFirm ==
  ASSUME TypeOK, NEW k \in Calls, Declare(k)
  PROVE  Firm' \subseteq Firm
<1>1. call[k].b \in Bookings
  BY CallFields DEF TypeOK, Declare, At
<1> QED  BY <1>1 DEF Declare, Firm, AcceptedOf, TypeOK, Booking

\* Only one transaction at a time is about to commit: it has the trip.
LEMMA OneCommits ==
  ASSUME LocksInv, NEW j \in Calls, NEW k \in Calls, At(j, "commit"),
         call[k].pc \in TripHeldAt
  PROVE  j = k
  BY DEF LocksInv, At, TripHeldAt

LEMMA SeatsStep ==
  ASSUME IInv, TypeOK', Next
  PROVE  SeatsFit' /\ AcceptanceFits'
<1>1. PICK k \in Calls :
        \/ Begin(k)
        \/ Recount(k) \/ SaveTrip(k) \/ WriteComplete(k)
        \/ InsertBooking(k) \/ SaveCancelled(k) \/ SaveRepay(k)
        \/ LockBooking(k) \/ LockTrip(k) \/ Change(k) \/ Commit(k)
        \/ DeclareLocksTrip(k) \/ DeclareLocksBooking(k) \/ Declare(k)
        \/ Drop(k)
  BY DEF Next
<1>0. TypeOK /\ LocksInv /\ SeatsFit /\ AcceptanceFits /\ call[k] \in Call
  BY DEF IInv, TypeOK
\* Steps that leave the trip's row to others, or find it free.
<1>2. ASSUME NEW work, Becomes(k, work), work.pc # "commit", Firm' \subseteq Firm,
             work.pc = "saveTrip" => work.row.available <= work.row.total,
             trip' # trip => TripFree,
             trip'.available <= trip'.total
      PROVE  SeatsFit' /\ AcceptanceFits'
  <2>1. \A j \in Calls : call'[j].pc = "commit" => call'[j] = call[j] /\ trip' = trip
    BY <1>0, <1>2, SeatsAssumption DEF Becomes, TypeOK, LocksInv, TripFree, TripHeldAt
  <2>2. \A j \in Calls : call'[j].pc = "saveTrip" => call'[j].row.available <= call'[j].row.total
    BY <1>0, <1>2 DEF Becomes, TypeOK, SeatsFit, At
  <2>3. SeatsFit'
    BY <1>0, <1>2, <2>1, <2>2 DEF SeatsFit, At
  <2>4. AcceptanceFits'
    BY <1>0, <1>2, <2>1, SmallerFits
  <2> QED  BY <2>3, <2>4
<1>3. trip.available <= trip.total  BY <1>0 DEF SeatsFit
<1>4. CASE Begin(k)
  BY <1>0, <1>2, <1>3, <1>4, BeginEffect, BeginFirm DEF EarlyAt
<1>5. CASE \/ Recount(k) \/ SaveTrip(k) \/ WriteComplete(k)
           \/ InsertBooking(k) \/ SaveCancelled(k) \/ SaveRepay(k)
  <2>1. Firm' \subseteq Firm  BY <1>0, <1>5, OutsideFirm
  <2>2. /\ trip' # trip => TripFree
        /\ trip'.available <= trip'.total
        /\ \E work : /\ Becomes(k, work) /\ work.pc \in EarlyAt
                     /\ work.pc = "saveTrip" => work.row.available <= work.row.total
    BY <1>0, <1>5, OutsideEffect
  <2> QED  BY <1>2, <2>1, <2>2 DEF EarlyAt
<1>6. CASE LockBooking(k) \/ LockTrip(k) \/ DeclareLocksTrip(k) \/ DeclareLocksBooking(k)
  <2>1. PICK pc \in {"trip", "change", "declareBooking", "declare"} :
          Goes(k, pc) /\ UNCHANGED <<trip, booking, returned>>
    BY <1>6 DEF LockBooking, LockTrip, DeclareLocksTrip, DeclareLocksBooking, Locks
  <2> DEFINE work == [call[k] EXCEPT !.pc = pc]
  <2>2. Becomes(k, work)  BY <1>0, <2>1 DEF Goes, Becomes, TypeOK
  <2>3. work.pc = pc
    BY <1>0 DEF Call, Idle
  <2>4. Firm' \subseteq Firm  BY <2>1 DEF Firm, AcceptedOf
  <2> HIDE DEF work
  <2> QED  BY <1>2, <1>3, <2>1, <2>2, <2>3, <2>4
<1>7. CASE Drop(k)
  <2>1. Becomes(k, Idle) /\ UNCHANGED <<trip, booking, returned>>
    BY <1>7 DEF Drop, RolledBack, Ends
  <2>2. Firm' \subseteq Firm  BY <2>1 DEF Firm, AcceptedOf
  <2> QED  BY <1>2, <1>3, <2>1, <2>2 DEF Idle
<1>8. CASE Declare(k)
  <2>1. Becomes(k, Idle) /\ trip' = trip  BY <1>8 DEF Declare, Ends
  <2> QED  BY <1>0, <1>2, <1>3, <1>8, <2>1, DeclareFirm DEF Idle
<1>9. CASE Change(k)
  <2> DEFINE b == call[k].b
             taken == Cardinality(AcceptedOf(booking) \ {b})
                        + (IF call[k].to = "accepted" THEN 1 ELSE 0)
             work == [pc |-> "commit", b |-> b, to |-> call[k].to,
                      left |-> LeftOver(trip.total, taken)]
  <2>1. /\ Becomes(k, work) /\ UNCHANGED <<trip, booking, returned>>
        /\ call[k].to = "accepted" => taken <= trip.total
        /\ call[k].pc = "change"
    BY <1>9 DEF Change, At
  <2>2. /\ Cardinality(AcceptedOf(booking) \ {b}) \in Nat
        /\ Cardinality(Firm \ {b}) \in Nat
        /\ Cardinality(Firm \ {b}) <= Cardinality(AcceptedOf(booking) \ {b})
    BY Counting, FS_Subset DEF Firm, AcceptedOf
  <2>3. trip.total \in Nat  BY <1>0, SeatsAssumption DEF TypeOK, Trip
  <2>4. LeftOver(trip.total, taken) <= trip.total
    BY <2>2, <2>3 DEF LeftOver
  <2>5. call[k].to = "accepted" => Cardinality(Firm \ {b}) < trip.total
    BY <2>1, <2>2, <2>3
  <2>6. /\ call'[k].pc = "commit" /\ call'[k].b = b /\ call'[k].to = call[k].to
        /\ call'[k].left <= trip.total
    BY <1>0, <2>1, <2>4 DEF Becomes, TypeOK
  <2>7. \A j \in Calls \ {k} : call'[j] = call[j]
    BY <1>0, <2>1 DEF Becomes, TypeOK
  <2> HIDE DEF work, taken
  <2>8. Firm' = Firm /\ trip' = trip  BY <2>1 DEF Firm, AcceptedOf
  <2>9. SeatsFit'
    BY <1>0, <2>6, <2>7, <2>8 DEF SeatsFit, At
  <2>10. AcceptanceFits'
    BY <1>0, <2>5, <2>6, <2>7, <2>8 DEF AcceptanceFits, At
  <2> QED  BY <2>9, <2>10
<1>10. CASE Commit(k)
  <2>1. Becomes(k, Idle) /\ trip' = [trip EXCEPT !.available = call[k].left]
        /\ At(k, "commit")
    BY <1>10 DEF Commit, Ends
  <2>2. trip'.total = trip.total /\ trip'.available = call[k].left
    BY <1>0, <2>1 DEF TypeOK, Trip
  <2>3. \A j \in Calls : call'[j].pc # "commit"
    BY <1>0, <2>1, OneCommits DEF Becomes, Idle, TypeOK, TripHeldAt, At
  <2>4. \A j \in Calls : call'[j].pc = "saveTrip" => call'[j] = call[j]
    BY <1>0, <2>1 DEF Becomes, Idle, TypeOK
  <2> QED  BY <1>0, <2>1, <2>2, <2>3, <2>4 DEF SeatsFit, AcceptanceFits, At
<1> QED  BY <1>1, <1>4, <1>5, <1>6, <1>7, <1>8, <1>9, <1>10

----------------------------------------------------------------------------
(* The theorems.                                                           *)

LEMMA InitInvariant == Init => IInv
<1> SUFFICES ASSUME Init PROVE IInv  OBVIOUS
<1>1. TypeOK  BY InitTyped
<1>2. LocksInv
  BY SeatsAssumption DEF Init, LocksInv, Idle, TripHeldAt, BookingHeldAt
<1>3. SeatsFit /\ AcceptanceFits
  BY SeatsAssumption DEF Init, SeatsFit, AcceptanceFits, Idle, At
<1> QED  BY <1>1, <1>2, <1>3 DEF IInv

LEMMA StepInvariant == IInv /\ [Next]_vars => IInv'
<1>1. ASSUME IInv, Next PROVE IInv'
  BY <1>1, StepTyped, LocksStep, SeatsStep DEF IInv
<1>2. ASSUME IInv, UNCHANGED vars PROVE IInv'
  BY <1>2 DEF IInv, vars, TypeOK, LocksInv, SeatsFit, AcceptanceFits, Firm, AcceptedOf, At
<1> QED  BY <1>1, <1>2

\* The inductive invariant: the types, the locks, the seats a row or a request
\* leaves, and the seat that an acceptance under way has found.
THEOREM Invariance == Spec => []IInv
  BY InitInvariant, StepInvariant, PTL DEF Spec

\* The rows, the locks and the calls keep their types, and availableSeats
\* stays between zero and the seats of a vehicle.
THEOREM TypeCorrect == Spec => []TypeOK
<1>1. IInv => TypeOK  BY DEF IInv
<1> QED  BY <1>1, Invariance, PTL

\* Whatever requests run, the only transactions that can wait for each other
\* are a status change and a declaration of the same booking.
THEOREM DeadlocksKnown == Spec => []DeadlocksOnOneBooking
<1>1. ASSUME IInv PROVE DeadlocksOnOneBooking
  <2> SUFFICES ASSUME NEW k \in Calls, NEW j \in Calls, WaitsFor(k, j), WaitsFor(j, k)
               PROVE  call[k].b = call[j].b /\ call[k].pc # call[j].pc
    BY DEF DeadlocksOnOneBooking
  <2>0. LocksInv /\ call[k] \in Call /\ call[j] \in Call
    BY <1>1 DEF IInv, TypeOK
  <2>1. call[k].pc \in {"booking", "declareBooking"} => call[k].b \in Bookings
    BY <2>0, CallFields
  <2>2. call[j].pc \in {"booking", "declareBooking"} => call[j].b \in Bookings
    BY <2>0, CallFields
  <2> QED  BY <2>0, <2>1, <2>2 DEF WaitsFor, LocksInv, TripHeldAt, BookingHeldAt
<1> QED  BY <1>1, Invariance, PTL

\* When the driver accepts a booking, the bookings he accepted fit the seats
\* of the trip, for any number of bookings, requests and seats.
THEOREM SeatsSuffice == Spec => AcceptedWithinSeats
<1>1. ASSUME IInv, [Next]_vars
      PROVE  [\A k \in Calls :
                call[k].pc = "commit" /\ call[k].to = "accepted" /\ booking' # booking =>
                  Cardinality(AcceptedOf(booking') \ returned') <= trip.total]_vars
  <2> SUFFICES ASSUME NEW k \in Calls, At(k, "commit"), call[k].to = "accepted",
                      Next
               PROVE  Cardinality(Firm') <= trip.total
    BY <1>1 DEF At, vars, Firm, AcceptedOf
  <2>0. TypeOK /\ LocksInv /\ AcceptanceFits /\ Cardinality(Firm \ {call[k].b}) < trip.total
        /\ trip.total \in Nat /\ TypeOK'
    BY <1>1, StepTyped, SeatsAssumption DEF IInv, AcceptanceFits, TypeOK, Trip
  <2>1. Firm' \subseteq Firm \cup {call[k].b}
    BY <2>0, BeginFirm, OutsideFirm, CommitFirm, DeclareFirm, OneCommits DEF Next, LockBooking, LockTrip,
       DeclareLocksTrip, DeclareLocksBooking, Locks, Change, Drop, RolledBack, Firm, AcceptedOf,
       Commit, At, TripHeldAt
  <2>2. call[k].b \in Bookings
    BY <2>0, CallFields DEF TypeOK, At
  <2>3. Cardinality((Firm \ {call[k].b}) \cup {call[k].b}) <= Cardinality(Firm \ {call[k].b}) + 1
    BY Counting, FS_AddElement DEF Firm, AcceptedOf
  <2>4. Cardinality(Firm') <= Cardinality((Firm \ {call[k].b}) \cup {call[k].b})
    BY <2>1, <2>2, Counting, FS_Subset DEF Firm, AcceptedOf
  <2>5. /\ Cardinality(Firm') \in Nat /\ Cardinality(Firm \ {call[k].b}) \in Nat
        /\ Cardinality((Firm \ {call[k].b}) \cup {call[k].b}) \in Nat
    BY <2>2, Counting DEF Firm, AcceptedOf
  <2> QED  BY <2>0, <2>3, <2>4, <2>5
<1> QED  BY <1>1, Invariance, PTL DEF Spec, AcceptedWithinSeats
=============================================================================
