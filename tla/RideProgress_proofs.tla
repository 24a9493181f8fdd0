------------------------ MODULE RideProgress_proofs ------------------------
(***************************************************************************)
(* Theorems about RideProgress, for any sets of bookings, evaluators,      *)
(* workers and requests.  First the types, then a classification of the    *)
(* steps by what they do to rides and to snapshots, then one lemma per     *)
(* part of the inductive invariant.                                        *)
(***************************************************************************)
EXTENDS RideProgress, TLAPS

\* The values of pass[e] and work[w] that are not Idle.
Running == [pc : {"each", "resolve", "close", "save"}, trip : Trip,
            booking : [Bookings -> Booking], left : SUBSET Bookings,
            moved : SUBSET Bookings]
Claimed == [pc : {"claimed"}, row : Bookings]
AtWork  == [pc : {"run"}, row : Bookings, todo : SUBSET Stages, version : Nat]

----------------------------------------------------------------------------
(* Types.                                                                  *)

\* A pass that is not idle is a running one (BeginPass, EndPass).
LEMMA PassShape ==
  ASSUME TypeOK, NEW e \in Evaluators
  PROVE  /\ pass[e] \in Running \cup {Idle}
         /\ pass[e] # Idle => pass[e] \in Running
         /\ pass[e].pc \in {"each", "resolve", "close", "save"} => pass[e] # Idle
  BY DEF TypeOK, Pass, Running, Idle

\* A worker that is not idle has a row (Claim, ReadClaim).
LEMMA WorkShape ==
  ASSUME DeclarationsTypeOK, NEW w \in Workers
  PROVE  /\ work[w] \in {Idle} \cup Claimed \cup AtWork
         /\ work[w] # Idle => work[w].row \in Bookings
         /\ work[w].pc = "claimed" => work[w] \in Claimed
         /\ work[w].pc = "run" => work[w] \in AtWork
         /\ work[w] \in AtWork => work[w].pc = "run"
  BY DEF DeclarationsTypeOK, Work, Claimed, AtWork, Idle

\* declare stores votes and a ride of the right type.
LEMMA DeclareType ==
  ASSUME DeclarationsTypeOK, NEW b \in Bookings, NEW s \in Stages,
         NEW a \in Actors, NEW d \in Decisions
  PROVE  /\ [votes[b] EXCEPT ![s][a] = d] \in Votes
         /\ \A v : Manual(b, s, v) \in Booking
         /\ Rescheduled(effects[b], s) \in Effects
         /\ Rescheduled(effects[b], s).version = effects[b].version + 1
         /\ Rescheduled(effects[b], s).todo = effects[b].todo \cup {s}
<1> /\ votes[b] \in Votes /\ booking[b] \in Booking /\ effects[b] \in Effects
  BY DEF DeclarationsTypeOK
<1>1. [votes[b] EXCEPT ![s][a] = d] \in Votes
  BY DEF Votes
<1>2. \A v : Manual(b, s, v) \in Booking
  BY DEF Manual, Booking, Stages
<1>3. Rescheduled(effects[b], s) \in Effects
  BY DEF Rescheduled, Effects
<1>4. Rescheduled(effects[b], s).version = effects[b].version + 1
  BY DEF Rescheduled
<1>5. Rescheduled(effects[b], s).todo = effects[b].todo \cup {s}
  BY DEF Rescheduled
<1> QED BY <1>1, <1>2, <1>3, <1>4, <1>5

LEMMA DeclareKeepsTypes ==
  ASSUME DeclarationsTypeOK, Declaring
  PROVE  DeclarationsTypeOK'
<1> PICK b \in Bookings, s \in Stages, a \in Actors, d \in Decisions : Declare(b, s, a, d)
  BY DEF Declaring
<1> QED BY DeclareType DEF Declare, DeclarationsTypeOK

LEMMA FollowUpKeepsTypes ==
  ASSUME DeclarationsTypeOK, FollowUp
  PROVE  DeclarationsTypeOK'
<1> USE DEF DeclarationsTypeOK
<1>1. ASSUME NEW b \in Bookings, LeaseExpires(b) PROVE DeclarationsTypeOK'
  <2>1. [effects[b] EXCEPT !.lease.live = FALSE] \in Effects
    BY DEF Effects
  <2> QED BY <1>1, <2>1 DEF LeaseExpires
<1>2. ASSUME NEW w \in Workers, WorkerStep(w) PROVE DeclarationsTypeOK'
  <2>1. ASSUME NEW b \in Bookings, Claim(w, b) PROVE DeclarationsTypeOK'
    <3>1. [effects[b] EXCEPT !.lease = [by |-> w, live |-> TRUE]] \in Effects
      BY DEF Effects
    <3>2. [pc |-> "claimed", row |-> b] \in Work
      BY DEF Work
    <3> QED BY <2>1, <3>1, <3>2 DEF Claim
  <2>2. ASSUME NEW s \in Stages, Finish(w, s) PROVE DeclarationsTypeOK'
    <3>1. work[w] \in AtWork
      BY <2>2, WorkShape DEF Finish
    <3>2. [work[w] EXCEPT !.todo = @ \ {s}] \in Work
      BY <3>1 DEF AtWork, Work
    <3>3. work[w].row \in Bookings
      BY <3>1 DEF AtWork
    <3> QED BY <2>2, <3>2, <3>3 DEF Finish
  <2>3. ASSUME ReadClaim(w) PROVE DeclarationsTypeOK'
    <3>1. work[w] \in Claimed /\ work[w].row \in Bookings
      BY <2>3, WorkShape DEF ReadClaim, Claimed
    <3>2. [pc |-> "run", row |-> work[w].row, todo |-> effects[work[w].row].todo,
           version |-> effects[work[w].row].version] \in Work
      BY <3>1 DEF Work, Effects
    <3>3. Idle \in Work
      BY DEF Work
    <3> QED BY <2>3, <3>2, <3>3 DEF ReadClaim
  <2>4. ASSUME Clear(w) PROVE DeclarationsTypeOK'
    <3>1. work[w].row \in Bookings
      BY <2>4, WorkShape DEF Clear, AtWork
    <3> DEFINE r == effects[work[w].row]
    <3>2. r \in Effects
      BY <3>1
    <3>3. /\ [r EXCEPT !.todo = {}, !.lease = [by |-> Null, live |-> FALSE]] \in Effects
          /\ [r EXCEPT !.lease = [by |-> Due, live |-> FALSE]] \in Effects
      BY <3>2 DEF Effects
    <3>4. Idle \in Work
      BY DEF Work
    <3> QED BY <2>4, <3>1, <3>2, <3>3, <3>4 DEF Clear
  <2>5. ASSUME Abandon(w) PROVE DeclarationsTypeOK'
    BY <2>5 DEF Abandon, Work
  <2> QED BY <1>2, <2>1, <2>2, <2>3, <2>4, <2>5 DEF WorkerStep
<1> QED BY <1>1, <1>2 DEF FollowUp

\* What a pass holds after it is done with a booking.
LEMMA TreatedShape ==
  ASSUME TypeOK, NEW e \in Evaluators, NEW b \in Bookings, NEW row \in Booking,
         pass[e] # Idle, Treated(e, b, row)
  PROVE  /\ pass' \in [Evaluators -> Pass]
         /\ pass'[e] # Idle
         /\ pass'[e].booking = [pass[e].booking EXCEPT ![b] = row]
         /\ \A f \in Evaluators : f # e => pass'[f] = pass[f]
<1>1. pass[e] \in Running
  BY PassShape
<1> DEFINE new == [pass[e] EXCEPT !.left = @ \ {b}, !.booking = [pass[e].booking EXCEPT ![b] = row]]
<1>2. new \in Running /\ new.booking = [pass[e].booking EXCEPT ![b] = row]
  BY <1>1 DEF Running
<1>3. pass \in [Evaluators -> Pass]
  BY DEF TypeOK
<1>4. pass' = [pass EXCEPT ![e] = new]
  BY <1>1, <1>3 DEF Treated, Running
<1>5. new \in Pass /\ new # Idle
  BY <1>2 DEF Running, Pass, Idle
<1> HIDE DEF new
<1> QED BY <1>2, <1>3, <1>4, <1>5

\* The rows of the table and of a snapshot.
LEMMA RideRows ==
  ASSUME TypeOK, NEW b \in Bookings
  PROVE  /\ booking[b] \in Booking
         /\ \A e \in Evaluators : pass[e] # Idle =>
              Seen(e, b) \in Booking /\ pass[e].booking \in [Bookings -> Booking]
<1>1. booking[b] \in Booking
  BY DEF TypeOK, DeclarationsTypeOK
<1>2. ASSUME NEW e \in Evaluators, pass[e] # Idle
      PROVE Seen(e, b) \in Booking /\ pass[e].booking \in [Bookings -> Booking]
  BY <1>2, PassShape DEF Running, Seen
<1> QED BY <1>1, <1>2

\* What the three conditional updates of a pass write.
LEMMA PickupEffect ==
  ASSUME TypeOK, NEW e \in Evaluators, NEW b \in Bookings, AutoPickup(e, b)
  PROVE  \E row \in Booking :
           /\ booking' = [booking EXCEPT ![b] = row] /\ Treated(e, b, row)
           /\ row.status = "accepted" /\ row.pickup = "auto"
           /\ row.dropoff = booking[b].dropoff
<1> DEFINE row == [booking[b] EXCEPT !.status = "accepted", !.pickup = "auto"]
<1>1. booking[b] \in Booking
  BY RideRows
<1>2. /\ row \in Booking /\ row.status = "accepted" /\ row.pickup = "auto"
      /\ row.dropoff = booking[b].dropoff
  BY <1>1 DEF Booking
<1>3. booking' = [booking EXCEPT ![b] = row] /\ Treated(e, b, row)
  BY DEF AutoPickup, Commit
<1> HIDE DEF row
<1> QED BY <1>2, <1>3

LEMMA DropoffEffect ==
  ASSUME TypeOK, NEW e \in Evaluators, NEW b \in Bookings, Dropoff(e, b)
  PROVE  \E row \in Booking :
           /\ booking' = [booking EXCEPT ![b] = row] /\ Treated(e, b, row)
           /\ row.status = "completed" /\ row.dropoff = "auto"
           /\ row.pickup = IF booking[b].pickup = "none" THEN "unproved"
                           ELSE booking[b].pickup
<1> DEFINE row == [booking[b] EXCEPT !.status = "completed", !.dropoff = "auto",
                     !.pickup = IF @ = "none" THEN "unproved" ELSE @]
<1>1. booking[b] \in Booking
  BY RideRows
<1>2. /\ row \in Booking /\ row.status = "completed" /\ row.dropoff = "auto"
      /\ row.pickup = IF booking[b].pickup = "none" THEN "unproved"
                      ELSE booking[b].pickup
  BY <1>1 DEF Booking
<1>3. booking' = [booking EXCEPT ![b] = row] /\ Treated(e, b, row)
  BY DEF Dropoff, Commit
<1> HIDE DEF row
<1> QED BY <1>2, <1>3

LEMMA AbsentEffect ==
  ASSUME TypeOK, NEW e \in Evaluators, NEW b \in Bookings, pass[e] # Idle,
         NEW status \in {"no_show", "uncertain"}, Absent(e, b, status)
  PROVE  \E row \in Booking, seen \in Booking :
           /\ booking' = [booking EXCEPT ![b] = row] /\ Treated(e, b, seen)
           /\ row.status = status /\ row.pickup = booking[b].pickup
           /\ row.dropoff = booking[b].dropoff
           /\ seen.pickup = Seen(e, b).pickup
<1> DEFINE row == [booking[b] EXCEPT !.status = status]
           seen == [Seen(e, b) EXCEPT !.status = status]
<1>1. booking[b] \in Booking /\ Seen(e, b) \in Booking
  BY RideRows
<1>2. /\ row \in Booking /\ row.status = status
      /\ row.pickup = booking[b].pickup /\ row.dropoff = booking[b].dropoff
      /\ seen \in Booking /\ seen.pickup = Seen(e, b).pickup
  BY <1>1 DEF Booking
<1>3. booking' = [booking EXCEPT ![b] = row] /\ Treated(e, b, seen)
  BY DEF Absent, Commit
<1> HIDE DEF row, seen
<1> QED BY <1>2, <1>3

\* The pass, the ride and the snapshot after a step that treats b.
LEMMA PassKeepsTypes ==
  ASSUME TypeOK, NEW e \in Evaluators, PassStep(e)
  PROVE  TypeOK'
<1> USE DEF TypeOK, DeclarationsTypeOK
<1>0. pass[e] # Idle => pass[e] \in Running
  BY PassShape
<1>1. CASE BeginPass(e)
  <2>1. [pc |-> "each", trip |-> trip, booking |-> booking, left |-> Bookings,
         moved |-> {}] \in Pass
    BY DEF Pass
  <2> QED BY <1>1, <2>1 DEF BeginPass, declarationVars
<1>2. CASE NoticeApproach(e)
  <2>1. pass[e] \in Running
    BY <1>0, <1>2, PassShape DEF NoticeApproach, AtDestination
  <2>2. [pass[e].trip EXCEPT !.noticed = TRUE] \in Trip
    BY <2>1 DEF Running, Trip
  <2> QED BY <1>2, <2>2 DEF NoticeApproach, Pass
<1>3. CASE ReachDestination(e)
  <2>1. pass[e] \in Running
    BY <1>0, <1>3, PassShape DEF ReachDestination, AtDestination
  <2> DEFINE left == {b \in Bookings : Seen(e, b).status = "accepted" /\ ~Arrived(Seen(e, b))}
  <2>2. left \in SUBSET Bookings
    OBVIOUS
  <2> HIDE DEF left
  <2>3. [pass[e] EXCEPT !.pc = "resolve", !.left = left] \in Pass
    BY <2>1, <2>2 DEF Running, Pass
  <2>4. pass' = [pass EXCEPT ![e] = [pass[e] EXCEPT !.pc = "resolve", !.left = left]]
    BY <1>3 DEF ReachDestination, left
  <2> QED BY <1>3, <2>3, <2>4 DEF ReachDestination, declarationVars
<1>4. CASE ReadyToClose(e)
  <2>1. pass[e] \in Running
    BY <1>0, <1>4, PassShape DEF ReadyToClose
  <2>2. [pass[e] EXCEPT !.pc = "close"] \in Pass
    BY <2>1 DEF Running, Pass
  <2> QED BY <1>4, <2>2 DEF ReadyToClose, declarationVars
<1>5. CASE CloseTrip(e)
  <2>1. pass[e] \in Running
    BY <1>0, <1>5, PassShape DEF CloseTrip
  <2>2. [pass[e] EXCEPT !.pc = "save"] \in Pass /\ Idle \in Pass
    BY <2>1 DEF Running, Pass
  <2>3. [status |-> "completed", noticed |-> TRUE] \in Trip
    BY DEF Trip, TripStatuses
  <2> QED BY <1>5, <2>2, <2>3 DEF CloseTrip
<1>6. CASE SaveClosed(e)
  <2>1. [status |-> "completed", noticed |-> TRUE] \in Trip
    BY DEF Trip, TripStatuses
  <2> QED BY <1>6, <2>1 DEF SaveClosed, Pass
<1>7. CASE EndPass(e)
  BY <1>7 DEF EndPass, Pass, declarationVars
<1>8. ASSUME NEW b \in Bookings,
             \/ AutoPickup(e, b) \/ AutoNoShow(e, b) \/ AutoDropoff(e, b)
             \/ Skip(e, b) \/ ResolveDropoff(e, b) \/ ResolveUncertain(e, b)
      PROVE TypeOK'
  <2>1. pass[e] # Idle
    BY <1>8, PassShape DEF AutoPickup, AutoNoShow, AutoDropoff, Skip,
       ResolveDropoff, ResolveUncertain
  <2>2. CASE AutoPickup(e, b)
    BY <2>1, <2>2, PickupEffect, TreatedShape DEF AutoPickup
  <2>3. CASE AutoDropoff(e, b) \/ ResolveDropoff(e, b)
    <3>1. Dropoff(e, b)
      BY <2>3 DEF AutoDropoff, ResolveDropoff
    <3> QED BY <2>1, <3>1, DropoffEffect, TreatedShape DEF Dropoff
  <2>4. CASE AutoNoShow(e, b) \/ ResolveUncertain(e, b)
    <3>1. PICK status \in {"no_show", "uncertain"} : Absent(e, b, status)
      BY <2>4 DEF AutoNoShow, ResolveUncertain
    <3> QED BY <2>1, <3>1, AbsentEffect, TreatedShape DEF Absent
  <2>5. CASE Skip(e, b)
    BY <2>1, <2>5, RideRows, TreatedShape DEF Skip, declarationVars
  <2> QED BY <1>8, <2>2, <2>3, <2>4, <2>5
<1> QED BY <1>1, <1>2, <1>3, <1>4, <1>5, <1>6, <1>7, <1>8
  DEF PassStep

\* The driver's requests write rows of the right type.
LEMMA DriverKeepsTypes ==
  ASSUME TypeOK, NEW k \in Calls, DriverStep(k)
  PROVE  TypeOK'
<1> USE DEF TypeOK, DeclarationsTypeOK
<1>1. \A op \in {"start", "pause", "complete"} : [pc |-> op, trip |-> trip] \in Call
  BY DEF Call
<1>2. ASSUME NEW op \in {"start", "pause", "complete"}, Read(k, op) PROVE TypeOK'
  BY <1>1, <1>2 DEF Read, declarationVars
<1>3. ASSUME NEW op, NEW row \in Trip, Write(k, op, row) PROVE TypeOK'
  BY <1>3 DEF Write, Call
<1>4. call[k].pc \in {"start", "pause", "complete"} => call[k].trip \in Trip
  BY DEF Call, Idle
<1>5. CASE WriteStart(k)
  BY <1>3, <1>5 DEF WriteStart, Trip, TripStatuses
<1>6. CASE WritePause(k)
  <2>1. call[k].trip \in Trip
    BY <1>4, <1>6 DEF WritePause, Write
  <2>2. [call[k].trip EXCEPT !.status = "pending"] \in Trip
    BY <2>1 DEF Trip, TripStatuses
  <2> QED BY <1>3, <1>6, <2>2 DEF WritePause
<1>7. CASE WriteComplete(k)
  <2>1. [trip EXCEPT !.status = "completed"] \in Trip
    BY DEF Trip, TripStatuses
  <2> QED BY <1>3, <1>7, <2>1 DEF WriteComplete
<1>8. CASE ReadInterrupt(k)
  <2>1. OnBoard \in SUBSET Bookings
    BY DEF OnBoard, Unfinished
  <2>2. [pc |-> "interrupt", asked |-> OnBoard] \in Call
    BY <2>1 DEF Call
  <2> QED BY <1>8, <2>2 DEF ReadInterrupt, declarationVars
<1>9. CASE Interrupt(k)
  <2>1. call[k].asked \in SUBSET Bookings
    BY <1>9 DEF Interrupt, Call, Idle
  <2>2. [NoInterruption EXCEPT !.status = "pending", !.asked = call[k].asked] \in Interruption
    BY <2>1 DEF Interruption, NoInterruption
  <2> QED BY <1>9, <2>2 DEF Interrupt, declarationVars, Call
<1>10. CASE CallEnds(k)
  BY <1>10 DEF CallEnds, declarationVars, Call
<1> QED BY <1>2, <1>5, <1>6, <1>7, <1>8, <1>9, <1>10
  DEF DriverStep, ReadStart, ReadPause, ReadComplete

\* A passenger's decision to stop ends the ride.
LEMMA DecideEffect ==
  ASSUME TypeOK, NEW b \in Bookings, Decide(b), booking' # booking
  PROVE  \E row \in Booking :
           /\ booking' = [booking EXCEPT ![b] = row]
           /\ row.status = "completed" /\ row.dropoff = "stop"
           /\ row.pickup = booking[b].pickup
<1> DEFINE row == [booking[b] EXCEPT !.status = "completed", !.dropoff = "stop"]
<1>1. booking[b] \in Booking
  BY RideRows
<1>2. /\ row \in Booking /\ row.status = "completed" /\ row.dropoff = "stop"
      /\ row.pickup = booking[b].pickup
  BY <1>1 DEF Booking
<1>3. booking' = [booking EXCEPT ![b] = row]
  BY DEF Decide, Commit
<1> HIDE DEF row
<1> QED BY <1>2, <1>3

LEMMA AnsweringKeepsTypes ==
  ASSUME TypeOK, Answering
  PROVE  TypeOK'
<1> USE DEF TypeOK, DeclarationsTypeOK
<1>1. NoInterruption \in Interruption
  BY DEF NoInterruption, Interruption
<1>2. \A status \in TripStatuses : [trip EXCEPT !.status = status] \in Trip
  BY DEF Trip
<1>3. ASSUME Withdraw PROVE TypeOK'
  BY <1>1, <1>3 DEF Withdraw, declarationVars
<1>4. ASSUME NEW b \in Bookings, Agree(b) PROVE TypeOK'
  <2> DEFINE all == interruption.agreed \cup {b}
             new == [interruption EXCEPT !.agreed = all,
                       !.status = IF all = interruption.asked THEN "confirmed" ELSE @]
  <2>1. all \in SUBSET Bookings
    BY DEF Interruption
  <2>2. new \in Interruption
    BY <2>1 DEF Interruption
  <2>3. interruption' = new /\ trip' \in Trip
    BY <1>2, <1>4 DEF Agree, TripStatuses
  <2> HIDE DEF new
  <2> QED BY <1>4, <2>2, <2>3 DEF Agree
<1>5. ASSUME NEW b \in Bookings, Decide(b) PROVE TypeOK'
  <2>1. booking' \in [Bookings -> Booking]
    BY <1>5, DecideEffect
  <2> DEFINE new == [interruption EXCEPT !.decided = @ \cup {b}]
  <2>2. new \in Interruption /\ interruption' = new
    BY <1>5 DEF Interruption, Decide
  <2> HIDE DEF new
  <2> QED BY <1>5, <2>1, <2>2 DEF Decide
<1>6. CASE Resume
  BY <1>1, <1>2, <1>6 DEF Resume, TripStatuses
<1> QED BY <1>3, <1>4, <1>5, <1>6 DEF Answering, Refuse, CancelInterruption

\* A new position only marks the passes under way.
LEMMA MoveEffect ==
  ASSUME TypeOK, NEW b \in Bookings, PassengerMoves(b)
  PROVE  /\ pass' \in [Evaluators -> Pass]
         /\ \A e \in Evaluators :
              /\ pass'[e] # Idle => pass[e] # Idle
              /\ pass[e] # Idle => pass'[e].booking = pass[e].booking
<1>1. ASSUME NEW e \in Evaluators, pass[e] # Idle
      PROVE  LET new == [pass[e] EXCEPT !.moved = @ \cup {b}] IN
             /\ pass'[e] = new /\ new \in Pass /\ new.booking = pass[e].booking
  <2> DEFINE new == [pass[e] EXCEPT !.moved = @ \cup {b}]
  <2>1. pass[e] \in Running
    BY <1>1, PassShape
  <2>2. new \in Running /\ new.booking = pass[e].booking
    BY <2>1 DEF Running
  <2>3. pass'[e] = new
    BY <1>1 DEF PassengerMoves
  <2>4. new \in Pass
    BY <2>2 DEF Running, Pass
  <2> HIDE DEF new
  <2>5. pass'[e] = new /\ new \in Pass /\ new.booking = pass[e].booking
    BY <2>2, <2>3, <2>4
  <2> QED BY <2>5 DEF new
<1>2. \A e \in Evaluators : pass[e] = Idle => pass'[e] = Idle
  BY DEF PassengerMoves
<1>3. Idle \in Pass
  BY DEF Pass
<1>4. \A e \in Evaluators : pass'[e] \in Pass
  BY <1>1, <1>2, <1>3
<1>5. pass' = [e \in Evaluators |-> pass'[e]]
  BY DEF PassengerMoves
<1> QED BY <1>1, <1>2, <1>4, <1>5

LEMMA InitTypes == Init => TypeOK
<1> SUFFICES ASSUME Init PROVE TypeOK
  OBVIOUS
<1>1. trip \in Trip
  BY DEF Init, DeclarationsInit, Trip, TripStatuses
<1>2. booking \in [Bookings -> Booking] /\ followed \in [Bookings -> SUBSET Stages]
  BY DEF Init, DeclarationsInit, Booking
<1>3. votes \in [Bookings -> Votes]
  BY DEF Init, DeclarationsInit, Votes
<1>4. effects \in [Bookings -> Effects] /\ work \in [Workers -> Work]
  BY DEF Init, DeclarationsInit, Effects, Work
<1>5. pass \in [Evaluators -> Pass] /\ call \in [Calls -> Call]
  BY DEF Init, Pass, Call
<1>6. interruption \in Interruption
  BY DEF Init, Interruption, NoInterruption
<1> QED BY <1>1, <1>2, <1>3, <1>4, <1>5, <1>6 DEF TypeOK, DeclarationsTypeOK

LEMMA NextTypes == TypeOK /\ [Next]_vars => TypeOK'
<1> SUFFICES ASSUME TypeOK, [Next]_vars PROVE TypeOK'
  OBVIOUS
<1>1. CASE Declaring
  BY <1>1, DeclareKeepsTypes DEF Declaring, TypeOK, progressVars
<1>2. CASE FollowUp
  BY <1>2, FollowUpKeepsTypes DEF FollowUp, TypeOK, progressVars
<1>3. ASSUME NEW b \in Bookings, PassengerMoves(b) PROVE TypeOK'
  BY <1>3, MoveEffect DEF PassengerMoves, TypeOK, DeclarationsTypeOK, declarationVars
<1>4. CASE UNCHANGED vars
  BY <1>4 DEF vars, declarationVars, progressVars, TypeOK, DeclarationsTypeOK
<1> QED BY <1>1, <1>2, <1>3, <1>4, PassKeepsTypes, DriverKeepsTypes, AnsweringKeepsTypes
  DEF Next

\* Every row, snapshot, lease and request keeps its type, whatever the order
\* of the passes, declarations and requests (TypeOK of RideProgress).
THEOREM TypeCorrect == Spec => []TypeOK
  BY InitTypes, NextTypes, PTL DEF Spec

----------------------------------------------------------------------------
(* The steps, by what they do to rides and votes.                          *)

Declared == \E b \in Bookings, s \in Stages, a \in Actors, d \in Decisions :
              Declare(b, s, a, d)

\* An update of a pass, or a decision to stop.
Updated ==
  \/ \E e \in Evaluators, b \in Bookings :
       /\ pass[e] # Idle
       /\ \/ AutoPickup(e, b) \/ Dropoff(e, b)
          \/ \E status \in {"no_show", "uncertain"} : Absent(e, b, status)
  \/ \E b \in Bookings : Decide(b) /\ booking' # booking

StepKind == \/ UNCHANGED <<booking, votes>>
            \/ Declared
            \/ Updated /\ UNCHANGED votes

LEMMA StepKinds ==
  ASSUME TypeOK, [Next]_vars
  PROVE  StepKind
<1> USE DEF StepKind, Declared, Updated
<1>1. CASE Declaring
  BY <1>1 DEF Declaring
<1>2. CASE FollowUp
  BY <1>2 DEF FollowUp, WorkerStep, Claim, ReadClaim, Finish, Clear, Abandon, LeaseExpires
<1>3. CASE Answering
  BY <1>3 DEF Answering, Agree, Refuse, Withdraw, Decide, CancelInterruption, Resume,
     declarationVars
<1>4. ASSUME NEW k \in Calls, DriverStep(k) PROVE UNCHANGED <<booking, votes>>
  BY <1>4 DEF DriverStep, ReadStart, ReadPause, ReadComplete, Read, WriteStart,
     WritePause, WriteComplete, Write, ReadInterrupt, Interrupt, CallEnds, declarationVars
<1>5. ASSUME NEW b \in Bookings, PassengerMoves(b) PROVE UNCHANGED <<booking, votes>>
  BY <1>5 DEF PassengerMoves, declarationVars
<1>6. ASSUME NEW e \in Evaluators, PassStep(e) PROVE StepKind
  <2>1. CASE \/ BeginPass(e) \/ NoticeApproach(e) \/ ReachDestination(e)
             \/ ReadyToClose(e) \/ CloseTrip(e) \/ SaveClosed(e) \/ EndPass(e)
    BY <2>1 DEF BeginPass, NoticeApproach, ReachDestination, ReadyToClose, CloseTrip,
       SaveClosed, EndPass, declarationVars
  <2>2. ASSUME NEW b \in Bookings,
               \/ AutoPickup(e, b) \/ AutoNoShow(e, b) \/ AutoDropoff(e, b)
               \/ Skip(e, b) \/ ResolveDropoff(e, b) \/ ResolveUncertain(e, b)
        PROVE StepKind
    <3>1. CASE Skip(e, b)
      BY <3>1 DEF Skip, declarationVars
    <3>2. pass[e] # Idle \/ Skip(e, b)
      BY <2>2, PassShape DEF AutoPickup, AutoNoShow, AutoDropoff,
         ResolveDropoff, ResolveUncertain
    <3>3. CASE AutoPickup(e, b)
      BY <3>1, <3>2, <3>3 DEF AutoPickup
    <3>4. CASE AutoDropoff(e, b) \/ ResolveDropoff(e, b)
      BY <3>1, <3>2, <3>4 DEF AutoDropoff, ResolveDropoff, Dropoff
    <3>5. CASE AutoNoShow(e, b) \/ ResolveUncertain(e, b)
      <4>1. PICK status \in {"no_show", "uncertain"} : Absent(e, b, status)
        BY <3>5 DEF AutoNoShow, ResolveUncertain
      <4> QED BY <3>1, <3>2, <4>1 DEF Absent
    <3> QED BY <2>2, <3>1, <3>3, <3>4, <3>5
  <2> QED BY <1>6, <2>1, <2>2 DEF PassStep
<1>7. CASE UNCHANGED vars
  BY <1>7 DEF vars, declarationVars
<1> QED BY <1>1, <1>2, <1>3, <1>4, <1>5, <1>6, <1>7 DEF Next

\* What a declaration does to its ride: nothing, or it applies the stage.
LEMMA DeclareEffect ==
  ASSUME TypeOK, NEW b \in Bookings, NEW s \in Stages, NEW a \in Actors,
         NEW d \in Decisions, Declare(b, s, a, d)
  PROVE  LET v == votes'[b] IN
         /\ v = [votes[b] EXCEPT ![s][a] = d]
         /\ \A c \in Bookings \ {b} : votes'[c] = votes[c] /\ booking'[c] = booking[c]
         /\ ~(Ready(v[s]) /\ ~HasRideDispute(v)) => booking'[b] = booking[b]
         /\ Ready(v[s]) /\ ~HasRideDispute(v) =>
              /\ booking'[b][s] = "manual"
              /\ \A t \in Stages \ {s} : booking'[b][t] = booking[b][t]
              /\ booking'[b].status = IF s = "pickup" THEN "accepted" ELSE "completed"
<1> DEFINE v == [votes[b] EXCEPT ![s][a] = d]
           new == Manual(b, s, v)
<1>1. votes \in [Bookings -> Votes] /\ booking \in [Bookings -> Booking]
  BY DEF TypeOK, DeclarationsTypeOK
<1>2. votes' = [votes EXCEPT ![b] = v] /\ booking' = [booking EXCEPT ![b] = new]
  BY DEF Declare
<1>3. /\ ~(Ready(v[s]) /\ ~HasRideDispute(v)) => new = booking[b]
      /\ Ready(v[s]) /\ ~HasRideDispute(v) =>
           /\ new[s] = "manual"
           /\ \A t \in Stages \ {s} : new[t] = booking[b][t]
           /\ new.status = IF s = "pickup" THEN "accepted" ELSE "completed"
  <2>1. CASE ~(Ready(v[s]) /\ ~HasRideDispute(v))
    BY <2>1 DEF Manual
  <2>2. CASE Ready(v[s]) /\ ~HasRideDispute(v)
    <3> DEFINE status == IF s = "pickup" THEN "accepted" ELSE "completed"
               row == [booking[b] EXCEPT ![s] = "manual", !.status = status]
    <3>1. new = row
      BY <2>2 DEF Manual
    <3>2. booking[b] \in Booking
      BY <1>1
    <3>3. row[s] = "manual" /\ row.status = status
      BY <3>2 DEF Booking, Stages
    <3>4. \A t \in Stages \ {s} : row[t] = booking[b][t]
      BY <3>2 DEF Booking, Stages
    <3> HIDE DEF row
    <3> QED BY <2>2, <3>1, <3>3, <3>4
  <2> HIDE DEF new, v
  <2> QED BY <2>1, <2>2
<1> HIDE DEF v, new
<1>4. votes'[b] = v /\ booking'[b] = new
  BY <1>1, <1>2
<1>5. \A c \in Bookings \ {b} : votes'[c] = votes[c] /\ booking'[c] = booking[c]
  BY <1>1, <1>2
<1> QED BY <1>3, <1>4, <1>5 DEF v

----------------------------------------------------------------------------
(* One lemma per part of the invariant.                                    *)

\* Rides stay in order, and nobody who is on board stops being so.
RidesAdvance ==
  RideOrder' /\ \A b \in Bookings : Boarded(booking[b]) => Boarded(booking'[b])

LEMMA RideOrderStep ==
  ASSUME TypeOK, RideOrder, SnapshotTrue, [Next]_vars
  PROVE  RidesAdvance
<1> DEFINE Fine(b, w) == /\ w.pickup # "unproved"
                         /\ w.dropoff # "none" => w.pickup # "none"
                         /\ w.dropoff # "none" <=> w.status = "completed"
                         /\ w.status \in {"no_show", "uncertain"} => w.pickup = "none"
                         /\ booking[b].pickup # "none" => w.pickup # "none"
<1>1. booking \in [Bookings -> Booking]
  BY DEF TypeOK, DeclarationsTypeOK
<1>2. \A b \in Bookings : Fine(b, booking[b])
  BY DEF RideOrder, Boarded
<1>3. ASSUME \A b \in Bookings : Fine(b, booking'[b]) PROVE RidesAdvance
  BY <1>3 DEF RideOrder, Boarded, RidesAdvance
<1>4. CASE UNCHANGED <<booking, votes>>
  BY <1>2, <1>3, <1>4
<1>5. ASSUME NEW b \in Bookings, NEW row, booking' = [booking EXCEPT ![b] = row],
             Fine(b, row)
      PROVE  RidesAdvance
  BY <1>1, <1>2, <1>3, <1>5
<1>6. ASSUME NEW b \in Bookings, NEW s \in Stages, NEW a \in Actors,
             NEW d \in Decisions, Declare(b, s, a, d)
      PROVE  RidesAdvance
  <2>0. \A c \in Bookings \ {b} : booking'[c] = booking[c]
    BY <1>6, DeclareEffect
  <2>1. \A c \in Bookings \ {b} : Fine(c, booking'[c])
    BY <1>2, <2>0
  <2>2. Fine(b, booking'[b])
    <3>1. CASE booking'[b] = booking[b]
      BY <1>2, <3>1
    <3>2. CASE /\ s = "pickup" /\ booking'[b].pickup = "manual"
               /\ booking'[b].dropoff = booking[b].dropoff
               /\ booking'[b].status = "accepted"
      BY <1>2, <1>6, <3>2 DEF Declare, Applied
    <3>3. CASE /\ s = "dropoff" /\ booking'[b].dropoff = "manual"
               /\ booking'[b].pickup = booking[b].pickup
               /\ booking'[b].status = "completed"
      <4>1. booking[b].pickup # "none"
        BY <1>6, <3>3 DEF Declare, Applied
      <4> QED BY <1>2, <3>3, <4>1
    <3>4. \/ booking'[b] = booking[b]
          \/ /\ booking'[b][s] = "manual"
             /\ \A t \in Stages \ {s} : booking'[b][t] = booking[b][t]
             /\ booking'[b].status = IF s = "pickup" THEN "accepted" ELSE "completed"
      BY <1>6, DeclareEffect
    <3> HIDE DEF Fine
    <3> QED BY <3>1, <3>2, <3>3, <3>4 DEF Stages
  <2> QED BY <1>3, <2>1, <2>2
<1>7. ASSUME NEW e \in Evaluators, NEW b \in Bookings, AutoPickup(e, b) PROVE RidesAdvance
  <2>1. PICK row \in Booking :
          /\ booking' = [booking EXCEPT ![b] = row]
          /\ row.status = "accepted" /\ row.pickup = "auto"
          /\ row.dropoff = booking[b].dropoff
    BY <1>7, PickupEffect
  <2>2. booking[b].status \in {"accepted", "no_show"}
    BY <1>7 DEF AutoPickup, PickupOpen
  <2> QED BY <1>2, <1>5, <2>1, <2>2
<1>8. ASSUME NEW e \in Evaluators, NEW b \in Bookings, pass[e] # Idle, Dropoff(e, b)
      PROVE  RidesAdvance
  <2>1. PICK row \in Booking :
          /\ booking' = [booking EXCEPT ![b] = row]
          /\ row.status = "completed" /\ row.dropoff = "auto"
          /\ row.pickup = IF booking[b].pickup = "none" THEN "unproved"
                          ELSE booking[b].pickup
    BY <1>8, DropoffEffect
  <2>2. booking[b].pickup # "none"
    BY <1>8 DEF Dropoff, SeenBoarded, Seen, Boarded, SnapshotTrue
  <2> QED BY <1>2, <1>5, <2>1, <2>2
<1>9. ASSUME NEW e \in Evaluators, NEW b \in Bookings, pass[e] # Idle,
             NEW status \in {"no_show", "uncertain"}, Absent(e, b, status)
      PROVE  RidesAdvance
  <2>1. PICK row \in Booking :
          /\ booking' = [booking EXCEPT ![b] = row]
          /\ row.status = status /\ row.pickup = booking[b].pickup
          /\ row.dropoff = booking[b].dropoff
    BY <1>9, AbsentEffect
  <2>2. booking[b].status = "accepted" /\ booking[b].pickup = "none"
    BY <1>9 DEF Absent, AbsenceOpen, Boarded
  <2> QED BY <1>2, <1>5, <2>1, <2>2
<1>10. ASSUME NEW b \in Bookings, Decide(b), booking' # booking PROVE RidesAdvance
  <2>1. PICK row :
          /\ booking' = [booking EXCEPT ![b] = row]
          /\ row.status = "completed" /\ row.dropoff = "stop"
          /\ row.pickup = booking[b].pickup
    BY <1>10, DecideEffect
  <2>2. booking[b].pickup # "none"
    BY <1>10 DEF Decide, MayDecide, OnBoard, Boarded
  <2> QED BY <1>2, <1>5, <2>1, <2>2
<1> QED BY <1>4, <1>6, <1>7, <1>8, <1>9, <1>10, StepKinds
  DEF StepKind, Declared, Updated

\* What a step of a pass does to its snapshot: it takes it, keeps it, or
\* notes in it what was decided of one booking.
SnapshotMoves(e) ==
  /\ \A f \in Evaluators \ {e} : pass'[f] = pass[f]
  /\ pass'[e] # Idle =>
       \/ pass'[e].booking = booking /\ booking' = booking
       \/ pass[e] # Idle /\ pass'[e].booking = pass[e].booking
       \/ pass[e] # Idle /\ \E b \in Bookings, seen \in Booking :
            /\ pass'[e].booking = [pass[e].booking EXCEPT ![b] = seen]
            /\ seen.pickup = Seen(e, b).pickup \/ Boarded(booking'[b])

LEMMA PassEffect ==
  ASSUME TypeOK, NEW e \in Evaluators, PassStep(e)
  PROVE  SnapshotMoves(e)
<1>0. pass \in [Evaluators -> Pass] /\ booking \in [Bookings -> Booking]
  BY DEF TypeOK, DeclarationsTypeOK
<1>1. ASSUME NEW new, pass' = [pass EXCEPT ![e] = new],
             \/ new = Idle
             \/ new.booking = booking /\ booking' = booking
             \/ pass[e] # Idle /\ new.booking = pass[e].booking
      PROVE  SnapshotMoves(e)
  BY <1>0, <1>1 DEF SnapshotMoves
<1>2. CASE \/ NoticeApproach(e) \/ SaveClosed(e) \/ EndPass(e)
  BY <1>1, <1>2 DEF NoticeApproach, SaveClosed, EndPass
<1>3. CASE BeginPass(e)
  <2> DEFINE new == [pc |-> "each", trip |-> trip, booking |-> booking,
                     left |-> Bookings, moved |-> {}]
  <2>1. new.booking = booking /\ pass' = [pass EXCEPT ![e] = new] /\ booking' = booking
    BY <1>3 DEF BeginPass, declarationVars
  <2> HIDE DEF new
  <2> QED BY <1>1, <2>1
<1>4. CASE ReachDestination(e)
  <2>1. pass[e] \in Running /\ pass[e] # Idle
    BY <1>4, PassShape DEF ReachDestination, AtDestination
  <2> DEFINE left == {b \in Bookings : Seen(e, b).status = "accepted" /\ ~Arrived(Seen(e, b))}
             new == [pass[e] EXCEPT !.pc = "resolve", !.left = left]
  <2>2. pass' = [pass EXCEPT ![e] = new]
    BY <1>4 DEF ReachDestination
  <2> HIDE DEF left
  <2>3. new.booking = pass[e].booking
    BY <2>1 DEF Running
  <2> HIDE DEF new
  <2> QED BY <1>1, <2>1, <2>2, <2>3
<1>5. CASE ReadyToClose(e)
  <2>1. pass[e] \in Running /\ pass[e] # Idle
    BY <1>5, PassShape DEF ReadyToClose
  <2> DEFINE new == [pass[e] EXCEPT !.pc = "close"]
  <2>2. new.booking = pass[e].booking
    BY <2>1 DEF Running
  <2>3. pass' = [pass EXCEPT ![e] = new]
    BY <1>5 DEF ReadyToClose
  <2> HIDE DEF new
  <2> QED BY <1>1, <2>1, <2>2, <2>3
<1>6. CASE CloseTrip(e)
  <2>1. pass[e] \in Running /\ pass[e] # Idle
    BY <1>6, PassShape DEF CloseTrip
  <2> DEFINE saving == [pass[e] EXCEPT !.pc = "save"]
             new == IF Active(trip) THEN saving ELSE Idle
  <2>2. saving.booking = pass[e].booking
    BY <2>1 DEF Running
  <2>3. pass' = [pass EXCEPT ![e] = new]
    BY <1>6 DEF CloseTrip
  <2> HIDE DEF saving
  <2>4. new = Idle \/ new.booking = pass[e].booking
    BY <2>2
  <2> HIDE DEF new
  <2> QED BY <1>1, <2>1, <2>3, <2>4
<1>7. ASSUME NEW b \in Bookings, NEW seen \in Booking, pass[e] # Idle, Treated(e, b, seen),
             seen.pickup = Seen(e, b).pickup \/ Boarded(booking'[b])
      PROVE  SnapshotMoves(e)
  <2>1. /\ pass'[e].booking = [pass[e].booking EXCEPT ![b] = seen]
        /\ \A f \in Evaluators : f # e => pass'[f] = pass[f]
    BY <1>7, TreatedShape
  <2> QED BY <1>7, <2>1 DEF SnapshotMoves
<1>8. ASSUME NEW b \in Bookings,
             \/ AutoPickup(e, b) \/ AutoNoShow(e, b) \/ AutoDropoff(e, b)
             \/ Skip(e, b) \/ ResolveDropoff(e, b) \/ ResolveUncertain(e, b)
      PROVE  SnapshotMoves(e)
  <2>1. pass[e] # Idle
    BY <1>8, PassShape DEF AutoPickup, AutoNoShow, AutoDropoff, Skip,
       ResolveDropoff, ResolveUncertain
  <2>2. CASE AutoPickup(e, b)
    <3>1. PICK row \in Booking : /\ booking' = [booking EXCEPT ![b] = row]
                                 /\ Treated(e, b, row) /\ row.pickup = "auto"
      BY <2>2, PickupEffect
    <3>2. Boarded(booking'[b])
      BY <1>0, <3>1 DEF Boarded
    <3> QED BY <1>7, <2>1, <3>1, <3>2
  <2>3. CASE AutoDropoff(e, b) \/ ResolveDropoff(e, b)
    <3>0. Dropoff(e, b)
      BY <2>3 DEF AutoDropoff, ResolveDropoff
    <3>1. PICK row \in Booking :
            /\ booking' = [booking EXCEPT ![b] = row] /\ Treated(e, b, row)
            /\ row.pickup = IF booking[b].pickup = "none" THEN "unproved"
                            ELSE booking[b].pickup
      BY <3>0, DropoffEffect
    <3>2. Boarded(booking'[b])
      BY <1>0, <3>1 DEF Boarded
    <3> QED BY <1>7, <2>1, <3>1, <3>2
  <2>4. CASE AutoNoShow(e, b) \/ ResolveUncertain(e, b)
    <3>0. PICK status \in {"no_show", "uncertain"} : Absent(e, b, status)
      BY <2>4 DEF AutoNoShow, ResolveUncertain
    <3>1. PICK seen \in Booking :
            Treated(e, b, seen) /\ seen.pickup = Seen(e, b).pickup
      BY <2>1, <3>0, AbsentEffect
    <3> QED BY <1>7, <2>1, <3>1
  <2>5. CASE Skip(e, b)
    BY <1>7, <2>1, <2>5, RideRows DEF Skip
  <2> QED BY <1>8, <2>2, <2>3, <2>4, <2>5
<1> QED BY <1>2, <1>3, <1>4, <1>5, <1>6, <1>8 DEF PassStep

LEMMA SnapshotStep ==
  ASSUME TypeOK, RideOrder, SnapshotTrue, [Next]_vars
  PROVE  SnapshotTrue'
<1>1. \A b \in Bookings : Boarded(booking[b]) => Boarded(booking'[b])
  BY RideOrderStep DEF RidesAdvance
<1> SUFFICES ASSUME NEW e \in Evaluators, pass'[e] # Idle, NEW b \in Bookings,
                    Boarded(pass'[e].booking[b])
             PROVE  Boarded(booking'[b])
  BY DEF SnapshotTrue, Boarded
<1>2. CASE pass[e] # Idle /\ pass'[e].booking = pass[e].booking
  BY <1>1, <1>2 DEF SnapshotTrue
<1>3. CASE pass' = pass
  BY <1>2, <1>3
<1>4. ASSUME NEW c \in Bookings, PassengerMoves(c) PROVE Boarded(booking'[b])
  BY <1>2, <1>4, MoveEffect
<1>5. ASSUME PassStep(e) PROVE Boarded(booking'[b])
  <2>1. CASE pass'[e].booking = booking /\ booking' = booking
    BY <2>1
  <2>2. ASSUME pass[e] # Idle, NEW c \in Bookings, NEW seen \in Booking,
               pass'[e].booking = [pass[e].booking EXCEPT ![c] = seen],
               seen.pickup = Seen(e, c).pickup \/ Boarded(booking'[c])
        PROVE  Boarded(booking'[b])
    <3>1. pass[e].booking \in [Bookings -> Booking]
      BY <2>2, RideRows
    <3>2. CASE b # c
      BY <1>1, <2>2, <3>1, <3>2 DEF SnapshotTrue
    <3>3. CASE b = c
      BY <1>1, <2>2, <3>1, <3>3 DEF SnapshotTrue, Seen, Boarded
    <3> QED BY <3>2, <3>3
  <2>3. SnapshotMoves(e)
    BY <1>5, PassEffect
  <2>4. CASE pass[e] # Idle /\ \E c \in Bookings, seen \in Booking :
               /\ pass'[e].booking = [pass[e].booking EXCEPT ![c] = seen]
               /\ seen.pickup = Seen(e, c).pickup \/ Boarded(booking'[c])
    BY <2>2, <2>4
  <2> QED BY <1>2, <2>1, <2>3, <2>4 DEF SnapshotMoves
<1>6. ASSUME NEW f \in Evaluators, PassStep(f), f # e PROVE Boarded(booking'[b])
  <2>1. pass'[e] = pass[e]
    BY <1>6, PassEffect DEF SnapshotMoves
  <2> QED BY <1>2, <2>1
<1>7. (Declaring \/ FollowUp \/ \E k \in Calls : DriverStep(k)) => pass' = pass
  BY DEF Declaring, FollowUp, progressVars, DriverStep, ReadStart, ReadPause, ReadComplete,
     Read, WriteStart, WritePause, WriteComplete, Write, ReadInterrupt, Interrupt, CallEnds
<1>8. (Answering \/ UNCHANGED vars) => pass' = pass
  BY DEF Answering, Agree, Refuse, Withdraw, Decide, CancelInterruption, Resume, vars,
     progressVars
<1> QED BY <1>3, <1>4, <1>5, <1>6, <1>7, <1>8 DEF Next

\* Without a declaration no vote changes, no stage becomes manual, and none
\* that was established is lost.
LEMMA UndeclaredStep ==
  ASSUME TypeOK, [Next]_vars, ~Declared
  PROVE  /\ UNCHANGED votes
         /\ \A b \in Bookings, s \in Stages :
              /\ booking'[b][s] = "manual" => booking[b][s] = "manual"
              /\ booking[b][s] # "none" => booking'[b][s] # "none"
<1>1. booking \in [Bookings -> Booking]
  BY DEF TypeOK, DeclarationsTypeOK
<1>2. ASSUME NEW b \in Bookings, NEW row \in Booking,
             booking' = [booking EXCEPT ![b] = row],
             row.pickup \in {booking[b].pickup, "auto", "unproved"},
             row.dropoff \in {booking[b].dropoff, "auto", "stop"}
      PROVE  \A c \in Bookings, s \in Stages :
               /\ booking'[c][s] = "manual" => booking[c][s] = "manual"
               /\ booking[c][s] # "none" => booking'[c][s] # "none"
  BY <1>1, <1>2 DEF Stages
<1>3. CASE UNCHANGED <<booking, votes>>
  BY <1>3
<1>4. CASE Updated /\ UNCHANGED votes
  <2>1. PICK b \in Bookings, row \in Booking :
          /\ booking' = [booking EXCEPT ![b] = row]
          /\ row.pickup \in {booking[b].pickup, "auto", "unproved"}
          /\ row.dropoff \in {booking[b].dropoff, "auto", "stop"}
    <3>1. ASSUME NEW e \in Evaluators, NEW b \in Bookings, AutoPickup(e, b)
          PROVE  \E row \in Booking :
                   /\ booking' = [booking EXCEPT ![b] = row]
                   /\ row.pickup = "auto" /\ row.dropoff = booking[b].dropoff
      BY <3>1, PickupEffect
    <3>2. ASSUME NEW e \in Evaluators, NEW b \in Bookings, Dropoff(e, b)
          PROVE  \E row \in Booking :
                   /\ booking' = [booking EXCEPT ![b] = row]
                   /\ row.pickup \in {booking[b].pickup, "unproved"}
                   /\ row.dropoff = "auto"
      BY <3>2, DropoffEffect
    <3>3. ASSUME NEW e \in Evaluators, NEW b \in Bookings, pass[e] # Idle,
                 NEW status \in {"no_show", "uncertain"}, Absent(e, b, status)
          PROVE  \E row \in Booking :
                   /\ booking' = [booking EXCEPT ![b] = row]
                   /\ row.pickup = booking[b].pickup /\ row.dropoff = booking[b].dropoff
      BY <3>3, AbsentEffect
    <3>4. ASSUME NEW b \in Bookings, Decide(b), booking' # booking
          PROVE  \E row \in Booking :
                   /\ booking' = [booking EXCEPT ![b] = row]
                   /\ row.pickup = booking[b].pickup /\ row.dropoff = "stop"
      BY <3>4, DecideEffect
    <3> QED BY <1>4, <3>1, <3>2, <3>3, <3>4 DEF Updated
  <2> QED BY <1>2, <1>4, <2>1
<1> QED BY <1>3, <1>4, StepKinds DEF StepKind

LEMMA AbsenceStep ==
  ASSUME TypeOK, AbsenceUncontested, [Next]_vars
  PROVE  AbsenceUncontested'
<1> DEFINE Known(b, w, v) ==
      w.status \in {"no_show", "uncertain"} => \A a \in Actors : v["pickup"][a] = "none"
<1>1. /\ booking \in [Bookings -> Booking] /\ votes \in [Bookings -> Votes]
      /\ \A b \in Bookings : Known(b, booking[b], votes[b])
  BY DEF TypeOK, DeclarationsTypeOK, AbsenceUncontested
<1>2. ASSUME \A b \in Bookings : Known(b, booking'[b], votes'[b])
      PROVE  AbsenceUncontested'
  BY <1>2 DEF AbsenceUncontested
<1>3. CASE UNCHANGED <<booking, votes>>
  BY <1>1, <1>2, <1>3
<1>4. ASSUME NEW b \in Bookings, NEW s \in Stages, NEW a \in Actors,
             NEW d \in Decisions, Declare(b, s, a, d)
      PROVE  AbsenceUncontested'
  <2>1. \A c \in Bookings \ {b} : votes'[c] = votes[c] /\ booking'[c] = booking[c]
    BY <1>4, DeclareEffect
  <2>2. booking[b].status = "accepted"
    BY <1>4 DEF Declare
  <2>3. booking'[b].status \in {"accepted", "completed"}
    BY <1>4, <2>2, DeclareEffect
  <2> QED BY <1>1, <1>2, <2>1, <2>3
<1>5. ASSUME NEW b \in Bookings, NEW row \in Booking, UNCHANGED votes,
             booking' = [booking EXCEPT ![b] = row],
             Known(b, row, votes[b])
      PROVE  AbsenceUncontested'
  BY <1>1, <1>2, <1>5
<1>6. CASE Updated /\ UNCHANGED votes
  <2>1. ASSUME NEW e \in Evaluators, NEW b \in Bookings, AutoPickup(e, b)
        PROVE  AbsenceUncontested'
    BY <1>5, <1>6, <2>1, PickupEffect
  <2>2. ASSUME NEW e \in Evaluators, NEW b \in Bookings, Dropoff(e, b)
        PROVE  AbsenceUncontested'
    BY <1>5, <1>6, <2>2, DropoffEffect
  <2>3. ASSUME NEW e \in Evaluators, NEW b \in Bookings, pass[e] # Idle,
               NEW status \in {"no_show", "uncertain"}, Absent(e, b, status)
        PROVE  AbsenceUncontested'
    <3>1. \A a \in Actors : votes[b]["pickup"][a] = "none"
      BY <2>3 DEF Absent, AbsenceOpen
    <3> QED BY <1>5, <1>6, <2>3, <3>1, AbsentEffect
  <2>4. ASSUME NEW b \in Bookings, Decide(b), booking' # booking
        PROVE  AbsenceUncontested'
    BY <1>5, <1>6, <2>4, DecideEffect
  <2> QED BY <1>6, <2>1, <2>2, <2>3, <2>4 DEF Updated
<1> QED BY <1>3, <1>4, <1>6, StepKinds DEF StepKind, Declared

LEMMA AgreementStep ==
  ASSUME TypeOK, AgreementApplies, [Next]_vars
  PROVE  AgreementApplies'
<1>1. CASE ~Declared
  <2>1. /\ UNCHANGED votes
        /\ \A b \in Bookings, s \in Stages :
             /\ booking'[b][s] = "manual" => booking[b][s] = "manual"
             /\ booking[b][s] # "none" => booking'[b][s] # "none"
    BY <1>1, UndeclaredStep
  <2> QED BY <2>1 DEF AgreementApplies, Applied
<1>2. ASSUME NEW b \in Bookings, NEW s \in Stages, NEW a \in Actors,
             NEW d \in Decisions, Declare(b, s, a, d)
      PROVE  AgreementApplies'
  <2> DEFINE v == votes'[b]
  <2>0. votes[b] \in Votes /\ booking[b] \in Booking
    BY DEF TypeOK, DeclarationsTypeOK
  <2>1. /\ v = [votes[b] EXCEPT ![s][a] = d]
        /\ \A c \in Bookings \ {b} : votes'[c] = votes[c] /\ booking'[c] = booking[c]
        /\ ~(Ready(v[s]) /\ ~HasRideDispute(v)) => booking'[b] = booking[b]
        /\ Ready(v[s]) /\ ~HasRideDispute(v) =>
             /\ booking'[b][s] = "manual"
             /\ \A t \in Stages \ {s} : booking'[b][t] = booking[b][t]
    BY <1>2, DeclareEffect
  <2>2. \/ votes[b][s][a] = "none" /\ booking[b][s] = "none"
        \/ v = votes[b]
    <3>1. CASE votes[b][s][a] = d
      BY <2>0, <2>1, <3>1 DEF Votes
    <3> QED BY <1>2, <3>1 DEF Declare, Applied
  <2>3. /\ v \in Votes /\ v[s][a] = d
        /\ \A t \in Stages, x \in Actors : t # s \/ x # a => v[t][x] = votes[b][t][x]
    BY <2>0, <2>1 DEF Votes
  <2> HIDE DEF v
  <2>4. HasRideDispute(votes[b]) => HasRideDispute(v)
    BY <2>2, <2>3 DEF HasRideDispute
  <2>5. \A t \in Stages : Ready(votes[b][t]) => Ready(v[t])
    BY <2>2, <2>3 DEF Ready
  <2>6. \A t \in Stages \ {s} : Ready(v[t]) => Ready(votes[b][t])
    BY <2>3 DEF Ready
  <2>7. ASSUME NEW t \in Stages
        PROVE  /\ Ready(v[t]) /\ ~HasRideDispute(v) => booking'[b][t] # "none"
               /\ booking'[b][t] = "manual" => Ready(v[t])
    <3>1. CASE t = s
      BY <2>1, <2>5, <3>1 DEF AgreementApplies, v
    <3>2. CASE t # s
      BY <2>1, <2>4, <2>5, <2>6, <3>2 DEF AgreementApplies, Applied, v
    <3> QED BY <3>1, <3>2
  <2>8. ASSUME NEW c \in Bookings, NEW t \in Stages
        PROVE  /\ Ready(votes'[c][t]) /\ ~HasRideDispute(votes'[c]) => booking'[c][t] # "none"
               /\ booking'[c][t] = "manual" => Ready(votes'[c][t])
    <3>1. CASE c = b
      BY <2>7, <3>1 DEF v
    <3>2. CASE c # b
      BY <2>1, <3>2 DEF AgreementApplies, Applied
    <3> QED BY <3>1, <3>2
  <2>9. (\A c \in Bookings, t \in Stages :
           /\ Ready(votes'[c][t]) /\ ~HasRideDispute(votes'[c]) => booking'[c][t] # "none"
           /\ booking'[c][t] = "manual" => Ready(votes'[c][t]))
        => AgreementApplies'
    BY DEF AgreementApplies, Applied, Ready, HasRideDispute
  <2> QED BY <2>8, <2>9
<1> QED BY <1>1, <1>2 DEF Declared

LEMMA DisputeStep ==
  ASSUME TypeOK, [Next]_vars, NEW b \in Bookings, HasRideDispute(votes[b]),
         booking'[b] # booking[b]
  PROVE  booking'[b].dropoff = "stop"
<1>1. booking \in [Bookings -> Booking] /\ votes[b] \in Votes
  BY DEF TypeOK, DeclarationsTypeOK
<1>2. ASSUME NEW c \in Bookings, NEW s \in Stages, NEW a \in Actors,
             NEW d \in Decisions, Declare(c, s, a, d)
      PROVE  FALSE
  <2>1. c = b /\ ~HasRideDispute(votes'[b])
    BY <1>2, DeclareEffect
  <2>2. votes'[b] = [votes[b] EXCEPT ![s][a] = d]
    BY <1>2, <2>1, DeclareEffect
  <2>3. PICK t \in Stages, x \in Actors : votes[b][t][x] = "reject"
    BY DEF HasRideDispute
  <2>4. votes'[b][t][x] # "reject"
    BY <2>1 DEF HasRideDispute
  <2>5. t = s /\ x = a /\ d # "reject"
    BY <1>1, <2>2, <2>3, <2>4 DEF Votes
  <2> QED BY <1>2, <2>1, <2>3, <2>5 DEF Declare
<1>3. ASSUME NEW e \in Evaluators, NEW c \in Bookings, pass[e] # Idle,
             \/ AutoPickup(e, c) \/ Dropoff(e, c)
             \/ \E status \in {"no_show", "uncertain"} : Absent(e, c, status)
      PROVE  FALSE
  <2>1. ~HasRideDispute(votes[c])
    BY <1>3 DEF AutoPickup, PickupOpen, Dropoff, Absent, AbsenceOpen, NotDisputed
  <2>2. \E row : booking' = [booking EXCEPT ![c] = row]
    BY <1>3, PickupEffect, DropoffEffect, AbsentEffect
  <2> QED BY <1>1, <2>1, <2>2
<1>4. ASSUME NEW c \in Bookings, Decide(c), booking' # booking
      PROVE  booking'[b].dropoff = "stop"
  BY <1>1, <1>4, DecideEffect
<1> QED BY <1>2, <1>3, <1>4, StepKinds DEF StepKind, Declared, Updated

\* What a worker knows of the row it works on, and what is followed up.
LEMMA EffectsStep ==
  ASSUME TypeOK, EffectsCovered, WorkTrue, [Next]_vars
  PROVE  EffectsCovered' /\ WorkTrue'
<1>0. /\ booking \in [Bookings -> Booking] /\ effects \in [Bookings -> Effects]
      /\ work \in [Workers -> Work] /\ followed \in [Bookings -> SUBSET Stages]
      /\ DeclarationsTypeOK
  BY DEF TypeOK, DeclarationsTypeOK
<1>1. CASE UNCHANGED <<effects, work, followed>> /\ ~Declared
  <2>1. \A b \in Bookings, s \in Stages : booking'[b][s] = "manual" => booking[b][s] = "manual"
    BY <1>1, UndeclaredStep
  <2>2. \A w \in Workers : work[w].pc = "run" =>
          work[w].row \in Bookings /\ effects[work[w].row].todo \in SUBSET Stages
    BY <1>0, WorkShape DEF AtWork, Effects
  <2>3. EffectsCovered'
    BY <1>1, <2>1 DEF EffectsCovered
  <2>4. WorkTrue'
    BY <1>1, <2>1, <2>2 DEF WorkTrue
  <2> QED BY <2>3, <2>4
<1>2. ASSUME NEW b \in Bookings, NEW s \in Stages, NEW a \in Actors,
             NEW d \in Decisions, Declare(b, s, a, d)
      PROVE  EffectsCovered' /\ WorkTrue'
  <2> DEFINE new == Rescheduled(effects[b], s)
  <2>1. /\ new.version = effects[b].version + 1
        /\ new.todo = effects[b].todo \cup {s}
    BY <1>0, DeclareType
  <2>2. effects' = [effects EXCEPT ![b] = new] /\ UNCHANGED <<work, followed>>
    BY <1>2 DEF Declare
  <2> HIDE DEF new
  <2>3. /\ \A c \in Bookings \ {b} : booking'[c] = booking[c]
        /\ \A t \in Stages \ {s} : booking'[b][t] = booking[b][t]
    BY <1>2, DeclareEffect
  <2>4. EffectsCovered'
    BY <1>0, <2>1, <2>2, <2>3 DEF EffectsCovered
  <2>5. \A w \in Workers : work[w].pc = "run" =>
          /\ work[w].row \in Bookings /\ work[w].version \in Nat
          /\ effects[work[w].row].version \in Nat
          /\ effects[work[w].row].todo \in SUBSET Stages
    BY <1>0, WorkShape DEF AtWork, Effects
  <2>6. WorkTrue'
    BY <1>0, <2>1, <2>2, <2>3, <2>5 DEF WorkTrue
  <2> QED BY <2>4, <2>6
<1>3. ASSUME NEW b \in Bookings, NEW new, effects' = [effects EXCEPT ![b] = new],
             new.todo = effects[b].todo, new.version = effects[b].version,
             UNCHANGED <<booking, followed>>,
             \A w \in Workers : work'[w].pc = "run" => work'[w] = work[w]
      PROVE  EffectsCovered' /\ WorkTrue'
  <2>1. EffectsCovered'
    BY <1>0, <1>3 DEF EffectsCovered
  <2>2. \A w \in Workers : work[w].pc = "run" => work[w].row \in Bookings
    BY <1>0, WorkShape DEF AtWork
  <2>3. WorkTrue'
    BY <1>0, <1>3, <2>2 DEF WorkTrue
  <2> QED BY <2>1, <2>3
<1>4. ASSUME NEW b \in Bookings, LeaseExpires(b) PROVE EffectsCovered' /\ WorkTrue'
  <2> DEFINE new == [effects[b] EXCEPT !.lease.live = FALSE]
  <2>1. new.todo = effects[b].todo /\ new.version = effects[b].version
    BY <1>0 DEF Effects
  <2>2. effects' = [effects EXCEPT ![b] = new] /\ UNCHANGED <<booking, work, followed>>
    BY <1>4 DEF LeaseExpires
  <2> HIDE DEF new
  <2> QED BY <1>3, <2>1, <2>2
<1>5. ASSUME NEW w \in Workers, NEW b \in Bookings, Claim(w, b)
      PROVE  EffectsCovered' /\ WorkTrue'
  <2> DEFINE new == [effects[b] EXCEPT !.lease = [by |-> w, live |-> TRUE]]
  <2>1. new.todo = effects[b].todo /\ new.version = effects[b].version
    BY <1>0 DEF Effects
  <2>2. /\ effects' = [effects EXCEPT ![b] = new] /\ UNCHANGED <<booking, followed>>
        /\ work' = [work EXCEPT ![w] = [pc |-> "claimed", row |-> b]]
    BY <1>5 DEF Claim
  <2>3. \A x \in Workers : work'[x].pc = "run" => work'[x] = work[x]
    BY <1>0, <2>2
  <2> HIDE DEF new
  <2> QED BY <1>3, <2>1, <2>2, <2>3
<1>6. ASSUME NEW w \in Workers, ReadClaim(w) PROVE EffectsCovered' /\ WorkTrue'
  <2> DEFINE new == [pc |-> "run", row |-> work[w].row, todo |-> effects[work[w].row].todo,
                     version |-> effects[work[w].row].version]
  <2>1. /\ UNCHANGED <<booking, effects, followed>>
        /\ work' = [work EXCEPT ![w] = IF ~Holds(w) THEN Idle ELSE new]
    BY <1>6 DEF ReadClaim
  <2>2. EffectsCovered'
    BY <2>1 DEF EffectsCovered
  <2>3. effects[work[w].row] \in Effects
    BY <1>0, <1>6, WorkShape DEF ReadClaim, Claimed
  <2>4. \A x \in Workers \ {w} : work'[x] = work[x]
    BY <1>0, <2>1
  <2>5. work'[w] = Idle \/ work'[w] = new
    BY <1>0, <2>1
  <2>6. WorkTrue'
    BY <2>1, <2>3, <2>4, <2>5 DEF WorkTrue, Idle, Effects
  <2> QED BY <2>2, <2>6
<1>7. ASSUME NEW w \in Workers, NEW s \in Stages, Finish(w, s)
      PROVE  EffectsCovered' /\ WorkTrue'
  <2> DEFINE b == work[w].row
             new == [work[w] EXCEPT !.todo = @ \ {s}]
  <2>0. work[w] \in AtWork
    BY <1>0, <1>7, WorkShape DEF Finish
  <2>1. /\ new.pc = "run" /\ new.row = b /\ new.version = work[w].version
        /\ new.todo = work[w].todo \ {s} /\ b \in Bookings
    BY <2>0 DEF AtWork
  <2>2. /\ UNCHANGED <<booking, effects>> /\ work' = [work EXCEPT ![w] = new]
        /\ followed' = [followed EXCEPT ![b] =
                          IF booking[b][s] = "manual" THEN @ \cup {s} ELSE @]
    BY <1>7 DEF Finish
  <2>3. /\ \A c \in Bookings : followed[c] \subseteq followed'[c]
        /\ booking[b][s] = "manual" => s \in followed'[b]
    BY <1>0, <2>1, <2>2
  <2>4. EffectsCovered'
    BY <2>2, <2>3 DEF EffectsCovered
  <2>5. \A x \in Workers : work[x].pc = "run" =>
          work[x].row \in Bookings /\ effects[work[x].row].todo \in SUBSET Stages
    BY <1>0, WorkShape DEF AtWork, Effects
  <2> HIDE DEF new
  <2>6. work'[w] = new /\ \A x \in Workers \ {w} : work'[x] = work[x]
    BY <1>0, <2>2
  <2>7. work[w].pc = "run"
    BY <2>0 DEF AtWork
  <2>8. WorkTrue'
    BY <2>1, <2>2, <2>3, <2>5, <2>6, <2>7 DEF WorkTrue
  <2> QED BY <2>4, <2>8
<1>8. ASSUME NEW w \in Workers, Clear(w) PROVE EffectsCovered' /\ WorkTrue'
  <2> DEFINE b == work[w].row
             cleared == [effects[b] EXCEPT !.todo = {}, !.lease = [by |-> Null, live |-> FALSE]]
             due == [effects[b] EXCEPT !.lease = [by |-> Due, live |-> FALSE]]
  <2>0. work[w] \in AtWork /\ b \in Bookings /\ effects[b] \in Effects
    BY <1>0, <1>8, WorkShape DEF Clear, AtWork
  <2>1. /\ cleared.todo = {} /\ cleared.version = effects[b].version
        /\ due.todo = effects[b].todo /\ due.version = effects[b].version
    BY <2>0 DEF Effects
  <2>2. /\ UNCHANGED <<booking, followed>> /\ work' = [work EXCEPT ![w] = Idle]
        /\ effects' = [effects EXCEPT ![b] = IF Current(w) THEN cleared
                                             ELSE IF Holds(w) THEN due ELSE @]
    BY <1>8 DEF Clear
  <2>3. \A x \in Workers : work'[x].pc = "run" => work'[x] = work[x]
    BY <1>0, <2>2 DEF Idle
  <2>4. CASE ~Current(w)
    <3>1. \E new : /\ effects' = [effects EXCEPT ![b] = new]
                   /\ new.todo = effects[b].todo /\ new.version = effects[b].version
      BY <1>0, <2>0, <2>1, <2>2, <2>4
    <3> HIDE DEF b, cleared, due
    <3> QED BY <1>3, <2>0, <2>2, <2>3, <3>1
  <2>5. CASE Current(w)
    <3>1. \A s \in effects[b].todo : booking[b][s] = "manual" => s \in followed[b]
      BY <1>8, <2>5 DEF Clear, Current, WorkTrue
    <3> HIDE DEF cleared, due
    <3>2. /\ effects'[b].todo = {} /\ effects'[b].version = effects[b].version
          /\ \A c \in Bookings \ {b} : effects'[c] = effects[c]
      BY <1>0, <2>0, <2>1, <2>2, <2>5
    <3>3. EffectsCovered'
      BY <2>2, <3>1, <3>2 DEF EffectsCovered
    <3>4. \A x \in Workers : work[x].pc = "run" => work[x].row \in Bookings
      BY <1>0, WorkShape DEF AtWork
    <3>5. WorkTrue'
      BY <2>2, <2>3, <3>2, <3>4 DEF WorkTrue
    <3> QED BY <3>3, <3>5
  <2> QED BY <2>4, <2>5
<1>9. ASSUME NEW w \in Workers, Abandon(w) PROVE EffectsCovered' /\ WorkTrue'
  BY <1>0, <1>9 DEF Abandon, EffectsCovered, WorkTrue, Idle
<1>10. CASE Declaring
  BY <1>2, <1>10 DEF Declaring
<1>11. CASE FollowUp
  BY <1>4, <1>5, <1>6, <1>7, <1>8, <1>9, <1>11 DEF FollowUp, WorkerStep
<1>12. CASE ~Declaring /\ ~FollowUp
  <2>1. UNCHANGED <<effects, work, followed>>
    <3>1. ASSUME NEW e \in Evaluators, PassStep(e)
          PROVE  UNCHANGED <<effects, work, followed>>
      BY <3>1 DEF PassStep, BeginPass, NoticeApproach, ReachDestination, ReadyToClose,
         CloseTrip, SaveClosed, EndPass, AutoPickup, AutoNoShow, AutoDropoff, Skip,
         ResolveDropoff, ResolveUncertain, Absent, Dropoff, declarationVars
    <3>2. ASSUME NEW k \in Calls, DriverStep(k)
          PROVE  UNCHANGED <<effects, work, followed>>
      BY <3>2 DEF DriverStep, ReadStart, ReadPause, ReadComplete, Read, WriteStart,
         WritePause, WriteComplete, Write, ReadInterrupt, Interrupt, CallEnds, declarationVars
    <3>3. (Answering \/ UNCHANGED vars) => UNCHANGED <<effects, work, followed>>
      BY DEF Answering, Agree, Refuse, Withdraw, Decide, CancelInterruption, Resume, vars,
         declarationVars
    <3>4. ASSUME NEW b \in Bookings, PassengerMoves(b)
          PROVE  UNCHANGED <<effects, work, followed>>
      BY <3>4 DEF PassengerMoves, declarationVars
    <3> QED BY <1>12, <3>1, <3>2, <3>3, <3>4 DEF Next
  <2>2. CASE Declared
    BY <1>2, <2>2 DEF Declared
  <2> QED BY <1>1, <2>1, <2>2
<1> QED BY <1>10, <1>11, <1>12

----------------------------------------------------------------------------
(* The theorems.                                                           *)

LEMMA InitInvariant == Init => IInv
<1> SUFFICES ASSUME Init PROVE IInv
  OBVIOUS
<1>1. RideOrder /\ SnapshotTrue
  BY DEF Init, DeclarationsInit, RideOrder, SnapshotTrue, Boarded
<1>2. AbsenceUncontested /\ EffectsCovered /\ WorkTrue
  BY DEF Init, DeclarationsInit, AbsenceUncontested, EffectsCovered, WorkTrue, Idle, Stages
<1>3. AgreementApplies
  BY DEF Init, DeclarationsInit, AgreementApplies, Ready, Applied, Stages, Actors
<1> QED BY <1>1, <1>2, <1>3, InitTypes DEF IInv

\* The inductive invariant of RideProgress: types, the order of a ride, what
\* snapshots and workers know, and what votes have brought about.
THEOREM Invariance == Spec => []IInv
<1>1. IInv /\ [Next]_vars => IInv'
  BY NextTypes, RideOrderStep, SnapshotStep, AbsenceStep, AgreementStep, EffectsStep
  DEF IInv, RidesAdvance
<1> QED BY InitInvariant, <1>1, PTL DEF Spec

\* Nobody arrives without having boarded on evidence, or is absent who boarded
\* (the conditional updates of BookingsService against their snapshots).
THEOREM RidesInOrder == Spec => []RideOrder
<1>1. IInv => RideOrder
  BY DEF IInv
<1> QED BY <1>1, Invariance, PTL

\* No absence is recorded against a declared pickup (tryConfirmAutomaticNoShow,
\* markAutomaticBoardingUncertain against declare).
THEOREM AbsencesUncontested == Spec => []AbsenceUncontested
<1>1. IInv => AbsenceUncontested
  BY DEF IInv
<1> QED BY <1>1, Invariance, PTL

\* Two undisputed confirmations apply a stage, and nothing less does (declare).
THEOREM AgreementsApply == Spec => []AgreementApplies
<1>1. IInv => AgreementApplies
  BY DEF IInv
<1> QED BY <1>1, Invariance, PTL

\* No version or lease check of repairEffects loses the follow-up of a stage.
THEOREM FollowUpsKept == Spec => []EffectsCovered
<1>1. IInv => EffectsCovered
  BY DEF IInv
<1> QED BY <1>1, Invariance, PTL

\* A rejection freezes the ride, but for the passenger's own stop in an
\* interruption (NO_RIDE_DISPUTE_SQL, hasRideDispute).
THEOREM DisputesFreeze == Spec => DisputeFreezes
<1>1. TypeOK /\ [Next]_vars =>
        [\A b \in Bookings : HasRideDispute(votes[b]) /\ booking'[b] # booking[b]
                             => booking'[b].dropoff = "stop"]_vars
  BY DisputeStep
<1> QED BY <1>1, TypeCorrect, PTL DEF Spec, DisputeFreezes
=============================================================================
