---------------------------- MODULE RideProgress ----------------------------
(***************************************************************************)
(* A trip under way.  BookingsService evaluates GPS positions and confirms *)
(* pickups, absences and drop-offs by itself, from a snapshot of the trip  *)
(* and its bookings read at the start of a pass; passes of one process run *)
(* one after the other, those of two processes do not.  Meanwhile the      *)
(* driver and the passengers declare (RideDeclarations), the driver starts *)
(* pauses or ends the trip (TripsService), and passengers agree to an      *)
(* interruption (DriverInterruptionWorkflow).                              *)
(***************************************************************************)
EXTENDS RideDeclarations

CONSTANTS
  Evaluators,   \* processes that evaluate automatic progress
  Calls         \* requests of the driver in flight

VARIABLES
  pass,         \* pass[e]: the snapshot evaluator e works on
  call,         \* call[k]: a driver's request between its read and its write
  interruption  \* the driver's interruption request and its answers

progressVars == <<pass, call, interruption>>
vars == <<declarationVars, progressVars>>

Pass == {Idle} \cup
  [pc : {"each", "resolve", "close", "save"}, trip : Trip,
   booking : [Bookings -> Booking], left : SUBSET Bookings,
   moved : SUBSET Bookings]
Call == {Idle} \cup [pc : {"start", "pause", "complete"}, trip : Trip]
        \cup [pc : {"interrupt"}, asked : SUBSET Bookings]
Interruption == [status : {"none", "pending", "confirmed"},
                 asked : SUBSET Bookings, agreed : SUBSET Bookings,
                 decided : SUBSET Bookings]
NoInterruption == [status |-> "none", asked |-> {}, agreed |-> {}, decided |-> {}]

TypeOK ==
  /\ DeclarationsTypeOK
  /\ pass \in [Evaluators -> Pass]
  /\ call \in [Calls -> Call]
  /\ interruption \in Interruption

Init ==
  /\ DeclarationsInit
  /\ pass = [e \in Evaluators |-> Idle]
  /\ call = [k \in Calls |-> Idle]
  /\ interruption = NoInterruption

Active(t) == t.status = "active"
Boarded(w) == w.pickup # "none"
Arrived(w) == w.status = "completed" \/ w.dropoff # "none"
Unfinished == {b \in Bookings : booking[b].status = "accepted" /\ ~Arrived(booking[b])}

----------------------------------------------------------------------------
(* Automatic progress: one pass over a snapshot.                           *)

\* A pass over a trip that is not active finds nothing to do.
BeginPass(e) ==
  /\ pass[e] = Idle /\ Active(trip)
  /\ pass' = [pass EXCEPT ![e] =
       [pc |-> "each", trip |-> trip, booking |-> booking, left |-> Bookings,
        moved |-> {}]]
  /\ UNCHANGED <<declarationVars, call, interruption>>

\* The row a pass knows, and the one in the database.
Seen(e, b) == pass[e].booking[b]

\* The pass is done with b; `row' is what it now holds for it.
Treated(e, b, row) ==
  pass' = [pass EXCEPT ![e].left = @ \ {b}, ![e].booking[b] = row]

Commit(b, row) == booking' = [booking EXCEPT ![b] = row]

\* Mutant: a rejected pickup does not stop automatic progress.
ArrivalNotDisputed(b) == \A a \in Actors : votes[b]["dropoff"][a] # "reject"

NotDisputed(b) == ~HasRideDispute(votes[b])

\* tryConfirmAutomaticPickup: the UPDATE looks at the booking again, and not
\* at the trip.  A no-show is recovered.
PickupOpen(b) ==
  /\ booking[b].status \in {"accepted", "no_show"} /\ ~Boarded(booking[b])
  /\ NotDisputed(b)

AutoPickup(e, b) ==
  LET row == [booking[b] EXCEPT !.status = "accepted", !.pickup = "auto"] IN
  /\ pass[e].pc = "each" /\ b \in pass[e].left
  /\ Seen(e, b).status \in {"accepted", "no_show"} /\ Active(pass[e].trip)
  /\ PickupOpen(b)
  /\ Commit(b, row) /\ Treated(e, b, row)
  /\ UNCHANGED <<trip, votes, effects, work, followed, call, interruption>>

\* Mutant: an absence is recorded though somebody declared on the pickup.
AbsenceOpenToVotes(e, b) ==
  /\ booking[b].status = "accepted" /\ ~Boarded(booking[b])
  /\ b \notin pass[e].moved /\ NotDisputed(b)

\* The UPDATE of an absence, certain or not: nothing was declared on the
\* pickup and the passenger's position is the one that was evaluated.
AbsenceOpen(e, b) ==
  /\ booking[b].status = "accepted" /\ ~Boarded(booking[b])
  /\ b \notin pass[e].moved /\ NotDisputed(b)
  /\ \A a \in Actors : votes[b]["pickup"][a] = "none"

Absent(e, b, status) ==
  /\ Seen(e, b).status = "accepted" /\ ~Boarded(Seen(e, b))
  /\ AbsenceOpen(e, b)
  /\ Commit(b, [booking[b] EXCEPT !.status = status])
  /\ Treated(e, b, [Seen(e, b) EXCEPT !.status = status])
  /\ UNCHANGED <<trip, votes, effects, work, followed, call, interruption>>

AutoNoShow(e, b) ==
  /\ pass[e].pc = "each" /\ b \in pass[e].left /\ Active(pass[e].trip)
  /\ Absent(e, b, "no_show")

\* Mutant: the snapshot is trusted for the pickup.
BoardedOrAccepted(w) == w.status = "accepted"

\* hasBookingBeenPickedUpForRideProgress, on the snapshot.
SeenBoarded(w) == Boarded(w)

\* completeAutomaticDropoff writes pickedUp too.
Dropoff(e, b) ==
  LET row == [booking[b] EXCEPT !.status = "completed", !.dropoff = "auto",
                !.pickup = IF @ = "none" THEN "unproved" ELSE @] IN
  /\ Seen(e, b).status = "accepted" /\ SeenBoarded(Seen(e, b))
  /\ ~Arrived(Seen(e, b))
  /\ booking[b].status = "accepted" /\ booking[b].dropoff = "none"
  /\ NotDisputed(b)
  /\ Commit(b, row) /\ Treated(e, b, row)
  /\ UNCHANGED <<trip, votes, effects, work, followed, call, interruption>>

AutoDropoff(e, b) ==
  /\ pass[e].pc = "each" /\ b \in pass[e].left /\ Active(pass[e].trip)
  /\ Dropoff(e, b)

\* Nothing is decided of b, or the row has moved and the UPDATE affects none.
Skip(e, b) ==
  /\ pass[e].pc \in {"each", "resolve"} /\ b \in pass[e].left
  /\ Treated(e, b, Seen(e, b))
  /\ UNCHANGED <<declarationVars, call, interruption>>

----------------------------------------------------------------------------
(* The end of a pass: tryCompleteTripAtDestination.                        *)

AtDestination(e) == pass[e].pc = "each" /\ pass[e].left = {} /\ Active(pass[e].trip)

\* The driver comes near: the snapshot of the trip is saved as a whole.
NoticeApproach(e) ==
  /\ AtDestination(e) /\ ~pass[e].trip.noticed
  /\ trip' = [pass[e].trip EXCEPT !.noticed = TRUE]
  /\ pass' = [pass EXCEPT ![e] = Idle]
  /\ UNCHANGED <<booking, votes, effects, work, followed, call, interruption>>

\* The driver is there: resolveBookingsAtTripDestination.
ReachDestination(e) ==
  /\ AtDestination(e)
  /\ pass' = [pass EXCEPT ![e].pc = "resolve",
       ![e].left = {b \in Bookings : Seen(e, b).status = "accepted"
                                     /\ ~Arrived(Seen(e, b))}]
  /\ UNCHANGED <<declarationVars, call, interruption>>

ResolveDropoff(e, b) ==
  /\ pass[e].pc = "resolve" /\ b \in pass[e].left /\ Dropoff(e, b)

ResolveUncertain(e, b) ==
  /\ pass[e].pc = "resolve" /\ b \in pass[e].left /\ Absent(e, b, "uncertain")

\* hasUnresolvedAcceptedBookings reads the bookings again.
ReadyToClose(e) ==
  /\ pass[e].pc = "resolve" /\ pass[e].left = {} /\ Unfinished = {}
  /\ pass' = [pass EXCEPT ![e].pc = "close"]
  /\ UNCHANGED <<declarationVars, call, interruption>>

CloseTrip(e) ==
  /\ pass[e].pc = "close"
  /\ trip' = IF Active(trip) THEN [status |-> "completed", noticed |-> TRUE] ELSE trip
  /\ pass' = [pass EXCEPT ![e] = IF Active(trip) THEN [@ EXCEPT !.pc = "save"] ELSE Idle]
  /\ UNCHANGED <<booking, votes, effects, work, followed, call, interruption>>

\* The snapshot, completed by now, is saved after the conditional UPDATE.
SaveClosed(e) ==
  /\ pass[e].pc = "save"
  /\ trip' = [status |-> "completed", noticed |-> TRUE]
  /\ pass' = [pass EXCEPT ![e] = Idle]
  /\ UNCHANGED <<booking, votes, effects, work, followed, call, interruption>>

\* There is nothing more to do, or the process dies.
EndPass(e) ==
  /\ pass[e] # Idle
  /\ pass' = [pass EXCEPT ![e] = Idle]
  /\ UNCHANGED <<declarationVars, call, interruption>>

\* A newer position of the passenger, of a booking whose trip was active when
\* the handler read it.
PassengerMoves(b) ==
  /\ booking[b].status \in {"accepted", "no_show"}
  /\ \E e \in Evaluators : pass[e] # Idle /\ b \notin pass[e].moved
  /\ pass' = [e \in Evaluators |->
       IF pass[e] = Idle THEN Idle ELSE [pass[e] EXCEPT !.moved = @ \cup {b}]]
  /\ UNCHANGED <<declarationVars, call, interruption>>

----------------------------------------------------------------------------
(* The driver's requests: a read, then a write that does not lock the trip. *)

Read(k, op) ==
  /\ call[k] = Idle
  /\ call' = [call EXCEPT ![k] = [pc |-> op, trip |-> trip]]
  /\ UNCHANGED <<declarationVars, pass, interruption>>

\* startTrip; a confirmed interruption is resumed instead (Resume).
ReadStart(k) == trip.status = "pending" /\ interruption.status # "confirmed"
                /\ Read(k, "start")
ReadPause(k) ==
  /\ Active(trip) /\ \A b \in Unfinished : ~Boarded(booking[b])
  /\ Read(k, "pause")
ReadComplete(k) == Active(trip) /\ Unfinished = {} /\ Read(k, "complete")

\* startTrip and pauseTrip save the row they read, completeTrip is conditional.
Write(k, op, row) ==
  /\ call[k].pc = op /\ trip' = row
  /\ call' = [call EXCEPT ![k] = Idle]
  /\ UNCHANGED <<booking, votes, effects, work, followed, pass, interruption>>

WriteStart(k) == Write(k, "start", [status |-> "active", noticed |-> FALSE])
WritePause(k) == Write(k, "pause", [call[k].trip EXCEPT !.status = "pending"])
WriteComplete(k) ==
  Write(k, "complete", IF Active(trip) THEN [trip EXCEPT !.status = "completed"] ELSE trip)

CallEnds(k) ==
  /\ call[k] # Idle
  /\ call' = [call EXCEPT ![k] = Idle]
  /\ UNCHANGED <<declarationVars, pass, interruption>>

----------------------------------------------------------------------------
(* Interruptions the passengers on board must agree to, one at a time; the  *)
(* request itself is written without the trip lock, answers take it.       *)

OnBoard == {b \in Unfinished : Boarded(booking[b])}

ReadInterrupt(k) ==
  /\ call[k] = Idle /\ Active(trip)
  /\ interruption.status = "none" /\ OnBoard # {}
  /\ call' = [call EXCEPT ![k] = [pc |-> "interrupt", asked |-> OnBoard]]
  /\ UNCHANGED <<declarationVars, pass, interruption>>

Interrupt(k) ==
  /\ call[k].pc = "interrupt" /\ interruption.status = "none"
  /\ interruption' = [NoInterruption EXCEPT !.status = "pending", !.asked = call[k].asked]
  /\ call' = [call EXCEPT ![k] = Idle]
  /\ UNCHANGED <<declarationVars, pass>>

\* respond: the last passenger to agree pauses the trip.
Agree(b) ==
  LET all == interruption.agreed \cup {b} IN
  /\ interruption.status = "pending" /\ Active(trip)
  /\ b \in interruption.asked \ interruption.agreed
  /\ interruption' = [interruption EXCEPT !.agreed = all,
       !.status = IF all = interruption.asked THEN "confirmed" ELSE @]
  /\ trip' = IF all = interruption.asked THEN [trip EXCEPT !.status = "pending"] ELSE trip
  /\ UNCHANGED <<booking, votes, effects, work, followed, pass, call>>

Withdraw ==
  /\ interruption' = NoInterruption
  /\ UNCHANGED <<declarationVars, pass, call>>

Refuse(b) ==
  /\ interruption.status = "pending" /\ Active(trip)
  /\ b \in interruption.asked \ interruption.agreed
  /\ Withdraw

CancelInterruption == interruption.status = "pending" /\ Withdraw

Paused == interruption.status = "confirmed" /\ trip.status = "pending"

\* decide: a passenger on board goes on with the trip or stops here.
MayDecide(b) == b \in OnBoard

Decide(b) ==
  /\ Paused /\ b \in interruption.asked /\ MayDecide(b)
  /\ interruption' = [interruption EXCEPT !.decided = @ \cup {b}]
  /\ \/ UNCHANGED booking
     \/ Commit(b, [booking[b] EXCEPT !.status = "completed", !.dropoff = "stop"])
  /\ UNCHANGED <<trip, votes, effects, work, followed, pass, call>>

\* Mutant: the completed request is still taken for the current one.
ResumeKept ==
  /\ Paused /\ interruption.decided = interruption.asked
  /\ interruption' = [interruption EXCEPT !.status = "completed"]
  /\ trip' = [trip EXCEPT !.status = "active"]
  /\ UNCHANGED <<booking, votes, effects, work, followed, pass, call>>

\* startTrip on a trip paused by its passengers.
Resume ==
  /\ Paused /\ interruption.decided = interruption.asked
  /\ interruption' = NoInterruption
  /\ trip' = [trip EXCEPT !.status = "active"]
  /\ UNCHANGED <<booking, votes, effects, work, followed, pass, call>>

----------------------------------------------------------------------------
Declaring == /\ \E b \in Bookings, s \in Stages, a \in Actors, d \in Decisions :
                  Declare(b, s, a, d)
             /\ UNCHANGED progressVars

FollowUp == /\ \/ \E w \in Workers : WorkerStep(w)
               \/ \E b \in Bookings : LeaseExpires(b)
            /\ UNCHANGED progressVars

PassStep(e) ==
  \/ BeginPass(e) \/ NoticeApproach(e) \/ ReachDestination(e)
  \/ ReadyToClose(e) \/ CloseTrip(e) \/ SaveClosed(e) \/ EndPass(e)
  \/ \E b \in Bookings : AutoPickup(e, b) \/ AutoNoShow(e, b) \/ AutoDropoff(e, b)
       \/ Skip(e, b) \/ ResolveDropoff(e, b) \/ ResolveUncertain(e, b)

DriverStep(k) == ReadStart(k) \/ ReadPause(k) \/ ReadComplete(k)
                 \/ WriteStart(k) \/ WritePause(k) \/ WriteComplete(k)
                 \/ ReadInterrupt(k) \/ Interrupt(k) \/ CallEnds(k)

Answering == \/ \E b \in Bookings : Agree(b) \/ Refuse(b) \/ Decide(b)
             \/ CancelInterruption \/ Resume

Next ==
  \/ Declaring \/ FollowUp \/ Answering
  \/ \E e \in Evaluators : PassStep(e)
  \/ \E k \in Calls : DriverStep(k)
  \/ \E b \in Bookings : PassengerMoves(b)

Spec == Init /\ [][Next]_vars

----------------------------------------------------------------------------
(* What holds of a ride, whatever the order of these steps.                *)

\* Nobody arrives without having boarded on evidence of the pickup, nobody is
\* absent who boarded, and a ride is completed exactly when it arrived.
RideOrder ==
  \A b \in Bookings : LET w == booking[b] IN
    /\ w.pickup # "unproved"
    /\ w.dropoff # "none" => Boarded(w)
    /\ w.dropoff # "none" <=> w.status = "completed"
    /\ w.status \in {"no_show", "uncertain"} => ~Boarded(w)

\* Nobody is recorded absent about whose pickup something was declared
\* (tryConfirmAutomaticNoShow, markAutomaticBoardingUncertain).
AbsenceUncontested ==
  \A b \in Bookings, a \in Actors :
    booking[b].status \in {"no_show", "uncertain"} => votes[b]["pickup"][a] = "none"

\* After a rejection nothing but the passenger's own stop in an interruption
\* changes the ride (NO_RIDE_DISPUTE_SQL, hasRideDispute).
DisputeFreezes ==
  [][\A b \in Bookings :
       HasRideDispute(votes[b]) /\ booking'[b] # booking[b]
       => booking'[b].dropoff = "stop"]_vars

\* Workers run; a row can be read within the two minutes of its lease, and a
\* follow-up may fail, but not for ever.
Fairness ==
  /\ \A b \in Bookings : WF_vars(LeaseExpires(b) /\ UNCHANGED progressVars)
  /\ \A w \in Workers :
       /\ WF_vars(\E b \in Bookings : Claim(w, b) /\ UNCHANGED progressVars)
       /\ WF_vars(ReadClaim(w) /\ UNCHANGED progressVars)
       /\ SF_vars(ReadClaim(w) /\ Holds(w) /\ UNCHANGED progressVars)
       /\ \A s \in Stages : SF_vars(Finish(w, s) /\ UNCHANGED progressVars)
       /\ SF_vars(Clear(w) /\ UNCHANGED progressVars)

FairSpec == Spec /\ Fairness

\* A ride that two confirmations end is settled and announced (repairEffects).
ManualRideFollowed ==
  \A b \in Bookings, s \in Stages :
    booking[b][s] = "manual" ~> s \in followed[b]

----------------------------------------------------------------------------
(* Why this holds: the inductive invariant the proofs use.                 *)

\* Nobody leaves the vehicle again: who is on board in a snapshot still is.
SnapshotTrue ==
  \A e \in Evaluators : pass[e] # Idle =>
    \A b \in Bookings : Boarded(pass[e].booking[b]) => Boarded(booking[b])

IInv == /\ TypeOK /\ RideOrder /\ SnapshotTrue
        /\ AbsenceUncontested /\ AgreementApplies
        /\ EffectsCovered /\ WorkTrue
=============================================================================
