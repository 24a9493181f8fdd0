-------------------------- MODULE RideDeclarations --------------------------
(***************************************************************************)
(* RideDeclarationsService: the driver and the passenger of a booking each *)
(* declare, once and for good, that the pickup and the drop-off happened   *)
(* or not.  Two confirmations apply the stage in the transaction of the    *)
(* second one, a rejection freezes it.  What follows a declaration         *)
(* (payment, notifications, emergency contacts) is left on the row and     *)
(* done by a worker of any process, which holds the row by a lease.        *)
(***************************************************************************)
EXTENDS Integers, FiniteSets

CONSTANTS
  Bookings,     \* bookings of the trip
  Workers       \* processes that run repairEffects every 30 seconds

VARIABLES
  trip,         \* the trips row
  booking,      \* booking[b]: the ride of the bookings row
  votes,        \* votes[b]: its rideDeclarations
  effects,      \* effects[b]: its rideEffects* columns
  work,         \* work[w]: the row worker w has claimed
  followed      \* followed[b]: manual stages followed up (history)

declarationVars == <<trip, booking, votes, effects, work, followed>>

Stages == {"pickup", "dropoff"}
Actors == {"driver", "passenger"}
Decisions == {"confirm", "reject"}

\* Lease holders that are no worker: no timestamp, and one that is past.
Null == "null"
Due  == "due"

ASSUME WorkersAssumption == {Null, Due} \cap Workers = {}

TripStatuses == {"pending", "active", "completed"}
Trip == [status : TripStatuses, noticed : BOOLEAN]

\* booking[b][stage] is how the stage was established; "unproved" is a pickup
\* that only a drop-off wrote, "stop" a drop-off chosen in an interruption.
Booking == [status : {"accepted", "no_show", "uncertain", "completed"},
            pickup : {"none", "auto", "manual", "unproved"},
            dropoff : {"none", "auto", "manual", "stop"}]
Votes == [Stages -> [Actors -> Decisions \cup {"none"}]]
Effects == [todo : SUBSET Stages, version : Nat,
            lease : [by : Workers \cup {Null, Due}, live : BOOLEAN]]
Idle == [pc |-> "idle"]
Work == {Idle} \cup [pc : {"claimed"}, row : Bookings]
        \cup [pc : {"run"}, row : Bookings, todo : SUBSET Stages, version : Nat]

DeclarationsTypeOK ==
  /\ trip \in Trip
  /\ booking \in [Bookings -> Booking]
  /\ votes \in [Bookings -> Votes]
  /\ effects \in [Bookings -> Effects]
  /\ work \in [Workers -> Work]
  /\ followed \in [Bookings -> SUBSET Stages]

\* A trip that was just started, with its accepted bookings.
DeclarationsInit ==
  /\ trip = [status |-> "active", noticed |-> FALSE]
  /\ booking = [b \in Bookings |->
       [status |-> "accepted", pickup |-> "none", dropoff |-> "none"]]
  /\ votes = [b \in Bookings |-> [s \in Stages |-> [a \in Actors |-> "none"]]]
  /\ effects = [b \in Bookings |->
       [todo |-> {}, version |-> 0, lease |-> [by |-> Null, live |-> FALSE]]]
  /\ work = [w \in Workers |-> Idle]
  /\ followed = [b \in Bookings |-> {}]

----------------------------------------------------------------------------
(* Declarations, under the trip and booking row locks.                     *)

Applied(b, s) == booking[b][s] # "none"

\* hasRideDispute and NO_RIDE_DISPUTE_SQL.
HasRideDispute(v) == \E s \in Stages, a \in Actors : v[s][a] = "reject"

Ready(votesOfStage) == \A a \in Actors : votesOfStage[a] = "confirm"

\* Mutant: one confirmation is enough.
ManualAlone(b, s, v) ==
  IF HasRideDispute(v) THEN booking[b]
  ELSE [booking[b] EXCEPT ![s] = "manual",
          !.status = IF s = "pickup" THEN "accepted" ELSE "completed"]

\* What declare stores when the declaration leads to the votes v.
Manual(b, s, v) ==
  IF ~(Ready(v[s]) /\ ~HasRideDispute(v)) THEN booking[b]
  ELSE [booking[b] EXCEPT ![s] = "manual",
          !.status = IF s = "pickup" THEN "accepted" ELSE "completed"]

\* New work does not take a row from the worker that holds it.
Rescheduled(e, s) ==
  [todo |-> e.todo \cup {s}, version |-> e.version + 1,
   lease |-> IF e.lease.live THEN e.lease ELSE [by |-> Due, live |-> FALSE]]

\* Replays change nothing, except of a pair of old confirmations that was
\* never applied.
Declare(b, s, a, d) ==
  LET v == [votes[b] EXCEPT ![s][a] = d]
      changed == votes[b][s][a] = "none"
      replayReady == votes[b][s][a] = d /\ Ready(votes[b][s])
  IN
  /\ ~Applied(b, s)
  /\ changed \/ replayReady
  /\ trip.status = "active" /\ booking[b].status = "accepted"
  /\ s = "dropoff" => Applied(b, "pickup")
  /\ votes' = [votes EXCEPT ![b] = v]
  /\ booking' = [booking EXCEPT ![b] = Manual(b, s, v)]
  /\ effects' = [effects EXCEPT ![b] = Rescheduled(@, s)]
  /\ UNCHANGED <<trip, work, followed>>

----------------------------------------------------------------------------
(* repairEffects.                                                          *)

\* Mutant: a lease that ran out is not taken over.
ClaimableDue(e) == e.todo # {} /\ e.lease.by = Due

Claimable(e) == e.todo # {} /\ e.lease.by # Null /\ ~e.lease.live

Claim(w, b) ==
  /\ work[w] = Idle /\ Claimable(effects[b])
  /\ effects' = [effects EXCEPT ![b].lease = [by |-> w, live |-> TRUE]]
  /\ work' = [work EXCEPT ![w] = [pc |-> "claimed", row |-> b]]
  /\ UNCHANGED <<trip, booking, votes, followed>>

Holds(w) == effects[work[w].row].lease.by = w

\* The list of stages is read after the claim; a worker so slow that its
\* lease went to another one gives up.
ReadClaim(w) ==
  /\ work[w].pc = "claimed"
  /\ work' = [work EXCEPT ![w] = IF ~Holds(w) THEN Idle ELSE
       [pc |-> "run", row |-> @.row, todo |-> effects[@.row].todo,
        version |-> effects[@.row].version]]
  /\ UNCHANGED <<trip, booking, votes, effects, followed>>

\* finishManualRideEffects tells the other person of a declaration, or settles
\* and announces a stage that was applied by declarations.
Finish(w, s) ==
  /\ work[w].pc = "run" /\ s \in work[w].todo
  /\ work' = [work EXCEPT ![w].todo = @ \ {s}]
  /\ followed' = [followed EXCEPT ![work[w].row] =
       IF booking[work[w].row][s] = "manual" THEN @ \cup {s} ELSE @]
  /\ UNCHANGED <<trip, booking, votes, effects>>

\* Mutant: newer work is cleared with the old.
CurrentAnyway(w) == Holds(w)

\* The row is still as it was read.
Current(w) == Holds(w) /\ effects[work[w].row].version = work[w].version

Clear(w) ==
  /\ work[w].pc = "run" /\ work[w].todo = {}
  /\ effects' = [effects EXCEPT ![work[w].row] =
       IF Current(w)
       THEN [@ EXCEPT !.todo = {}, !.lease = [by |-> Null, live |-> FALSE]]
       ELSE IF Holds(w) THEN [@ EXCEPT !.lease = [by |-> Due, live |-> FALSE]]
       ELSE @]
  /\ work' = [work EXCEPT ![w] = Idle]
  /\ UNCHANGED <<trip, booking, votes, followed>>

\* An effect throws, or the process dies: the row waits for its lease to end.
Abandon(w) ==
  /\ work[w] # Idle
  /\ work' = [work EXCEPT ![w] = Idle]
  /\ UNCHANGED <<trip, booking, votes, effects, followed>>

\* Two minutes pass, whether the worker is done or not.
LeaseExpires(b) ==
  /\ effects[b].lease.live
  /\ effects' = [effects EXCEPT ![b].lease.live = FALSE]
  /\ UNCHANGED <<trip, booking, votes, work, followed>>

WorkerStep(w) ==
  \/ \E b \in Bookings : Claim(w, b)
  \/ \E s \in Stages : Finish(w, s)
  \/ ReadClaim(w) \/ Clear(w) \/ Abandon(w)

----------------------------------------------------------------------------
(* What declarations and their follow-up promise.                          *)

\* A stage applied by two confirmations is followed up, or still scheduled:
\* no version or lease check loses it (the two updates that end repairEffects).
EffectsCovered ==
  \A b \in Bookings, s \in Stages :
    booking[b][s] = "manual" => s \in effects[b].todo \cup followed[b]

\* Two undisputed confirmations leave no stage waiting, and only two
\* undisputed confirmations apply one (declare, recordDeclaration).
AgreementApplies ==
  \A b \in Bookings, s \in Stages :
    /\ Ready(votes[b][s]) /\ ~HasRideDispute(votes[b]) => Applied(b, s)
    /\ booking[b][s] = "manual" => Ready(votes[b][s])

\* Why EffectsCovered holds: if the row is still as worker w read it, all that
\* w has not to do any more is followed up.
WorkTrue ==
  \A w \in Workers : work[w].pc = "run" =>
    LET b == work[w].row IN
    /\ work[w].version <= effects[b].version
    /\ work[w].version = effects[b].version =>
         \A s \in effects[b].todo :
           booking[b][s] = "manual" => s \in work[w].todo \cup followed[b]
=============================================================================
