---------------------------- MODULE TripRequests ----------------------------
(***************************************************************************)
(* TripRequestsService: a passenger asks for a trip, drivers offer one or  *)
(* take the request as it is, the passenger selects a driver, and a        *)
(* private trip with an accepted booking is made from the request.  Every  *)
(* operation reads the request without a lock and ends in a write of the   *)
(* whole row it read (TypeORM's save) or of a few columns (update); the    *)
(* expiry alone compares the row with its snapshot when it writes.  This   *)
(* module is about one request.                                            *)
(***************************************************************************)
EXTENDS Integers

CONSTANTS
  Drivers,      \* drivers who see the request
  Offers,       \* offers that may be made for it
  Trips,        \* trips that may be made from it
  Calls,        \* requests and cron passes in flight
  ShortGrace,   \* UNACCEPTED_REQUEST_EXPIRATION_MS
  LongGrace,    \* ACCEPTED_REQUEST_EXPIRATION_MS
  FirstDate,    \* departureDateMax of the request as it was created
  LastDate      \* bound: the latest departureDateMax

None == "none"

ASSUME RequestAssumption ==
  /\ None \notin Drivers \cup Offers \cup Trips
  /\ ShortGrace \in Nat \ {0} /\ LongGrace \in Nat /\ ShortGrace < LongGrace
  /\ FirstDate \in Nat /\ LastDate \in Nat /\ FirstDate <= LastDate

VARIABLES
  now,      \* the clock
  request,  \* the trip_requests row
  offer,    \* offer[o]: its driver_offers row
  trip,     \* trip[t]: a trip made from the request, and its booking
  call,     \* call[k]: an operation between two database calls
  sweep     \* the expiry cron between its query and its updates

vars == <<now, request, offer, trip, call, sweep>>

Times == 0..(LastDate + LongGrace)    \* bound: time stops there
Open == {"pending", "offers_received"}
Live == Open \cup {"driver_selected"}

\* `told' is that driverPickupOverdueNotifiedAt is set.
Request == [status : Live \cup {"cancelled", "expired"},
            driver : Drivers \cup {None}, trip : Trips \cup {None},
            max : 0..LastDate, told : BOOLEAN]

Offer == [driver : Drivers \cup {None},
          status : {None, "pending", "accepted", "rejected", "cancelled"}]
NoOffer == [driver |-> None, status |-> None]

\* `booking' is the passenger's booking of the trip, `aboard' its pickup,
\* `linked' that the trip still names the request.
Trip == [driver : Drivers \cup {None},
         status : {None, "pending", "active", "completed", "cancelled"},
         booking : {None, "pending", "accepted", "cancelled"},
         aboard : BOOLEAN, linked : BOOLEAN]
NoTrip == [driver |-> None, status |-> None, booking |-> None,
           aboard |-> FALSE, linked |-> FALSE]

\* A call is where an operation stands, with what it still needs of what it
\* read: `row', the request it will save; `known', the offers loaded with it;
\* `todo', the offers it has yet to reject.  `then' is the next step after
\* expireRequests, or after a look at the trip.
Idle == [pc |-> "idle"]
Leaving == [pc : {"save"}, row : Request] \cup [pc : {"reopen"}]
Working ==
  [pc : {"insert"}, driver : Drivers, offer : Offers, first : BOOLEAN]
  \cup [pc : {"accept", "reject"}, row : Request, known : SUBSET Offers,
        driver : Drivers \cup {None}, offer : Offers, todo : SUBSET Offers]
  \cup [pc : {"make"}, op : {"start", "take"}, row : Request,
        known : SUBSET Offers, driver : Drivers]
  \cup [pc : {"book", "confirm", "link"}, op : {"start", "take"}, row : Request,
        known : SUBSET Offers, driver : Drivers, trip : Trips]
  \cup [pc : {"launch", "launched"}, trip : Trips]
  \cup [pc : {"inspect", "unbook"}, trip : Trips, then : Leaving]
  \cup [pc : {"update", "warn"}, row : Request, known : SUBSET Offers]
  \cup [pc : {"claim"}, driver : Drivers, at : Times]
  \cup [pc : {"mark", "refuse", "withdraw"}]
  \cup Leaving
Call == {Idle} \cup Working \cup [pc : {"expire"}, row : Request, then : Working]
Sweep == {Idle} \cup [pc : {"expire"}, row : Request]

TypeOK ==
  /\ now \in Times
  /\ request \in Request
  /\ offer \in [Offers -> Offer]
  /\ trip \in [Trips -> Trip]
  /\ call \in [Calls -> Call]
  /\ sweep \in Sweep

Init ==
  /\ now = 0
  /\ request = [status |-> "pending", driver |-> None, trip |-> None,
                max |-> FirstDate, told |-> FALSE]
  /\ offer = [o \in Offers |-> NoOffer]
  /\ trip = [t \in Trips |-> NoTrip]
  /\ call = [k \in Calls |-> Idle]
  /\ sweep = Idle

----------------------------------------------------------------------------
(* Helpers of the service.                                                 *)

AnyAccepted(offers) == \E o \in Offers : offers[o].status = "accepted"

\* hasAcceptedDriver; an operation that does not load the offers sees none.
HasAcceptedDriver(row, offers) ==
  \/ row.status = "driver_selected"
  \/ row.driver # None
  \/ row.trip # None
  \/ AnyAccepted(offers)

ExpirationAt(row, offers) ==
  row.max + IF HasAcceptedDriver(row, offers) THEN LongGrace ELSE ShortGrace

\* Mutant: a selected request is given no more time than an open one.
ShouldExpireSoon(row, offers, at) ==
  row.status \in Live /\ row.max + ShortGrace <= at

ShouldExpire(row, offers, at) ==
  row.status \in Live /\ ExpirationAt(row, offers) <= at

\* Mutant: the update names the request and its status only.
StatusUnchanged(row) == request.status = row.status

\* The update of expireRequests names the columns of the snapshot, and the
\* time the row was last written: nobody wrote it since.
Unchanged(row) == request = row

Expired(row) == [row EXCEPT !.status = "expired"]

NotLoaded == [o \in Offers |-> NoOffer]

Existing(offers) == {o \in Offers : offers[o] # NoOffer}
PendingIn(offers) == {o \in Offers : offers[o].status = "pending"}

\* Saving a request whose offers were loaded fails once it has new ones: the
\* ORM takes them for removed and may not clear their trip request.
Saves(row, known) == Existing(offer) \subseteq known /\ request' = row

----------------------------------------------------------------------------
(* A call: read, perhaps expire, then its own steps.                       *)

At(k, pc) == call[k].pc = pc
Becomes(k, work) == call' = [call EXCEPT ![k] = work]
Ends(k) == Becomes(k, Idle)
Goes(k, pc) == call' = [call EXCEPT ![k].pc = pc]

\* An exception, or the death of the process, ends a call anywhere.
Drop(k) == call[k] # Idle /\ Ends(k) /\ UNCHANGED <<now, request, offer, trip, sweep>>

Begins(k, work) ==
  /\ call[k] = Idle /\ Becomes(k, work)
  /\ UNCHANGED <<now, request, offer, trip, sweep>>

\* expireRequests comes first when the row that was read is due.
BeginsLive(k, offers, work) ==
  Begins(k, IF ShouldExpire(request, offers, now)
            THEN [pc |-> "expire", row |-> request, then |-> work] ELSE work)

\* When expiring loses against another write, the operation goes on with its
\* snapshot, in which the request is still alive.
ExpireInCall(k) ==
  /\ At(k, "expire")
  /\ IF Unchanged(call[k].row)
     THEN request' = Expired(request) /\ Ends(k)
     ELSE request' = request /\ Becomes(k, call[k].then)
  /\ UNCHANGED <<now, offer, trip, sweep>>

\* Mutant: the cron forgets the requests with a selected driver.
SweepReadsOpen ==
  /\ sweep = Idle /\ request.status \in Open /\ request.max + ShortGrace <= now
  /\ ShouldExpire(request, offer, now)
  /\ sweep' = [pc |-> "expire", row |-> request]
  /\ UNCHANGED <<now, request, offer, trip, call>>

\* The cron.
SweepReads ==
  /\ sweep = Idle /\ request.status \in Live /\ request.max + ShortGrace <= now
  /\ ShouldExpire(request, offer, now)
  /\ sweep' = [pc |-> "expire", row |-> request]
  /\ UNCHANGED <<now, request, offer, trip, call>>

SweepExpires ==
  /\ sweep # Idle /\ sweep' = Idle
  /\ request' = IF Unchanged(sweep.row) THEN Expired(request) ELSE request
  /\ UNCHANGED <<now, offer, trip, call>>

----------------------------------------------------------------------------
(* Offers.                                                                 *)

ReadOffer(k, d, o) ==
  /\ request.status \in Open /\ ~AnyAccepted(offer)
  /\ \A p \in Offers : ~(offer[p].driver = d /\ offer[p].status = "pending")
  /\ BeginsLive(k, offer, [pc |-> "insert", driver |-> d, offer |-> o,
                           first |-> request.status = "pending"])

InsertOffer(k) ==
  LET c == call[k] IN
  /\ At(k, "insert") /\ offer[c.offer] = NoOffer
  /\ offer' = [offer EXCEPT ![c.offer] =
       [driver |-> c.driver, status |-> "pending"]]
  /\ Becomes(k, IF c.first THEN [pc |-> "mark"] ELSE Idle)
  /\ UNCHANGED <<now, request, trip, sweep>>

\* The status alone is written, whatever became of the request.
MarkOffered(k) ==
  /\ At(k, "mark") /\ Ends(k)
  /\ request' = [request EXCEPT !.status = "offers_received"]
  /\ UNCHANGED <<now, offer, trip, sweep>>

\* acceptDriverOffer.
ReadAccept(k, o) ==
  /\ request.status \in Open /\ offer[o].status = "pending"
  /\ BeginsLive(k, offer,
       [pc |-> "accept", row |-> request, known |-> Existing(offer),
        driver |-> offer[o].driver, offer |-> o, todo |-> PendingIn(offer) \ {o}])

AcceptOffer(k) ==
  /\ At(k, "accept") /\ Goes(k, "reject")
  /\ offer' = [offer EXCEPT ![call[k].offer].status = "accepted"]
  /\ UNCHANGED <<now, request, trip, sweep>>

RejectOther(k, o) ==
  /\ At(k, "reject") /\ o \in call[k].todo
  /\ offer' = [offer EXCEPT ![o].status = "rejected"]
  /\ call' = [call EXCEPT ![k].todo = @ \ {o}]
  /\ UNCHANGED <<now, request, trip, sweep>>

Selected(row, d) ==
  [row EXCEPT !.status = "driver_selected", !.driver = d, !.told = FALSE]

SelectDriver(k) ==
  /\ At(k, "reject") /\ call[k].todo = {} /\ Ends(k)
  /\ Saves(Selected(call[k].row, call[k].driver), call[k].known)
  /\ UNCHANGED <<now, offer, trip, sweep>>

----------------------------------------------------------------------------
(* A trip made from the request: by the selected driver, or by a driver    *)
(* who takes the request as it is.                                         *)

\* ensureDriverHasNoActiveTrip, among the trips of this request.
NoActiveTrip(d) == \A t \in Trips : ~(trip[t].driver = d /\ trip[t].status = "active")

ReadStart(k, d) ==
  /\ request.status = "driver_selected" /\ request.driver = d
  /\ request.trip = None /\ NoActiveTrip(d)
  /\ \E o \in Offers : offer[o] = [driver |-> d, status |-> "accepted"]
  /\ BeginsLive(k, NotLoaded, [pc |-> "make", op |-> "start", row |-> request,
                               known |-> Offers, driver |-> d])

ReadTake(k, d) ==
  /\ request.status \in Open /\ request.trip = None
  /\ BeginsLive(k, offer, [pc |-> "make", op |-> "take", row |-> request,
                           known |-> Existing(offer), driver |-> d])

MakeTrip(k, t) ==
  LET c == call[k] IN
  /\ At(k, "make") /\ trip[t] = NoTrip
  /\ trip' = [trip EXCEPT ![t] = [NoTrip EXCEPT
       !.driver = c.driver, !.status = "pending", !.linked = TRUE]]
  /\ Becomes(k, [pc |-> "book", op |-> c.op, row |-> c.row, known |-> c.known,
                 driver |-> c.driver, trip |-> t])
  /\ UNCHANGED <<now, request, offer, sweep>>

Bookable(t) == trip[t].status \in {"pending", "active"}

BookPassenger(k) ==
  LET t == call[k].trip IN
  /\ At(k, "book") /\ Bookable(t) /\ Goes(k, "confirm")
  /\ trip' = [trip EXCEPT ![t].booking = "pending"]
  /\ UNCHANGED <<now, request, offer, sweep>>

ConfirmBooking(k) ==
  LET t == call[k].trip IN
  /\ At(k, "confirm") /\ Bookable(t) /\ trip[t].booking = "pending"
  /\ trip' = [trip EXCEPT ![t].booking = "accepted"]
  /\ Goes(k, "link")
  /\ UNCHANGED <<now, request, offer, sweep>>

\* startTripFromRequest saves the request with its trip ...
LinkTrip(k) ==
  LET c == call[k] IN
  /\ At(k, "link") /\ c.op = "start"
  /\ Becomes(k, [pc |-> "launch", trip |-> c.trip])
  /\ Saves([c.row EXCEPT !.trip = c.trip], c.known)
  /\ UNCHANGED <<now, offer, trip, sweep>>

\* ... and starts it: startTrip reads the trip, and saves it.
LaunchReads(k) ==
  /\ At(k, "launch") /\ trip[call[k].trip].status = "pending"
  /\ NoActiveTrip(trip[call[k].trip].driver) /\ Goes(k, "launched")
  /\ UNCHANGED <<now, request, offer, trip, sweep>>

LaunchSaves(k) ==
  /\ At(k, "launched") /\ Ends(k)
  /\ trip' = [trip EXCEPT ![call[k].trip].status = "active"]
  /\ UNCHANGED <<now, request, offer, sweep>>

\* acceptTripRequest saves the selection and the trip together.
TakeRequest(k) ==
  LET c == call[k] IN
  /\ At(k, "link") /\ c.op = "take" /\ Becomes(k, [pc |-> "refuse"])
  /\ Saves([Selected(c.row, c.driver) EXCEPT !.trip = c.trip], c.known)
  /\ UNCHANGED <<now, offer, trip, sweep>>

\* The offers in `which' states get the status `to'.
OffersBecome(which, to) ==
  offer' = [o \in Offers |-> IF offer[o].status \in which
                             THEN [offer[o] EXCEPT !.status = to] ELSE offer[o]]

RefuseOffers(k) ==
  /\ At(k, "refuse") /\ Ends(k)
  /\ OffersBecome({"pending"}, "rejected")
  /\ UNCHANGED <<now, request, trip, sweep>>

----------------------------------------------------------------------------
(* The passenger cancels, or releases a driver who is overdue.             *)

\* Mutant: a trip is looked at that was never made.
LeaveAnyway(k, t, work) ==
  Begins(k, [pc |-> "inspect", trip |-> t, then |-> work])

\* The trip of a selected driver is looked at first.
Leave(k, t, work) ==
  Begins(k, IF t = None THEN work ELSE [pc |-> "inspect", trip |-> t, then |-> work])

\* cancel looks neither at the deadline nor, but for a trip, at the status.
ReadCancel(k) ==
  Leave(k, IF request.status = "driver_selected" THEN request.trip ELSE None,
        [pc |-> "save", row |-> request])

ReadRelease(k) ==
  /\ request.status = "driver_selected" /\ request.driver # None
  /\ request.max <= now
  /\ Leave(k, request.trip, [pc |-> "reopen"])

\* A request is cancelled before its trip starts, a driver is released before
\* the passenger boards.
MayLeave(work, ride) ==
  IF work.pc = "save" THEN ride.status = "pending" ELSE ~ride.aboard

Inspect(k) ==
  LET ride == trip[call[k].trip] IN
  /\ At(k, "inspect") /\ MayLeave(call[k].then, ride)
  /\ IF ride.booking \in {"pending", "accepted"}
     THEN Goes(k, "unbook") ELSE Becomes(k, call[k].then)
  /\ UNCHANGED <<now, request, offer, trip, sweep>>

\* BookingsService.cancel by the passenger ends a private trip with it.
Unbook(k) ==
  LET t == call[k].trip IN
  /\ At(k, "unbook")
  /\ trip' = [trip EXCEPT ![t].booking = "cancelled",
       ![t].status = IF trip[t].aboard THEN "completed" ELSE "cancelled"]
  /\ Becomes(k, call[k].then)
  /\ UNCHANGED <<now, request, offer, sweep>>

SaveCancelled(k) ==
  /\ At(k, "save") /\ Becomes(k, [pc |-> "withdraw"])
  /\ request' = [call[k].row EXCEPT !.status = "cancelled"]
  /\ UNCHANGED <<now, offer, trip, sweep>>

WithdrawOffers(k) ==
  /\ At(k, "withdraw") /\ Ends(k)
  /\ OffersBecome({"pending", "accepted"}, "cancelled")
  /\ UNCHANGED <<now, request, trip, sweep>>

Reopened(row) == [row EXCEPT !.status = "pending", !.driver = None,
                   !.trip = None, !.told = FALSE]

\* reopenMatchingSelection: one transaction on the rows as they are now.
Reopen(k) ==
  LET t == request.trip IN
  /\ At(k, "reopen") /\ Ends(k)
  /\ request.status = "driver_selected" /\ request.driver # None
  /\ request' = Reopened(request)
  /\ offer' = [o \in Offers |->
       IF offer[o] = [driver |-> request.driver, status |-> "accepted"]
       THEN [offer[o] EXCEPT !.status = "cancelled"] ELSE offer[o]]
  /\ trip' = IF t # None /\ trip[t].linked
             THEN [trip EXCEPT ![t].linked = FALSE,
                    ![t].status = IF trip[t].status = "completed"
                                  THEN "completed" ELSE "cancelled"]
             ELSE trip
  /\ UNCHANGED <<now, sweep>>

----------------------------------------------------------------------------
(* The passenger reschedules; the passenger is warned.                     *)

\* The dates are checked against the clock, and need not be changed.
ReadUpdate(k, date) ==
  /\ request.status \in Open /\ ~AnyAccepted(offer)
  /\ date = request.max \/ date > now
  /\ BeginsLive(k, offer, [pc |-> "update", row |-> [request EXCEPT !.max = date],
                           known |-> Existing(offer)])

\* notifyAboutUpcomingTripRequestExpiration saves the row it read; the window
\* ends at the deadline, and the flag that closes it is left out.
ReadWarn(k) ==
  /\ request.status \in Open
  /\ ~HasAcceptedDriver(request, offer)
  /\ request.max <= now /\ now < request.max + ShortGrace
  /\ Begins(k, [pc |-> "warn", row |-> request, known |-> Existing(offer)])

SaveRow(k) ==
  /\ call[k].pc \in {"update", "warn"} /\ Ends(k)
  /\ Saves(call[k].row, call[k].known)
  /\ UNCHANGED <<now, offer, trip, sweep>>

\* Mutant: only the end of the window is looked at.
OverdueSoon(row, at) == at < row.max + LongGrace

\* notifyPassengersAboutOverdueDriverPickup: a query, and a claim of the row.
Overdue(row, at) == row.max <= at /\ at < row.max + LongGrace

ReadAlert(k) ==
  LET t == request.trip IN
  /\ request.status = "driver_selected" /\ ~request.told
  /\ Overdue(request, now) /\ request.driver # None
  /\ t # None => trip[t].status # "completed" /\ ~trip[t].aboard
  /\ Begins(k, [pc |-> "claim", driver |-> request.driver, at |-> now])

ClaimAlert(k) ==
  /\ At(k, "claim") /\ Ends(k)
  /\ request.status = "driver_selected" /\ request.driver = call[k].driver
  /\ ~request.told /\ Overdue(request, call[k].at)
  /\ request' = [request EXCEPT !.told = TRUE]
  /\ UNCHANGED <<now, offer, trip, sweep>>

----------------------------------------------------------------------------
(* What happens to the trip elsewhere, and time.                           *)

\* TripsService.startTrip, by the driver alone.
DriverStarts(t) ==
  /\ trip[t].status = "pending" /\ NoActiveTrip(trip[t].driver)
  /\ trip' = [trip EXCEPT ![t].status = "active"]
  /\ UNCHANGED <<now, request, offer, call, sweep>>

Boards(t) ==
  /\ trip[t].status = "active" /\ trip[t].booking = "accepted" /\ ~trip[t].aboard
  /\ trip' = [trip EXCEPT ![t].aboard = TRUE]
  /\ UNCHANGED <<now, request, offer, call, sweep>>

Completes(t) ==
  /\ trip[t].status = "active"
  /\ trip[t].booking \in {"pending", "accepted"} => trip[t].aboard
  /\ trip' = [trip EXCEPT ![t].status = "completed"]
  /\ UNCHANGED <<now, request, offer, call, sweep>>

Tick ==
  /\ now + 1 \in Times /\ now' = now + 1
  /\ UNCHANGED <<request, offer, trip, call, sweep>>

----------------------------------------------------------------------------
Reads(k) ==
  \/ \E d \in Drivers, o \in Offers : ReadOffer(k, d, o)
  \/ \E o \in Offers : ReadAccept(k, o)
  \/ \E d \in Drivers : ReadStart(k, d) \/ ReadTake(k, d)
  \/ ReadCancel(k) \/ ReadRelease(k)
  \/ \E date \in 0..LastDate : ReadUpdate(k, date)
  \/ ReadWarn(k) \/ ReadAlert(k)

Continues(k) ==
  \/ ExpireInCall(k) \/ InsertOffer(k) \/ MarkOffered(k)
  \/ AcceptOffer(k) \/ SelectDriver(k)
  \/ \E o \in Offers : RejectOther(k, o)
  \/ \E t \in Trips : MakeTrip(k, t)
  \/ BookPassenger(k) \/ ConfirmBooking(k) \/ LinkTrip(k)
  \/ LaunchReads(k) \/ LaunchSaves(k) \/ TakeRequest(k) \/ RefuseOffers(k)
  \/ Inspect(k) \/ Unbook(k) \/ SaveCancelled(k) \/ WithdrawOffers(k) \/ Reopen(k)
  \/ SaveRow(k) \/ ClaimAlert(k)

Next ==
  \/ \E k \in Calls : Reads(k) \/ Continues(k) \/ Drop(k)
  \/ \E t \in Trips : DriverStarts(t) \/ Boards(t) \/ Completes(t)
  \/ SweepReads \/ SweepExpires \/ Tick

\* The cron runs every thirty seconds, and time passes.
Fairness == WF_vars(SweepReads) /\ WF_vars(SweepExpires)

Spec == Init /\ [][Next]_vars
FairSpec == Spec /\ Fairness

----------------------------------------------------------------------------
(* Properties.                                                             *)

\* An acceptance, a release or a new schedule that comes in while a request
\* is being expired from a snapshot wins: a request expires only past the
\* deadline it has at that moment, two hours later when it has a driver.
ExpiryLoses ==
  [][request.status # "expired" /\ request'.status = "expired" =>
       request.max + (IF request.driver # None \/ request.trip # None
                      THEN LongGrace ELSE ShortGrace) <= now]_vars

\* The passenger is told that the selected driver is overdue only past the
\* latest hour of the request, though it may have been rescheduled, and
\* another driver selected, after an earlier notice.
ToldWhenOverdue ==
  request.status = "driver_selected" /\ request.told => request.max <= now

\* A request left alive past every deadline is closed by the cron in the end
\* (or moved to a later hour): no order of stale saves keeps it alive.
OverdueCloses ==
  (request.status \in Live /\ now >= request.max + LongGrace)
    ~> (request.status \notin Live \/ now < request.max + LongGrace)
----------------------------------------------------------------------------
(* What makes them inductive.                                              *)

Selecting == {"make", "book", "confirm", "link"}

\* What a call carries from its read: a start has the row of a selected driver,
\* the rows saved as they were read are open, a claim was seen overdue.
WorkTrue(work) ==
  /\ work.pc \in Selecting /\ work.op = "start" =>
       work.row.status = "driver_selected" /\ (work.row.told => work.row.max <= now)
  /\ work.pc \in {"update", "warn"} => work.row.status \in Open
  /\ work.pc = "claim" => work.at <= now

\* A row that is about to expire is past its deadline.
Due(row) ==
  row.max + (IF row.driver # None \/ row.trip # None THEN LongGrace ELSE ShortGrace) <= now

CallsTrue ==
  \A k \in Calls :
    /\ WorkTrue(call[k])
    /\ At(k, "expire") => Due(call[k].row) /\ WorkTrue(call[k].then)

IInv == /\ TypeOK /\ ToldWhenOverdue /\ CallsTrue
        /\ sweep # Idle => Due(sweep.row)
=============================================================================
