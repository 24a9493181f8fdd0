------------------------ MODULE TripRequests_proofs ------------------------
(***************************************************************************)
(* Theorems about TripRequests, for any drivers, offers, trips, requests   *)
(* in flight and grace periods: the types, that an expiry loses against    *)
(* every write it did not see, and that the overdue notice of one driver   *)
(* never stands for the next.                                              *)
(***************************************************************************)
EXTENDS TripRequests, TLAPS

----------------------------------------------------------------------------
(* Types.                                                                  *)

\* What an operation knows at each of its steps.
LEMMA WorkFields ==
  ASSUME NEW c \in Call
  PROVE  /\ c.pc = "insert" =>
              c \in [pc : {"insert"}, driver : Drivers, offer : Offers, first : BOOLEAN]
         /\ c.pc \in {"accept", "reject"} =>
              c \in [pc : {"accept", "reject"}, row : Request, known : SUBSET Offers,
                     driver : Drivers \cup {None}, offer : Offers, todo : SUBSET Offers]
         /\ c.pc = "make" =>
              c \in [pc : {"make"}, op : {"start", "take"}, row : Request,
                     known : SUBSET Offers, driver : Drivers]
         /\ c.pc \in {"book", "confirm", "link"} =>
              c \in [pc : {"book", "confirm", "link"}, op : {"start", "take"},
                     row : Request, known : SUBSET Offers, driver : Drivers,
                     trip : Trips]
         /\ c.pc \in {"launch", "launched"} =>
              c \in [pc : {"launch", "launched"}, trip : Trips]
         /\ c.pc \in {"inspect", "unbook"} =>
              c \in [pc : {"inspect", "unbook"}, trip : Trips, then : Leaving]
         /\ c.pc \in {"update", "warn"} =>
              c \in [pc : {"update", "warn"}, row : Request, known : SUBSET Offers]
         /\ c.pc = "claim" => c \in [pc : {"claim"}, driver : Drivers, at : Times]
         /\ c.pc = "save" => c \in [pc : {"save"}, row : Request]
         /\ c.pc = "expire" => c \in [pc : {"expire"}, row : Request, then : Working]
  BY DEF Call, Idle, Working, Leaving

LEMMA BecomesTyped ==
  ASSUME TypeOK, NEW k \in Calls, NEW work \in Call, Becomes(k, work)
  PROVE  call' \in [Calls -> Call]
  BY DEF TypeOK, Becomes

LEMMA WorkIsCall ==
  /\ Working \subseteq Call /\ Leaving \subseteq Working /\ Idle \in Call
  /\ [pc |-> "mark"] \in Call /\ [pc |-> "refuse"] \in Call /\ [pc |-> "withdraw"] \in Call
  /\ [pc |-> "reopen"] \in Leaving
  BY DEF Call, Working, Leaving

LEMMA InitTyped == Init => TypeOK
  BY RequestAssumption
     DEF Init, TypeOK, Times, Request, Live, Open, NoOffer, Offer, NoTrip, Trip, Call, Sweep

\* What an operation begins with.
LEMMA ReadsEffect ==
  ASSUME TypeOK, NEW k \in Calls, Reads(k)
  PROVE  /\ call[k] = Idle /\ UNCHANGED <<now, request, offer, trip, sweep>>
         /\ \E work \in Call :
              /\ Becomes(k, work)
              /\ ToldWhenOverdue =>
                   /\ WorkTrue(work)
                   /\ work.pc = "expire" => Due(work.row) /\ WorkTrue(work.then)
<1> DEFINE Good(work) ==
      ToldWhenOverdue =>
        /\ WorkTrue(work)
        /\ work.pc = "expire" => Due(work.row) /\ WorkTrue(work.then)
<1> DEFINE Goal ==
      /\ call[k] = Idle /\ UNCHANGED <<now, request, offer, trip, sweep>>
      /\ \E work \in Call : Becomes(k, work) /\ Good(work)
<1>0. /\ request \in Request /\ request.max \in Nat /\ now \in Nat
      /\ ShortGrace \in Nat /\ LongGrace \in Nat /\ ShortGrace < LongGrace
      /\ \A o \in Offers : offer[o] \in Offer
  BY RequestAssumption DEF TypeOK, Request, Times
\* An operation that looks at the deadline first.
<1>1. ASSUME NEW offers, NEW work \in Working, BeginsLive(k, offers, work),
             work.pc # "expire", ToldWhenOverdue => WorkTrue(work)
      PROVE  Goal
  <2>1. CASE ~ShouldExpire(request, offers, now)
    <3>1. call[k] = Idle /\ Becomes(k, work) /\ UNCHANGED <<now, request, offer, trip, sweep>>
      BY <1>1, <2>1 DEF BeginsLive, Begins
    <3> QED  BY <1>1, <3>1, WorkIsCall
  <2>2. CASE ShouldExpire(request, offers, now)
    <3> DEFINE late == [pc |-> "expire", row |-> request, then |-> work]
    <3>1. /\ call[k] = Idle /\ Becomes(k, late)
          /\ UNCHANGED <<now, request, offer, trip, sweep>>
      BY <1>1, <2>2 DEF BeginsLive, Begins
    <3>2. late \in Call
      BY <1>0, <1>1 DEF Call
    <3>3. Due(request)
      BY <1>0, <2>2 DEF ShouldExpire, ExpirationAt, HasAcceptedDriver, Due
    <3>4. WorkTrue(late)
      BY DEF WorkTrue, Selecting
    <3>5. Good(late)
      BY <1>1, <3>3, <3>4
    <3> QED  BY <3>1, <3>2, <3>5
  <2> QED  BY <2>1, <2>2
\* One that does not.
<1>2. ASSUME NEW work \in Call, Begins(k, work), work.pc # "expire",
             ToldWhenOverdue => WorkTrue(work)
      PROVE  Goal
  BY <1>2 DEF Begins
<1> HIDE DEF Goal
<1>3. ASSUME NEW d \in Drivers, NEW o \in Offers, ReadOffer(k, d, o) PROVE Goal
  <2> DEFINE work == [pc |-> "insert", driver |-> d, offer |-> o,
                      first |-> request.status = "pending"]
  <2>1. work \in Working  BY DEF Working
  <2>2. WorkTrue(work)  BY DEF WorkTrue, Selecting
  <2> QED  BY <1>1, <1>3, <2>1, <2>2 DEF ReadOffer
<1>4. ASSUME NEW o \in Offers, ReadAccept(k, o) PROVE Goal
  <2> DEFINE work == [pc |-> "accept", row |-> request, known |-> Existing(offer),
                      driver |-> offer[o].driver, offer |-> o,
                      todo |-> PendingIn(offer) \ {o}]
  <2>1. offer[o].driver \in Drivers \cup {None}  BY <1>0 DEF Offer
  <2>2. work \in Working  BY <1>0, <2>1 DEF Working, Existing, PendingIn
  <2>3. WorkTrue(work)  BY DEF WorkTrue, Selecting
  <2> QED  BY <1>1, <1>4, <2>2, <2>3 DEF ReadAccept
<1>5. ASSUME NEW d \in Drivers, ReadStart(k, d) PROVE Goal
  <2> DEFINE work == [pc |-> "make", op |-> "start", row |-> request,
                      known |-> Offers, driver |-> d]
  <2>1. work \in Working  BY <1>0 DEF Working
  <2>2. ToldWhenOverdue => WorkTrue(work)
    BY <1>5 DEF WorkTrue, ReadStart, ToldWhenOverdue
  <2> QED  BY <1>1, <1>5, <2>1, <2>2 DEF ReadStart
<1>6. ASSUME NEW d \in Drivers, ReadTake(k, d) PROVE Goal
  <2> DEFINE work == [pc |-> "make", op |-> "take", row |-> request,
                      known |-> Existing(offer), driver |-> d]
  <2>1. work \in Working  BY <1>0 DEF Working, Existing
  <2>2. WorkTrue(work)  BY DEF WorkTrue
  <2> QED  BY <1>1, <1>6, <2>1, <2>2 DEF ReadTake
<1>7. ASSUME NEW date \in 0..LastDate, ReadUpdate(k, date) PROVE Goal
  <2> DEFINE work == [pc |-> "update", row |-> [request EXCEPT !.max = date],
                      known |-> Existing(offer)]
  <2>1. [request EXCEPT !.max = date] \in Request
        /\ [request EXCEPT !.max = date].status = request.status
    BY <1>0 DEF Request
  <2>2. work \in Working  BY <2>1 DEF Working, Existing
  <2>3. WorkTrue(work)  BY <1>7, <2>1 DEF WorkTrue, Selecting, ReadUpdate
  <2> QED  BY <1>1, <1>7, <2>2, <2>3 DEF ReadUpdate
<1>8. ASSUME ReadWarn(k) PROVE Goal
  <2> DEFINE work == [pc |-> "warn", row |-> request, known |-> Existing(offer)]
  <2>1. work \in Working  BY <1>0 DEF Working, Existing
  <2>2. WorkTrue(work)  BY <1>8 DEF WorkTrue, Selecting, ReadWarn
  <2> QED  BY <1>2, <1>8, <2>1, <2>2, WorkIsCall DEF ReadWarn
<1>9. ASSUME ReadAlert(k) PROVE Goal
  <2> DEFINE work == [pc |-> "claim", driver |-> request.driver, at |-> now]
  <2>1. work \in Working
    BY <1>9 DEF Working, ReadAlert, TypeOK, Request
  <2>2. WorkTrue(work)  BY <1>0 DEF WorkTrue, Selecting
  <2> QED  BY <1>2, <1>9, <2>1, <2>2, WorkIsCall DEF ReadAlert
<1>10. ASSUME NEW t \in Trips \cup {None}, NEW work \in Leaving, Leave(k, t, work)
       PROVE  Goal
  <2> DEFINE look == [pc |-> "inspect", trip |-> t, then |-> work]
  <2>1. work \in Call /\ WorkTrue(work) /\ work.pc # "expire"
    BY WorkIsCall DEF WorkTrue, Selecting, Leaving
  <2>2. t # None => look \in Call
    BY DEF Call, Working
  <2>3. WorkTrue(look)  BY DEF WorkTrue, Selecting
  <2> QED  BY <1>2, <1>10, <2>1, <2>2, <2>3 DEF Leave
<1>11. ASSUME ReadCancel(k) \/ ReadRelease(k) PROVE Goal
  <2>1. /\ request.trip \in Trips \cup {None}
        /\ [pc |-> "save", row |-> request] \in Leaving
        /\ [pc |-> "reopen"] \in Leaving
    BY <1>0 DEF Request, Leaving
  <2> QED  BY <1>10, <1>11, <2>1 DEF ReadCancel, ReadRelease
<1> QED
  BY <1>3, <1>4, <1>5, <1>6, <1>7, <1>8, <1>9, <1>11 DEF Reads, Goal

\* The row as an operation may write it keeps its type.
LEMMA RowsTyped ==
  ASSUME NEW row \in Request
  PROVE  /\ \A status \in Live \cup {"cancelled", "expired"} :
              [row EXCEPT !.status = status] \in Request
         /\ \A t \in Trips : [row EXCEPT !.trip = t] \in Request
         /\ [row EXCEPT !.told = TRUE] \in Request
         /\ \A d \in Drivers \cup {None} : Selected(row, d) \in Request
         /\ \A d \in Drivers \cup {None}, t \in Trips :
              [Selected(row, d) EXCEPT !.trip = t] \in Request
         /\ Reopened(row) \in Request
<1>1. \A status \in Live \cup {"cancelled", "expired"} :
        [row EXCEPT !.status = status] \in Request
  BY DEF Request
<1>2. \A t \in Trips : [row EXCEPT !.trip = t] \in Request
  BY DEF Request
<1>3. [row EXCEPT !.told = TRUE] \in Request
  BY DEF Request
<1>4. \A d \in Drivers \cup {None} : Selected(row, d) \in Request
  BY DEF Request, Selected, Live
<1>5. \A d \in Drivers \cup {None}, t \in Trips :
        [Selected(row, d) EXCEPT !.trip = t] \in Request
  BY <1>4 DEF Request
<1>6. Reopened(row) \in Request
  BY DEF Request, Reopened, Live, Open
<1> QED  BY <1>1, <1>2, <1>3, <1>4, <1>5, <1>6

LEMMA OffersTyped ==
  ASSUME TypeOK
  PROVE  \A o \in Offers, status \in {"accepted", "rejected", "cancelled"} :
           [offer EXCEPT ![o].status = status] \in [Offers -> Offer]
  BY DEF TypeOK, Offer

LEMMA OffersBecomeTyped ==
  ASSUME TypeOK, NEW which, NEW to \in {"rejected", "cancelled"}, OffersBecome(which, to)
  PROVE  offer' \in [Offers -> Offer]
  BY DEF TypeOK, Offer, OffersBecome

\* A step of an operation: what it writes, and with what it goes on.  The row
\* expires only when it is due, and `told' is kept for a selected driver only.
StepIsSafe(k) ==
  /\ now' = now /\ sweep' = sweep
  /\ request' \in Request /\ offer' \in [Offers -> Offer] /\ trip' \in [Trips -> Trip]
  /\ \E work \in Call : Becomes(k, work) /\ WorkTrue(work) /\ work.pc # "expire"
  /\ request'.status = "driver_selected" /\ request'.told => request'.max <= now
  /\ request'.status = "expired" => request.status = "expired" \/ Due(request)

LEMMA ExpirySafe ==
  ASSUME TypeOK, ToldWhenOverdue, CallsTrue, NEW k \in Calls, ExpireInCall(k)
  PROVE  StepIsSafe(k)
<1>0. call[k] \in [pc : {"expire"}, row : Request, then : Working] /\ call[k].pc = "expire"
  BY WorkFields DEF TypeOK, ExpireInCall, At
<1>1. Due(call[k].row) /\ WorkTrue(call[k].then) /\ call[k].then.pc # "expire"
  BY <1>0 DEF CallsTrue, At, Working, Leaving
<1>2. UNCHANGED <<now, offer, trip, sweep>>
  BY DEF ExpireInCall
<1>3. CASE Unchanged(call[k].row)
  <2>1. request = call[k].row /\ request' = Expired(request) /\ Becomes(k, Idle)
    BY <1>3 DEF ExpireInCall, Unchanged, Ends
  <2>2. request' \in Request /\ request'.status = "expired"
    BY <2>1, RowsTyped DEF TypeOK, Expired, Request
  <2>3. WorkTrue(Idle) /\ Idle.pc # "expire"
    BY DEF WorkTrue, Idle, Selecting
  <2> QED  BY <1>1, <1>2, <2>1, <2>2, <2>3, WorkIsCall DEF StepIsSafe, TypeOK
<1>4. CASE ~Unchanged(call[k].row)
  <2>1. request' = request /\ Becomes(k, call[k].then)
    BY <1>4 DEF ExpireInCall
  <2> QED  BY <1>0, <1>1, <1>2, <2>1, WorkIsCall DEF StepIsSafe, TypeOK, ToldWhenOverdue
<1> QED  BY <1>3, <1>4

\* Steps that leave the request alone.
LEMMA QuietSafe ==
  ASSUME TypeOK, ToldWhenOverdue, NEW k \in Calls, NEW work \in Call,
         Becomes(k, work), WorkTrue(work), work.pc # "expire",
         UNCHANGED <<now, request, sweep>>,
         offer' \in [Offers -> Offer], trip' \in [Trips -> Trip]
  PROVE  StepIsSafe(k)
  BY DEF StepIsSafe, TypeOK, ToldWhenOverdue

\* Steps that write a request which does not expire.
LEMMA WriteSafe ==
  ASSUME TypeOK, ToldWhenOverdue, NEW k \in Calls, NEW work \in Call,
         Becomes(k, work), WorkTrue(work), work.pc # "expire",
         UNCHANGED <<now, sweep>>,
         offer' \in [Offers -> Offer], trip' \in [Trips -> Trip],
         request' \in Request, request'.status # "expired",
         request'.status = "driver_selected" /\ request'.told => request'.max <= now
  PROVE  StepIsSafe(k)
  BY DEF StepIsSafe

LEMMA SimpleWork ==
  /\ \A pc \in {"mark", "refuse", "withdraw", "reopen"} :
       [pc |-> pc] \in Call /\ WorkTrue([pc |-> pc]) /\ [pc |-> pc].pc # "expire"
  /\ Idle \in Call /\ WorkTrue(Idle) /\ Idle.pc # "expire"
<1>1. \A pc \in {"mark", "refuse", "withdraw", "reopen"} :
        [pc |-> pc] \in Call /\ WorkTrue([pc |-> pc]) /\ [pc |-> pc].pc # "expire"
  BY DEF Call, Working, Leaving, WorkTrue, Selecting
<1> QED  BY <1>1 DEF Call, Idle, WorkTrue, Selecting

LEMMA OfferSafe ==
  ASSUME TypeOK, ToldWhenOverdue, CallsTrue, NEW k \in Calls,
         \/ InsertOffer(k) \/ MarkOffered(k) \/ AcceptOffer(k) \/ SelectDriver(k)
         \/ \E o \in Offers : RejectOther(k, o)
  PROVE  StepIsSafe(k)
<1>0. /\ call[k] \in Call /\ request \in Request
      /\ offer \in [Offers -> Offer] /\ trip \in [Trips -> Trip]
  BY DEF TypeOK
<1>1. CASE InsertOffer(k)
  <2>1. call[k] \in [pc : {"insert"}, driver : Drivers, offer : Offers, first : BOOLEAN]
    BY <1>0, <1>1, WorkFields DEF InsertOffer, At
  <2>2. [driver |-> call[k].driver, status |-> "pending"] \in Offer
    BY <2>1 DEF Offer
  <2>3. offer' \in [Offers -> Offer]
    BY <1>0, <1>1, <2>2 DEF InsertOffer
  <2> QED  BY <1>0, <1>1, <2>3, QuietSafe, SimpleWork DEF InsertOffer
<1>2. CASE MarkOffered(k)
  <2>1. request' \in Request /\ request'.status = "offers_received"
    BY <1>0, <1>2, RowsTyped DEF MarkOffered, Live, Open, Request
  <2> QED  BY <1>0, <1>2, <2>1, WriteSafe, SimpleWork DEF MarkOffered, Ends
<1>3. CASE AcceptOffer(k)
  <2> DEFINE work == [call[k] EXCEPT !.pc = "reject"]
  <2>1. /\ call[k] \in [pc : {"accept", "reject"}, row : Request, known : SUBSET Offers,
                        driver : Drivers \cup {None}, offer : Offers, todo : SUBSET Offers]
    BY <1>0, <1>3, WorkFields DEF AcceptOffer, At
  <2>2. work \in Call /\ WorkTrue(work) /\ work.pc = "reject"
    BY <2>1 DEF Call, Working, WorkTrue, Selecting
  <2>3. Becomes(k, work)
    BY <1>3 DEF AcceptOffer, Goes, Becomes, TypeOK
  <2>4. offer' \in [Offers -> Offer]
    BY <1>3, <2>1, OffersTyped DEF AcceptOffer
  <2> HIDE DEF work
  <2> QED  BY <1>0, <1>3, <2>2, <2>3, <2>4, QuietSafe DEF AcceptOffer
<1>4. CASE \E o \in Offers : RejectOther(k, o)
  <2>0. PICK o \in Offers : RejectOther(k, o)  BY <1>4
  <2> DEFINE work == [call[k] EXCEPT !.todo = call[k].todo \ {o}]
  <2>1. /\ call[k] \in [pc : {"accept", "reject"}, row : Request, known : SUBSET Offers,
                        driver : Drivers \cup {None}, offer : Offers, todo : SUBSET Offers]
        /\ call[k].pc = "reject"
    BY <1>0, <2>0, WorkFields DEF RejectOther, At
  <2>2. work \in Call /\ WorkTrue(work) /\ work.pc = "reject"
    BY <2>1 DEF Call, Working, WorkTrue, Selecting
  <2>3. Becomes(k, work)
    BY <2>0 DEF RejectOther, Becomes, TypeOK
  <2>4. offer' \in [Offers -> Offer]
    BY <2>0, OffersTyped DEF RejectOther
  <2> HIDE DEF work
  <2> QED  BY <1>0, <2>0, <2>2, <2>3, <2>4, QuietSafe DEF RejectOther
<1>5. CASE SelectDriver(k)
  <2>1. call[k] \in [pc : {"accept", "reject"}, row : Request, known : SUBSET Offers,
                     driver : Drivers \cup {None}, offer : Offers, todo : SUBSET Offers]
    BY <1>0, <1>5, WorkFields DEF SelectDriver, At
  <2>2. request' = Selected(call[k].row, call[k].driver) /\ Becomes(k, Idle)
        /\ UNCHANGED <<now, offer, trip, sweep>>
    BY <1>5 DEF SelectDriver, Saves, Ends
  <2>3. request' \in Request /\ request'.status = "driver_selected" /\ request'.told = FALSE
    BY <2>1, <2>2, RowsTyped DEF Selected, Request
  <2> QED  BY <1>0, <2>2, <2>3, WriteSafe, SimpleWork
<1> QED  BY <1>1, <1>2, <1>3, <1>4, <1>5

LEMMA TripSafe ==
  ASSUME TypeOK, ToldWhenOverdue, CallsTrue, NEW k \in Calls,
         \/ \E t \in Trips : MakeTrip(k, t)
         \/ BookPassenger(k) \/ ConfirmBooking(k) \/ LinkTrip(k)
         \/ LaunchReads(k) \/ LaunchSaves(k) \/ TakeRequest(k) \/ RefuseOffers(k)
  PROVE  StepIsSafe(k)
<1> DEFINE Carrying == [pc : {"book", "confirm", "link"}, op : {"start", "take"},
                        row : Request, known : SUBSET Offers, driver : Drivers, trip : Trips]
<1>0. /\ call[k] \in Call /\ request \in Request /\ WorkTrue(call[k])
      /\ offer \in [Offers -> Offer] /\ trip \in [Trips -> Trip]
  BY DEF TypeOK, CallsTrue
<1>1. ASSUME NEW work \in Carrying, WorkTrue(call[k]), call[k].pc \in Selecting,
             work.op = call[k].op, work.row = call[k].row
      PROVE  work \in Call /\ WorkTrue(work) /\ work.pc # "expire"
  <2>1. work \in Call  BY DEF Call, Working
  <2> QED  BY <1>1, <2>1 DEF WorkTrue, Selecting
<1>2. CASE \E t \in Trips : MakeTrip(k, t)
  <2>0. PICK t \in Trips : MakeTrip(k, t)  BY <1>2
  <2> DEFINE c == call[k]
             work == [pc |-> "book", op |-> c.op, row |-> c.row, known |-> c.known,
                      driver |-> c.driver, trip |-> t]
             new == [NoTrip EXCEPT !.driver = c.driver, !.status = "pending",
                                   !.linked = TRUE]
  <2>1. c \in [pc : {"make"}, op : {"start", "take"}, row : Request,
               known : SUBSET Offers, driver : Drivers]
    BY <1>0, <2>0, WorkFields DEF MakeTrip, At
  <2>2. work \in Carrying /\ c.pc \in Selecting
    BY <2>1 DEF Selecting
  <2>3. new \in Trip
    BY <2>1 DEF NoTrip, Trip
  <2>4. /\ Becomes(k, work) /\ trip' = [trip EXCEPT ![t] = new]
        /\ UNCHANGED <<now, request, offer, sweep>>
    BY <2>0 DEF MakeTrip
  <2>5. work \in Call /\ WorkTrue(work) /\ work.pc # "expire"
    BY <1>0, <1>1, <2>2
  <2> HIDE DEF work, new
  <2>6. trip' \in [Trips -> Trip]
    BY <1>0, <2>3, <2>4
  <2> QED  BY <1>0, <2>4, <2>5, <2>6, QuietSafe
<1>3. CASE BookPassenger(k) \/ ConfirmBooking(k)
  <2>1. PICK pc \in {"confirm", "link"}, status \in {"pending", "accepted"} :
          /\ call[k].pc \in {"book", "confirm"} /\ Goes(k, pc)
          /\ trip' = [trip EXCEPT ![call[k].trip].booking = status]
          /\ UNCHANGED <<now, request, offer, sweep>>
    BY <1>3 DEF BookPassenger, ConfirmBooking, At
  <2> DEFINE work == [call[k] EXCEPT !.pc = pc]
  <2>2. call[k] \in Carrying
    BY <1>0, <2>1, WorkFields
  <2>3. /\ work \in Carrying /\ work.op = call[k].op /\ work.row = call[k].row
        /\ call[k].pc \in Selecting
    BY <2>1, <2>2 DEF Selecting
  <2>4. Becomes(k, work)
    BY <2>1 DEF Goes, Becomes, TypeOK
  <2>5. trip' \in [Trips -> Trip]
    BY <1>0, <2>1, <2>2 DEF Trip
  <2>6. work \in Call /\ WorkTrue(work) /\ work.pc # "expire"
    BY <1>0, <1>1, <2>3
  <2> HIDE DEF work
  <2> QED  BY <1>0, <2>1, <2>4, <2>5, <2>6, QuietSafe
<1>4. CASE LinkTrip(k)
  <2> DEFINE work == [pc |-> "launch", trip |-> call[k].trip]
             row == [call[k].row EXCEPT !.trip = call[k].trip]
  <2>1. call[k] \in Carrying /\ call[k].pc = "link" /\ call[k].op = "start"
    BY <1>0, <1>4, WorkFields DEF LinkTrip, At
  <2>2. work \in Call /\ WorkTrue(work) /\ work.pc # "expire"
    BY <2>1 DEF Call, Working, WorkTrue, Selecting
  <2>3. request' = row /\ Becomes(k, work) /\ UNCHANGED <<now, offer, trip, sweep>>
    BY <1>4 DEF LinkTrip, Saves
  <2>4. call[k].row.status = "driver_selected"
        /\ (call[k].row.told => call[k].row.max <= now)
    BY <1>0, <2>1 DEF WorkTrue, Selecting
  <2>5. row \in Request /\ row.status = "driver_selected" /\ (row.told => row.max <= now)
    BY <2>1, <2>4, RowsTyped DEF Request
  <2> HIDE DEF work, row
  <2> QED  BY <1>0, <2>2, <2>3, <2>5, WriteSafe
<1>5. CASE LaunchReads(k)
  <2> DEFINE work == [call[k] EXCEPT !.pc = "launched"]
  <2>1. call[k] \in [pc : {"launch", "launched"}, trip : Trips]
    BY <1>0, <1>5, WorkFields DEF LaunchReads, At
  <2>2. work \in Call /\ WorkTrue(work) /\ work.pc # "expire"
    BY <2>1 DEF Call, Working, WorkTrue, Selecting
  <2>3. Becomes(k, work) /\ UNCHANGED <<now, request, offer, trip, sweep>>
    BY <1>5 DEF LaunchReads, Goes, Becomes, TypeOK
  <2> HIDE DEF work
  <2> QED  BY <1>0, <2>2, <2>3, QuietSafe
<1>6. CASE LaunchSaves(k)
  <2>1. call[k].trip \in Trips
    BY <1>0, <1>6, WorkFields DEF LaunchSaves, At
  <2>2. trip' \in [Trips -> Trip]
    BY <1>0, <1>6, <2>1 DEF LaunchSaves, Trip
  <2> QED  BY <1>0, <1>6, <2>2, QuietSafe, SimpleWork DEF LaunchSaves, Ends
<1>7. CASE TakeRequest(k)
  <2> DEFINE row == [Selected(call[k].row, call[k].driver) EXCEPT !.trip = call[k].trip]
  <2>1. call[k] \in Carrying
    BY <1>0, <1>7, WorkFields DEF TakeRequest, At
  <2>2. request' = row /\ Becomes(k, [pc |-> "refuse"]) /\ UNCHANGED <<now, offer, trip, sweep>>
    BY <1>7 DEF TakeRequest, Saves
  <2>3. row \in Request
    BY <2>1, RowsTyped
  <2>4. row.status = "driver_selected" /\ row.told = FALSE
    BY <2>1 DEF Selected, Request
  <2> HIDE DEF row
  <2> QED  BY <1>0, <2>2, <2>3, <2>4, WriteSafe, SimpleWork
<1>8. CASE RefuseOffers(k)
  <2>1. offer' \in [Offers -> Offer]
    BY <1>8, OffersBecomeTyped DEF RefuseOffers
  <2> QED  BY <1>0, <1>8, <2>1, QuietSafe, SimpleWork DEF RefuseOffers, Ends
<1> QED  BY <1>2, <1>3, <1>4, <1>5, <1>6, <1>7, <1>8

LEMMA LeaveSafe ==
  ASSUME TypeOK, ToldWhenOverdue, CallsTrue, NEW k \in Calls,
         \/ Inspect(k) \/ Unbook(k) \/ SaveCancelled(k) \/ WithdrawOffers(k) \/ Reopen(k)
         \/ SaveRow(k) \/ ClaimAlert(k)
  PROVE  StepIsSafe(k)
<1>0. /\ call[k] \in Call /\ request \in Request /\ WorkTrue(call[k])
      /\ offer \in [Offers -> Offer] /\ trip \in [Trips -> Trip]
  BY DEF TypeOK, CallsTrue
<1>1. \A work \in Leaving : work \in Call /\ WorkTrue(work) /\ work.pc # "expire"
  BY DEF Call, Working, Leaving, WorkTrue, Selecting
<1>2. CASE Inspect(k)
  <2> DEFINE work == [call[k] EXCEPT !.pc = "unbook"]
  <2>1. call[k] \in [pc : {"inspect", "unbook"}, trip : Trips, then : Leaving]
    BY <1>0, <1>2, WorkFields DEF Inspect, At
  <2>2. work \in Call /\ WorkTrue(work) /\ work.pc # "expire"
    BY <2>1 DEF Call, Working, WorkTrue, Selecting
  <2>3. /\ Becomes(k, work) \/ Becomes(k, call[k].then)
        /\ UNCHANGED <<now, request, offer, trip, sweep>>
    BY <1>2 DEF Inspect, Goes, Becomes, TypeOK
  <2> HIDE DEF work
  <2> QED  BY <1>0, <1>1, <2>1, <2>2, <2>3, QuietSafe
<1>3. CASE Unbook(k)
  <2>1. call[k] \in [pc : {"inspect", "unbook"}, trip : Trips, then : Leaving]
    BY <1>0, <1>3, WorkFields DEF Unbook, At
  <2>2. trip' \in [Trips -> Trip]
    BY <1>0, <1>3, <2>1 DEF Unbook, Trip
  <2> QED  BY <1>0, <1>1, <1>3, <2>1, <2>2, QuietSafe DEF Unbook
<1>4. CASE SaveCancelled(k)
  <2>1. call[k].row \in Request
    BY <1>0, <1>4, WorkFields DEF SaveCancelled, At
  <2>2. request' \in Request /\ request'.status = "cancelled"
    BY <1>4, <2>1, RowsTyped DEF SaveCancelled, Request
  <2> QED  BY <1>0, <1>4, <2>2, WriteSafe, SimpleWork DEF SaveCancelled
<1>5. CASE WithdrawOffers(k)
  <2>1. offer' \in [Offers -> Offer]
    BY <1>5, OffersBecomeTyped DEF WithdrawOffers
  <2> QED  BY <1>0, <1>5, <2>1, QuietSafe, SimpleWork DEF WithdrawOffers, Ends
<1>6. CASE Reopen(k)
  <2>1. request' \in Request /\ request'.status = "pending"
    BY <1>0, <1>6, RowsTyped DEF Reopen, Reopened, Request
  <2>2. offer' \in [Offers -> Offer]
    BY <1>0, <1>6 DEF Reopen, Offer
  <2>3. trip' \in [Trips -> Trip]
    <3>1. request.trip # None => request.trip \in Trips  BY <1>0 DEF Request
    <3>2. CASE request.trip # None /\ trip[request.trip].linked
      <4> DEFINE status == IF trip[request.trip].status = "completed"
                           THEN "completed" ELSE "cancelled"
      <4>1. trip' = [trip EXCEPT ![request.trip].linked = FALSE,
                                 ![request.trip].status = status]
        BY <1>6, <3>2 DEF Reopen
      <4>2. status \in {"completed", "cancelled"}  OBVIOUS
      <4>3. trip[request.trip] \in Trip  BY <1>0, <3>1, <3>2
      <4> HIDE DEF status
      <4>4. ASSUME NEW row \in Trip
            PROVE [row EXCEPT !.linked = FALSE, !.status = status] \in Trip
        BY <4>2 DEF Trip
      <4>5. trip' = [trip EXCEPT ![request.trip] =
              [trip[request.trip] EXCEPT !.linked = FALSE, !.status = status]]
        BY <1>0, <3>1, <3>2, <4>1
      <4> QED  BY <1>0, <4>3, <4>4, <4>5
    <3>3. CASE ~(request.trip # None /\ trip[request.trip].linked)
      BY <1>0, <1>6, <3>3 DEF Reopen
    <3> QED  BY <3>2, <3>3
  <2> QED  BY <1>0, <1>6, <2>1, <2>2, <2>3, WriteSafe, SimpleWork DEF Reopen, Ends
<1>7. CASE SaveRow(k)
  <2>1. call[k].row \in Request /\ call[k].row.status \in Open
    BY <1>0, <1>7, WorkFields DEF SaveRow, WorkTrue
  <2>2. request' = call[k].row /\ Becomes(k, Idle) /\ UNCHANGED <<now, offer, trip, sweep>>
    BY <1>7 DEF SaveRow, Saves, Ends
  <2> QED  BY <1>0, <2>1, <2>2, WriteSafe, SimpleWork DEF Open
<1>8. CASE ClaimAlert(k)
  <2>1. call[k].at \in Nat /\ call[k].at <= now /\ now \in Nat /\ request.max \in Nat
    BY <1>0, <1>8, WorkFields, RequestAssumption DEF ClaimAlert, At, WorkTrue, Times, TypeOK, Request
  <2>2. request.status = "driver_selected" /\ request.max <= call[k].at
        /\ request' = [request EXCEPT !.told = TRUE] /\ Becomes(k, Idle)
        /\ UNCHANGED <<now, offer, trip, sweep>>
    BY <1>8 DEF ClaimAlert, Overdue, Ends
  <2>3. request' \in Request /\ request'.status = "driver_selected" /\ request'.max = request.max
    BY <1>0, <2>2, RowsTyped DEF Request
  <2>4. request'.max <= now
    BY <2>1, <2>2, <2>3
  <2> QED  BY <1>0, <2>2, <2>3, <2>4, WriteSafe, SimpleWork
<1> QED  BY <1>2, <1>3, <1>4, <1>5, <1>6, <1>7, <1>8

LEMMA ContinuesSafe ==
  ASSUME TypeOK, ToldWhenOverdue, CallsTrue, NEW k \in Calls, Continues(k)
  PROVE  StepIsSafe(k)
  BY ExpirySafe, OfferSafe, TripSafe, LeaveSafe DEF Continues

----------------------------------------------------------------------------
(* The invariant.                                                          *)

\* What is true of a call stays true while time passes.
LEMMA TimeKeeps ==
  ASSUME TypeOK, now' \in Nat, now <= now', NEW work \in Call
  PROVE  /\ WorkTrue(work) => WorkTrue(work)'
         /\ \A row \in Request : Due(row) => Due(row)'
<1>0. now \in Nat /\ ShortGrace \in Nat /\ LongGrace \in Nat
  BY RequestAssumption DEF TypeOK, Times
<1>1. ASSUME NEW row \in Request, Due(row) PROVE Due(row)'
  <2>1. row.max \in Nat  BY RequestAssumption DEF Request
  <2> QED  BY <1>0, <1>1, <2>1 DEF Due
<1>2. ASSUME WorkTrue(work) PROVE WorkTrue(work)'
  <2>1. work.pc \in Selecting => work.row.max \in Nat
    BY WorkFields, RequestAssumption DEF Selecting, Request
  <2>2. work.pc = "claim" => work.at \in Nat
    BY WorkFields, RequestAssumption DEF Times
  <2> QED  BY <1>0, <1>2, <2>1, <2>2 DEF WorkTrue
<1> QED  BY <1>1, <1>2

LEMMA ThenIsCall ==
  ASSUME NEW c \in Call, c.pc = "expire"
  PROVE  c.row \in Request /\ c.then \in Call
  BY WorkFields, WorkIsCall

LEMMA CallStep ==
  ASSUME IInv, NEW k \in Calls, Reads(k) \/ Continues(k) \/ Drop(k)
  PROVE  IInv'
<1>0. TypeOK /\ ToldWhenOverdue /\ CallsTrue /\ (sweep # Idle => Due(sweep.row))
  BY DEF IInv
<1>1. ASSUME NEW work \in Call, Becomes(k, work), WorkTrue(work),
             work.pc = "expire" => Due(work.row) /\ WorkTrue(work.then),
             now' = now
      PROVE  call' \in [Calls -> Call] /\ CallsTrue'
  <2>1. call' \in [Calls -> Call]
    BY <1>0, <1>1, BecomesTyped
  <2>2. \A j \in Calls : call'[j] = IF j = k THEN work ELSE call[j]
    BY <1>0, <1>1 DEF Becomes, TypeOK
  <2>3. ASSUME NEW j \in Calls
        PROVE /\ WorkTrue(call'[j])
              /\ call'[j].pc = "expire" => Due(call'[j].row) /\ WorkTrue(call'[j].then)
    BY <1>0, <1>1, <2>2 DEF CallsTrue, At
  <2>4. CallsTrue'
    BY <1>1, <2>3 DEF CallsTrue, At, WorkTrue, Due
  <2> QED  BY <2>1, <2>4
<1>2. CASE Reads(k)
  <2>1. PICK work \in Call :
          /\ Becomes(k, work) /\ WorkTrue(work)
          /\ work.pc = "expire" => Due(work.row) /\ WorkTrue(work.then)
    BY <1>0, <1>2, ReadsEffect
  <2>2. UNCHANGED <<now, request, offer, trip, sweep>>
    BY <1>0, <1>2, ReadsEffect
  <2>3. call' \in [Calls -> Call] /\ CallsTrue'
    BY <1>1, <2>1, <2>2
  <2> QED  BY <1>0, <2>2, <2>3 DEF IInv, TypeOK, ToldWhenOverdue, Due
<1>3. CASE Continues(k)
  <2>1. StepIsSafe(k)
    BY <1>0, <1>3, ContinuesSafe
  <2>2. PICK work \in Call : Becomes(k, work) /\ WorkTrue(work) /\ work.pc # "expire"
    BY <2>1 DEF StepIsSafe
  <2>3. call' \in [Calls -> Call] /\ CallsTrue'
    BY <1>1, <2>1, <2>2 DEF StepIsSafe
  <2> QED  BY <1>0, <2>1, <2>3 DEF IInv, TypeOK, ToldWhenOverdue, Due, StepIsSafe
<1>4. CASE Drop(k)
  <2>1. Becomes(k, Idle) /\ UNCHANGED <<now, request, offer, trip, sweep>>
    BY <1>4 DEF Drop, Ends
  <2>2. call' \in [Calls -> Call] /\ CallsTrue'
    BY <1>1, <2>1, SimpleWork
  <2> QED  BY <1>0, <2>1, <2>2 DEF IInv, TypeOK, ToldWhenOverdue, Due
<1> QED  BY <1>2, <1>3, <1>4

LEMMA OtherStep ==
  ASSUME IInv,
         \/ \E t \in Trips : DriverStarts(t) \/ Boards(t) \/ Completes(t)
         \/ SweepReads \/ SweepExpires \/ Tick
  PROVE  IInv'
<1>0. TypeOK /\ ToldWhenOverdue /\ CallsTrue /\ (sweep # Idle => Due(sweep.row))
  BY DEF IInv
<1>1. CASE \E t \in Trips : DriverStarts(t) \/ Boards(t) \/ Completes(t)
  <2>1. UNCHANGED <<now, request, offer, call, sweep>>
    BY <1>1 DEF DriverStarts, Boards, Completes
  <2>2. trip' \in [Trips -> Trip]
    <3>1. PICK t \in Trips : DriverStarts(t) \/ Boards(t) \/ Completes(t)  BY <1>1
    <3>2. trip \in [Trips -> Trip]  BY <1>0 DEF TypeOK
    <3>3. CASE DriverStarts(t)  BY <3>2, <3>3 DEF DriverStarts, Trip
    <3>4. CASE Boards(t)  BY <3>2, <3>4 DEF Boards, Trip
    <3>5. CASE Completes(t)  BY <3>2, <3>5 DEF Completes, Trip
    <3> QED  BY <3>1, <3>3, <3>4, <3>5
  <2> QED
    BY <1>0, <2>1, <2>2 DEF IInv, TypeOK, ToldWhenOverdue, CallsTrue, WorkTrue, Due, At
<1>2. CASE SweepReads
  <2>1. UNCHANGED <<now, request, offer, trip, call>>
        /\ sweep' = [pc |-> "expire", row |-> request]
    BY <1>2 DEF SweepReads
  <2>2. Due(request)
    BY <1>0, <1>2, RequestAssumption
       DEF SweepReads, ShouldExpire, ExpirationAt, HasAcceptedDriver, Due, TypeOK, Request, Times
  <2>3. sweep' \in Sweep
    BY <1>0, <2>1 DEF TypeOK, Sweep
  <2> QED
    BY <1>0, <2>1, <2>2, <2>3 DEF IInv, TypeOK, ToldWhenOverdue, CallsTrue, WorkTrue, Due, At
<1>3. CASE SweepExpires
  <2>1. UNCHANGED <<now, offer, trip, call>> /\ sweep' = Idle
        /\ (request' = Expired(request) \/ request' = request)
    BY <1>3 DEF SweepExpires
  <2>2. /\ request' \in Request
        /\ request'.status = "driver_selected" => request' = request
    BY <1>0, <2>1, RowsTyped DEF TypeOK, Expired, Request
  <2>3. sweep' \in Sweep
    BY <2>1 DEF Sweep
  <2> QED
    BY <1>0, <2>1, <2>2, <2>3 DEF IInv, TypeOK, ToldWhenOverdue, CallsTrue, WorkTrue, Due, At
<1>4. CASE Tick
  <2>1. UNCHANGED <<request, offer, trip, call, sweep>> /\ now' \in Times
        /\ now' = now + 1
    BY <1>4 DEF Tick
  <2>2. now \in Nat /\ now' \in Nat /\ now <= now'
    BY <1>0, <2>1, RequestAssumption DEF TypeOK, Times
  <2>3. TypeOK'
    BY <1>0, <2>1 DEF TypeOK
  <2>4. ToldWhenOverdue'
    <3>1. request.max \in Nat  BY <1>0, RequestAssumption DEF TypeOK, Request
    <3> QED  BY <1>0, <2>1, <2>2, <3>1 DEF ToldWhenOverdue
  <2>5. ASSUME NEW j \in Calls
        PROVE /\ WorkTrue(call[j])'
              /\ call[j].pc = "expire" => Due(call[j].row)' /\ WorkTrue(call[j].then)'
    <3>1. call[j] \in Call  BY <1>0 DEF TypeOK
    <3>2. WorkTrue(call[j]) /\ call'[j] = call[j]
      BY <1>0, <2>1 DEF CallsTrue
    <3>3. WorkTrue(call[j])'
      BY <1>0, <2>2, <3>1, <3>2, TimeKeeps DEF WorkTrue
    <3>4. ASSUME call[j].pc = "expire"
          PROVE Due(call[j].row)' /\ WorkTrue(call[j].then)'
      <4>1. call[j].row \in Request /\ call[j].then \in Call
        BY <3>1, <3>4, ThenIsCall
      <4>2. Due(call[j].row) /\ WorkTrue(call[j].then)
        BY <1>0, <3>4 DEF CallsTrue, At
      <4> QED  BY <1>0, <2>2, <3>2, <4>1, <4>2, TimeKeeps DEF WorkTrue, Due
    <3> QED  BY <3>3, <3>4
  <2>6. CallsTrue'
    BY <2>1, <2>5 DEF CallsTrue, At
  <2>7. (sweep # Idle => Due(sweep.row))'
    <3>1. sweep # Idle => sweep.row \in Request
      BY <1>0 DEF TypeOK, Sweep
    <3> QED  BY <1>0, <2>1, <2>2, <3>1, TimeKeeps, WorkIsCall DEF Due
  <2> QED  BY <2>3, <2>4, <2>6, <2>7 DEF IInv
<1> QED  BY <1>1, <1>2, <1>3, <1>4

LEMMA InitInvariant == Init => IInv
<1> SUFFICES ASSUME Init PROVE IInv  OBVIOUS
<1>1. TypeOK  BY InitTyped
<1>2. CallsTrue
  BY DEF Init, CallsTrue, WorkTrue, Idle, Selecting, At
<1> QED  BY <1>1, <1>2 DEF Init, IInv, ToldWhenOverdue

LEMMA StepInvariant == IInv /\ [Next]_vars => IInv'
<1>1. IInv /\ Next => IInv'
  BY CallStep, OtherStep DEF Next
<1>2. IInv /\ UNCHANGED vars => IInv'
  BY DEF IInv, vars, TypeOK, ToldWhenOverdue, CallsTrue, WorkTrue, Due, At
<1> QED  BY <1>1, <1>2

----------------------------------------------------------------------------
(* The theorems.                                                           *)

\* The inductive invariant: the types, the overdue notice, and what the calls
\* and the cron carry from the row they read.
THEOREM Invariance == Spec => []IInv
  BY InitInvariant, StepInvariant, PTL DEF Spec

\* The rows, the trips and what is in flight keep their types.
THEOREM TypeCorrect == Spec => []TypeOK
<1>1. IInv => TypeOK  BY DEF IInv
<1> QED  BY <1>1, Invariance, PTL

\* The passenger is told that a driver is overdue only past the latest hour of
\* the request, whatever was selected, released or rescheduled before.
THEOREM NoticesFit == Spec => []ToldWhenOverdue
<1>1. IInv => ToldWhenOverdue  BY DEF IInv
<1> QED  BY <1>1, Invariance, PTL

\* A request expires only past the deadline of the row as it is then.
THEOREM ExpiryYields == Spec => ExpiryLoses
<1>1. ASSUME IInv, [Next]_vars
      PROVE  [request.status # "expired" /\ request'.status = "expired" => Due(request)]_vars
  <2> SUFFICES ASSUME Next, request.status # "expired", request'.status = "expired"
               PROVE  Due(request)
    BY <1>1
  <2>0. TypeOK /\ ToldWhenOverdue /\ CallsTrue /\ (sweep # Idle => Due(sweep.row))
    BY <1>1 DEF IInv
  <2>1. CASE \E k \in Calls : Reads(k)
    BY <2>0, <2>1, ReadsEffect
  <2>2. CASE \E k \in Calls : Continues(k)
    BY <2>0, <2>2, ContinuesSafe DEF StepIsSafe
  <2>3. CASE SweepExpires
    BY <2>0, <2>3 DEF SweepExpires, Unchanged
  <2> QED
    BY <2>1, <2>2, <2>3 DEF Next, Drop, DriverStarts, Boards, Completes, SweepReads, Tick
<1> QED  BY <1>1, Invariance, PTL DEF Spec, ExpiryLoses, Due
=============================================================================
