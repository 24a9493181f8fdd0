------------------------ MODULE DriverPayouts_proofs ------------------------
(***************************************************************************)
(* What DriverPayouts promises for every set of drivers, payouts, callers   *)
(* and checkers, every provider order and every amount.                    *)
(***************************************************************************)
EXTENDS DriverPayouts, PayoutGateway_proofs

----------------------------------------------------------------------------
(* What the transactions write into a payout row.                          *)

\* Applying a payment leaves the row alone, or gives it the payment's status:
\* a success always, anything else only to a payout that was not released.
LEMMA AppliedRow ==
  ASSUME NEW w \in Payout, NEW s \in Statuses
  PROVE  /\ Applied(w, s) \in Payout
         /\ Applied(w, s).amount = w.amount
         /\ \/ Applied(w, s) = w
            \/ /\ s = "succeeded" \/ (~w.released /\ w.status # "succeeded")
               /\ Applied(w, s).status = s
               /\ Applied(w, s).released <=> (w.released \/ s \in Refused)
               /\ Applied(w, s).blocked <=> w.blocked \/ (s = "succeeded" /\ Late(w))
               /\ Applied(w, s).review =
                    IF s = "succeeded" /\ Late(w) THEN "asked"
                    ELSE IF s \in Terminal /\ ~Applied(w, s).blocked /\ w.review = "asked"
                         THEN "resolved" ELSE w.review
<1> DEFINE late == s = "succeeded" /\ Late(w)
           blocks == w.blocked \/ late
           released == w.released \/ s \in Refused
           review == IF late THEN "asked"
                     ELSE IF s \in Terminal /\ ~blocks /\ w.review = "asked"
                          THEN "resolved" ELSE w.review
           v == [w EXCEPT !.status = s, !.blocked = blocks,
                          !.released = released, !.review = review]
<1>1. CASE s # "succeeded" /\ (w.released \/ w.status = "succeeded")
  BY <1>1 DEF Applied
<1>2. CASE ~(s # "succeeded" /\ (w.released \/ w.status = "succeeded"))
  <2>1. Applied(w, s) = v
    BY <1>2 DEF Applied
  <2>2. blocks \in BOOLEAN /\ released \in BOOLEAN /\ review \in Reviews
    BY DEF Late, Payout, Reviews
  <2>3. /\ v \in Payout
        /\ v.status = s /\ v.blocked = blocks
        /\ v.released = released /\ v.review = review
        /\ v.amount = w.amount
    <3> HIDE DEF late, blocks, released, review
    <3> QED BY <2>2 DEF Payout
  <2> HIDE DEF v
  <2> QED BY <1>2, <2>1, <2>2, <2>3
<1> QED BY <1>1, <1>2

\* markUnsentPayoutFailed closes a payout nothing was sent for, or does nothing.
LEMMA UnsentRow ==
  ASSUME TypeOK, NEW r \in Requests, MarkUnsent(r)
  PROVE  /\ payout' \in [Requests -> Payout]
         /\ \A q \in Requests : q # r => payout'[q] = payout[q]
         /\ \/ payout' = payout
            \/ /\ Unsent(r) /\ payout'[r].status = "failed" /\ payout'[r].released
               /\ payout'[r].blocked = payout[r].blocked
               /\ payout'[r].review # "asked"
<1>1. CASE ~Unsent(r)
  BY <1>1 DEF MarkUnsent, TypeOK
<1>2. CASE Unsent(r)
  <2>1. PICK v \in {"none", "resolved"} :
          payout' = [payout EXCEPT ![r].status = "failed", ![r].released = TRUE,
                                   ![r].review = v]
    BY <1>2, Zenon DEF MarkUnsent
  <2> QED BY <1>2, <2>1 DEF TypeOK, Payout, Reviews, Statuses, Terminal, Refused
<1> QED BY <1>1, <1>2

\* A caller about to claim, or to report a failure, names a payout.
LEMMA CallerRequest ==
  ASSUME TypeOK, NEW c \in Callers, caller[c].pc \in {"claim", "unsent"}
  PROVE  caller[c].req \in Requests
  BY DEF TypeOK, Caller, Idle

----------------------------------------------------------------------------
(* Type correctness.                                                       *)

\* The rows start well typed.
LEMMA InitTyped == Init => TypeOK
  BY GatewayInitInv DEF Init, TypeOK, GatewayInv, NoPayout, Payout, Reviews, Caller

\* The steps of a request that asks for a payout.
LEMMA CallerTyped ==
  ASSUME TypeOK, NEW c \in Callers,
         \/ \E r \in Requests : Retry(c, r) \/ \E n \in Amounts : Reserve(c, r, n)
         \/ Claim(c) \/ ClaimFails(c) \/ SendFailed(c) \/ CallerEnds(c)
  PROVE  TypeOK'
<1>1. ASSUME NEW r \in Requests, NEW n \in Amounts, Reserve(c, r, n) PROVE TypeOK'
  <2>1. Reserved(n) \in Payout
    BY DriverAssumption DEF Reserved, NoPayout, Payout, Reviews, Statuses, Open
  <2>2. payout' \in [Requests -> Payout]
    BY <1>1, <2>1 DEF Reserve, TypeOK
  <2>3. caller' \in [Callers -> Caller]
    BY <1>1 DEF Reserve, TypeOK, Caller
  <2>4. GatewayTypeOK'
    BY <1>1 DEF Reserve, TypeOK, GatewayTypeOK, Submission
  <2> QED BY <1>1, <2>2, <2>3, <2>4 DEF Reserve, TypeOK
<1>2. ASSUME NEW r \in Requests, Retry(c, r) PROVE TypeOK'
  BY <1>2 DEF Retry, TypeOK, GatewayTypeOK, gatewayVars, Caller
<1>3. CASE Claim(c)
  <2>1. caller[c].req \in Requests
    BY <1>3, CallerRequest DEF Claim
  <2>2. GatewayTypeOK'
    BY <1>3, <2>1, GatewayTyped DEF Claim, TypeOK, GatewayStep, SubmitStep
  <2>3. caller' \in [Callers -> Caller]
    BY <1>3 DEF Claim, TypeOK, Caller
  <2> QED BY <1>3, <2>2, <2>3 DEF Claim, TypeOK
<1>4. CASE ClaimFails(c)
  <2>1. caller[c] \in [pc : {"claim", "unsent"}, req : Requests]
    BY <1>4 DEF ClaimFails, TypeOK, Caller, Idle
  <2>2. caller' \in [Callers -> Caller]
    BY <1>4, <2>1 DEF ClaimFails, TypeOK, Caller
  <2> QED BY <1>4, <2>2 DEF ClaimFails, TypeOK, GatewayTypeOK, gatewayVars
<1>5. CASE SendFailed(c)
  <2>1. payout' \in [Requests -> Payout]
    BY <1>5, CallerRequest, UnsentRow DEF SendFailed
  <2>2. caller' \in [Callers -> Caller]
    BY <1>5 DEF SendFailed, TypeOK, Caller
  <2> QED BY <1>5, <2>1, <2>2 DEF SendFailed, TypeOK, GatewayTypeOK, gatewayVars
<1>6. CASE CallerEnds(c)
  BY <1>6 DEF CallerEnds, TypeOK, GatewayTypeOK, gatewayVars, Caller
<1> QED BY <1>1, <1>2, <1>3, <1>4, <1>5, <1>6

\* The transactions on one payout row.
LEMMA RowStepTyped ==
  ASSUME TypeOK, NEW r \in Requests,
         ReleaseOrphan(r) \/ Apply(r) \/ RequestReview(r) \/ ResolveNotPaid(r)
         \/ CloseIncident(r)
  PROVE  TypeOK'
<1>1. payout' \in [Requests -> Payout]
  <2>1. CASE ReleaseOrphan(r)
    BY <2>1, UnsentRow DEF ReleaseOrphan
  <2>2. CASE Apply(r)
    <3>1. payout[r] \in Payout /\ payment[r].status \in Statuses
      BY <2>2 DEF Apply, TypeOK, GatewayTypeOK, Payment
    <3> QED BY <2>2, <3>1, AppliedRow DEF Apply, TypeOK
  <2>3. CASE RequestReview(r)
    BY <2>3 DEF RequestReview, TypeOK, Payout, Reviews
  <2>4. CASE ResolveNotPaid(r)
    BY <2>4 DEF ResolveNotPaid, TypeOK, Payout, Reviews, Statuses, Terminal, Refused
  <2>5. CASE CloseIncident(r)
    BY <2>5 DEF CloseIncident, TypeOK, Payout, Reviews
  <2> QED BY <2>1, <2>2, <2>3, <2>4, <2>5
<1>2. UNCHANGED <<gatewayVars, caller, earned>>
  BY DEF ReleaseOrphan, Apply, RequestReview, ResolveNotPaid, CloseIncident
<1> QED BY <1>1, <1>2 DEF TypeOK, GatewayTypeOK, gatewayVars

\* What the gateway does for a payout whose claim has passed is a step of the
\* gateway; it leaves a payout waiting for its claim where it is.
LEMMA GatewaySteps ==
  ASSUME TypeOK, Gateway
  PROVE  /\ GatewayStep
         /\ \A r \in Requests : submit[r].pc = "claim" => submit'[r] = submit[r]
         /\ \A r \in Requests : submit'[r].pc = "unsent" => submit[r].pc = "unsent"
<1>1. GatewayStep
  BY DEF Gateway, SenderStep, GatewayStep
<1>2. CASE UNCHANGED submit
  BY <1>1, <1>2
<1>3. ASSUME NEW q \in Requests, SenderStep(q)
      PROVE  /\ \A r \in Requests : submit[r].pc = "claim" => submit'[r] = submit[r]
             /\ \A r \in Requests : submit'[r].pc = "unsent" => submit[r].pc = "unsent"
  <2>1. submit[q].pc # "claim"
    BY <1>3 DEF SenderStep
  <2>2. CASE AssignOrder(q)
    BY <2>2 DEF AssignOrder
  <2>3. CASE Post(q)
    <3>1. PICK a : submit' = [submit EXCEPT ![q].pc = "answered", ![q].answer = a]
      BY <2>3 DEF Post
    <3> QED BY <2>1, <3>1 DEF TypeOK, GatewayTypeOK, Submission
  <2>4. CASE Failover(q)
    BY <2>1, <2>4 DEF Failover, TypeOK, GatewayTypeOK
  <2>5. CASE CommitAnswer(q) \/ CrashSubmit(q)
    BY <2>1, <2>5 DEF CommitAnswer, CrashSubmit, TypeOK, GatewayTypeOK, Submission
  <2> QED BY <1>3, <2>1, <2>2, <2>3, <2>4, <2>5
             DEF SenderStep, SubmitStep, OpenPayment, InitiationFails
<1> QED BY <1>1, <1>2, <1>3 DEF Gateway, ProviderDecides, CheckStep, Poll, Notify, Ask,
     ProviderAnswers, CommitCheck, DropCheck

\* Every step keeps every row well typed.
LEMMA NextTyped == TypeOK /\ [Next]_vars => TypeOK'
<1> SUFFICES ASSUME TypeOK, [Next]_vars PROVE TypeOK'
  OBVIOUS
<1>1. CASE Gateway
  <2>1. GatewayTypeOK'
    BY <1>1, GatewaySteps, GatewayTyped DEF TypeOK
  <2> QED BY <1>1, <2>1 DEF Gateway, TypeOK, payoutVars
<1>2. ASSUME NEW d \in Drivers, NEW n \in Amounts, Earn(d, n) PROVE TypeOK'
  <2>1. earned[d] + n \in Nat
    BY DriverAssumption DEF TypeOK
  <2> QED BY <1>2, <2>1 DEF Earn, TypeOK, GatewayTypeOK, gatewayVars
<1>3. CASE UNCHANGED vars
  BY <1>3 DEF vars, gatewayVars, payoutVars, TypeOK, GatewayTypeOK
<1> QED BY <1>1, <1>2, <1>3, CallerTyped, RowStepTyped DEF Next

\* Type correctness: every payout row keeps a status and a review state its
\* columns allow, whatever is retried, applied or resolved.
THEOREM TypeCorrect == Spec => []TypeOK
  BY InitTyped, NextTyped, PTL DEF Spec

----------------------------------------------------------------------------
(* The inductive invariant: GatewayInv, PayoutInv and ReviewsEnd.          *)

\* Nothing is reserved, opened or sent at first.
LEMMA InitInv == Init => IInv
<1> SUFFICES ASSUME Init PROVE IInv
  OBVIOUS
<1>1. ASSUME NEW r \in Requests PROVE PayoutInv(r) /\ ReviewEnds(payout[r])
  BY DEF Init, GatewayInit, NotSubmitted, NoPayout, PayoutInv, ReviewEnds, None,
         Refused, Terminal
<1>2. GatewayInv
  BY GatewayInitInv DEF Init
<1> QED BY <1>1, <1>2, InitTyped DEF IInv, ReviewsEnd

\* What a payout relies on is left alone by every step of the gateway.
LEMMA GatewayStepInv ==
  ASSUME IInv, TypeOK', Gateway
  PROVE  IInv'
<1>1. GatewayStep /\ UNCHANGED payoutVars
  BY GatewaySteps DEF IInv, Gateway
<1>2. ASSUME NEW q \in Requests PROVE PayoutInv(q)'
  <2>1. PayoutInv(q) /\ payout'[q] = payout[q]
    BY <1>1 DEF IInv, payoutVars
  <2>2. Advances(q) /\ \A p \in Providers : Moves(q, p)
    BY <1>1, GatewayEffect DEF IInv
  <2>3. \A p \in Providers :
          /\ transfer[q][p] \in Received => transfer'[q][p] \in Received
          /\ transfer[q][p] # "missing" => transfer'[q][p] # "missing"
          /\ \/ transfer[q][p] \notin NotPaid \/ submit[q].pc = "attempt"
             \/ transfer'[q][p] \in NotPaid
    BY <2>2 DEF Moves, Received, NotPaid
  <2>4. /\ submit'[q].pc = "idle" <=> submit[q].pc = "idle"
        /\ submit[q].pc = "claim" => submit'[q].pc = "claim"
        /\ submit'[q].pc = "unsent" => submit[q].pc = "unsent"
    BY <2>2, GatewaySteps DEF Advances, IInv
  <2>5. payout[q].released =>
          /\ submit'[q].pc \in {"claim", "answered", "done"}
          /\ \A p \in Providers : transfer'[q][p] \in NotPaid
          /\ submit'[q].pc = "answered" =>
               \E p \in Providers : transfer'[q][p] # "missing"
    BY <2>1, <2>2, <2>3, <2>4 DEF PayoutInv, Advances
  <2> QED BY <2>1, <2>3, <2>4, <2>5 DEF PayoutInv
<1>3. GatewayInv'
  BY <1>1, GatewayInductive DEF IInv
<1> QED BY <1>1, <1>2, <1>3 DEF IInv, ReviewsEnd, payoutVars

\* A transaction on one payout row that leaves the gateway alone.
LEMMA RowStepInv ==
  ASSUME IInv, TypeOK', NEW r \in Requests, UNCHANGED gatewayVars,
         \A q \in Requests : q # r => payout'[q] = payout[q],
         PayoutInv(r)', ReviewEnds(payout'[r])
  PROVE  IInv'
<1>1. ASSUME NEW q \in Requests PROVE PayoutInv(q)' /\ ReviewEnds(payout'[q])
  BY DEF IInv, PayoutInv, ReviewsEnd, gatewayVars
<1>2. GatewayInv'
  BY GatewayStutterInv DEF IInv
<1> QED BY <1>1, <1>2 DEF IInv, ReviewsEnd

\* A reserved payout has no payment row and no transfer yet.
LEMMA ReserveInv ==
  ASSUME IInv, TypeOK', NEW c \in Callers, NEW r \in Requests, NEW n \in Amounts,
         Reserve(c, r, n)
  PROVE  IInv'
<1>1. submit[r].pc = "idle" /\ payment[r] = NoPayment
  BY DEF IInv, GatewayInv, SubmissionInv, PayoutInv, Reserve
<1>2. /\ submit'[r].pc = "claim"
      /\ \A q \in Requests : q # r => submit'[q] = submit[q]
  BY DEF Reserve, IInv, TypeOK, GatewayTypeOK, Submission
<1>3. /\ payout'[r].status = "pending" /\ ~payout'[r].released
      /\ ~payout'[r].blocked
      /\ \A q \in Requests : q # r => payout'[q] = payout[q]
  BY DEF Reserve, Reserved, NoPayout, IInv, TypeOK
<1>4. UNCHANGED <<payment, transfer, check>>
  BY DEF Reserve
<1>5. GatewayInv'
  BY <1>1, <1>2, <1>4, UnpaidMoveInv DEF IInv, TypeOK
<1>6. ASSUME NEW q \in Requests PROVE PayoutInv(q)'
  BY <1>1, <1>2, <1>3, <1>4 DEF IInv, PayoutInv, Refused, None
<1>7. ASSUME NEW q \in Requests PROVE ReviewEnds(payout'[q])
  BY <1>3 DEF IInv, ReviewsEnd, ReviewEnds, Terminal, Refused
<1> QED BY <1>5, <1>6, <1>7 DEF IInv, ReviewsEnd

\* claimDriverPayoutPayment opens the payment of a payout that still holds its
\* money.
LEMMA ClaimInv ==
  ASSUME IInv, TypeOK', NEW c \in Callers, Claim(c)
  PROVE  IInv'
<1> DEFINE r == caller[c].req
<1>1. /\ r \in Requests /\ OpenPayment(r) /\ Sendable(r)
      /\ payout' = payout /\ transfer' = transfer
  BY CallerRequest DEF Claim, IInv, OpenPayment
<1>2. /\ submit[r].pc = "claim" /\ submit'[r].pc = "attempt"
      /\ \A q \in Requests : q # r => submit'[q] = submit[q]
  BY <1>1 DEF OpenPayment, IInv, TypeOK, GatewayTypeOK
<1>3. GatewayInv'
  BY <1>1, GatewayInductive DEF IInv, GatewayStep, SubmitStep
<1> HIDE DEF r
<1>4. ASSUME NEW q \in Requests PROVE PayoutInv(q)'
  BY <1>1, <1>2 DEF IInv, PayoutInv, Sendable
<1> QED BY <1>1, <1>3, <1>4 DEF IInv, ReviewsEnd

\* A payout without a payment row is closed: nothing was sent, and the claim
\* finds it closed.
LEMMA MarkUnsentInv ==
  ASSUME IInv, TypeOK', NEW r \in Requests, MarkUnsent(r), UNCHANGED gatewayVars
  PROVE  IInv'
<1>1. CASE payout' = payout
  <2>1. PayoutInv(r)' /\ ReviewEnds(payout'[r])
    BY <1>1 DEF IInv, PayoutInv, ReviewsEnd, gatewayVars
  <2> QED BY <1>1, <2>1, RowStepInv
<1>2. CASE payout' # payout
  <2>1. /\ Unsent(r) /\ payout'[r].status = "failed" /\ payout'[r].released
        /\ payout'[r].blocked = payout[r].blocked /\ payout'[r].review # "asked"
        /\ \A q \in Requests : q # r => payout'[q] = payout[q]
    BY <1>2, UnsentRow DEF IInv
  <2>2. /\ submit[r].pc \in {"claim", "done"}
        /\ \A p \in Providers : transfer[r][p] = "missing"
    BY <2>1 DEF Unsent, IInv, GatewayInv, SubmissionInv, PayoutInv, None,
                TypeOK, GatewayTypeOK, Submission
  <2>3. PayoutInv(r)'
    BY <2>1, <2>2 DEF PayoutInv, gatewayVars, NotPaid, Terminal, Refused, None
  <2>4. ~payout[r].blocked
    BY <2>1 DEF IInv, ReviewsEnd, ReviewEnds, Unsent
  <2>5. ReviewEnds(payout'[r])
    BY <2>1, <2>4 DEF ReviewEnds
  <2> QED BY <2>1, <2>3, <2>5, RowStepInv
<1> QED BY <1>1, <1>2

\* A payment, however old the answer it holds, closes a payout only as the
\* provider decided, and reopens none.
LEMMA ApplyInv ==
  ASSUME IInv, TypeOK', NEW r \in Requests, Apply(r)
  PROVE  IInv'
<1> DEFINE w == payout[r]
           v == payout'[r]
           s == payment[r].status
           fate == transfer[r][payment[r].provider]
<1>1. /\ UNCHANGED gatewayVars
      /\ v = Applied(w, s) /\ w.status # None
      /\ \A q \in Requests : q # r => payout'[q] = payout[q]
  BY DEF Apply, IInv, TypeOK
<1>2. /\ w \in Payout /\ s \in Statuses
      /\ payment[r] # NoPayment /\ payment[r].provider \in Providers
  BY RowTyped DEF Apply, IInv, TypeOK, GatewayTypeOK, Payment
<1>3. PayoutInv(r) /\ ReviewEnds(w) /\ PaymentInv(r) /\ SubmissionInv(r)
  BY DEF IInv, GatewayInv, ReviewsEnd
<1>4. CASE v = w
  <2>1. PayoutInv(r)' /\ ReviewEnds(v)
    BY <1>1, <1>3, <1>4 DEF PayoutInv, gatewayVars
  <2> QED BY <1>1, <2>1, RowStepInv
<1>5. CASE v # w
  <2>1. /\ s = "succeeded" \/ (~w.released /\ w.status # "succeeded")
        /\ v.status = s
        /\ v.released <=> (w.released \/ s \in Refused)
        /\ v.blocked <=> w.blocked \/ (s = "succeeded" /\ Late(w))
        /\ v.review = IF s = "succeeded" /\ Late(w) THEN "asked"
                      ELSE IF s \in Terminal /\ ~v.blocked /\ w.review = "asked"
                           THEN "resolved" ELSE w.review
    BY <1>1, <1>2, <1>5, AppliedRow
  <2>2. s = "succeeded" => \E p \in Providers : transfer[r][p] \in Received
    BY <1>2, <1>3 DEF PaymentInv
  <2>3. s \in Refused => /\ \A p \in Providers : transfer[r][p] \in NotPaid
                         /\ submit[r].pc \in {"answered", "done"}
                         /\ submit[r].pc = "answered" =>
                              \E p \in Providers : transfer[r][p] # "missing"
    BY <1>2, <1>3 DEF PaymentInv, SubmissionInv, NotPaid
  <2>4. /\ s # None
        /\ s \in Refused => s # "succeeded"
        /\ s \in Terminal <=> s = "succeeded" \/ s \in Refused
    BY <1>2 DEF Statuses, Open, Terminal, Refused, None
  <2>5. PayoutInv(r)'
    <3>1. /\ s \in Refused => v.released
          /\ v.released =>
               /\ s \in Terminal
               /\ submit[r].pc \in {"claim", "answered", "done"}
               /\ \A p \in Providers : transfer[r][p] \in NotPaid
               /\ submit[r].pc = "answered" => \E p \in Providers : transfer[r][p] # "missing"
      BY <1>3, <2>1, <2>3, <2>4 DEF PayoutInv
    <3> QED BY <1>1, <1>3, <2>1, <2>2, <2>4, <3>1 DEF PayoutInv, gatewayVars
  <2>6. ReviewEnds(v)
    BY <1>3, <2>1, <2>4 DEF ReviewEnds, Late, PayoutInv
  <2> QED BY <1>1, <2>5, <2>6, RowStepInv
<1> QED BY <1>4, <1>5

\* What drivers and support do to a payout: a cancellation needs the evidence
\* that no money left.
LEMMA SupportInv ==
  ASSUME IInv, TypeOK', NEW r \in Requests,
         RequestReview(r) \/ ResolveNotPaid(r) \/ CloseIncident(r)
  PROVE  IInv'
<1>1. /\ UNCHANGED gatewayVars
      /\ \A q \in Requests : q # r => payout'[q] = payout[q]
  BY DEF RequestReview, ResolveNotPaid, CloseIncident, IInv, TypeOK
<1>2. PayoutInv(r) /\ ReviewEnds(payout[r]) /\ payout[r] \in Payout
  BY DEF IInv, ReviewsEnd, TypeOK
<1>3. CASE RequestReview(r) \/ CloseIncident(r)
  <2>1. /\ payout'[r].status = payout[r].status
        /\ payout'[r].released = payout[r].released
        /\ \/ payout[r].status \in Open /\ payout'[r].blocked = payout[r].blocked
           \/ ~payout'[r].blocked /\ payout'[r].review = "resolved"
    BY <1>2, <1>3 DEF RequestReview, CloseIncident, IInv, TypeOK, Payout
  <2>2. PayoutInv(r)' /\ ReviewEnds(payout'[r])
    BY <1>1, <1>2, <2>1 DEF PayoutInv, ReviewEnds, gatewayVars, Open, Terminal, Refused
  <2> QED BY <1>1, <2>2, RowStepInv
<1>4. CASE ResolveNotPaid(r)
  <2>1. /\ payout'[r].status = "cancelled" /\ payout'[r].released
        /\ ~payout'[r].blocked /\ payout'[r].review = "resolved"
        /\ payout[r].status # None
    BY <1>2, <1>4 DEF ResolveNotPaid, Resolvable, IInv, TypeOK, Payout, Open, None
  <2>2. /\ submit[r].pc \in {"claim", "done"}
        /\ \A p \in Providers : transfer[r][p] \in NotPaid
    BY <1>4 DEF ResolveNotPaid, ConfirmedNotPaid, NotPaid
  <2>3. PayoutInv(r)' /\ ReviewEnds(payout'[r])
    BY <1>1, <2>1, <2>2 DEF PayoutInv, ReviewEnds, gatewayVars, Terminal, Refused, None
  <2> QED BY <1>1, <2>3, RowStepInv
<1> QED BY <1>3, <1>4

\* Steps that leave every row of payouts, payments and checks alone.
LEMMA StutterInv ==
  ASSUME IInv, TypeOK', UNCHANGED <<gatewayVars, payout>>
  PROVE  IInv'
<1>1. ASSUME NEW q \in Requests PROVE PayoutInv(q)'
  BY DEF IInv, PayoutInv, gatewayVars
<1>2. GatewayInv'
  BY GatewayStutterInv DEF IInv
<1> QED BY <1>1, <1>2 DEF IInv, ReviewsEnd

\* Every step keeps the invariant.
LEMMA NextInv == IInv /\ [Next]_vars => IInv'
<1> SUFFICES ASSUME IInv, [Next]_vars PROVE IInv'
  OBVIOUS
<1>1. TypeOK'
  BY NextTyped DEF IInv
<1>2. ASSUME NEW c \in Callers,
             SendFailed(c) \/ Claim(c) \/ ClaimFails(c) \/ CallerEnds(c)
      PROVE  IInv'
  <2>1. CASE SendFailed(c)
    <3>1. caller[c].req \in Requests
      BY <2>1, CallerRequest DEF SendFailed, IInv
    <3> QED BY <1>1, <2>1, <3>1, MarkUnsentInv DEF SendFailed
  <2> QED BY <1>1, <1>2, <2>1, ClaimInv, StutterInv DEF ClaimFails, CallerEnds
<1>3. ASSUME NEW r \in Requests, ReleaseOrphan(r) PROVE IInv'
  BY <1>1, <1>3, MarkUnsentInv DEF ReleaseOrphan
<1>4. ASSUME NEW c \in Callers, NEW r \in Requests, Retry(c, r) PROVE IInv'
  BY <1>1, <1>4, StutterInv DEF Retry
<1>5. ASSUME NEW d \in Drivers, NEW n \in Amounts, Earn(d, n) PROVE IInv'
  BY <1>1, <1>5, StutterInv DEF Earn
<1>6. CASE UNCHANGED vars
  BY <1>1, <1>6, StutterInv DEF vars, payoutVars
<1> QED BY <1>1, <1>2, <1>3, <1>4, <1>5, <1>6, GatewayStepInv, ReserveInv, ApplyInv,
           SupportInv DEF Next

\* The invariant holds in every reachable state.
THEOREM Invariance == Spec => []IInv
  BY InitInv, NextInv, PTL DEF Spec

\* The amount of a payout is given back only when no provider holds the money,
\* whichever of the catch, the cron, a late answer or support gives it back.
THEOREM ReleasesAreSafe == Spec => []ReleasedNotPaid
<1>1. IInv => ReleasedNotPaid
  BY DEF IInv, PayoutInv, ReleasedNotPaid, NotPaid
<1> QED BY <1>1, Invariance, PTL

\* A payout that is over leaves a review open only if it is a late success, and
\* such a payout blocks its driver.
THEOREM ReviewsClose == Spec => []ReviewsEnd
<1>1. IInv => ReviewsEnd
  BY DEF IInv
<1> QED BY <1>1, Invariance, PTL

----------------------------------------------------------------------------
(* A late success stops the driver's payouts.                              *)

\* While a released payout is known to be paid and its incident is open, it is
\* flagged for recovery, first by its payment row and then by its own.
LEMMA IncidentFlagged ==
  ASSUME IInv, NEW r \in Requests,
         payout[r].released, payment[r].status = "succeeded",
         payout[r].status = "succeeded" => payout[r].review = "asked"
  PROVE  RecoveryPending(r)
  BY DEF IInv, ReviewsEnd, ReviewEnds, RecoveryPending, Terminal

\* Only a reservation makes a payout exist.
LEMMA OnlyReserve ==
  ASSUME IInv, [Next]_vars, NEW q \in Requests,
         payout[q].status = None, payout'[q].status # None
  PROVE  \E c \in Callers, n \in Amounts : Reserve(c, q, n)
<1>1. ASSUME NEW r \in Requests, MarkUnsent(r) PROVE FALSE
  <2>1. q = r /\ payout[r].status = "pending"
    BY <1>1, UnsentRow DEF IInv, Unsent
  <2> QED BY <2>1 DEF None
<1>2. ASSUME NEW r \in Requests,
             Apply(r) \/ RequestReview(r) \/ ResolveNotPaid(r) \/ CloseIncident(r)
      PROVE  FALSE
  <2>1. payout[r].status # None /\ \A x \in Requests : x # r => payout'[x] = payout[x]
    BY <1>2 DEF Apply, RequestReview, ResolveNotPaid, Resolvable, CloseIncident,
                IInv, TypeOK, Open, None
  <2> QED BY <2>1
<1>3. ASSUME NEW c \in Callers, SendFailed(c) PROVE FALSE
  <2>1. caller[c].req \in Requests
    BY <1>3, CallerRequest DEF SendFailed, IInv
  <2> QED BY <1>1, <1>3, <2>1 DEF SendFailed
<1>4. ASSUME NEW c \in Callers, NEW r \in Requests, NEW n \in Amounts, Reserve(c, r, n)
      PROVE  Reserve(c, q, n)
  <2>1. \A x \in Requests : x # r => payout'[x] = payout[x]
    BY <1>4 DEF Reserve, IInv, TypeOK
  <2> QED BY <1>4, <2>1
<1>5. payout' # payout
  OBVIOUS
<1> QED BY <1>1, <1>2, <1>3, <1>4, <1>5 DEF Next, Gateway, Retry, Claim, ClaimFails,
       CallerEnds, ReleaseOrphan, Earn, vars, payoutVars

\* From the moment a payment row says that a released payout was paid until
\* support closes the incident, its driver reserves no other payout.
THEOREM IncidentsStop == Spec => LateSuccessStopsPayouts
<1>1. ASSUME IInv, [Next]_vars, NEW r \in Requests, NEW q \in Requests,
             payout[r].released, payment[r].status = "succeeded",
             payout[r].status = "succeeded" => payout[r].review = "asked",
             Owner[q] = Owner[r], payout[q].status = None
      PROVE  payout'[q].status = None
  <2>1. r \in Mine(Owner[q]) /\ RecoveryPending(r)
    BY <1>1, IncidentFlagged DEF Mine
  <2>2. \A c \in Callers, n \in Amounts : ~Reserve(c, q, n)
    BY <2>1 DEF Reserve
  <2> QED BY <1>1, <2>2, OnlyReserve
<1>2. IInv /\ [Next]_vars =>
        \A r, q \in Requests :
          /\ payout[r].released /\ payment[r].status = "succeeded"
          /\ payout[r].status = "succeeded" => payout[r].review = "asked"
          /\ Owner[q] = Owner[r] /\ payout[q].status = None
          => payout'[q].status = None
  BY <1>1
<1> QED BY <1>2, Invariance, PTL DEF Spec, LateSuccessStopsPayouts

----------------------------------------------------------------------------
(* The budget: what the providers pay is within what a driver earned.      *)

\* Whatever the step, a transfer moves as the providers move it.
LEMMA TransferMoves ==
  ASSUME IInv, [Next]_vars, NEW r \in Requests, NEW p \in Providers
  PROVE  Moves(r, p)
<1>1. CASE GatewayStep
  BY <1>1, GatewayEffect DEF IInv
<1>2. CASE UNCHANGED transfer
  BY <1>2 DEF Moves
<1>3. CASE Gateway
  BY <1>1, <1>3, GatewaySteps DEF IInv
<1>4. ASSUME NEW c \in Callers, Claim(c) PROVE GatewayStep
  <2>1. caller[c].req \in Requests
    BY <1>4, CallerRequest DEF Claim, IInv
  <2> QED BY <1>4, <2>1 DEF Claim, GatewayStep, SubmitStep
<1> QED BY <1>1, <1>2, <1>3, <1>4
       DEF Next, Reserve, Retry, ClaimFails, SendFailed, CallerEnds, ReleaseOrphan, Apply,
           RequestReview, ResolveNotPaid, CloseIncident, Earn, vars, gatewayVars

\* A payment says that a released payout was paid only once the provider took
\* its refusal back.
LEMMA LateIsReversed ==
  ASSUME IInv, NEW r \in Requests, payout[r].released,
         payment[r] # NoPayment, payment[r].status = "succeeded"
  PROVE  ~Unreversed(r)
<1>1. payment[r].provider \in Providers
  BY RowTyped DEF IInv, TypeOK
<1>2. transfer[r][payment[r].provider] \in Received \cap NotPaid
  BY <1>1 DEF IInv, GatewayInv, PaymentInv, PayoutInv
<1> QED BY <1>1, <1>2 DEF Unreversed, Received, NotPaid

\* A payout that exists keeps its amount, and once its amount is given back it
\* is deducted again only for a refusal that was taken back.
LEMMA RowKeeps ==
  ASSUME IInv, TypeOK', [Next]_vars, NEW r \in Requests, payout[r].status # None
  PROVE  /\ payout'[r].amount = payout[r].amount
         /\ LocksMoney(r)' /\ Unreversed(r)' => LocksMoney(r) /\ Unreversed(r)
<1>1. Unreversed(r)' => Unreversed(r)
  <2>1. ASSUME NEW p \in Providers, transfer[r][p] = "reversed"
        PROVE  transfer'[r][p] = "reversed"
    BY <2>1, TransferMoves DEF Moves
  <2> QED BY <2>1 DEF Unreversed
<1>2. CASE payout'[r] = payout[r]
  BY <1>1, <1>2 DEF LocksMoney
<1>3. ASSUME NEW q \in Requests, MarkUnsent(q), payout'[r] # payout[r]
      PROVE  payout'[r].status = "failed" /\ payout'[r].amount = payout[r].amount
  <2>1. q = r /\ Unsent(r) /\ payout'[r].status = "failed"
    BY <1>3, UnsentRow DEF IInv
  <2>2. payout[r] \in Payout
    BY DEF IInv, TypeOK
  <2>3. PICK v \in {"none", "resolved"} :
          payout' = [payout EXCEPT ![r].status = "failed", ![r].released = TRUE,
                                   ![r].review = v]
    BY <1>3, <2>1, Zenon DEF MarkUnsent
  <2> QED BY <2>1, <2>2, <2>3 DEF IInv, TypeOK, Payout
<1>4. ASSUME NEW q \in Requests, Apply(q), payout'[r] # payout[r]
      PROVE  /\ payout'[r].amount = payout[r].amount
             /\ LocksMoney(r)' /\ Unreversed(r)' => LocksMoney(r)
  <2> DEFINE w == payout[r]
             s == payment[r].status
  <2>1. q = r
    BY <1>4 DEF Apply, IInv, TypeOK
  <2>2. payout'[r] = Applied(w, s) /\ payment[r] # NoPayment
    BY <1>4, <2>1 DEF Apply, IInv, TypeOK
  <2>3. w \in Payout /\ s \in Statuses
    BY <2>2 DEF IInv, TypeOK, GatewayTypeOK, Payment
  <2>4. /\ payout'[r].amount = w.amount
        /\ payout'[r].status = s
        /\ s = "succeeded" \/ (~w.released /\ w.status # "succeeded")
    BY <1>4, <2>2, <2>3, AppliedRow
  <2>5. CASE ~w.released
    BY <2>3, <2>4, <2>5 DEF LocksMoney, IInv, PayoutInv, Payout, Statuses, Terminal
  <2>6. CASE w.released
    <3>1. s = "succeeded"
      BY <2>4, <2>6
    <3>2. ~Unreversed(r)
      BY <2>2, <2>6, <3>1, LateIsReversed
    <3> QED BY <1>1, <2>4, <3>2
  <2> QED BY <2>5, <2>6
<1>5. ASSUME NEW q \in Requests,
             RequestReview(q) \/ ResolveNotPaid(q) \/ CloseIncident(q),
             payout'[r] # payout[r]
      PROVE  /\ payout'[r].amount = payout[r].amount
             /\ LocksMoney(r)' => LocksMoney(r)
  <2>1. q = r
    BY <1>5 DEF RequestReview, ResolveNotPaid, CloseIncident, IInv, TypeOK
  <2>2. payout[r] \in Payout /\ payout \in [Requests -> Payout]
    BY DEF IInv, TypeOK
  <2>3. /\ payout'[r].amount = payout[r].amount
        /\ payout'[r].status \in {payout[r].status, "cancelled"}
    BY <1>5, <2>1, <2>2 DEF RequestReview, ResolveNotPaid, CloseIncident, Payout
  <2> QED BY <2>3 DEF LocksMoney, Open
<1>6. ASSUME NEW q \in Requests, NEW c \in Callers, NEW n \in Amounts, Reserve(c, q, n)
      PROVE  payout'[r] = payout[r]
  BY <1>6 DEF Reserve, IInv, TypeOK
<1>7. ASSUME NEW c \in Callers, SendFailed(c), payout'[r] # payout[r]
      PROVE  payout'[r].status = "failed" /\ payout'[r].amount = payout[r].amount
  <2>1. caller[c].req \in Requests
    BY <1>7, CallerRequest DEF SendFailed, IInv
  <2> QED BY <1>3, <1>7, <2>1 DEF SendFailed
<1>8. payout'[r].status = "failed" => ~LocksMoney(r)'
  BY DEF LocksMoney, Open
<1> QED BY <1>1, <1>2, <1>3, <1>4, <1>5, <1>6, <1>7, <1>8
       DEF Next, Gateway, Retry, Claim, ClaimFails, CallerEnds, ReleaseOrphan, Earn,
           vars, payoutVars

\* Earnings are only added.
LEMMA EarnedGrows ==
  ASSUME TypeOK, [Next]_vars, NEW d \in Drivers
  PROVE  earned'[d] >= earned[d]
<1>1. ASSUME NEW e \in Drivers, NEW n \in Amounts, Earn(e, n)
      PROVE  earned'[d] >= earned[d]
  <2>1. n \in Nat /\ earned[d] \in Nat
    BY DriverAssumption DEF TypeOK
  <2> QED BY <1>1, <2>1 DEF Earn, TypeOK
<1>2. CASE UNCHANGED earned
  BY <1>2 DEF TypeOK
<1> QED BY <1>1, <1>2
       DEF Next, Gateway, Reserve, Retry, Claim, ClaimFails, SendFailed, CallerEnds,
           ReleaseOrphan, Apply, RequestReview, ResolveNotPaid, CloseIncident, vars,
           payoutVars

\* A new payout is within what its driver has available.
LEMMA ReserveBudget ==
  ASSUME IInv, Budget, NEW c \in Callers, NEW r \in Requests, NEW n \in Amounts,
         Reserve(c, r, n)
  PROVE  Budget'
<1> DEFINE used == {q \in Requests : payout[q].status # None}
           usedNow == {q \in Requests : payout'[q].status # None}
           f == [q \in Requests |-> payout[q].amount]
           g == [q \in Requests |-> payout'[q].amount]
<1>1. /\ payout'[r].amount = n /\ payout[r].status = None /\ n \in Nat
      /\ \A q \in Requests : q # r => payout'[q] = payout[q]
      /\ UNCHANGED <<transfer, earned>> /\ n <= Available(Owner[r])
  BY DriverAssumption DEF Reserve, Reserved, NoPayout, IInv, TypeOK
<1>2. \A q \in Requests : payout[q].amount \in Nat
  BY DEF IInv, TypeOK, Payout
<1>3. /\ \A q \in Requests : f[q] \in Nat /\ g[q] \in Nat
      /\ \A q \in Requests : q # r => g[q] = f[q]
      /\ g[r] = n
  BY <1>1, <1>2
<1>4. IsFiniteSet(usedNow)
  <2>1. usedNow \subseteq used \cup {r}
    BY <1>1
  <2>2. IsFiniteSet(used \cup {r})
    BY FS_AddElement DEF Budget
  <2> QED BY <2>1, <2>2, FS_Subset
<1>5. ASSUME NEW d \in Drivers PROVE Amount(Committed(d))' <= earned'[d]
  <2> DEFINE S == Committed(d)
             T == Committed(d)'
             L == {q \in Mine(d) : LocksMoney(q)}
  <2>1. /\ Amount(S) = SumOver(f, S) /\ Amount(L) = SumOver(f, L)
        /\ Amount(Committed(d))' = SumOver(g, T)
    BY DEF Amount
  <2>2. SumOver(f, S) <= earned[d] /\ earned' = earned
    BY <1>1, <2>1 DEF Budget
  <2>3. S \subseteq Requests /\ L \subseteq Requests /\ IsFiniteSet(L)
    <3>1. L \subseteq used
      BY DEF Mine, LocksMoney, Open, None
    <3>2. S \subseteq Requests
      BY DEF Committed, Mine
    <3> QED BY <3>1, <3>2, FS_Subset DEF Budget
  <2>4. CASE Owner[r] # d
    <3>1. T = S /\ r \notin S
      BY <1>1, <2>4 DEF Committed, Mine, LocksMoney, Unreversed
    <3> HIDE DEF f, g, S, T
    <3>2. SumOver(g, T) = SumOver(f, S)
      BY <1>3, <2>3, <3>1, SumAgrees
    <3> QED BY <2>1, <2>2, <3>2
  <2>5. CASE Owner[r] = d
    <3>1. /\ T \subseteq L \cup {r} /\ r \notin L
          /\ n <= earned[d] - SumOver(f, L)
      <4>1. r \notin L
        BY <1>1 DEF LocksMoney, Open, None
      <4>2. T \subseteq L \cup {r}
        BY <1>1 DEF Committed, Mine, LocksMoney
      <4> QED BY <1>1, <2>1, <2>5, <4>1, <4>2 DEF Available
    <3>2. earned[d] \in Nat
      BY DEF IInv, TypeOK
    <3> HIDE DEF f, g, T, L
    <3>3. IsFiniteSet(L \cup {r})
      BY <2>3, FS_AddElement
    <3>4. SumOver(g, T) <= SumOver(g, L \cup {r})
      <4>1. \A q \in T : g[q] \in Nat /\ (g[q] # 0 => q \in L \cup {r} /\ g[q] <= g[q])
        BY <1>3, <2>3, <3>1
      <4>2. \A q \in L \cup {r} : g[q] \in Nat
        BY <1>3, <2>3
      <4> QED BY <3>3, <4>1, <4>2, SumGrows
    <3>5. SumOver(g, L \cup {r}) = SumOver(g, L) + n
      <4>1. IsFiniteSet(L) /\ r \notin L /\ \A q \in L \cup {r} : g[q] \in Nat
        BY <1>3, <2>3, <3>1
      <4>2. SumOver(g, L \cup {r}) = SumOver(g, L) + g[r]
        BY <4>1, SumAdds
      <4> QED BY <1>3, <4>2
    <3>6. SumOver(g, L) = SumOver(f, L)
      BY <1>3, <2>3, <3>1, SumAgrees
    <3>7. SumOver(f, L) \in Nat /\ SumOver(g, T) \in Nat
      <4>1. IsFiniteSet(T)
        BY <3>1, <3>3, FS_Subset
      <4> QED BY <1>3, <2>3, <3>1, <4>1, SumIsNat
    <3> QED BY <1>1, <2>1, <2>2, <3>1, <3>2, <3>4, <3>5, <3>6, <3>7
  <2> QED BY <2>4, <2>5
<1> QED BY <1>4, <1>5 DEF Budget

\* Nothing else commits more of the earnings.
LEMMA NextBudget == IInv /\ TypeOK' /\ Budget /\ [Next]_vars => Budget'
<1> SUFFICES ASSUME IInv, TypeOK', Budget, [Next]_vars,
                    \A c \in Callers, r \in Requests, n \in Amounts : ~Reserve(c, r, n)
             PROVE  Budget'
  BY ReserveBudget
<1> DEFINE used == {q \in Requests : payout[q].status # None}
           usedNow == {q \in Requests : payout'[q].status # None}
           f == [q \in Requests |-> payout[q].amount]
           g == [q \in Requests |-> payout'[q].amount]
<1>1. usedNow \subseteq used
  BY OnlyReserve
<1>2. IsFiniteSet(usedNow)
  BY <1>1, FS_Subset DEF Budget
<1>3. \A q \in Requests : payout[q].amount \in Nat /\ payout'[q].amount \in Nat
  BY DEF IInv, TypeOK, Payout
<1>4. ASSUME NEW d \in Drivers PROVE Amount(Committed(d))' <= earned'[d]
  <2> DEFINE S == Committed(d)
             T == Committed(d)'
  <2>1. Amount(S) = SumOver(f, S) /\ Amount(Committed(d))' = SumOver(g, T)
    BY DEF Amount
  <2>2. S \subseteq Requests /\ T \subseteq Requests
    BY DEF Committed, Mine
  <2>3. IsFiniteSet(S) /\ IsFiniteSet(T)
    <3>1. S \subseteq used /\ T \subseteq usedNow
      BY DEF Committed, Mine, LocksMoney, Open, None
    <3> QED BY <1>2, <3>1, FS_Subset DEF Budget
  <2>4. ASSUME NEW q \in T PROVE q \in S /\ g[q] = f[q]
    <3>1. /\ q \in Requests /\ Owner[q] = d /\ payout'[q].status # None
          /\ LocksMoney(q)' /\ Unreversed(q)'
      BY DEF Committed, Mine, LocksMoney, Open, None
    <3>2. payout[q].status # None
      BY <1>1, <3>1
    <3> QED BY <3>1, <3>2, RowKeeps DEF Committed, Mine
  <2>5. SumOver(f, S) <= earned[d]
    BY <2>1 DEF Budget
  <2>6. earned'[d] >= earned[d] /\ earned[d] \in Nat /\ earned'[d] \in Nat
    BY EarnedGrows DEF IInv, TypeOK
  <2>7. \A q \in Requests : f[q] \in Nat /\ g[q] \in Nat
    BY <1>3
  <2> HIDE DEF f, g, S, T
  <2>8. SumOver(g, T) <= SumOver(f, S)
    <3>1. \A q \in T : g[q] \in Nat /\ (g[q] # 0 => q \in S /\ g[q] <= f[q])
      BY <2>2, <2>4, <2>7
    <3> QED BY <2>2, <2>3, <2>7, <3>1, SumGrows
  <2>9. SumOver(f, S) \in Nat /\ SumOver(g, T) \in Nat
    BY <2>2, <2>3, <2>7, SumIsNat
  <2> QED BY <2>1, <2>5, <2>6, <2>8, <2>9
<1> QED BY <1>2, <1>4 DEF Budget

\* Nothing is committed at first.
LEMMA InitBudget == Init => Budget
<1> SUFFICES ASSUME Init PROVE Budget
  OBVIOUS
<1>1. \A r \in Requests : payout[r].status = None
  BY DEF Init, NoPayout
<1>2. {r \in Requests : payout[r].status # None} = {}
  BY <1>1
<1>3. ASSUME NEW d \in Drivers PROVE Amount(Committed(d)) <= earned[d]
  <2>1. Committed(d) = {}
    BY <1>1 DEF Committed, Mine, LocksMoney, Open, None
  <2>2. Amount(Committed(d)) = 0
    BY <2>1, SumEmpty DEF Amount
  <2> QED BY <2>2 DEF Init
<1> QED BY <1>2, <1>3, FS_EmptySet DEF Budget

\* What a provider paid for a payout, unless it had refused it before, is a
\* payout that is still deducted, paid once.
LEMMA PaidIsCommitted ==
  ASSUME IInv, NEW r \in Requests, Unreversed(r)
  PROVE  LET paid == {p \in Providers : transfer[r][p] \in {"paid", "reversed"}} IN
         \/ Cardinality(paid) = 0
         \/ Cardinality(paid) = 1 /\ LocksMoney(r)
<1> DEFINE paid == {p \in Providers : transfer[r][p] \in {"paid", "reversed"}}
<1>1. CASE paid = {}
  BY <1>1, FS_EmptySet
<1>2. ASSUME NEW p \in paid PROVE Cardinality(paid) = 1 /\ LocksMoney(r)
  <2>1. p \in Providers /\ transfer[r][p] = "paid"
    BY <1>2 DEF Unreversed
  <2>2. /\ payment[r] # NoPayment /\ payment[r].provider = p
        /\ \A q \in Providers : transfer[r][q] # "missing" => payment[r].provider = q
        /\ submit[r].pc # "idle"
    BY <2>1 DEF IInv, GatewayInv, SubmissionInv
  <2>3. paid = {p}
    BY <2>1, <2>2
  <2>4. ~payout[r].released
    BY <2>1 DEF IInv, PayoutInv, NotPaid
  <2>5. payout[r] \in Payout /\ payout[r].status \notin Refused \cup {None}
    BY <2>2, <2>4 DEF IInv, PayoutInv, TypeOK
  <2>6. LocksMoney(r)
    BY <2>5 DEF LocksMoney, Payout, Statuses, Terminal
  <2> QED BY <2>3, <2>6, FS_Singleton
<1> QED BY <1>1, <1>2

\* A driver receives more than was earned only through transfers that were
\* first reported refused and paid afterwards, whatever is retried.
THEOREM PaidCovered == Spec => []PaidWithinEarnings
<1>1. IInv /\ Budget => PaidWithinEarnings
  <2> SUFFICES ASSUME IInv, Budget, NEW d \in Drivers
               PROVE  PaidOut({r \in Mine(d) : Unreversed(r)}) <= earned[d]
    BY DEF PaidWithinEarnings
  <2> DEFINE S == {r \in Mine(d) : Unreversed(r)}
             T == Committed(d)
             f == [r \in Requests |-> payout[r].amount * Cardinality(
                     {p \in Providers : transfer[r][p] \in {"paid", "reversed"}})]
             g == [r \in Requests |-> payout[r].amount]
  <2>1. PaidOut(S) = SumOver(f, S) /\ SumOver(g, T) <= earned[d] /\ earned[d] \in Nat
    BY DEF PaidOut, Budget, Amount, IInv, TypeOK
  <2>2. \A r \in T : g[r] \in Nat
    BY DEF Committed, Mine, IInv, TypeOK, Payout
  <2>3. IsFiniteSet(T)
    <3>1. T \subseteq {r \in Requests : payout[r].status # None}
      BY DEF Committed, Mine, LocksMoney, Open, None
    <3> QED BY <3>1, FS_Subset DEF Budget
  <2>4. ASSUME NEW r \in S PROVE f[r] \in Nat /\ (f[r] # 0 => r \in T /\ f[r] <= g[r])
    <3> DEFINE n == payout[r].amount
               k == Cardinality({p \in Providers : transfer[r][p] \in {"paid", "reversed"}})
    <3>1. r \in Requests /\ r \in Mine(d) /\ Unreversed(r) /\ n \in Nat
      BY DEF Mine, IInv, TypeOK, Payout
    <3>2. k = 0 \/ (k = 1 /\ LocksMoney(r))
      BY <3>1, PaidIsCommitted, Zenon
    <3>3. f[r] = n * k /\ g[r] = n
      BY <3>1
    <3> HIDE DEF n, k, f, g
    <3>4. f[r] \in Nat /\ (f[r] # 0 => LocksMoney(r) /\ f[r] <= g[r])
      BY <3>1, <3>2, <3>3
    <3> QED BY <3>1, <3>4 DEF Committed
  <2> HIDE DEF f, g, S, T
  <2>5. SumOver(f, S) \in Nat /\ SumOver(f, S) <= SumOver(g, T)
    BY <2>2, <2>3, <2>4, SumGrows
  <2>6. SumOver(g, T) \in Nat
    BY <2>2, <2>3, SumIsNat
  <2> QED BY <2>1, <2>5, <2>6 DEF S
<1>2. IInv /\ Budget /\ [Next]_vars => IInv' /\ Budget'
  BY NextInv, NextBudget DEF IInv
<1>3. Init => IInv /\ Budget
  BY InitInv, InitBudget
<1> QED BY <1>1, <1>2, <1>3, PTL DEF Spec

----------------------------------------------------------------------------
(* Driver payouts implement the payout contract.                           *)

PhaseMap == [r \in Requests |-> Phase(payout[r])]
MoneyMap == [r \in Requests |-> Money(transfer[r])]

\* One payout changes phase, no other does.
LEMMA PhaseStep ==
  ASSUME NEW r \in Requests, NEW to,
         \A q \in Requests : q # r => payout'[q] = payout[q],
         Phase(payout'[r]) = to
  PROVE  PhaseMap' = [PhaseMap EXCEPT ![r] = to]
<1>1. \A q \in Requests :
        PhaseMap'[q] = IF q = r THEN to ELSE PhaseMap[q]
  BY DEF PhaseMap
<1>2. PhaseMap' = [q \in Requests |-> IF q = r THEN to ELSE PhaseMap[q]]
  BY <1>1 DEF PhaseMap
<1> QED BY <1>2 DEF PhaseMap

\* One payout's transfer moves, no other does.
LEMMA MoneyStep ==
  ASSUME NEW r \in Requests, NEW to,
         \A q \in Requests : q # r => transfer'[q] = transfer[q],
         Money(transfer'[r]) = to
  PROVE  MoneyMap' = [MoneyMap EXCEPT ![r] = to]
<1>1. \A q \in Requests :
        MoneyMap'[q] = IF q = r THEN to ELSE MoneyMap[q]
  BY DEF MoneyMap
<1>2. MoneyMap' = [q \in Requests |-> IF q = r THEN to ELSE MoneyMap[q]]
  BY <1>1 DEF MoneyMap
<1> QED BY <1>2 DEF MoneyMap

\* What the gateway does is the contract's Send or Decide, or not seen by it.
LEMMA GatewayRefines ==
  ASSUME IInv, GatewayStep, payout' = payout
  PROVE  \/ \E r \in Requests : Contract!Send(r) \/ Contract!Decide(r)
         \/ UNCHANGED <<PhaseMap, MoneyMap>>
<1>1. PhaseMap' = PhaseMap
  BY DEF PhaseMap
<1>2. CASE UNCHANGED transfer
  BY <1>1, <1>2 DEF MoneyMap
<1>3. ASSUME NEW r \in Requests,
             \A q \in Requests : q # r => transfer'[q] = transfer[q],
             submit[r].pc = "attempt", Money(transfer[r]) = "missing",
             Money(transfer'[r]) \in {"missing", "sent"}
      PROVE  Contract!Send(r) \/ UNCHANGED <<PhaseMap, MoneyMap>>
  <2>1. Phase(payout[r]) = "held"
    <3>1. \A p \in Providers : transfer[r][p] = "missing"
      BY <1>3 DEF IInv, GatewayInv, SubmissionInv
    <3>2. payout[r].status \in Open
      BY <1>3, <3>1 DEF IInv, PayoutInv, Received, TypeOK, Payout, Statuses, Terminal
    <3> QED BY <3>2 DEF Phase, Open, Refused, None
  <2>2. MoneyMap' = [MoneyMap EXCEPT ![r] = Money(transfer'[r])]
    BY <1>3, MoneyStep
  <2>3. CASE Money(transfer'[r]) = "missing"
    BY <1>1, <1>3, <2>2, <2>3 DEF MoneyMap
  <2>4. CASE Money(transfer'[r]) = "sent"
    BY <1>1, <1>3, <2>1, <2>2, <2>4
       DEF Contract!Send, Contract!Money, PhaseMap, MoneyMap
  <2> QED BY <1>3, <2>3, <2>4
<1>4. ASSUME NEW r \in Requests, NEW v,
             \A q \in Requests : q # r => transfer'[q] = transfer[q],
             Money(transfer'[r]) = v,
             \/ Money(transfer[r]) = "sent" /\ v \in {"paid", "refused"}
             \/ Money(transfer[r]) = "refused" /\ v = "reversed"
      PROVE  Contract!Decide(r)
  <2>1. MoneyMap' = [MoneyMap EXCEPT ![r] = v]
    BY <1>4, MoneyStep
  <2> QED BY <1>1, <1>4, <2>1
             DEF Contract!Decide, Contract!Money, PhaseMap, MoneyMap
<1> QED BY <1>2, <1>3, <1>4, MoneyMoves DEF IInv

\* A payout that holds its money gives it back when none of it left.
LEMMA ReturnRefines ==
  ASSUME IInv, NEW r \in Requests, transfer' = transfer,
         \A q \in Requests : q # r => payout'[q] = payout[q],
         payout[r].status \in Open, payout'[r].status \in Refused,
         Money(transfer[r]) \in NotPaid
  PROVE  Contract!Return(r)
<1>1. Phase(payout[r]) = "held" /\ Phase(payout'[r]) = "returned"
  BY DEF Phase, Open, Refused, None
<1>2. PhaseMap' = [PhaseMap EXCEPT ![r] = "returned"]
  BY <1>1, PhaseStep
<1> QED BY <1>1, <1>2 DEF Contract!Return, Contract!Phase, PhaseMap, MoneyMap, NotPaid

\* A change of a row that keeps its phase is not seen by the contract.
LEMMA SamePhase ==
  ASSUME NEW r \in Requests, transfer' = transfer,
         \A q \in Requests : q # r => payout'[q] = payout[q],
         Phase(payout'[r]) = Phase(payout[r])
  PROVE  UNCHANGED <<PhaseMap, MoneyMap>>
<1>1. PhaseMap' = [PhaseMap EXCEPT ![r] = Phase(payout[r])]
  BY PhaseStep
<1> QED BY <1>1 DEF PhaseMap, MoneyMap

\* Applying a payment is the contract's Pay, Return or Review, or changes no
\* phase.
LEMMA ApplyRefines ==
  ASSUME IInv, NEW r \in Requests, Apply(r)
  PROVE  \/ Contract!Pay(r) \/ Contract!Return(r) \/ Contract!Review(r)
         \/ UNCHANGED <<PhaseMap, MoneyMap>>
<1> DEFINE w == payout[r]
           v == payout'[r]
           s == payment[r].status
           fate == transfer[r][payment[r].provider]
<1>1. /\ transfer' = transfer /\ MoneyMap' = MoneyMap
      /\ v = Applied(w, s) /\ w.status # None
      /\ \A q \in Requests : q # r => payout'[q] = payout[q]
  BY DEF Apply, gatewayVars, MoneyMap, IInv, TypeOK
<1>2. /\ w \in Payout /\ s \in Statuses
      /\ payment[r] # NoPayment /\ payment[r].provider \in Providers
      /\ PayoutInv(r) /\ PaymentInv(r) /\ Money(transfer[r]) = fate
  BY RowTyped, RowMoney DEF Apply, IInv, GatewayInv, TypeOK, GatewayTypeOK, Payment
<1>3. CASE v = w
  BY <1>1, <1>3, SamePhase
<1>4. CASE v # w
  <2>1. /\ s = "succeeded" \/ (~w.released /\ w.status # "succeeded")
        /\ v.status = s
        /\ v.released <=> (w.released \/ s \in Refused)
    BY <1>1, <1>2, <1>4, AppliedRow
  <2>2. ~w.released /\ w.status # "succeeded" => w.status \in Open
    BY <1>1, <1>2 DEF PayoutInv, Payout, Statuses, Terminal
  <2>3. CASE s = "succeeded" /\ w.status = "succeeded"
    <3>1. Phase(v) = Phase(w)
      BY <2>1, <2>3 DEF Phase, Open, Refused, None
    <3> QED BY <1>1, <3>1, SamePhase
  <2>4. CASE s = "succeeded" /\ w.status # "succeeded" /\ w.released
    <3>1. fate = "reversed" /\ w.status \in Refused
      BY <1>2, <2>4 DEF PaymentInv, PayoutInv, Received, NotPaid, Terminal
    <3>2. Phase(w) = "returned" /\ Phase(v) = "review"
      BY <2>1, <2>4, <3>1 DEF Phase, Open, Refused, None
    <3>3. PhaseMap' = [PhaseMap EXCEPT ![r] = "review"]
      BY <1>1, <3>2, PhaseStep
    <3> QED BY <1>1, <1>2, <3>1, <3>2, <3>3
               DEF Contract!Review, Contract!Phase, PhaseMap, MoneyMap
  <2>5. CASE s = "succeeded" /\ w.status # "succeeded" /\ ~w.released
    <3>1. fate \in Received
      BY <1>2, <2>5 DEF PaymentInv
    <3>2. Phase(w) = "held" /\ Phase(v) = "paid"
      BY <2>1, <2>2, <2>5 DEF Phase, Open, Refused, None
    <3>3. PhaseMap' = [PhaseMap EXCEPT ![r] = "paid"]
      BY <1>1, <3>2, PhaseStep
    <3> QED BY <1>1, <1>2, <3>1, <3>2, <3>3
               DEF Contract!Pay, Contract!Phase, PhaseMap, MoneyMap, Received
  <2>6. CASE s \in Refused
    <3>1. Money(transfer[r]) \in NotPaid /\ w.status \in Open
      BY <1>2, <2>1, <2>2, <2>6 DEF PaymentInv, Refused
    <3> QED BY <1>1, <2>1, <2>6, <3>1, ReturnRefines
  <2>7. CASE s \in Open
    <3>1. Phase(v) = "held" /\ Phase(w) = "held"
      BY <2>1, <2>2, <2>7 DEF Phase, Open, Refused, None
    <3> QED BY <1>1, <3>1, SamePhase
  <2> QED BY <1>2, <2>3, <2>4, <2>5, <2>6, <2>7 DEF Statuses, Terminal
<1> QED BY <1>3, <1>4

\* Closing a payout nothing was sent for is the contract's Return.
LEMMA UnsentRefines ==
  ASSUME IInv, NEW r \in Requests, MarkUnsent(r), UNCHANGED gatewayVars
  PROVE  Contract!Return(r) \/ UNCHANGED <<PhaseMap, MoneyMap>>
<1>1. transfer' = transfer
  BY DEF gatewayVars
<1>2. CASE payout' = payout
  BY <1>1, <1>2 DEF PhaseMap, MoneyMap
<1>3. CASE payout' # payout
  <2>1. /\ Unsent(r) /\ payout'[r].status = "failed"
        /\ \A q \in Requests : q # r => payout'[q] = payout[q]
    BY <1>3, UnsentRow DEF IInv
  <2>2. Money(transfer[r]) = "missing"
    BY <2>1 DEF Unsent, IInv, GatewayInv, SubmissionInv, Money, Providers
  <2> QED BY <1>1, <2>1, <2>2, ReturnRefines DEF Unsent, Open, Refused, NotPaid
<1> QED BY <1>2, <1>3

\* What drivers and support do is the contract's Return, or not seen by it.
LEMMA SupportRefines ==
  ASSUME IInv, NEW r \in Requests,
         RequestReview(r) \/ ResolveNotPaid(r) \/ CloseIncident(r)
  PROVE  Contract!Return(r) \/ UNCHANGED <<PhaseMap, MoneyMap>>
<1>1. /\ transfer' = transfer
      /\ \A q \in Requests : q # r => payout'[q] = payout[q]
  BY DEF RequestReview, ResolveNotPaid, CloseIncident, gatewayVars, IInv, TypeOK
<1>2. CASE RequestReview(r) \/ CloseIncident(r)
  <2>1. /\ payout'[r].status = payout[r].status
        /\ payout'[r].released = payout[r].released
    BY <1>2 DEF RequestReview, CloseIncident, IInv, TypeOK, Payout
  <2>2. Phase(payout'[r]) = Phase(payout[r])
    BY <2>1 DEF Phase
  <2> QED BY <1>1, <2>2, SamePhase
<1>3. CASE ResolveNotPaid(r)
  <2>1. payout[r].status \in Open /\ payout'[r].status = "cancelled"
    BY <1>3 DEF ResolveNotPaid, Resolvable, IInv, TypeOK, Payout
  <2>2. Money(transfer[r]) \in NotPaid
    BY <1>3 DEF ResolveNotPaid, ConfirmedNotPaid, Money, Providers, NotPaid
  <2> QED BY <1>1, <2>1, <2>2, ReturnRefines DEF Refused
<1> QED BY <1>2, <1>3

\* Reserving is the contract's Hold.
LEMMA ReserveRefines ==
  ASSUME IInv, NEW c \in Callers, NEW r \in Requests, NEW n \in Amounts,
         Reserve(c, r, n)
  PROVE  Contract!Hold(r)
<1>1. /\ payout'[r].status = "pending" /\ payout[r].status = None
      /\ \A q \in Requests : q # r => payout'[q] = payout[q]
      /\ MoneyMap' = MoneyMap
  BY DEF Reserve, Reserved, NoPayout, IInv, TypeOK, MoneyMap
<1>2. Phase(payout[r]) = "idle" /\ Phase(payout'[r]) = "held"
  BY <1>1 DEF Phase, Open, Refused, None
<1>3. PhaseMap' = [PhaseMap EXCEPT ![r] = "held"]
  BY <1>1, <1>2, PhaseStep
<1> QED BY <1>1, <1>2, <1>3 DEF Contract!Hold, Contract!Phase, PhaseMap, MoneyMap

\* No earnings are held and nothing is sent at first.
LEMMA InitRefines == Init => Contract!Init
<1> SUFFICES ASSUME Init PROVE Contract!Init
  OBVIOUS
<1>1. ASSUME NEW r \in Requests PROVE Phase(payout[r]) = "idle"
  BY DEF Init, NoPayout, Phase, Open, Refused, None
<1>2. ASSUME NEW r \in Requests PROVE Money(transfer[r]) = "missing"
  BY DEF Init, GatewayInit, Money, Providers
<1>3. PhaseMap = [r \in Requests |-> "idle"]
  BY <1>1, Zenon DEF PhaseMap
<1>4. MoneyMap = [r \in Requests |-> "missing"]
  BY <1>2, Zenon DEF MoneyMap
<1> QED BY <1>3, <1>4 DEF Contract!Init, PhaseMap, MoneyMap

\* Every step is a step of the contract or changes nothing it sees.
LEMMA NextRefines ==
  IInv /\ [Next]_vars => [Contract!Next]_(Contract!contractVars)
<1> SUFFICES ASSUME IInv, [Next]_vars
             PROVE  Contract!Next \/ UNCHANGED <<PhaseMap, MoneyMap>>
  BY DEF Contract!contractVars, PhaseMap, MoneyMap
<1>1. ASSUME GatewayStep, payout' = payout
      PROVE  Contract!Next \/ UNCHANGED <<PhaseMap, MoneyMap>>
  BY <1>1, GatewayRefines DEF Contract!Next
<1>2. CASE Gateway
  BY <1>1, <1>2, GatewaySteps DEF Gateway, payoutVars, IInv
<1>3. ASSUME NEW c \in Callers, Claim(c)
      PROVE  Contract!Next \/ UNCHANGED <<PhaseMap, MoneyMap>>
  <2>1. caller[c].req \in Requests
    BY <1>3, CallerRequest DEF Claim, IInv
  <2> QED BY <1>1, <1>3, <2>1 DEF Claim, GatewayStep, SubmitStep
<1>4. ASSUME NEW c \in Callers, NEW r \in Requests, NEW n \in Amounts, Reserve(c, r, n)
      PROVE  Contract!Next
  BY <1>4, ReserveRefines DEF Contract!Next
<1>5. ASSUME NEW r \in Requests,
             \/ Apply(r) \/ RequestReview(r) \/ ResolveNotPaid(r) \/ CloseIncident(r)
             \/ MarkUnsent(r) /\ UNCHANGED gatewayVars
      PROVE  Contract!Next \/ UNCHANGED <<PhaseMap, MoneyMap>>
  BY <1>5, ApplyRefines, SupportRefines, UnsentRefines DEF Contract!Next
<1>6. ASSUME NEW c \in Callers, SendFailed(c)
      PROVE  Contract!Next \/ UNCHANGED <<PhaseMap, MoneyMap>>
  <2>1. caller[c].req \in Requests
    BY <1>6, CallerRequest DEF SendFailed, IInv
  <2> QED BY <1>5, <1>6, <2>1 DEF SendFailed
<1>7. CASE UNCHANGED <<gatewayVars, payout>>
  BY <1>7 DEF gatewayVars, PhaseMap, MoneyMap
<1> QED BY <1>2, <1>3, <1>4, <1>5, <1>6, <1>7
           DEF Next, ReleaseOrphan, Retry, ClaimFails, CallerEnds, Earn, vars, payoutVars

\* Driver payouts, with retries of the same key, refused claims, releases by
\* support and late successes, do nothing the payout contract does not allow.
THEOREM Refinement == Spec => RefinesContract
  BY InitRefines, NextRefines, Invariance, PTL
     DEF Spec, RefinesContract, Contract!Spec
=============================================================================
