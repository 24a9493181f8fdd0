------------------------ MODULE PayoutGateway_proofs -----------------------
(***************************************************************************)
(* What the owners of the money may rely on, whoever they are, for every   *)
(* set of requests and checkers and every provider order: GatewayInv is    *)
(* inductive, and a step of the gateway moves the money of one request as  *)
(* the payout contract lets it.                                            *)
(***************************************************************************)
EXTENDS PayoutGateway, Sums, FiniteSetTheorems, SequenceTheorems, TLAPS

----------------------------------------------------------------------------
(* Types.                                                                  *)

\* A provider order has a first provider, tried first.
LEMMA RouteHead ==
  ASSUME NEW route \in Routes
  PROVE  Head(route) \in Providers /\ Tail(route) \in Seq(Providers)
  BY RoutesAssumption, HeadTailProperties

\* A commit writes a row its columns allow, or none.
LEMMA CommitTyped ==
  ASSUME NEW cur \in Payment \cup {NoPayment}, NEW new,
         new.status \in Statuses, new.order \in Providers \cup {None}
  PROVE  Commit(cur, new) \in Payment \cup {NoPayment}
<1>1. Commit(cur, new) \in
        {cur, [cur EXCEPT !.status = new.status,
                          !.order = IF new.order = None THEN @ ELSE new.order],
         [cur EXCEPT !.status = new.status]}
  BY DEF Commit, CommitFlexPay, CommitPawaPay
<1>2. CASE cur \in Payment
  BY <1>1, <1>2 DEF Payment
<1>3. CASE cur = NoPayment
  BY <1>3 DEF Commit, CommitFlexPay, CommitPawaPay, FlexPayKeeps, PawaPayKeeps,
              NoPayment, None
<1> QED BY <1>2, <1>3

\* What an answer asks of the row concerns the provider that was asked.
LEMMA CheckedTyped ==
  ASSUME NEW seen \in Payment, NEW view, NEW new \in CheckedStates(seen, view)
  PROVE  /\ new \in Payment
         /\ new.provider = seen.provider
<1>1. \/ new = seen
      \/ \E st \in Statuses : new = [seen EXCEPT !.status = st, !.order = seen.provider]
  BY DEF CheckedStates, Statuses, Terminal, Refused, Open, Payment
<1> QED BY <1>1 DEF Payment

\* The payment rows, submissions and checks keep their types.
LEMMA GatewayTyped == GatewayTypeOK /\ [GatewayStep]_gatewayVars => GatewayTypeOK'
<1> SUFFICES ASSUME GatewayTypeOK, [GatewayStep]_gatewayVars PROVE GatewayTypeOK'
  OBVIOUS
<1> USE DEF GatewayTypeOK
<1>1. ASSUME NEW r \in Requests, OpenPayment(r) PROVE GatewayTypeOK'
  <2>1. PICK route \in Routes :
          /\ payment' = [payment EXCEPT ![r] =
               [status |-> "pending", provider |-> Head(route), order |-> None]]
          /\ submit' = [submit EXCEPT ![r] =
               [pc |-> "attempt", rest |-> Tail(route), answer |-> None]]
    BY <1>1 DEF OpenPayment
  <2>2. [status |-> "pending", provider |-> Head(route), order |-> None] \in Payment
    BY RouteHead DEF Payment, Statuses, Open
  <2>3. [pc |-> "attempt", rest |-> Tail(route), answer |-> None] \in Submission
    BY RouteHead DEF Submission
  <2> QED BY <1>1, <2>1, <2>2, <2>3 DEF OpenPayment
<1>2. ASSUME NEW r \in Requests, InitiationFails(r) PROVE GatewayTypeOK'
  BY <1>2 DEF InitiationFails, Submission
<1>3. ASSUME NEW r \in Requests, AssignOrder(r) PROVE GatewayTypeOK'
  <2>1. payment[r] \in Payment
    BY <1>3 DEF AssignOrder, NoPayment, None
  <2>2. [payment[r] EXCEPT !.order = "pawapay"] \in Payment
    BY <2>1 DEF Payment, Providers
  <2> QED BY <1>3, <2>2 DEF AssignOrder
<1>4. ASSUME NEW r \in Requests, Post(r) PROVE GatewayTypeOK'
  <2> DEFINE p == payment[r].provider
  <2>1. PICK out \in PostOutcomes(p) :
          /\ submit' = [submit EXCEPT ![r].pc = "answered", ![r].answer = out[1]]
          /\ transfer' = [transfer EXCEPT ![r][p] = out[2]]
    BY <1>4 DEF Post
  <2>2. out[1] \in Answers /\ out[2] \in Fates
    BY DEF PostOutcomes, Answers, Fates
  <2>3. submit' \in [Requests -> Submission]
    BY <2>1, <2>2 DEF Submission
  <2>4. transfer' \in [Requests -> [Providers -> Fates]]
    BY <2>1, <2>2
  <2> QED BY <1>4, <2>3, <2>4 DEF Post
<1>5. ASSUME NEW r \in Requests, Failover(r) PROVE GatewayTypeOK'
  <2>1. submit[r].rest \in Seq(Providers) /\ submit[r].rest # <<>>
    BY <1>5 DEF Failover, CanFailover, Submission
  <2>2. Head(submit[r].rest) \in Providers /\ Tail(submit[r].rest) \in Seq(Providers)
    BY <2>1, HeadTailProperties
  <2>3. [status |-> "pending", provider |-> Head(submit[r].rest), order |-> None]
          \in Payment
    BY <2>2 DEF Payment, Statuses, Open
  <2>4. [pc |-> "attempt", rest |-> Tail(submit[r].rest), answer |-> None]
          \in Submission
    BY <2>2 DEF Submission
  <2> QED BY <1>5, <2>3, <2>4 DEF Failover
<1>6. ASSUME NEW r \in Requests, CommitAnswer(r) PROVE GatewayTypeOK'
  <2> DEFINE p == payment[r].provider
             a == submit[r].answer
             new == [status |-> AnswerStatus(a), provider |-> p,
                     order |-> AnswerOrder(p, a)]
  <2>1. payment[r] \in Payment \cup {NoPayment}
    OBVIOUS
  <2>2. AnswerStatus(a) \in Statuses
    BY DEF AnswerStatus, Statuses, Open, Terminal, Refused
  <2>3. AnswerOrder(p, a) \in Providers \cup {None} /\ p \in Providers \cup {None}
    BY <2>1 DEF AnswerOrder, Payment, NoPayment
  <2>5. Commit(payment[r], new) \in Payment \cup {NoPayment}
    BY <2>1, <2>2, <2>3, CommitTyped
  <2>6. payment' \in [Requests -> Payment \cup {NoPayment}]
    BY <1>6, <2>5 DEF CommitAnswer
  <2>7. submit' \in [Requests -> Submission]
    BY <1>6 DEF CommitAnswer, Submission
  <2> QED BY <1>6, <2>6, <2>7 DEF CommitAnswer
<1>7. ASSUME NEW r \in Requests, CrashSubmit(r) PROVE GatewayTypeOK'
  BY <1>7 DEF CrashSubmit, Submission
<1>8. ASSUME NEW r \in Requests, NEW p \in Providers, ProviderDecides(r, p)
      PROVE GatewayTypeOK'
  <2>1. PICK v \in Fates : transfer' = [transfer EXCEPT ![r][p] = v]
    BY <1>8 DEF ProviderDecides, Fates
  <2> QED BY <1>8, <2>1 DEF ProviderDecides
<1>9. ASSUME NEW c \in Checkers, NEW r \in Requests, Poll(c, r) \/ Notify(c, r)
      PROVE GatewayTypeOK'
  <2>1. payment[r] \in Payment
    BY <1>9 DEF Poll, Notify, NoPayment, Open, None
  <2> QED BY <1>9, <2>1 DEF Poll, Notify, Ask, Check
<1>10. ASSUME NEW c \in Checkers, ProviderAnswers(c) PROVE GatewayTypeOK'
  <2>1. check[c] \in Check
    BY <1>10 DEF ProviderAnswers, NoCheck, None
  <2>2. check[c].seen.provider \in Providers /\ check[c].req \in Requests
    BY <2>1 DEF Check, Payment
  <2>3. transfer[check[c].req][check[c].seen.provider] \in Fates
    BY <2>2
  <2>4. PICK v : /\ v \in {View(transfer[check[c].req][check[c].seen.provider]), "missing"}
                 /\ check' = [check EXCEPT ![c].view = v]
    BY <1>10 DEF ProviderAnswers
  <2>5. v \in Views
    BY <2>3, <2>4 DEF View, Fates, Views
  <2>6. [check[c] EXCEPT !.view = v] \in Check
    BY <2>1, <2>5 DEF Check
  <2> QED BY <1>10, <2>4, <2>6 DEF ProviderAnswers
<1>11. ASSUME NEW c \in Checkers, CommitCheck(c) PROVE GatewayTypeOK'
  <2>1. check[c] \in Check
    BY <1>11 DEF CommitCheck, NoCheck, None, Views
  <2>2. check[c].seen \in Payment /\ check[c].req \in Requests
    BY <2>1 DEF Check
  <2>3. PICK new \in CheckedStates(check[c].seen, check[c].view) :
          payment' = [payment EXCEPT ![check[c].req] = Commit(@, new)]
    BY <1>11 DEF CommitCheck
  <2>4. Commit(payment[check[c].req], new) \in Payment \cup {NoPayment}
    <3>1. new \in Payment
      BY <2>2, <2>3, CheckedTyped
    <3>2. new.status \in Statuses /\ new.order \in Providers \cup {None}
      BY <3>1 DEF Payment
    <3> QED BY <2>2, <3>2, CommitTyped
  <2> QED BY <1>11, <2>2, <2>3, <2>4 DEF CommitCheck
<1>12. ASSUME NEW c \in Checkers, DropCheck(c) PROVE GatewayTypeOK'
  BY <1>12 DEF DropCheck
<1>13. CASE UNCHANGED gatewayVars
  BY <1>13 DEF gatewayVars
<1> QED
  BY <1>1, <1>2, <1>3, <1>4, <1>5, <1>6, <1>7, <1>8, <1>9, <1>10, <1>11, <1>12,
     <1>13 DEF GatewayStep, SubmitStep, CheckStep, Poll, Notify

\* A check in flight or not, in the form the steps below use.
LEMMA CheckCases ==
  ASSUME GatewayTypeOK, NEW d \in Checkers
  PROVE  check[d] = NoCheck \/ (/\ check[d] \in Check
                                /\ check[d].req \in Requests
                                /\ check[d].seen \in Payment
                                /\ check[d].seen.provider \in Providers)
  BY DEF GatewayTypeOK, Check, Payment

\* A row that exists has one of the two providers.
LEMMA RowTyped ==
  ASSUME GatewayTypeOK, NEW q \in Requests, payment[q] # NoPayment
  PROVE  /\ payment[q] \in Payment
         /\ payment[q].provider \in Providers
         /\ transfer[q][payment[q].provider] \in Fates
  BY DEF GatewayTypeOK, Payment

----------------------------------------------------------------------------
(* The inductive invariant.  One lemma per action; each has one step per   *)
(* part of the invariant, for an arbitrary request q or checker d.         *)

\* Committing an answer never reopens a final row, moves it to another
\* provider or creates one.
LEMMA CommitKeeps ==
  ASSUME NEW cur \in Payment, NEW new, new.provider \in Providers
  PROVE  /\ Commit(cur, new).provider = cur.provider
         /\ cur.status \in Terminal => Commit(cur, new).status \in Terminal
         /\ Commit(cur, new).status \in {cur.status, new.status}
         /\ cur.provider # new.provider => Commit(cur, new) = cur
         /\ cur.status = "succeeded" => Commit(cur, new).status = "succeeded"
         /\ cur.status \in Refused /\ new.status # "succeeded"
              => Commit(cur, new).status = cur.status
<1>1. CASE new.provider = "pawapay"
  BY <1>1 DEF Commit, CommitPawaPay, PawaPayKeeps, Payment, Terminal, Refused
<1>2. CASE new.provider # "pawapay"
  BY <1>2 DEF Commit, CommitFlexPay, FlexPayKeeps, Payment, Terminal, Refused,
              Providers
<1> QED BY <1>1, <1>2

\* A commit creates no row.
LEMMA CommitNothing ==
  ASSUME NEW new PROVE Commit(NoPayment, new) = NoPayment
  BY DEF Commit, CommitPawaPay, CommitFlexPay, PawaPayKeeps, FlexPayKeeps,
         NoPayment, None

\* The row is created before anything is sent.
LEMMA OpenPaymentInv ==
  ASSUME GatewayInv, GatewayTypeOK', NEW r \in Requests, OpenPayment(r)
  PROVE  GatewayInv'
<1>1. PICK route \in Routes :
        /\ payment' = [payment EXCEPT ![r] =
             [status |-> "pending", provider |-> Head(route), order |-> None]]
        /\ submit' = [submit EXCEPT ![r] =
             [pc |-> "attempt", rest |-> Tail(route), answer |-> None]]
  BY DEF OpenPayment
<1>2. GatewayTypeOK /\ payment' \in [Requests -> Payment \cup {NoPayment}]
  BY DEF GatewayInv, GatewayTypeOK
<1>3. payment'[r].status = "pending" /\ payment'[r] # NoPayment
  BY <1>1, <1>2 DEF GatewayTypeOK, NoPayment, None
<1>4. \A p \in Providers : transfer[r][p] = "missing"
  BY DEF GatewayInv, SubmissionInv, OpenPayment
<1>5. submit'[r].pc = "attempt" /\ submit[r].pc = "claim"
  BY <1>1, <1>2 DEF GatewayTypeOK, OpenPayment
<1>6. \A q \in Requests : q # r => payment'[q] = payment[q] /\ submit'[q] = submit[q]
  BY <1>1, <1>2 DEF GatewayTypeOK
<1>7. UNCHANGED <<transfer, check>>
  BY DEF OpenPayment
<1>8. ASSUME NEW q \in Requests PROVE SubmissionInv(q)'
  BY <1>3, <1>4, <1>5, <1>6, <1>7 DEF GatewayInv, SubmissionInv
<1>9. ASSUME NEW q \in Requests PROVE PaymentInv(q)'
  BY <1>3, <1>6, <1>7 DEF GatewayInv, PaymentInv, Refused
<1>10. ASSUME NEW d \in Checkers PROVE CheckInv(d)'
  <2>1. payment[r] = NoPayment
    BY DEF GatewayInv, SubmissionInv, OpenPayment
  <2>2. CheckInv(d)
    BY DEF GatewayInv
  <2> QED BY <1>5, <1>6, <1>7, <2>1, <2>2, <1>2, CheckCases DEF CheckInv
<1> QED BY <1>8, <1>9, <1>10 DEF GatewayInv

\* Steps of the submitting request that only move its program counter forward.
LEMMA SubmitOnlyInv ==
  ASSUME GatewayInv, GatewayTypeOK', NEW r \in Requests, InitiationFails(r) \/ CrashSubmit(r)
  PROVE  GatewayInv'
<1>1. PICK pc \in {"unsent", "done"} :
        /\ submit' = [submit EXCEPT ![r].pc = pc]
        /\ pc = "unsent" => submit[r].pc = "claim"
        /\ submit[r].pc \in {"claim", "attempt", "answered", "unsent"}
  BY DEF InitiationFails, CrashSubmit
<1>2. /\ submit'[r].pc = pc /\ submit'[r].answer = submit[r].answer
      /\ \A q \in Requests : q # r => submit'[q] = submit[q]
  BY <1>1 DEF GatewayInv, GatewayTypeOK, Submission
<1>3. UNCHANGED <<payment, transfer, check>>
  BY DEF InitiationFails, CrashSubmit
<1>4. ASSUME NEW q \in Requests PROVE SubmissionInv(q)'
  BY <1>1, <1>2, <1>3 DEF GatewayInv, SubmissionInv
<1>5. ASSUME NEW q \in Requests PROVE PaymentInv(q)'
  BY <1>1, <1>2, <1>3 DEF GatewayInv, SubmissionInv, PaymentInv
<1>6. ASSUME NEW d \in Checkers PROVE CheckInv(d)'
  <2>1. CheckInv(d) /\ \A q \in Requests : SubmissionInv(q)
    BY DEF GatewayInv
  <2> QED BY <1>1, <1>2, <1>3, <2>1, CheckCases DEF GatewayInv, CheckInv, SubmissionInv
<1> QED BY <1>4, <1>5, <1>6 DEF GatewayInv

\* Saving our PawaPay id decides nothing.
LEMMA AssignOrderInv ==
  ASSUME GatewayInv, GatewayTypeOK', NEW r \in Requests, AssignOrder(r)
  PROVE  GatewayInv'
<1>1. payment[r] # NoPayment
  BY DEF GatewayInv, SubmissionInv, AssignOrder
<1>2. /\ payment'[r].status = payment[r].status
      /\ payment'[r].provider = payment[r].provider
      /\ payment'[r] # NoPayment
      /\ \A q \in Requests : q # r => payment'[q] = payment[q]
  BY <1>1, RowTyped DEF GatewayInv, GatewayTypeOK, AssignOrder, Payment,
                        NoPayment, None, Providers
<1>3. UNCHANGED <<submit, transfer, check>>
  BY DEF AssignOrder
<1>4. submit[r].pc = "attempt"
  BY DEF AssignOrder
<1>5. ASSUME NEW q \in Requests PROVE SubmissionInv(q)'
  BY <1>1, <1>2, <1>3, <1>4 DEF GatewayInv, SubmissionInv
<1>6. ASSUME NEW q \in Requests PROVE PaymentInv(q)'
  BY <1>1, <1>2, <1>3 DEF GatewayInv, PaymentInv
<1>7. ASSUME NEW d \in Checkers PROVE CheckInv(d)'
  BY <1>1, <1>2, <1>3, CheckCases DEF GatewayInv, CheckInv
<1> QED BY <1>5, <1>6, <1>7 DEF GatewayInv

\* The POST creates at most the row's own transfer.
LEMMA PostInv ==
  ASSUME GatewayInv, GatewayTypeOK', NEW r \in Requests, Post(r)
  PROVE  GatewayInv'
<1> DEFINE p == payment[r].provider
<1>1. /\ payment[r] # NoPayment /\ submit[r].pc = "attempt"
      /\ \A x \in Providers : transfer[r][x] = "missing"
  BY DEF GatewayInv, SubmissionInv, Post
<1>2. p \in Providers
  BY <1>1, RowTyped DEF GatewayInv
<1>3. PICK out \in PostOutcomes(p) :
        /\ submit' = [submit EXCEPT ![r].pc = "answered", ![r].answer = out[1]]
        /\ transfer' = [transfer EXCEPT ![r][p] = out[2]]
  BY DEF Post
<1>4. /\ out[2] \in {"sent", "missing"}
      /\ out[2] = "sent" => out[1] \in {"accepted", "tracked", "unknown"}
  BY DEF PostOutcomes
<1>5. /\ submit'[r].pc = "answered" /\ submit'[r].answer = out[1]
      /\ \A q \in Requests : q # r => submit'[q] = submit[q]
  BY <1>3 DEF GatewayInv, GatewayTypeOK, Submission
<1>6. /\ transfer'[r][p] = out[2]
      /\ \A x \in Providers : x # p => transfer'[r][x] = "missing"
      /\ \A q \in Requests : q # r => transfer'[q] = transfer[q]
  BY <1>1, <1>2, <1>3 DEF GatewayInv, GatewayTypeOK
<1>7. UNCHANGED <<payment, check>>
  BY DEF Post
<1>8. payment[r].status \notin {"succeeded"} \cup Refused
  BY <1>1, <1>2 DEF GatewayInv, PaymentInv, Received
<1> HIDE DEF p
<1>9. ASSUME NEW q \in Requests PROVE SubmissionInv(q)'
  <2>1. CASE q = r
    BY <1>1, <1>2, <1>4, <1>5, <1>6, <1>7, <2>1 DEF SubmissionInv, p
  <2>2. CASE q # r
    BY <1>5, <1>6, <1>7, <2>2 DEF GatewayInv, SubmissionInv
  <2> QED BY <2>1, <2>2
<1>10. ASSUME NEW q \in Requests PROVE PaymentInv(q)'
  BY <1>5, <1>6, <1>7, <1>8 DEF GatewayInv, PaymentInv
<1>11. ASSUME NEW d \in Checkers PROVE CheckInv(d)'
  <2>1. CheckInv(d)
    BY DEF GatewayInv
  <2>2. CASE check[d] = NoCheck \/ check[d].req # r
    BY <1>5, <1>6, <1>7, <2>1, <2>2, CheckCases DEF GatewayInv, CheckInv
  <2>3. CASE check[d] # NoCheck /\ check[d].req = r
    <3>1. transfer[r][check[d].seen.provider] = "missing"
      BY <1>1, <2>3, CheckCases DEF GatewayInv
    <3>2. /\ check[d].view \notin {"refused", "paid", "sent"}
          /\ check[d].seen.status \notin {"succeeded"} \cup Refused
      BY <1>1, <2>1, <2>3, <3>1 DEF CheckInv, Received
    <3> QED BY <1>7, <2>3, <3>2 DEF CheckInv
  <2> QED BY <2>2, <2>3
<1> QED BY <1>9, <1>10, <1>11 DEF GatewayInv

\* The next provider is tried only when the last one certainly has nothing.
LEMMA FailoverInv ==
  ASSUME GatewayInv, GatewayTypeOK', NEW r \in Requests, Failover(r)
  PROVE  GatewayInv'
<1>1. /\ payment[r] # NoPayment /\ submit[r].pc = "answered"
      /\ submit[r].answer = "retryable"
      /\ \A p \in Providers : transfer[r][p] = "missing"
  BY DEF GatewayInv, SubmissionInv, Failover, CanFailover
<1>2. /\ payment'[r].status = "pending" /\ payment'[r] # NoPayment
      /\ \A q \in Requests : q # r => payment'[q] = payment[q]
  BY DEF GatewayInv, GatewayTypeOK, Failover, NoPayment, None
<1>3. /\ submit'[r].pc = "attempt"
      /\ \A q \in Requests : q # r => submit'[q] = submit[q]
  BY DEF GatewayInv, GatewayTypeOK, Failover
<1>4. UNCHANGED <<transfer, check>>
  BY DEF Failover
<1>5. ASSUME NEW q \in Requests PROVE SubmissionInv(q)'
  BY <1>1, <1>2, <1>3, <1>4 DEF GatewayInv, SubmissionInv
<1>6. ASSUME NEW q \in Requests PROVE PaymentInv(q)'
  BY <1>2, <1>3, <1>4 DEF GatewayInv, PaymentInv, Refused
<1>7. ASSUME NEW d \in Checkers PROVE CheckInv(d)'
  <2>1. CheckInv(d)
    BY DEF GatewayInv
  <2>2. CASE check[d] = NoCheck \/ check[d].req # r
    BY <1>2, <1>3, <1>4, <2>1, <2>2, CheckCases DEF GatewayInv, CheckInv
  <2>3. CASE check[d] # NoCheck /\ check[d].req = r
    <3>1. transfer[r][check[d].seen.provider] = "missing"
      BY <1>1, <2>3, CheckCases DEF GatewayInv
    <3>2. /\ check[d].view \notin {"refused", "paid", "sent"}
          /\ check[d].seen.status \notin {"succeeded"} \cup Refused
      BY <1>1, <2>1, <2>3, <3>1 DEF CheckInv, Received
    <3> QED BY <1>4, <2>3, <3>2 DEF CheckInv
  <2> QED BY <2>2, <2>3
<1> QED BY <1>5, <1>6, <1>7 DEF GatewayInv

\* The answer of the POST fails the row only when nothing was sent.
LEMMA CommitAnswerInv ==
  ASSUME GatewayInv, GatewayTypeOK', NEW r \in Requests, CommitAnswer(r)
  PROVE  GatewayInv'
<1> DEFINE p == payment[r].provider
           a == submit[r].answer
           new == [status |-> AnswerStatus(a), provider |-> p,
                   order |-> AnswerOrder(p, a)]
<1>1. /\ payment[r] # NoPayment /\ submit[r].pc = "answered"
      /\ payment[r] \in Payment /\ p \in Providers
  BY RowTyped DEF GatewayInv, SubmissionInv, CommitAnswer
<1>2. /\ payment'[r] = Commit(payment[r], new)
      /\ \A q \in Requests : q # r => payment'[q] = payment[q]
  BY DEF GatewayInv, GatewayTypeOK, CommitAnswer
<1>3. /\ payment'[r].provider = p
      /\ payment[r].status \in Terminal => payment'[r].status \in Terminal
      /\ payment'[r].status \in {payment[r].status, AnswerStatus(a)}
      /\ payment'[r] # NoPayment
  BY <1>1, <1>2, CommitKeeps DEF NoPayment, None, Providers
<1>4. AnswerStatus(a) \in {"pending", "initiated", "failed"}
  BY DEF AnswerStatus
<1>5. AnswerStatus(a) = "failed" => transfer[r][p] = "missing"
  <2>1. AnswerStatus(a) = "failed" => a \in {"rejected", "retryable", None}
    BY DEF AnswerStatus, GatewayInv, GatewayTypeOK, Submission, Answers
  <2>2. SubmissionInv(r)
    BY DEF GatewayInv
  <2>3. transfer[r][p] # "missing" => a \in {"accepted", "tracked", "unknown"}
    BY <1>1, <2>2 DEF SubmissionInv
  <2> QED BY <2>1, <2>3 DEF None
<1>6. /\ submit'[r].pc = "done" /\ submit'[r].answer = a
      /\ \A q \in Requests : q # r => submit'[q] = submit[q]
  BY DEF GatewayInv, GatewayTypeOK, Submission, CommitAnswer
<1>7. UNCHANGED <<transfer, check>>
  BY DEF CommitAnswer
<1> HIDE DEF p, a, new
<1>8. ASSUME NEW q \in Requests PROVE SubmissionInv(q)'
  <2>1. CASE q = r
    BY <1>1, <1>3, <1>6, <1>7, <2>1 DEF GatewayInv, SubmissionInv, p, a
  <2>2. CASE q # r
    BY <1>2, <1>6, <1>7, <2>2 DEF GatewayInv, SubmissionInv
  <2> QED BY <2>1, <2>2
<1>9. ASSUME NEW q \in Requests PROVE PaymentInv(q)'
  <2>1. CASE q = r
    BY <1>1, <1>3, <1>4, <1>5, <1>6, <1>7, <2>1
       DEF GatewayInv, PaymentInv, Refused, NotPaid, p
  <2>2. CASE q # r
    BY <1>2, <1>6, <1>7, <2>2 DEF GatewayInv, PaymentInv
  <2> QED BY <2>1, <2>2
<1>10. ASSUME NEW d \in Checkers PROVE CheckInv(d)'
  <2>1. CheckInv(d)
    BY DEF GatewayInv
  <2>2. CASE check[d] = NoCheck \/ check[d].req # r
    BY <1>2, <1>6, <1>7, <2>1, <2>2, CheckCases DEF GatewayInv, CheckInv
  <2>3. CASE check[d] # NoCheck /\ check[d].req = r
    BY <1>1, <1>3, <1>6, <1>7, <2>1, <2>3 DEF CheckInv, p
  <2> QED BY <2>2, <2>3
<1> QED BY <1>8, <1>9, <1>10 DEF GatewayInv

\* A decision of the provider contradicts no row and no check.
LEMMA ProviderDecidesInv ==
  ASSUME GatewayInv, GatewayTypeOK', NEW r \in Requests, NEW p \in Providers,
         ProviderDecides(r, p)
  PROVE  GatewayInv'
<1>1. PICK v \in {"paid", "refused", "reversed"} :
        /\ transfer' = [transfer EXCEPT ![r][p] = v]
        /\ \/ transfer[r][p] = "sent" /\ v # "reversed"
           \/ transfer[r][p] = "refused" /\ v = "reversed"
  BY DEF ProviderDecides
<1>2. /\ transfer'[r][p] = v
      /\ \A q \in Requests, x \in Providers :
           q # r \/ x # p => transfer'[q][x] = transfer[q][x]
  BY <1>1 DEF GatewayInv, GatewayTypeOK
<1>3. UNCHANGED <<payment, submit, check>>
  BY DEF ProviderDecides
<1>4. ASSUME NEW q \in Requests PROVE SubmissionInv(q)'
  BY <1>1, <1>2, <1>3 DEF GatewayInv, SubmissionInv
<1>5. ASSUME NEW q \in Requests PROVE PaymentInv(q)'
  BY <1>1, <1>2, <1>3, RowTyped DEF GatewayInv, PaymentInv, NotPaid, Received
<1>6. ASSUME NEW d \in Checkers PROVE CheckInv(d)'
  <2>1. CheckInv(d)
    BY DEF GatewayInv
  <2> QED BY <1>1, <1>2, <1>3, <2>1, CheckCases DEF GatewayInv, CheckInv, Received
<1> QED BY <1>4, <1>5, <1>6 DEF GatewayInv

\* A new check has read the row as it is.
LEMMA AskInv ==
  ASSUME GatewayInv, GatewayTypeOK', NEW c \in Checkers, NEW r \in Requests,
         Poll(c, r) \/ Notify(c, r)
  PROVE  GatewayInv'
<1>1. payment[r] # NoPayment
  BY DEF Poll, Notify, NoPayment, Open, None
<1>2. /\ check'[c] = [req |-> r, seen |-> payment[r], view |-> "asked"]
      /\ \A d \in Checkers : d # c => check'[d] = check[d]
      /\ UNCHANGED <<payment, transfer, submit>>
  BY DEF Poll, Notify, Ask, GatewayInv, GatewayTypeOK
<1>3. ASSUME NEW q \in Requests PROVE SubmissionInv(q)' /\ PaymentInv(q)'
  BY <1>2 DEF GatewayInv, SubmissionInv, PaymentInv
<1>4. ASSUME NEW d \in Checkers PROVE CheckInv(d)'
  <2>1. CASE d = c
    <3>1. /\ check'[d].req = r /\ check'[d].seen = payment[r]
          /\ check'[d].view = "asked"
      BY <1>2, <2>1
    <3>2. PaymentInv(r)
      BY DEF GatewayInv
    <3> QED BY <1>1, <1>2, <3>1, <3>2 DEF CheckInv, PaymentInv, Terminal
  <2>2. CASE d # c
    BY <1>2, <2>2 DEF GatewayInv, CheckInv
  <2> QED BY <2>1, <2>2
<1> QED BY <1>3, <1>4 DEF GatewayInv

\* An answer is true when it is given.
LEMMA ProviderAnswersInv ==
  ASSUME GatewayInv, GatewayTypeOK', NEW c \in Checkers, ProviderAnswers(c)
  PROVE  GatewayInv'
<1> DEFINE fate == transfer[check[c].req][check[c].seen.provider]
<1>1. check[c] # NoCheck
  BY DEF ProviderAnswers, NoCheck, None
<1>2. PICK v \in {View(fate), "missing"} : check' = [check EXCEPT ![c].view = v]
  BY DEF ProviderAnswers
<1>3. /\ check[c] \in Check /\ fate \in Fates
  BY <1>1, CheckCases DEF GatewayInv, GatewayTypeOK
<1>4. /\ check'[c].view = v /\ check'[c].req = check[c].req
      /\ check'[c].seen = check[c].seen
      /\ \A d \in Checkers : d # c => check'[d] = check[d]
      /\ UNCHANGED <<payment, transfer, submit>>
  BY <1>2, <1>3 DEF ProviderAnswers, GatewayInv, GatewayTypeOK, Check
<1>5. /\ v = "refused" => fate = "refused"
      /\ v = "paid" => fate \in Received
      /\ v = "sent" => fate # "missing"
  BY <1>2 DEF View, Received
<1>6. ASSUME NEW q \in Requests PROVE SubmissionInv(q)' /\ PaymentInv(q)'
  BY <1>4 DEF GatewayInv, SubmissionInv, PaymentInv
<1>7. ASSUME NEW d \in Checkers PROVE CheckInv(d)'
  <2>1. CASE d = c
    <3>1. CheckInv(c)
      BY DEF GatewayInv
    <3> QED BY <1>1, <1>4, <1>5, <2>1, <3>1 DEF CheckInv
  <2>2. CASE d # c
    BY <1>4, <2>2 DEF GatewayInv, CheckInv
  <2> QED BY <2>1, <2>2
<1> QED BY <1>6, <1>7 DEF GatewayInv

\* An answer asks for a final status only if the provider gave it or the check
\* had read it.
LEMMA CheckedFinal ==
  ASSUME NEW seen \in Payment, NEW view \in Views, NEW new \in CheckedStates(seen, view)
  PROVE  /\ new.status = "succeeded" => view = "paid" \/ seen.status = "succeeded"
         /\ new.status \in Refused => view = "refused" \/ seen.status \in Refused
<1>1. CASE view = "paid"
  BY <1>1 DEF CheckedStates, Payment, Refused
<1>2. CASE view = "refused"
  BY <1>2 DEF CheckedStates, Payment, Refused
<1>3. CASE view \notin {"paid", "refused"}
  BY <1>3 DEF CheckedStates, Payment, Refused
<1> QED BY <1>1, <1>2, <1>3

\* The commit of a possibly stale answer: the row lock, not the answer,
\* decides what of it is kept.
LEMMA CommitCheckInv ==
  ASSUME GatewayInv, GatewayTypeOK', NEW c \in Checkers, CommitCheck(c)
  PROVE  GatewayInv'
<1> DEFINE r == check[c].req
           seen == check[c].seen
           view == check[c].view
<1>1. /\ check[c] # NoCheck /\ view \in Views
      /\ r \in Requests /\ seen \in Payment /\ seen.provider \in Providers
  BY CheckCases DEF GatewayInv, CommitCheck, NoCheck, None, Views
<1>2. PICK new \in CheckedStates(seen, view) :
        payment' = [payment EXCEPT ![r] = Commit(payment[r], new)]
  BY <1>1 DEF CommitCheck, GatewayInv, GatewayTypeOK
<1>3. /\ new.provider = seen.provider
      /\ new.status = "succeeded" => view = "paid" \/ seen.status = "succeeded"
      /\ new.status \in Refused => view = "refused" \/ seen.status \in Refused
  BY <1>1, <1>2, CheckedTyped, CheckedFinal
<1>4. /\ payment'[r] = Commit(payment[r], new)
      /\ \A q \in Requests : q # r => payment'[q] = payment[q]
  BY <1>1, <1>2 DEF GatewayInv, GatewayTypeOK
<1>5. /\ check'[c] = NoCheck /\ \A d \in Checkers : d # c => check'[d] = check[d]
      /\ UNCHANGED <<transfer, submit>>
  BY DEF CommitCheck, GatewayInv, GatewayTypeOK
<1>6. CheckInv(c) /\ PaymentInv(r)
  BY <1>1 DEF GatewayInv
<1> DEFINE fate == transfer[r][seen.provider]
<1>7. /\ new.status = "succeeded" => fate \in Received
      /\ new.status \in Refused => \/ fate \in {"refused", "reversed"}
                                   \/ seen.status \in Refused
      /\ seen.status \in Refused /\ payment[r].provider = seen.provider
           => payment[r].status \in Terminal
  BY <1>1, <1>3, <1>6 DEF CheckInv
<1>8. payment[r] = NoPayment => payment'[r] = NoPayment
  BY <1>4, CommitNothing
<1>9. payment[r] # NoPayment =>
        /\ payment'[r] # NoPayment
        /\ payment'[r].provider = payment[r].provider
        /\ payment[r].status \in Terminal => payment'[r].status \in Terminal
        /\ payment'[r].status = "succeeded" =>
             payment[r].status = "succeeded" \/ (fate \in Received
                                        /\ payment[r].provider = seen.provider)
        /\ payment'[r].status \in Refused =>
             payment[r].status \in Refused \/ (fate \in {"refused", "reversed"}
                                        /\ payment[r].provider = seen.provider)
  <2>1. SUFFICES ASSUME payment[r] # NoPayment PROVE
          /\ payment'[r] # NoPayment
          /\ payment'[r].provider = payment[r].provider
          /\ payment[r].status \in Terminal => payment'[r].status \in Terminal
          /\ payment'[r].status = "succeeded" =>
               payment[r].status = "succeeded" \/ (fate \in Received
                                          /\ payment[r].provider = seen.provider)
          /\ payment'[r].status \in Refused =>
               payment[r].status \in Refused \/ (fate \in {"refused", "reversed"}
                                          /\ payment[r].provider = seen.provider)
    OBVIOUS
  <2>2. payment[r] \in Payment /\ payment[r].provider \in Providers
    BY <1>1, <2>1, RowTyped DEF GatewayInv
  <2>3. new.provider \in Providers
    BY <1>1, <1>3
  <2> HIDE DEF r, seen, view, fate
  <2>4. /\ payment'[r].provider = payment[r].provider
        /\ payment[r].status \in Terminal => payment'[r].status \in Terminal
        /\ payment'[r].status \in {payment[r].status, new.status}
        /\ payment[r].provider # new.provider => payment'[r] = payment[r]
        /\ payment[r].status = "succeeded" => payment'[r].status = "succeeded"
    BY <1>4, <2>2, <2>3, CommitKeeps
  <2>5. payment'[r] # NoPayment
    BY <2>2, <2>4 DEF NoPayment, None, Providers
  <2> QED BY <1>3, <1>7, <2>4, <2>5 DEF Terminal, Refused
<1> HIDE DEF r, seen, view, fate
<1>10. ASSUME NEW q \in Requests PROVE SubmissionInv(q)'
  BY <1>4, <1>5, <1>8, <1>9 DEF GatewayInv, SubmissionInv
<1>11. ASSUME NEW q \in Requests PROVE PaymentInv(q)'
  <2>1. CASE q = r
    BY <1>5, <1>6, <1>8, <1>9, <2>1 DEF PaymentInv, NotPaid, fate
  <2>2. CASE q # r
    BY <1>4, <1>5, <2>2 DEF GatewayInv, PaymentInv
  <2> QED BY <2>1, <2>2
<1>12. ASSUME NEW d \in Checkers PROVE CheckInv(d)'
  <2>1. CheckInv(d)
    BY DEF GatewayInv
  <2>2. CASE d = c
    BY <1>5, <2>2 DEF CheckInv
  <2>3. CASE d # c /\ check[d].req = r
    BY <1>5, <1>9, <2>1, <2>3 DEF CheckInv
  <2>4. CASE d # c /\ check[d].req # r
    BY <1>4, <1>5, <2>1, <2>4, CheckCases DEF GatewayInv, CheckInv
  <2> QED BY <2>2, <2>3, <2>4
<1> QED BY <1>10, <1>11, <1>12 DEF GatewayInv

\* An abandoned check leaves the rows alone.
LEMMA DropCheckInv ==
  ASSUME GatewayInv, GatewayTypeOK', NEW c \in Checkers, DropCheck(c)
  PROVE  GatewayInv'
<1>1. /\ check'[c] = NoCheck /\ \A d \in Checkers : d # c => check'[d] = check[d]
      /\ UNCHANGED <<payment, transfer, submit>>
  BY DEF DropCheck, GatewayInv, GatewayTypeOK
<1>2. ASSUME NEW q \in Requests PROVE SubmissionInv(q)' /\ PaymentInv(q)'
  BY <1>1 DEF GatewayInv, SubmissionInv, PaymentInv
<1>3. ASSUME NEW d \in Checkers PROVE CheckInv(d)'
  BY <1>1 DEF GatewayInv, CheckInv
<1> QED BY <1>2, <1>3 DEF GatewayInv

\* The request moves on without a payment row: the owner reserves the money, or
\* learns that nothing was sent.
LEMMA UnpaidMoveInv ==
  ASSUME GatewayInv, GatewayTypeOK', NEW r \in Requests, payment[r] = NoPayment,
         submit'[r].pc \in {"claim", "unsent", "done"},
         \A q \in Requests : q # r => submit'[q] = submit[q],
         UNCHANGED <<payment, transfer, check>>
  PROVE  GatewayInv'
<1>1. \A p \in Providers : transfer[r][p] = "missing"
  BY DEF GatewayInv, SubmissionInv
<1>2. ASSUME NEW q \in Requests PROVE SubmissionInv(q)' /\ PaymentInv(q)'
  BY <1>1 DEF GatewayInv, SubmissionInv, PaymentInv
<1>3. ASSUME NEW d \in Checkers PROVE CheckInv(d)'
  BY CheckCases DEF GatewayInv, CheckInv
<1> QED BY <1>2, <1>3 DEF GatewayInv

\* The owner's own transactions leave the gateway alone.
LEMMA GatewayStutterInv ==
  ASSUME GatewayInv, UNCHANGED gatewayVars
  PROVE  GatewayInv'
<1>1. ASSUME NEW q \in Requests PROVE SubmissionInv(q)' /\ PaymentInv(q)'
  BY DEF GatewayInv, SubmissionInv, PaymentInv, gatewayVars
<1>2. ASSUME NEW d \in Checkers PROVE CheckInv(d)'
  BY DEF GatewayInv, CheckInv, gatewayVars
<1> QED BY <1>1, <1>2 DEF GatewayInv, GatewayTypeOK, gatewayVars

\* Nothing is opened, sent or asked at first.
LEMMA GatewayInitInv == GatewayInit => GatewayInv
<1> SUFFICES ASSUME GatewayInit PROVE GatewayInv
  OBVIOUS
<1>1. ASSUME NEW q \in Requests PROVE SubmissionInv(q) /\ PaymentInv(q)
  BY DEF GatewayInit, NotSubmitted, SubmissionInv, PaymentInv
<1>2. ASSUME NEW d \in Checkers PROVE CheckInv(d)
  BY DEF GatewayInit, CheckInv
<1>3. GatewayTypeOK
  BY DEF GatewayInit, GatewayTypeOK, NotSubmitted, Submission, Fates
<1> QED BY <1>1, <1>2, <1>3 DEF GatewayInv

\* What rows, checks and submissions know of the transfers stays true in every
\* step of the gateway.
LEMMA GatewayInductive ==
  ASSUME GatewayInv, GatewayStep
  PROVE  GatewayInv'
<1>1. GatewayTypeOK'
  BY GatewayTyped DEF GatewayInv
<1>2. ASSUME NEW r \in Requests, SubmitStep(r) PROVE GatewayInv'
  BY <1>1, <1>2, OpenPaymentInv, SubmitOnlyInv, AssignOrderInv, PostInv,
     FailoverInv, CommitAnswerInv DEF SubmitStep
<1>3. ASSUME NEW r \in Requests, NEW p \in Providers, ProviderDecides(r, p)
      PROVE GatewayInv'
  BY <1>1, <1>3, ProviderDecidesInv
<1>4. ASSUME NEW c \in Checkers, CheckStep(c) PROVE GatewayInv'
  BY <1>1, <1>4, AskInv, ProviderAnswersInv, CommitCheckInv, DropCheckInv
     DEF CheckStep
<1> QED BY <1>2, <1>3, <1>4 DEF GatewayStep

----------------------------------------------------------------------------
(* What a step of the gateway does to the money of a request.              *)

\* The transfer to p is sent by the POST of an attempt, decided by its
\* provider, or left as it is.
Moves(r, p) ==
  \/ transfer'[r][p] = transfer[r][p]
  \/ /\ transfer[r][p] = "missing" /\ transfer'[r][p] = "sent"
     /\ submit[r].pc = "attempt"
  \/ transfer[r][p] = "sent" /\ transfer'[r][p] \in {"paid", "refused"}
  \/ transfer[r][p] = "refused" /\ transfer'[r][p] = "reversed"

\* A request that has sent a transfer, or is done, sends nothing more.
Advances(r) ==
  /\ submit'[r].pc = "idle" <=> submit[r].pc = "idle"
  /\ submit[r].pc = "done" => submit'[r].pc = "done"
  /\ \/ submit[r].pc # "answered"
     \/ \A p \in Providers : transfer[r][p] = "missing"
     \/ submit'[r].pc \in {"answered", "done"}

LEMMA SubmitEffect ==
  ASSUME GatewayInv, NEW q \in Requests, SubmitStep(q), NEW r \in Requests
  PROVE  Advances(r) /\ \A p \in Providers : Moves(r, p)
<1>1. CASE Post(q)
  <2> DEFINE x == payment[q].provider
  <2>1. PICK out \in PostOutcomes(x) :
          /\ submit' = [submit EXCEPT ![q].pc = "answered", ![q].answer = out[1]]
          /\ transfer' = [transfer EXCEPT ![q][x] = out[2]]
    BY <1>1 DEF Post
  <2>2. /\ out[2] \in {"sent", "missing"} /\ submit[q].pc = "attempt"
        /\ \A p \in Providers : transfer[q][p] = "missing"
    BY <1>1 DEF PostOutcomes, Post, GatewayInv, SubmissionInv
  <2>3. \A p \in Providers : \/ transfer'[r][p] = transfer[r][p]
                             \/ q = r /\ transfer'[r][p] = out[2]
    BY <2>1 DEF GatewayInv, GatewayTypeOK
  <2>4. \/ submit'[r].pc = submit[r].pc
        \/ q = r /\ submit'[r].pc = "answered"
    BY <2>1 DEF GatewayInv, GatewayTypeOK, Submission
  <2> QED BY <2>2, <2>3, <2>4 DEF Advances, Moves
<1>2. CASE Failover(q)
  <2>1. /\ submit[q].pc = "answered"
        /\ \A p \in Providers : transfer[q][p] = "missing"
        /\ UNCHANGED transfer
    BY <1>2 DEF Failover, CanFailover, GatewayInv, SubmissionInv
  <2>2. \/ submit'[r].pc = submit[r].pc
        \/ q = r /\ submit'[r].pc = "attempt"
    BY <1>2 DEF Failover, GatewayInv, GatewayTypeOK
  <2> QED BY <2>1, <2>2 DEF Advances, Moves
<1>3. CASE OpenPayment(q) \/ InitiationFails(q)
  <2>1. submit[q].pc = "claim" /\ UNCHANGED transfer
    BY <1>3 DEF OpenPayment, InitiationFails
  <2>2. \/ submit'[r].pc = submit[r].pc
        \/ q = r /\ submit'[r].pc \in {"attempt", "unsent"}
    <3>1. CASE OpenPayment(q)
      <4>1. PICK y : submit' = [submit EXCEPT ![q] = [pc |-> "attempt", rest |-> y,
                                                      answer |-> None]]
        BY <3>1 DEF OpenPayment
      <4> QED BY <4>1 DEF GatewayInv, GatewayTypeOK
    <3>2. CASE InitiationFails(q)
      BY <3>2 DEF InitiationFails, GatewayInv, GatewayTypeOK, Submission
    <3> QED BY <1>3, <3>1, <3>2
  <2> QED BY <2>1, <2>2 DEF Advances, Moves
<1>4. CASE AssignOrder(q) \/ CommitAnswer(q) \/ CrashSubmit(q)
  <2>1. UNCHANGED transfer
    BY <1>4 DEF AssignOrder, CommitAnswer, CrashSubmit
  <2>2. \/ UNCHANGED submit
        \/ /\ submit' = [submit EXCEPT ![q].pc = "done"]
           /\ submit[q].pc # "idle"
    BY <1>4 DEF AssignOrder, CommitAnswer, CrashSubmit
  <2>3. \/ submit'[r].pc = submit[r].pc
        \/ q = r /\ submit'[r].pc = "done" /\ submit[r].pc # "idle"
    BY <2>2 DEF GatewayInv, GatewayTypeOK, Submission
  <2> QED BY <2>1, <2>3 DEF Advances, Moves
<1> QED BY <1>1, <1>2, <1>3, <1>4 DEF SubmitStep

LEMMA GatewayEffect ==
  ASSUME GatewayInv, GatewayStep, NEW r \in Requests
  PROVE  Advances(r) /\ \A p \in Providers : Moves(r, p)
<1>1. CASE \E q \in Requests : SubmitStep(q)
  BY <1>1, SubmitEffect
<1>2. CASE \E q \in Requests, x \in Providers : ProviderDecides(q, x)
  <2>1. PICK q \in Requests, x \in Providers : ProviderDecides(q, x)
    BY <1>2
  <2>2. ASSUME NEW p \in Providers PROVE Moves(r, p)
    BY <2>1 DEF ProviderDecides, Moves, GatewayInv, GatewayTypeOK
  <2> QED BY <2>1, <2>2 DEF ProviderDecides, Advances
<1>3. CASE \E c \in Checkers : CheckStep(c)
  <2>1. UNCHANGED <<transfer, submit>>
    BY <1>3 DEF CheckStep, Poll, Notify, Ask, ProviderAnswers, CommitCheck, DropCheck
  <2> QED BY <2>1 DEF Advances, Moves
<1> QED BY <1>1, <1>2, <1>3 DEF GatewayStep

\* The only transfer of r is the one Money reports.
LEMMA OnlyTransfer ==
  ASSUME GatewayInv, NEW r \in Requests, NEW p \in Providers,
         transfer[r][p] # "missing"
  PROVE  Money(transfer[r]) = transfer[r][p]
  BY DEF GatewayInv, SubmissionInv, Money, Providers

\* The provider's word about the row's own transfer is about the only one.
LEMMA RowMoney ==
  ASSUME GatewayInv, NEW r \in Requests, payment[r] # NoPayment
  PROVE  Money(transfer[r]) = transfer[r][payment[r].provider]
<1>1. payment[r].provider \in Providers
  BY RowTyped DEF GatewayInv
<1>2. \A p \in Providers : p # payment[r].provider => transfer[r][p] = "missing"
  BY DEF GatewayInv, SubmissionInv
<1> QED BY <1>1, <1>2 DEF Money, Providers

\* A step of the gateway sends, or decides, the transfer of at most one request.
LEMMA MoneyMoves ==
  ASSUME GatewayInv, GatewayStep
  PROVE  \/ UNCHANGED transfer
         \/ \E r \in Requests :
              /\ \A q \in Requests : q # r => transfer'[q] = transfer[q]
              /\ \/ /\ submit[r].pc = "attempt"
                    /\ Money(transfer[r]) = "missing"
                    /\ Money(transfer'[r]) \in {"missing", "sent"}
                 \/ /\ Money(transfer[r]) = "sent"
                    /\ Money(transfer'[r]) \in {"paid", "refused"}
                 \/ /\ Money(transfer[r]) = "refused"
                    /\ Money(transfer'[r]) = "reversed"
<1>1. ASSUME NEW r \in Requests, Post(r)
      PROVE  /\ \A q \in Requests : q # r => transfer'[q] = transfer[q]
             /\ submit[r].pc = "attempt"
             /\ Money(transfer[r]) = "missing"
             /\ Money(transfer'[r]) \in {"missing", "sent"}
  <2> DEFINE x == payment[r].provider
  <2>1. PICK out \in PostOutcomes(x) : transfer' = [transfer EXCEPT ![r][x] = out[2]]
    BY <1>1 DEF Post
  <2>2. /\ out[2] \in {"sent", "missing"} /\ submit[r].pc = "attempt"
        /\ \A p \in Providers : transfer[r][p] = "missing"
    BY <1>1 DEF PostOutcomes, Post, GatewayInv, SubmissionInv
  <2>3. /\ \A q \in Requests : q # r => transfer'[q] = transfer[q]
        /\ \A p \in Providers : transfer'[r][p] \in {"missing", out[2]}
    BY <2>1, <2>2 DEF GatewayInv, GatewayTypeOK
  <2> QED BY <2>2, <2>3 DEF Money, Providers
<1>2. ASSUME NEW r \in Requests, NEW p \in Providers, ProviderDecides(r, p)
      PROVE  /\ \A q \in Requests : q # r => transfer'[q] = transfer[q]
             /\ \/ /\ Money(transfer[r]) = "sent"
                   /\ Money(transfer'[r]) \in {"paid", "refused"}
                \/ /\ Money(transfer[r]) = "refused"
                   /\ Money(transfer'[r]) = "reversed"
  <2>1. PICK v \in {"paid", "refused", "reversed"} :
          /\ transfer' = [transfer EXCEPT ![r][p] = v]
          /\ \/ transfer[r][p] = "sent" /\ v # "reversed"
             \/ transfer[r][p] = "refused" /\ v = "reversed"
    BY <1>2 DEF ProviderDecides
  <2>2. /\ \A q \in Requests : q # r => transfer'[q] = transfer[q]
        /\ transfer'[r] = [transfer[r] EXCEPT ![p] = v]
        /\ transfer[r] \in [Providers -> Fates]
    BY <2>1 DEF GatewayInv, GatewayTypeOK
  <2>3. \A x \in Providers : x # p => transfer[r][x] = "missing"
    BY <2>1 DEF GatewayInv, SubmissionInv
  <2>4. Money(transfer[r]) = transfer[r][p]
    BY <2>1, OnlyTransfer
  <2>5. Money(transfer'[r]) = v
    BY <2>1, <2>2, <2>3 DEF Money, Providers
  <2> QED BY <2>1, <2>2, <2>4, <2>5
<1>3. CASE UNCHANGED transfer
  BY <1>3
<1> QED
  BY <1>1, <1>2, <1>3 DEF GatewayStep, SubmitStep, OpenPayment, InitiationFails,
     AssignOrder, Failover, CommitAnswer, CrashSubmit, CheckStep, Poll, Notify, Ask,
     ProviderAnswers, CommitCheck, DropCheck

----------------------------------------------------------------------------
(* The statuses of a payment.                                              *)

\* The moves of a row that its owner may build on: nothing is known of an open
\* one, a success is final and a refusal yields only to a success.
StatusMoves(old, new) ==
  \/ new = old
  \/ old = None /\ new = "pending"
  \/ old \in Open /\ new \in Statuses
  \/ old \in Refused /\ new = "succeeded"

\* A commit moves a row as its present status allows, however old the answer.
LEMMA CommitMoves ==
  ASSUME NEW cur \in Payment \cup {NoPayment}, NEW new,
         new.provider \in Providers, new.status \in Statuses
  PROVE  StatusMoves(cur.status, Commit(cur, new).status)
<1>1. CASE cur = NoPayment
  BY <1>1, CommitNothing DEF StatusMoves
<1>2. CASE cur \in Payment
  <2>1. /\ Commit(cur, new).status \in {cur.status, new.status}
        /\ cur.status = "succeeded" => Commit(cur, new).status = "succeeded"
        /\ cur.status \in Refused /\ new.status # "succeeded"
             => Commit(cur, new).status = cur.status
    BY <1>2, CommitKeeps
  <2>2. cur.status \in Open \cup Refused \cup {"succeeded"}
    BY <1>2 DEF Payment, Statuses, Terminal
  <2> QED BY <2>1, <2>2 DEF StatusMoves
<1> QED BY <1>1, <1>2

\* So does every step of the gateway: of the saves without a lock, AssignOrder
\* keeps the status, OpenPayment finds no row and Failover an open one.
LEMMA RowMoves ==
  ASSUME GatewayInv, [GatewayStep]_gatewayVars, NEW r \in Requests
  PROVE  StatusMoves(payment[r].status, payment'[r].status)
<1>1. payment \in [Requests -> Payment \cup {NoPayment}]
  BY DEF GatewayInv, GatewayTypeOK
<1>2. ASSUME NEW q \in Requests, SubmitStep(q)
      PROVE  StatusMoves(payment[r].status, payment'[r].status)
  <2>1. CASE OpenPayment(q)
    <3>1. payment[q] = NoPayment
      BY <2>1 DEF OpenPayment, GatewayInv, SubmissionInv
    <3>2. payment'[q].status = "pending" /\ \A x \in Requests : x # q => payment'[x] = payment[x]
      BY <1>1, <2>1 DEF OpenPayment
    <3> QED BY <3>1, <3>2 DEF StatusMoves, NoPayment
  <2>2. CASE AssignOrder(q)
    <3>1. payment[q] \in Payment
      BY <1>1, <2>2 DEF AssignOrder, NoPayment, None
    <3> QED BY <1>1, <2>2, <3>1 DEF AssignOrder, StatusMoves, Payment
  <2>3. CASE Failover(q)
    <3>1. payment[q] # NoPayment /\ submit[q].pc # "done" /\ submit[q].answer = "retryable"
      BY <2>3 DEF Failover, CanFailover, GatewayInv, SubmissionInv
    <3>2. payment[q] \in Payment /\ transfer[q][payment[q].provider] = "missing"
      BY <3>1, RowTyped DEF GatewayInv, SubmissionInv
    <3>3. payment[q].status \in Open
      BY <3>1, <3>2 DEF GatewayInv, PaymentInv, Received, Payment, Statuses, Terminal
    <3>4. payment'[q].status = "pending" /\ \A x \in Requests : x # q => payment'[x] = payment[x]
      BY <1>1, <2>3 DEF Failover
    <3> QED BY <3>3, <3>4 DEF StatusMoves, Statuses, Open
  <2>4. CASE CommitAnswer(q)
    <3>1. AnswerStatus(submit[q].answer) \in Statuses
      BY DEF AnswerStatus, Statuses, Open, Terminal, Refused
    <3>2. payment[q] \in Payment /\ payment[q].provider \in Providers
      BY <2>4, RowTyped DEF CommitAnswer, GatewayInv, SubmissionInv
    <3> DEFINE new == [status |-> AnswerStatus(submit[q].answer), provider |-> payment[q].provider,
                       order |-> AnswerOrder(payment[q].provider, submit[q].answer)]
    <3>3. /\ payment'[q] = Commit(payment[q], new)
          /\ \A x \in Requests : x # q => payment'[x] = payment[x]
      BY <1>1, <2>4 DEF CommitAnswer
    <3>4. new.provider \in Providers /\ new.status \in Statuses
      BY <3>1, <3>2
    <3> HIDE DEF new
    <3> QED BY <3>2, <3>3, <3>4, CommitMoves DEF StatusMoves
  <2>5. CASE InitiationFails(q) \/ Post(q) \/ CrashSubmit(q)
    BY <2>5 DEF InitiationFails, Post, CrashSubmit, StatusMoves
  <2> QED BY <1>2, <2>1, <2>2, <2>3, <2>4, <2>5 DEF SubmitStep
<1>3. ASSUME NEW c \in Checkers, CommitCheck(c)
      PROVE  StatusMoves(payment[r].status, payment'[r].status)
  <2>1. /\ check[c] \in Check /\ check[c].req \in Requests
        /\ check[c].seen \in Payment /\ check[c].seen.provider \in Providers
    BY <1>3, CheckCases DEF GatewayInv, CommitCheck, NoCheck, None, Views
  <2>2. PICK new \in CheckedStates(check[c].seen, check[c].view) :
          payment' = [payment EXCEPT ![check[c].req] = Commit(@, new)]
    BY <1>3 DEF CommitCheck
  <2>3. new.provider \in Providers /\ new.status \in Statuses
    BY <2>1, <2>2, CheckedTyped DEF Payment
  <2>4. \/ payment'[r] = payment[r]
        \/ payment'[r] = Commit(payment[r], new)
    BY <1>1, <2>1, <2>2
  <2>5. payment[r] \in Payment \cup {NoPayment}
    BY <1>1
  <2> QED BY <2>3, <2>4, <2>5, CommitMoves DEF StatusMoves
<1>4. CASE UNCHANGED payment
  BY <1>4 DEF StatusMoves
<1> QED
  BY <1>2, <1>3, <1>4 DEF GatewayStep, CheckStep, ProviderDecides, Poll, Notify, Ask,
     ProviderAnswers, DropCheck, gatewayVars

----------------------------------------------------------------------------
(* Sums over the rows of a table, for the owners' books.                   *)

\* The units of a row number its amount.
LEMMA RowUnits ==
  ASSUME NEW x, NEW n \in Nat
  PROVE  /\ IsFiniteSet({x} \X (1 .. n))
         /\ Cardinality({x} \X (1 .. n)) = n
<1>1. IsFiniteSet({x}) /\ Cardinality({x}) = 1
  BY FS_Singleton
<1>2. IsFiniteSet(1 .. n) /\ Cardinality(1 .. n) = n
  BY FS_Interval
<1>3. /\ IsFiniteSet({x} \X (1 .. n))
      /\ Cardinality({x} \X (1 .. n)) = Cardinality({x}) * Cardinality(1 .. n)
  BY <1>1, <1>2, FS_Product, Zenon
<1> QED BY <1>1, <1>2, <1>3

\* A sum over finitely many rows is a natural number.
LEMMA SumIsNat ==
  ASSUME NEW S, IsFiniteSet(S), NEW f, \A x \in S : f[x] \in Nat
  PROVE  /\ IsFiniteSet(Units(f, S))
         /\ SumOver(f, S) \in Nat
<1> DEFINE T == {{x} \X (1 .. f[x]) : x \in S}
           g == [x \in S |-> {x} \X (1 .. f[x])]
<1>1. g \in Surjection(S, T)
  <2>1. g \in [S -> T]
    OBVIOUS
  <2>2. \A U \in T : \E x \in S : g[x] = U
    OBVIOUS
  <2> HIDE DEF g, T
  <2> QED BY <2>1, <2>2 DEF Surjection
<1>2. IsFiniteSet(T)
  BY <1>1, FS_Surjection
<1>3. \A U \in T : IsFiniteSet(U)
  <2>1. ASSUME NEW x \in S PROVE IsFiniteSet({x} \X (1 .. f[x]))
    BY RowUnits
  <2> QED BY <2>1
<1>4. IsFiniteSet(UNION T)
  BY <1>2, <1>3, FS_UNION, Zenon
<1>5. IsFiniteSet(Units(f, S))
  BY <1>4, Zenon DEF Units
<1> QED BY <1>5, FS_CardinalityType DEF SumOver

\* An empty sum is zero.
LEMMA SumEmpty == ASSUME NEW f PROVE SumOver(f, {}) = 0
<1>1. Units(f, {}) = {}
  BY DEF Units
<1> QED BY <1>1, FS_EmptySet DEF SumOver

\* A sum depends only on the amounts of its rows.
LEMMA SumAgrees ==
  ASSUME NEW S, NEW f, NEW g, \A x \in S : f[x] = g[x]
  PROVE  SumOver(f, S) = SumOver(g, S)
<1>1. Units(f, S) = Units(g, S)
  BY DEF Units
<1> QED BY <1>1 DEF SumOver

\* One more row adds its amount.
LEMMA SumAdds ==
  ASSUME NEW S, IsFiniteSet(S), NEW f, NEW r, r \notin S,
         \A x \in S \cup {r} : f[x] \in Nat
  PROVE  SumOver(f, S \cup {r}) = SumOver(f, S) + f[r]
<1> DEFINE A == Units(f, S)
           B == {r} \X (1 .. f[r])
<1>1. Units(f, S \cup {r}) = A \cup B
  BY DEF Units
<1>2. A \cap B = {}
  BY DEF Units
<1>3. IsFiniteSet(A) /\ IsFiniteSet(B) /\ Cardinality(B) = f[r]
  BY SumIsNat, RowUnits
<1>4. Cardinality(A) \in Nat /\ Cardinality(B) \in Nat
  BY <1>3, FS_CardinalityType
<1> HIDE DEF A, B
<1>5. Cardinality(A \cup B) = Cardinality(A) + Cardinality(B) - Cardinality(A \cap B)
  BY <1>3, FS_Union
<1>6. Cardinality(A \cap B) = 0
  BY <1>2, FS_EmptySet
<1>7. Cardinality(A \cup B) = Cardinality(A) + f[r]
  BY <1>3, <1>4, <1>5, <1>6
<1> QED BY <1>1, <1>7 DEF SumOver, A

\* A sum is no larger than another that has each row that counts in it, with
\* an amount no smaller.
LEMMA SumGrows ==
  ASSUME NEW S, NEW T, IsFiniteSet(T), NEW f, NEW g,
         \A x \in T : g[x] \in Nat,
         \A x \in S : f[x] \in Nat /\ (f[x] # 0 => x \in T /\ f[x] <= g[x])
  PROVE  SumOver(f, S) \in Nat /\ SumOver(f, S) <= SumOver(g, T)
<1>1. Units(f, S) \subseteq Units(g, T)
  <2>1. ASSUME NEW x \in S, f[x] # 0 PROVE {x} \X (1 .. f[x]) \subseteq Units(g, T)
    <3>1. {x} \X (1 .. f[x]) \subseteq {x} \X (1 .. g[x])
      BY <2>1
    <3> QED BY <2>1, <3>1 DEF Units
  <2>2. ASSUME NEW x \in S, f[x] = 0 PROVE {x} \X (1 .. f[x]) \subseteq Units(g, T)
    <3>1. 1 .. f[x] = {}
      BY <2>2
    <3> QED BY <3>1
  <2> QED BY <2>1, <2>2 DEF Units
<1>2. IsFiniteSet(Units(g, T))
  BY SumIsNat
<1> QED BY <1>1, <1>2, FS_Subset, FS_CardinalityType DEF SumOver

\* When only row r changes, or enters or leaves the sum, the sum changes by
\* what r contributes.
LEMMA SumChanges ==
  ASSUME NEW S, IsFiniteSet(S), NEW T, NEW f, NEW g, NEW r,
         \A x \in S \cup T \cup {r} : f[x] \in Nat /\ g[x] \in Nat,
         S \ {r} = T \ {r},
         \A x \in S \ {r} : g[x] = f[x]
  PROVE  /\ IsFiniteSet(T)
         /\ SumOver(g, T) = SumOver(f, S) + (IF r \in T THEN g[r] ELSE 0)
                                          - (IF r \in S THEN f[r] ELSE 0)
<1> DEFINE U == S \ {r}
<1>1. U = T \ {r} /\ r \notin U /\ U \subseteq S
  OBVIOUS
<1>2. IsFiniteSet(U)
  BY <1>1, FS_Subset
<1>3. SumOver(f, U) \in Nat /\ SumOver(g, U) = SumOver(f, U)
  BY <1>2, SumIsNat, SumAgrees
<1>4. SumOver(f, U \cup {r}) = SumOver(f, U) + f[r]
  BY <1>1, <1>2, SumAdds
<1>5. SumOver(g, U \cup {r}) = SumOver(g, U) + g[r]
  BY <1>1, <1>2, SumAdds
<1>6. S = (IF r \in S THEN U \cup {r} ELSE U) /\ T = (IF r \in T THEN U \cup {r} ELSE U)
  BY <1>1
<1>7. f[r] \in Nat /\ g[r] \in Nat
  OBVIOUS
<1> HIDE DEF U
<1>8. SumOver(f, S) = SumOver(f, U) + (IF r \in S THEN f[r] ELSE 0)
  <2>1. CASE r \in S
    BY <1>4, <1>6, <2>1
  <2>2. CASE r \notin S
    BY <1>3, <1>6, <2>2
  <2> QED BY <2>1, <2>2
<1>9. SumOver(g, T) = SumOver(f, U) + (IF r \in T THEN g[r] ELSE 0)
  <2>1. CASE r \in T
    BY <1>3, <1>5, <1>6, <2>1
  <2>2. CASE r \notin T
    BY <1>3, <1>6, <2>2
  <2> QED BY <2>1, <2>2
<1>10. IsFiniteSet(T)
  BY <1>2, <1>6, FS_AddElement
<1> QED BY <1>3, <1>7, <1>8, <1>9, <1>10
=============================================================================
