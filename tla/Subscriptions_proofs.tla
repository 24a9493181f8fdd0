------------------------ MODULE Subscriptions_proofs ------------------------
(***************************************************************************)
(* Theorems about Subscriptions, for any number of purchases, requests,    *)
(* checks and provider orders, and any lengths of a pack and of a trial:   *)
(* the types, that only a paid pack or a trial is ever active, and that    *)
(* the tokens offered with a pack are credited once, for a paid pack.      *)
(***************************************************************************)
EXTENDS Subscriptions, TLAPS

----------------------------------------------------------------------------
(* The parts of the invariant, and what every step keeps.                  *)

Answers == {None, "accepted", "unknown", "rejected", "retryable", "missing",
            "sent", "paid", "refused"}

\* All of the invariant but the calls.
World ==
  /\ DepositsTypeOK
  /\ now \in 0..Horizon
  /\ sub \in [Purchases -> Row \cup {NoRow}]
  /\ debit \in [Purchases -> BOOLEAN]
  /\ bonus \in [Purchases -> Nat]
  /\ granted \in [Purchases -> SUBSET Times]
  /\ BonusEarnedOnce
  /\ \A s \in Purchases : RowTrue(s, sub[s]) /\ DepositTrue(s)

LEMMA IInvIs ==
  IInv <=> World /\ call \in [Calls -> Call \cup {NoCall}] /\ CallsTrue
  BY DEF IInv, World, TypeOK

\* What is true of a purchase stays true.
Grows ==
  /\ \A s \in Purchases : /\ MoneyPaid(s) => MoneyPaid(s)'
                          /\ debit[s] => debit'[s]
                          /\ granted[s] # {} => granted'[s] # {}
                          /\ deposit[s] # NoDeposit => deposit'[s] # NoDeposit
                          /\ sub[s] # NoRow =>
                               sub'[s] # NoRow /\ sub'[s].trial = sub[s].trial

\* Only the request that submits s sends anything for s.
KeepsMissing(k) ==
  \A s \in Purchases, p \in Providers :
    money[s][p] = "missing" /\ ~(Submits(call[k]) /\ s = call[k].s)
    => money'[s][p] = "missing"

LEMMA CallFields ==
  ASSUME NEW c \in Call
  PROVE  /\ c.op \in Operations /\ c.pc \in Steps /\ c.s \in Purchases \cup {0}
         /\ c.row \in Row \cup {NoRow} /\ c.pay \in Deposit \cup {NoDeposit}
         /\ c.rest \in Seq(Providers) /\ c.answer \in Answers
         /\ c.todo \in SUBSET Copies
  BY DEF Call, Answers

\* A call begun at a step carries nothing yet.
LEMMA BegunCall ==
  ASSUME NEW op \in Operations, NEW pc \in Steps
  PROVE  Begun(op, pc) \in Call
<1>1. <<>> \in Seq(Providers) /\ {} \in SUBSET Copies  OBVIOUS
<1> QED  BY <1>1 DEF Begun, Call

LEMMA IsCall == \A c \in Call : c # NoCall
  BY DEF Call, NoCall, Operations, None

LEMMA Blank == /\ \A r \in Row : r # NoRow /\ r.status # None
               /\ NoRow.status = None /\ NoRow.trial = FALSE /\ NoRow.linked = FALSE
               /\ \A d \in Deposit : d # NoDeposit /\ d.status # None
               /\ NoDeposit.status = None
  BY DEF Row, NoRow, RowStatuses, Deposit, NoDeposit, Providers, None, Open,
         Terminal, Refused

\* A call at a step is a call.
LEMMA AtCall ==
  ASSUME IInv, NEW k \in Calls, call[k].pc # None
  PROVE  /\ call[k] \in Call /\ call[k] # NoCall
         /\ CallShape(call[k]) /\ CallTrue(call[k]) /\ SubmissionTrue(call[k])
  BY IInvIs DEF NoCall, CallsTrue

\* What a call carries stays true.
LEMMA CallKeeps ==
  ASSUME IInv, Grows, NEW c \in Call, CallShape(c), CallTrue(c)
  PROVE  CallTrue(c)'
<1>1. /\ c.row \in Row \cup {NoRow} /\ c.pay \in Deposit \cup {NoDeposit}
      /\ c.todo \in SUBSET Copies
  BY CallFields
<1>2. ASSUME NEW s \in Purchases, NEW row, row = NoRow \/ CopyTrue(s, row)
      PROVE  row = NoRow \/ CopyTrue(s, row)'
  BY <1>2 DEF CopyTrue, RowTrue, Grows, Paid, MoneyPaid
<1>3. c.row # NoRow => CopyTrue(c.s, c.row)'
  BY <1>1, <1>2 DEF CallTrue, CallShape
<1>4. c.pay.status = "succeeded" \/ c.answer = "paid" => MoneyPaid(c.s)'
  BY Blank DEF CallTrue, CallShape, Grows, None
<1>5. \A d \in c.todo : /\ CopyTrue(d.s, d.row)'
                        /\ d.pay.status = "succeeded" => MoneyPaid(d.s)'
  BY <1>1, <1>2, Blank DEF CallTrue, Grows, Copies
<1>6. c.pc \in {"activate", "start", "bonus", "credit"} => Paid(c.s)'
  BY DEF CallTrue, CallShape, Grows, Paid, MoneyPaid
<1>7. /\ c.pc \in {"bonus", "credit"} => granted'[c.s] # {}
      /\ c.pc \in {"asked", "save", "find", "apply"} => deposit'[c.s] # NoDeposit
  BY DEF CallTrue, CallShape, Grows
<1> QED  BY <1>3, <1>4, <1>5, <1>6, <1>7 DEF CallTrue

LEMMA SubmissionKeeps ==
  ASSUME IInv, Grows, NEW j \in Calls, NEW c \in Call, c = call[j],
         Submits(c) => \A p \in Providers :
           money[c.s][p] = "missing" => money'[c.s][p] = "missing"
  PROVE  SubmissionTrue(c)'
<1> SUFFICES ASSUME Submits(c)
             PROVE  /\ ~sub'[c.s].trial
                    /\ \A p \in Providers : Unsent(c, p) => money'[c.s][p] = "missing"
  BY DEF SubmissionTrue
<1>1. CallShape(c) /\ CallTrue(c) /\ SubmissionTrue(c)
  BY AtCall, IInvIs DEF Submits, None
<1>2. /\ c.s \in Purchases /\ sub[c.s] # NoRow
  BY <1>1, Blank DEF CallShape, CallTrue, CopyTrue, Submits
<1> QED  BY <1>1, <1>2 DEF SubmissionTrue, Grows

\* A step of no call.
LEMMA NoCallStep ==
  ASSUME IInv, Grows, World', UNCHANGED call,
         \A s \in Purchases, p \in Providers :
           money[s][p] = "missing" => money'[s][p] = "missing"
  PROVE  IInv'
<1>1. ASSUME NEW j \in Calls, NEW d, d = call'[j], d # NoCall
      PROVE  CallShape(d) /\ CallTrue(d)' /\ SubmissionTrue(d)'
  <2>1. d \in Call /\ d = call[j] /\ CallShape(d) /\ CallTrue(d)
    BY <1>1, IInvIs DEF CallsTrue
  <2>2. Submits(d) => d.s \in Purchases  BY <2>1 DEF CallShape, Submits
  <2> QED  BY <2>1, <2>2, CallKeeps, SubmissionKeeps
<1>2. CallsTrue'  BY <1>1, IInvIs DEF CallsTrue
<1> QED  BY <1>2, IInvIs DEF IInv, World, TypeOK

\* A step of one call keeps the invariant when what the call is left with is
\* true, and it submits nothing another call submits.
LEMMA Combine ==
  ASSUME IInv, Grows, World', NEW k \in Calls, KeepsMissing(k),
         NEW c \in Call \cup {NoCall}, call' = [call EXCEPT ![k] = c],
         c # NoCall => CallShape(c) /\ (CallTrue(c) \/ CallTrue(c)'),
         Submits(c) => SubmissionTrue(c)',
         Submits(c) => \/ Submits(call[k]) /\ c.s = call[k].s
                       \/ sub[c.s] = NoRow
  PROVE  IInv'
<1>1. /\ call \in [Calls -> Call \cup {NoCall}]
      /\ call' \in [Calls -> Call \cup {NoCall}]
      /\ call'[k] = c /\ \A j \in Calls \ {k} : call'[j] = call[j]
  BY IInvIs
<1>2. ASSUME NEW j \in Calls, NEW d, d = call'[j], d # NoCall
      PROVE  CallShape(d) /\ CallTrue(d)' /\ SubmissionTrue(d)'
  <2>1. CASE j = k
    BY <2>1, <1>1, <1>2, CallKeeps DEF SubmissionTrue
  <2>2. CASE j # k
    <3>1. d \in Call /\ d = call[j] /\ j \in Calls \ {k}  BY <2>2, <1>1, <1>2
    <3>2. CallShape(d) /\ CallTrue(d)  BY <3>1, <1>2, IInvIs DEF CallsTrue
    <3>3. Submits(d) => /\ d.s \in Purchases
                        /\ ~(Submits(call[k]) /\ d.s = call[k].s)
      BY <3>1, <3>2, IInvIs DEF CallShape, Submits, CallsTrue
    <3>4. SubmissionTrue(d)'  BY <3>1, <3>3, SubmissionKeeps DEF KeepsMissing
    <3> QED  BY <3>1, <3>2, <3>4, CallKeeps
  <2> QED  BY <2>1, <2>2
<1>3. ASSUME NEW i \in Calls, NEW j \in Calls, i # j, Submits(call'[i]), Submits(call'[j])
      PROVE  call'[i].s # call'[j].s
  <2>1. ASSUME NEW h \in Calls \ {k}, Submits(call[h]), Submits(c)
        PROVE  call[h].s # c.s
    <3>1. call[h] \in Call /\ CallShape(call[h]) /\ CallTrue(call[h])
      BY <2>1, <1>1, AtCall DEF Submits, None
    <3>2. sub[call[h].s] # NoRow
      BY <2>1, <3>1, Blank DEF CallShape, CallTrue, CopyTrue, Submits
    <3> QED  BY <2>1, <3>2, IInvIs DEF CallsTrue
  <2> QED  BY <2>1, <1>1, <1>3, IInvIs DEF CallsTrue
<1>4. CallsTrue'  BY <1>2, <1>3 DEF CallsTrue
<1> QED  BY <1>1, <1>4 DEF IInv, World, TypeOK

\* A step that leaves everything but the call.
LEMMA CallOnly ==
  ASSUME IInv, NEW k \in Calls, NEW c \in Call \cup {NoCall},
         call' = [call EXCEPT ![k] = c], UNCHANGED <<depositVars, memberVars>>,
         c # NoCall => CallShape(c) /\ CallTrue(c),
         Submits(c) => SubmissionTrue(c),
         Submits(c) => Submits(call[k]) /\ c.s = call[k].s
  PROVE  IInv'
<1> USE DEF depositVars, memberVars
<1>1. Grows /\ KeepsMissing(k)  BY DEF Grows, KeepsMissing, MoneyPaid
<1>2. World'
  BY IInvIs DEF World, DepositsTypeOK, BonusEarnedOnce, RowTrue, DepositTrue,
                Paid, MoneyPaid
<1>3. Submits(c) => SubmissionTrue(c)'  BY DEF SubmissionTrue
<1> QED  BY <1>1, <1>2, <1>3, Combine

\* A step that changes the subscription rows, and may grant a period.
LEMMA SubChanges ==
  ASSUME IInv, NEW k \in Calls, NEW c \in Call \cup {NoCall},
         call' = [call EXCEPT ![k] = c],
         UNCHANGED <<depositVars, now, debit, bonus>>,
         sub' \in [Purchases -> Row \cup {NoRow}],
         granted' \in [Purchases -> SUBSET Times],
         \A s \in Purchases : /\ granted[s] # {} => granted'[s] # {}
                              /\ sub[s] # NoRow =>
                                   sub'[s] # NoRow /\ sub'[s].trial = sub[s].trial
                              /\ RowTrue(s, sub[s])',
         c # NoCall => CallShape(c) /\ (CallTrue(c) \/ CallTrue(c)'),
         Submits(c) => SubmissionTrue(c)',
         Submits(c) => \/ Submits(call[k]) /\ c.s = call[k].s
                       \/ sub[c.s] = NoRow
  PROVE  IInv'
<1> USE DEF depositVars
<1>1. Grows /\ KeepsMissing(k)  BY DEF Grows, KeepsMissing, MoneyPaid
<1>2. World'
  <2>1. World  BY IInvIs
  <2>2. BonusEarnedOnce'
    BY <2>1 DEF World, BonusEarnedOnce, Paid
  <2>3. ASSUME NEW s \in Purchases PROVE DepositTrue(s)'
    BY <2>1 DEF World, DepositTrue, MoneyPaid
  <2> QED  BY <2>1, <2>2, <2>3 DEF World, DepositsTypeOK
<1> QED  BY <1>1, <1>2, Combine

\* A step that changes a payment row, or what a provider did.
LEMMA DepositChanges ==
  ASSUME IInv, NEW k \in Calls, NEW c \in Call \cup {NoCall},
         call' = [call EXCEPT ![k] = c], UNCHANGED memberVars,
         DepositsTypeOK', KeepsMissing(k),
         \A s \in Purchases : /\ MoneyPaid(s) => MoneyPaid(s)'
                              /\ deposit[s] # NoDeposit => deposit'[s] # NoDeposit
                              /\ DepositTrue(s)',
         c # NoCall => CallShape(c) /\ (CallTrue(c) \/ CallTrue(c)'),
         Submits(c) => SubmissionTrue(c)',
         Submits(c) => Submits(call[k]) /\ c.s = call[k].s
  PROVE  IInv'
<1> USE DEF memberVars
<1>1. Grows  BY DEF Grows
<1>2. World'
  <2>1. World  BY IInvIs
  <2>2. BonusEarnedOnce'  BY <2>1 DEF World, BonusEarnedOnce, Paid, MoneyPaid
  <2>3. ASSUME NEW s \in Purchases PROVE RowTrue(s, sub[s])'
    BY <2>1 DEF World, RowTrue, Paid, MoneyPaid
  <2> QED  BY <2>1, <2>2, <2>3 DEF World
<1> QED  BY <1>1, <1>2, Combine

\* A call begun anew carries nothing.
LEMMA FreshCall ==
  ASSUME NEW op \in Operations, NEW pc \in {"reuse", "cancel", "create"},
         NEW c, c = Begun(op, pc)
  PROVE  /\ c \in Call /\ c # NoCall /\ ~Submits(c)
         /\ CallShape(c) /\ CallTrue(c)
<1>1. /\ c \in Call /\ c # NoCall /\ c.pc = pc /\ c.s = 0 /\ c.row = NoRow
      /\ c.pay = NoDeposit /\ c.answer = None /\ c.todo = {}
  <2>1. pc \in Steps  BY DEF Steps
  <2>2. c \in Call /\ c # NoCall  BY <2>1, BegunCall, IsCall
  <2> QED  BY <2>2 DEF Begun
<1>2. ~Submits(c)  BY <1>1 DEF Submits
<1>3. CallShape(c)  BY <1>1 DEF CallShape
<1>4. CallTrue(c)  BY <1>1, Blank DEF CallTrue, None
<1> QED  BY <1>1, <1>2, <1>3, <1>4

LEMMA Finished == ~Submits(NoCall) /\ NoCall.pc = None
  BY DEF Submits, NoCall, None

\* Goto leaves everything of the call but its step.
LEMMA GotoIs ==
  ASSUME IInv, NEW k \in Calls, call[k] \in Call, NEW pc \in Steps, Goto(k, pc)
  PROVE  \E c \in Call :
           /\ call' = [call EXCEPT ![k] = c] /\ c # NoCall
           /\ c.op = call[k].op /\ c.pc = pc /\ c.s = call[k].s
           /\ c.row = call[k].row /\ c.pay = call[k].pay /\ c.rest = call[k].rest
           /\ c.answer = call[k].answer /\ c.todo = call[k].todo
<1> DEFINE c == [call[k] EXCEPT !.pc = pc]
<1>1. call' = [call EXCEPT ![k] = c]
  BY IInvIs DEF Goto
<1>2. /\ c.op = call[k].op /\ c.pc = pc /\ c.s = call[k].s
      /\ c.row = call[k].row /\ c.pay = call[k].pay /\ c.rest = call[k].rest
      /\ c.answer = call[k].answer /\ c.todo = call[k].todo
      /\ c \in Call
  BY DEF Call
<1>3. c # NoCall  BY <1>2, IsCall
<1> HIDE DEF c
<1> QED  BY <1>1, <1>2, <1>3

----------------------------------------------------------------------------
(* The steps of a purchase.                                                *)

\* An operation that goes on after the active subscription was looked for.
LEMMA Proceeds ==
  ASSUME NEW k \in Calls, NEW op \in {"read", "trial", "subscribe", "points"},
         Proceed(k, op)
  PROVE  \E c \in Call \cup {NoCall} :
           /\ call' = [call EXCEPT ![k] = c] /\ ~Submits(c)
           /\ c # NoCall => CallShape(c) /\ CallTrue(c)
<1>1. CASE op = "read"  BY <1>1, Finished DEF Proceed, Finish
<1>2. CASE op # "read"
  <2> DEFINE c == Begun(op, AfterLook(op))
  <2>1. op \in Operations /\ AfterLook(op) \in {"reuse", "cancel", "create"}
    BY <1>2 DEF AfterLook, Operations
  <2>2. call' = [call EXCEPT ![k] = c]  BY <1>2 DEF Proceed, Become
  <2> QED  BY <2>1, <2>2, FreshCall
<1> QED  BY <1>1, <1>2

LEMMA LookKeeps ==
  ASSUME IInv, NEW k \in Calls, NEW op \in {"read", "trial", "subscribe", "points"},
         Look(k, op)
  PROVE  IInv'
<1>1. UNCHANGED <<depositVars, memberVars>>  BY DEF Look
<1>2. CASE Proceed(k, op)
  BY <1>1, <1>2, Proceeds, CallOnly
<1>3. ASSUME NEW s \in Purchases, Newest(s),
             Become(k, [Begun(op, "expire") EXCEPT !.s = s, !.row = sub[s]])
      PROVE  IInv'
  <2> DEFINE c == [Begun(op, "expire") EXCEPT !.s = s, !.row = sub[s]]
  <2>1. call' = [call EXCEPT ![k] = c]  BY <1>3 DEF Become
  <2>2. sub[s] \in Row /\ sub[s] # NoRow /\ RowTrue(s, sub[s])
    BY <1>3, Blank, IInvIs DEF World, Newest, Active, None
  <2>3. /\ c \in Call /\ c # NoCall /\ c.op = op /\ c.pc = "expire" /\ c.s = s
        /\ c.row = sub[s] /\ c.pay = NoDeposit /\ c.answer = None /\ c.todo = {}
    <3>1. op \in Operations /\ "expire" \in Steps  BY DEF Steps, Operations
    <3>2. Begun(op, "expire") \in Call  BY <3>1, BegunCall
    <3>3. c \in Call /\ c # NoCall  BY <3>2, <2>2, IsCall DEF Call
    <3> QED  BY <3>3 DEF Begun
  <2> HIDE DEF c
  <2>4. CallShape(c)  BY <2>2, <2>3 DEF CallShape
  <2>5. CallTrue(c)  BY <2>2, <2>3, Blank DEF CallTrue, CopyTrue, None
  <2>6. ~Submits(c)  BY <2>3 DEF Submits
  <2> QED  BY <1>1, <2>1, <2>3, <2>4, <2>5, <2>6, CallOnly
<1> QED  BY <1>2, <1>3 DEF Look

\* A row saved over the row of a purchase.
LEMMA SaveIs ==
  ASSUME IInv, NEW s \in Purchases, NEW row \in Row, Save(s, row)
  PROVE  /\ sub' \in [Purchases -> Row \cup {NoRow}] /\ sub'[s] = row
         /\ \A t \in Purchases \ {s} : sub'[t] = sub[t]
  BY IInvIs DEF World, Save

\* Rows saved from copies, or cancelled, that start no pack.
LEMMA SavedRows ==
  ASSUME IInv, UNCHANGED <<depositVars, debit, granted>>,
         NEW s \in Purchases, NEW row \in Row, Save(s, row),
         sub[s] # NoRow => row.trial = sub[s].trial, RowTrue(s, row)
  PROVE  /\ sub' \in [Purchases -> Row \cup {NoRow}]
         /\ granted' \in [Purchases -> SUBSET Times]
         /\ \A t \in Purchases : /\ granted[t] # {} => granted'[t] # {}
                                 /\ sub[t] # NoRow =>
                                      sub'[t] # NoRow /\ sub'[t].trial = sub[t].trial
                                 /\ RowTrue(t, sub[t])'
<1> USE DEF depositVars
<1>1. /\ sub' \in [Purchases -> Row \cup {NoRow}] /\ sub'[s] = row
      /\ \A t \in Purchases \ {s} : sub'[t] = sub[t]
  BY SaveIs
<1>2. ASSUME NEW t \in Purchases
      PROVE  /\ sub[t] # NoRow => sub'[t] # NoRow /\ sub'[t].trial = sub[t].trial
             /\ RowTrue(t, sub[t])'
  <2>1. CASE t = s  BY <2>1, <1>1, Blank DEF RowTrue, Paid
  <2>2. CASE t # s
    <3>1. sub'[t] = sub[t] /\ RowTrue(t, sub[t])
      BY <2>2, <1>1, IInvIs DEF World
    <3> QED  BY <3>1 DEF RowTrue, Paid
  <2> QED  BY <2>1, <2>2
<1> QED  BY <1>1, <1>2, IInvIs DEF World

LEMMA ExpireKeeps ==
  ASSUME IInv, NEW k \in Calls, Expire(k)
  PROVE  IInv'
<1> DEFINE s == call[k].s  row == [call[k].row EXCEPT !.status = "expired"]
<1>1. /\ CallShape(call[k]) /\ CallTrue(call[k]) /\ call[k].pc = "expire"
  BY AtCall DEF Expire, At, None
<1>2. /\ s \in Purchases /\ call[k].row \in Row /\ CopyTrue(s, call[k].row)
      /\ call[k].op \in {"read", "trial", "subscribe", "points"}
  BY <1>1, Blank DEF CallShape, CallTrue
<1>3. row \in Row /\ row.status = "expired" /\ row.trial = call[k].row.trial
  BY <1>2 DEF Row, RowStatuses
<1>4. /\ Save(s, row) /\ UNCHANGED <<depositVars, now, debit, bonus, granted>>
      /\ Proceed(k, call[k].op)
  BY DEF Expire
<1> HIDE DEF row, s
<1>5. row.trial = sub[s].trial /\ RowTrue(s, row)
  BY <1>2, <1>3 DEF CopyTrue, RowTrue
<1>6. PICK c \in Call \cup {NoCall} :
        /\ call' = [call EXCEPT ![k] = c] /\ ~Submits(c)
        /\ c # NoCall => CallShape(c) /\ CallTrue(c)
  BY <1>2, <1>4, Proceeds
<1> QED  BY <1>2, <1>3, <1>4, <1>5, <1>6, SavedRows, SubChanges

LEMMA ReadPendingKeeps ==
  ASSUME IInv, NEW k \in Calls, ReadPending(k)
  PROVE  IInv'
<1> DEFINE todo == {Copy(s) : s \in Pending}
           c == [Begun("subscribe", "todo") EXCEPT !.todo = todo]
<1>1. call' = [call EXCEPT ![k] = c] /\ UNCHANGED <<depositVars, memberVars>>
  BY DEF ReadPending, Become
<1>2. ASSUME NEW s \in Pending
      PROVE  /\ Copy(s) \in Copies /\ CopyTrue(Copy(s).s, Copy(s).row)
             /\ Copy(s).pay.status = "succeeded" => MoneyPaid(Copy(s).s)
  <2>1. /\ s \in Purchases /\ sub[s] \in Row /\ sub[s] # NoRow
        /\ deposit[s] \in Deposit \cup {NoDeposit} /\ RowTrue(s, sub[s])
        /\ deposit[s].status = "succeeded" => MoneyPaid(s)
    BY Blank, IInvIs DEF World, Pending, DepositTrue, DepositsTypeOK, None
  <2>2. Copy(s) \in Copies  BY <2>1 DEF Copy, Copies
  <2>3. CopyTrue(Copy(s).s, Copy(s).row)  BY <2>1 DEF Copy, CopyTrue
  <2>4. Copy(s).pay.status = "succeeded" => MoneyPaid(Copy(s).s)
    BY <2>1, Blank DEF Copy, None
  <2> QED  BY <2>2, <2>3, <2>4
<1>3. /\ todo \in SUBSET Copies
      /\ \A d \in todo : /\ CopyTrue(d.s, d.row)
                         /\ d.pay.status = "succeeded" => MoneyPaid(d.s)
  BY <1>2
<1> HIDE DEF todo
<1>4. /\ c \in Call /\ c # NoCall /\ c.pc = "todo" /\ c.s = 0 /\ c.row = NoRow
      /\ c.pay = NoDeposit /\ c.answer = None /\ c.todo = todo
  <2>1. Begun("subscribe", "todo") \in Call  BY BegunCall DEF Operations, Steps
  <2>2. c \in Call /\ c # NoCall  BY <2>1, <1>3, IsCall DEF Call
  <2> QED  BY <2>2 DEF Begun
<1> HIDE DEF c
<1>5. CallShape(c) /\ ~Submits(c)  BY <1>4 DEF CallShape, Submits
<1>6. CallTrue(c)  BY <1>3, <1>4, Blank DEF CallTrue, None
<1> QED  BY <1>1, <1>4, <1>5, <1>6, CallOnly

LEMMA NoneReusableKeeps ==
  ASSUME IInv, NEW k \in Calls, NoneReusable(k)
  PROVE  IInv'
<1>1. /\ call[k] \in Call /\ CallShape(call[k]) /\ CallTrue(call[k])
      /\ call[k].pc = "todo" /\ Goto(k, "cancel")
      /\ UNCHANGED <<depositVars, memberVars>> /\ "cancel" \in Steps
  BY AtCall DEF NoneReusable, At, None, Steps
<1>2. PICK c \in Call :
        /\ call' = [call EXCEPT ![k] = c] /\ c # NoCall /\ c.pc = "cancel"
        /\ c.s = call[k].s /\ c.row = call[k].row /\ c.pay = call[k].pay
        /\ c.answer = call[k].answer /\ c.todo = call[k].todo
  BY <1>1, GotoIs
<1>3. CallShape(c) /\ ~Submits(c)  BY <1>1, <1>2 DEF CallShape, Submits
<1>4. CallTrue(c)  BY <1>1, <1>2 DEF CallTrue
<1> QED  BY <1>1, <1>2, <1>3, <1>4, CallOnly

LEMMA FinishKeeps ==
  ASSUME IInv, NEW k \in Calls, Finish(k), UNCHANGED <<depositVars, memberVars>>
  PROVE  IInv'
<1>1. call' = [call EXCEPT ![k] = NoCall]  BY DEF Finish
<1> QED  BY <1>1, Finished, CallOnly

LEMMA DiscardKeeps ==
  ASSUME IInv, NEW k \in Calls, Discard(k)
  PROVE  IInv'
<1>1. /\ call[k] \in Call /\ CallShape(call[k]) /\ CallTrue(call[k])
      /\ call[k].pc = "todo" /\ call[k].todo \in SUBSET Copies
  BY AtCall, CallFields DEF Discard, At, None
<1>2. PICK d \in call[k].todo :
        /\ Save(d.s, [d.row EXCEPT !.status =
             IF d.pay.status = "failed" THEN "payment_failed" ELSE "cancelled"])
        /\ call' = [call EXCEPT ![k].todo = @ \ {d}]
        /\ UNCHANGED <<depositVars, now, debit, bonus, granted>>
  BY DEF Discard
<1> DEFINE row == [d.row EXCEPT !.status =
             IF d.pay.status = "failed" THEN "payment_failed" ELSE "cancelled"]
           c == [call[k] EXCEPT !.todo = @ \ {d}]
<1>3. /\ d.s \in Purchases /\ d.row \in Row /\ CopyTrue(d.s, d.row)
  BY <1>1, <1>2 DEF CallTrue, Copies
<1>4. row \in Row /\ row.status # "active" /\ row.trial = d.row.trial
  BY <1>3 DEF Row, RowStatuses
<1>5. Save(d.s, row)  BY <1>2
<1>6. call' = [call EXCEPT ![k] = c]  BY <1>2
<1>7. /\ c \in Call /\ c # NoCall /\ c.pc = "todo"
      /\ c.s = call[k].s /\ c.row = call[k].row /\ c.pay = call[k].pay
      /\ c.answer = call[k].answer /\ c.todo \subseteq call[k].todo
  BY <1>1, IsCall DEF Call
<1> HIDE DEF c, row
<1>8. CallShape(c) /\ ~Submits(c)  BY <1>1, <1>7 DEF CallShape, Submits
<1>9. CallTrue(c)  BY <1>1, <1>7 DEF CallTrue
<1>10. RowTrue(d.s, row) /\ row.trial = sub[d.s].trial
  BY <1>3, <1>4 DEF RowTrue, CopyTrue
<1> QED  BY <1>2, <1>3, <1>4, <1>5, <1>6, <1>7, <1>8, <1>9, <1>10, SavedRows, SubChanges

LEMMA ReusePaidKeeps ==
  ASSUME IInv, NEW k \in Calls, ReusePaid(k)
  PROVE  IInv'
<1>1. /\ CallTrue(call[k]) /\ call[k].todo \in SUBSET Copies
  BY AtCall, CallFields DEF ReusePaid, At, None
<1>2. PICK d \in call[k].todo :
        /\ d.pay.status = "succeeded"
        /\ Become(k, [Begun("subscribe", "activate") EXCEPT
             !.s = d.s, !.row = d.row, !.pay = d.pay])
        /\ UNCHANGED <<depositVars, memberVars>>
  BY DEF ReusePaid
<1> DEFINE c == [Begun("subscribe", "activate") EXCEPT
                   !.s = d.s, !.row = d.row, !.pay = d.pay]
<1>3. /\ d.s \in Purchases /\ d.row \in Row /\ CopyTrue(d.s, d.row)
      /\ d.pay \in Deposit \cup {NoDeposit} /\ MoneyPaid(d.s)
  BY <1>1, <1>2 DEF CallTrue, Copies
<1>4. call' = [call EXCEPT ![k] = c]  BY <1>2 DEF Become
<1>5. /\ c \in Call /\ c # NoCall /\ c.pc = "activate" /\ c.s = d.s
      /\ c.row = d.row /\ c.pay = d.pay /\ c.answer = None /\ c.todo = {}
  <2>1. Begun("subscribe", "activate") \in Call
    BY BegunCall DEF Operations, Steps
  <2>2. c \in Call /\ c # NoCall  BY <2>1, <1>3, IsCall DEF Call
  <2> QED  BY <2>2 DEF Begun
<1> HIDE DEF c
<1>6. CallShape(c) /\ ~Submits(c)  BY <1>3, <1>5 DEF CallShape, Submits
<1>7. CallTrue(c)
  BY <1>3, <1>5, Blank DEF CallTrue, Paid, MoneyPaid
<1> QED  BY <1>2, <1>4, <1>5, <1>6, <1>7, CallOnly

\* Rows cancelled together: those a predicate holds of, the others as they were.
LEMMA CancelledRows ==
  ASSUME IInv, UNCHANGED <<depositVars, debit, granted>>, NEW S \in SUBSET Purchases,
         \A s \in S : sub[s] # NoRow,
         sub' = [s \in Purchases |-> IF s \in S
                   THEN [sub[s] EXCEPT !.status = "cancelled"] ELSE sub[s]]
  PROVE  /\ sub' \in [Purchases -> Row \cup {NoRow}]
         /\ granted' \in [Purchases -> SUBSET Times]
         /\ \A t \in Purchases : /\ granted[t] # {} => granted'[t] # {}
                                 /\ sub[t] # NoRow =>
                                      sub'[t] # NoRow /\ sub'[t].trial = sub[t].trial
                                 /\ RowTrue(t, sub[t])'
<1>1. ASSUME NEW t \in Purchases
      PROVE  /\ sub'[t] \in Row \cup {NoRow}
             /\ sub[t] # NoRow => sub'[t] # NoRow /\ sub'[t].trial = sub[t].trial
             /\ RowTrue(t, sub[t])'
  <2>1. sub[t] \in Row \cup {NoRow} /\ RowTrue(t, sub[t])
    BY IInvIs DEF World
  <2>2. CASE t \in S
    <3> DEFINE row == [sub[t] EXCEPT !.status = "cancelled"]
    <3>1. sub'[t] = row /\ sub[t] \in Row  BY <2>1, <2>2
    <3>2. row \in Row /\ row.status = "cancelled" /\ row.trial = sub[t].trial
      BY <3>1 DEF Row, RowStatuses
    <3> HIDE DEF row
    <3> QED  BY <3>1, <3>2, Blank DEF RowTrue
  <2>3. CASE t \notin S
    <3>1. sub'[t] = sub[t]  BY <2>3
    <3> QED  BY <2>1, <3>1 DEF RowTrue, Paid, depositVars
  <2> QED  BY <2>2, <2>3
<1> QED  BY <1>1, IInvIs DEF World

LEMMA CancelPendingKeeps ==
  ASSUME IInv, NEW k \in Calls, CancelPending(k)
  PROVE  IInv'
<1>1. /\ call[k] \in Call /\ CallShape(call[k]) /\ CallTrue(call[k])
      /\ call[k].pc = "cancel" /\ Goto(k, "create") /\ "create" \in Steps
      /\ UNCHANGED <<depositVars, now, debit, bonus, granted>>
      /\ sub' = [s \in Purchases |-> IF s \in Pending
                   THEN [sub[s] EXCEPT !.status = "cancelled"] ELSE sub[s]]
  BY AtCall DEF CancelPending, At, None, Steps
<1>2. PICK c \in Call :
        /\ call' = [call EXCEPT ![k] = c] /\ c # NoCall /\ c.pc = "create"
        /\ c.s = call[k].s /\ c.row = call[k].row /\ c.pay = call[k].pay
        /\ c.answer = call[k].answer /\ c.todo = call[k].todo
  BY <1>1, GotoIs
<1>3. CallShape(c) /\ ~Submits(c)  BY <1>1, <1>2 DEF CallShape, Submits
<1>4. CallTrue(c)  BY <1>1, <1>2 DEF CallTrue
<1>5. Pending \in SUBSET Purchases /\ \A s \in Pending : sub[s] # NoRow
  BY Blank DEF Pending, None
<1> QED  BY <1>1, <1>2, <1>3, <1>4, <1>5, CancelledRows, SubChanges

LEMMA CreateKeeps ==
  ASSUME IInv, NEW k \in Calls, Create(k)
  PROVE  IInv'
<1> DEFINE trial == call[k].op = "trial"
           row == [status |-> IF trial THEN "active" ELSE "pending",
                   end |-> now + (IF trial THEN Trial ELSE Period),
                   trial |-> trial, linked |-> FALSE]
           pc == IF call[k].op = "points" THEN "debit" ELSE "open"
<1>1. call[k] \in Call  BY AtCall DEF Create, At, None
<1>2. PICK s \in Purchases \ Created :
        /\ Save(s, row)
        /\ IF trial THEN Finish(k)
           ELSE Become(k, [Begun(call[k].op, pc) EXCEPT !.s = s, !.row = row])
        /\ UNCHANGED <<depositVars, now, debit, bonus, granted>>
  BY DEF Create
<1>3. row \in Row
  <2>1. now \in 0..Horizon  BY IInvIs DEF World
  <2>2. now + (IF trial THEN Trial ELSE Period) \in Times
    BY <2>1, SubscriptionsAssumption DEF Times
  <2> QED  BY <2>2 DEF Row, RowStatuses
<1>4. /\ row.status = "active" => trial
      /\ ~trial => row.status = "pending"
      /\ row.trial = trial /\ ~row.linked
  OBVIOUS
<1> DEFINE c == [Begun(call[k].op, pc) EXCEPT !.s = s, !.row = row]
<1>5. trial => call' = [call EXCEPT ![k] = NoCall]  BY <1>2 DEF Finish
<1>6. ~trial => call' = [call EXCEPT ![k] = c]  BY <1>2 DEF Become
<1>7. /\ c \in Call /\ c # NoCall /\ c.pc = pc /\ c.s = s
      /\ c.row = row /\ c.pay = NoDeposit /\ c.answer = None /\ c.todo = {}
  <2>1. Begun(call[k].op, pc) \in Call
    BY <1>1, BegunCall, CallFields DEF Steps
  <2>2. c \in Call /\ c # NoCall  BY <1>3, <2>1, IsCall DEF Call
  <2> HIDE DEF row
  <2> QED  BY <2>2 DEF Begun
<1>8. pc \in {"debit", "open"}  OBVIOUS
<1> HIDE DEF c, pc, row, trial
<1>9. sub[s] = NoRow  BY DEF Created
<1>10. RowTrue(s, row)  BY <1>4 DEF RowTrue
<1>11. CASE trial
  BY <1>2, <1>3, <1>5, <1>9, <1>10, <1>11, Finished, SavedRows, SubChanges
<1>12. ASSUME ~trial, NEW r, r = row, NEW d, d = c
       PROVE  IInv'
  <2>1. CallShape(d)  BY <1>3, <1>4, <1>7, <1>8, <1>12 DEF CallShape
  <2>2. sub'[s] = r /\ r # NoRow  BY <1>2, <1>3, <1>12, SaveIs, Blank
  <2>3. r.status # "active" /\ ~r.trial  BY <1>4, <1>12
  <2>4. CopyTrue(s, r)'  BY <2>2, <2>3 DEF CopyTrue, RowTrue
  <2>5. d.s = s /\ d.row = r /\ d.pay = NoDeposit /\ d.answer = None /\ d.todo = {}
        /\ d.pc \in {"debit", "open"}
    BY <1>7, <1>8, <1>12
  <2>6. CallTrue(d)'  BY <2>4, <2>5, Blank DEF CallTrue, None
  <2>7. \A p \in Providers : money[s][p] = "missing"
    BY <1>9, IInvIs DEF World, DepositTrue
  <2>8. SubmissionTrue(d)'
    BY <1>2, <2>2, <2>3, <2>5, <2>7 DEF SubmissionTrue, depositVars
  <2> QED
    BY <1>2, <1>3, <1>6, <1>7, <1>9, <1>10, <1>12, <2>1, <2>6, <2>8,
       SavedRows, SubChanges
<1> QED  BY <1>11, <1>12

LEMMA DebitKeeps ==
  ASSUME IInv, NEW k \in Calls, Debit(k)
  PROVE  IInv'
<1>1. /\ call[k] \in Call /\ CallShape(call[k]) /\ CallTrue(call[k])
      /\ call[k].pc = "debit" /\ {"activate", "refused"} \subseteq Steps
      /\ UNCHANGED <<depositVars, now, sub, bonus, granted>>
  BY AtCall DEF Debit, At, None, Steps
<1>2. /\ call[k].s \in Purchases /\ call[k].row \in Row /\ CopyTrue(call[k].s, call[k].row)
      /\ call[k].row.status = "pending"
  BY <1>1, Blank DEF CallShape, CallTrue
<1>3. CASE debit' = [debit EXCEPT ![call[k].s] = TRUE] /\ Goto(k, "activate")
  <2>1. /\ debit' \in [Purchases -> BOOLEAN] /\ debit'[call[k].s]
        /\ \A s \in Purchases : debit[s] => debit'[s]
    BY <1>2, <1>3, IInvIs DEF World
  <2>2. Grows /\ KeepsMissing(k)
    BY <1>1, <2>1 DEF Grows, KeepsMissing, MoneyPaid, depositVars
  <2>3. World'
    <3>1. World  BY IInvIs
    <3>2. BonusEarnedOnce'
      BY <1>1, <2>1, <3>1 DEF World, BonusEarnedOnce, Paid, depositVars
    <3>3. ASSUME NEW s \in Purchases PROVE RowTrue(s, sub[s])' /\ DepositTrue(s)'
      BY <1>1, <2>1, <3>1
         DEF World, RowTrue, DepositTrue, Paid, MoneyPaid, depositVars
    <3> QED  BY <1>1, <2>1, <3>1, <3>2, <3>3 DEF World, DepositsTypeOK, depositVars
  <2>4. PICK c \in Call :
          /\ call' = [call EXCEPT ![k] = c] /\ c # NoCall /\ c.pc = "activate"
          /\ c.s = call[k].s /\ c.row = call[k].row /\ c.pay = call[k].pay
          /\ c.answer = call[k].answer /\ c.todo = call[k].todo
    BY <1>1, <1>3, GotoIs
  <2>5. CallShape(c) /\ ~Submits(c)  BY <1>1, <1>2, <2>4 DEF CallShape, Submits
  <2>6. Paid(c.s)'  BY <2>1, <2>4 DEF Paid
  <2>7. PICK d \in Call : d = call[k] /\ CallShape(d) /\ CallTrue(d)
    BY <1>1
  <2>8. CallTrue(d)'  BY <2>2, <2>7, CallKeeps
  <2>9. CallTrue(c)'  BY <2>4, <2>6, <2>7, <2>8 DEF CallTrue
  <2> QED  BY <2>2, <2>3, <2>4, <2>5, <2>9, Combine
<1>4. CASE UNCHANGED debit /\ Goto(k, "refused")
  <2>1. PICK c \in Call :
          /\ call' = [call EXCEPT ![k] = c] /\ c # NoCall /\ c.pc = "refused"
          /\ c.s = call[k].s /\ c.row = call[k].row /\ c.pay = call[k].pay
          /\ c.answer = call[k].answer /\ c.todo = call[k].todo
    BY <1>1, <1>4, GotoIs
  <2>2. CallShape(c) /\ ~Submits(c)  BY <1>1, <1>2, <2>1 DEF CallShape, Submits
  <2>3. CallTrue(c)  BY <1>1, <2>1 DEF CallTrue
  <2> QED  BY <1>1, <1>4, <2>1, <2>2, <2>3, CallOnly DEF memberVars
<1> QED  BY <1>3, <1>4 DEF Debit

\* A call that works on its purchase before a payment is known of it.
LEMMA Submission ==
  ASSUME IInv, NEW k \in Calls, Submits(call[k])
  PROVE  /\ call[k] \in Call /\ CallShape(call[k]) /\ CallTrue(call[k])
         /\ call[k].s \in Purchases /\ call[k].row \in Row
         /\ CopyTrue(call[k].s, call[k].row) /\ call[k].row.status = "pending"
         /\ sub[call[k].s] # NoRow /\ ~sub[call[k].s].trial
         /\ \A p \in Providers : Unsent(call[k], p) => money[call[k].s][p] = "missing"
<1>1. /\ call[k] \in Call /\ CallShape(call[k]) /\ CallTrue(call[k])
      /\ SubmissionTrue(call[k])
  BY AtCall DEF Submits, None
<1>2. /\ call[k].s \in Purchases /\ call[k].row \in Row
      /\ call[k].row.status = "pending"
  BY <1>1 DEF CallShape, Submits
<1> QED  BY <1>1, <1>2, Blank DEF CallTrue, CopyTrue, SubmissionTrue

\* The payment row of one purchase is written.
LEMMA Deposited ==
  ASSUME IInv, UNCHANGED money, UNCHANGED memberVars, NEW s \in Purchases,
         NEW d \in Deposit \cup {NoDeposit}, deposit' = [deposit EXCEPT ![s] = d],
         deposit[s] # NoDeposit => d # NoDeposit,
         d # NoDeposit => sub[s] # NoRow /\ ~sub[s].trial,
         d.status = "succeeded" => MoneyPaid(s)
  PROVE  /\ DepositsTypeOK' /\ deposit'[s] = d
         /\ \A k \in Calls : KeepsMissing(k)
         /\ \A t \in Purchases : /\ MoneyPaid(t) => MoneyPaid(t)'
                                 /\ deposit[t] # NoDeposit => deposit'[t] # NoDeposit
                                 /\ DepositTrue(t)'
<1> USE DEF memberVars
<1>1. /\ deposit' \in [Purchases -> Deposit \cup {NoDeposit}] /\ deposit'[s] = d
      /\ \A t \in Purchases \ {s} : deposit'[t] = deposit[t]
  BY IInvIs DEF World, DepositsTypeOK
<1>2. ASSUME NEW t \in Purchases PROVE MoneyPaid(t)' = MoneyPaid(t)
  BY DEF MoneyPaid
<1>3. ASSUME NEW t \in Purchases PROVE DepositTrue(t)'
  <2>1. DepositTrue(t)  BY IInvIs DEF World
  <2> QED  BY <1>1, <1>2, <2>1 DEF DepositTrue
<1> QED  BY <1>1, <1>2, <1>3, IInvIs DEF World, DepositsTypeOK, KeepsMissing

LEMMA NewDepositIs ==
  \A p \in Providers : NewDeposit(p) \in Deposit /\ NewDeposit(p).status = "pending"
  BY DEF NewDeposit, Deposit, Open

LEMMA OpenDepositKeeps ==
  ASSUME IInv, NEW k \in Calls, OpenDeposit(k)
  PROVE  IInv'
<1> DEFINE s == call[k].s
<1>1. /\ call[k].pc = "open" /\ Submits(call[k]) /\ UNCHANGED <<money, memberVars>>
      /\ {"attempt", "refused"} \subseteq Steps
  BY DEF OpenDeposit, At, Submits, Steps
<1>2. /\ call[k] \in Call /\ CallShape(call[k]) /\ CallTrue(call[k]) /\ s \in Purchases
      /\ call[k].row \in Row /\ call[k].row.status = "pending"
      /\ sub[s] # NoRow /\ ~sub[s].trial
      /\ \A p \in Providers : money[s][p] = "missing"
  BY <1>1, Submission DEF Unsent
<1>3. ASSUME NEW route \in Routes,
             deposit' = [deposit EXCEPT ![s] = NewDeposit(Head(route))],
             Become(k, [call[k] EXCEPT !.pc = "attempt", !.rest = Tail(route),
                                       !.pay = NewDeposit(Head(route))])
      PROVE  IInv'
  <2>1. route \in Seq(Providers) /\ route # <<>>  BY DepositsAssumption
  <2>2. Head(route) \in Providers /\ Tail(route) \in Seq(Providers)  BY <2>1
  <2>3. PICK d \in Deposit : d = NewDeposit(Head(route)) /\ d.status = "pending"
    BY <2>2, NewDepositIs
  <2>4. PICK c : c = [call[k] EXCEPT !.pc = "attempt", !.rest = Tail(route), !.pay = d]
    OBVIOUS
  <2>5. call' = [call EXCEPT ![k] = c]  BY <1>3, <2>3, <2>4 DEF Become
  <2>6. /\ c \in Call /\ c # NoCall /\ c.pc = "attempt" /\ c.s = s
        /\ c.row = call[k].row /\ c.pay = d
        /\ c.answer = call[k].answer /\ c.todo = call[k].todo
    BY <1>1, <1>2, <2>2, <2>4, IsCall DEF Call
  <2>7. CallShape(c)  BY <1>2, <2>6 DEF CallShape
  <2>8. CallTrue(c)  BY <1>1, <1>2, <2>3, <2>6 DEF CallTrue
  <2>9. SubmissionTrue(c)'
    BY <1>1, <1>2, <2>6 DEF SubmissionTrue, memberVars
  <2> QED
    BY <1>1, <1>2, <1>3, <2>3, <2>5, <2>6, <2>7, <2>8, <2>9, Blank,
       Deposited, DepositChanges
<1>4. CASE UNCHANGED deposit /\ Goto(k, "refused")
  <2>1. PICK c \in Call :
          /\ call' = [call EXCEPT ![k] = c] /\ c # NoCall /\ c.pc = "refused"
          /\ c.s = call[k].s /\ c.row = call[k].row /\ c.pay = call[k].pay
          /\ c.answer = call[k].answer /\ c.todo = call[k].todo
    BY <1>1, <1>2, <1>4, GotoIs
  <2>2. CallShape(c) /\ ~Submits(c)  BY <1>1, <1>2, <2>1 DEF CallShape, Submits
  <2>3. CallTrue(c)  BY <1>1, <1>2, <2>1 DEF CallTrue
  <2> QED  BY <1>1, <1>4, <2>1, <2>2, <2>3, CallOnly DEF depositVars
<1> QED  BY <1>3, <1>4 DEF OpenDeposit

LEMMA OrderKnown ==
  \A d \in Deposit : LET e == [d EXCEPT !.order = TRUE] IN
                     e \in Deposit /\ e.status = d.status
  BY DEF Deposit

LEMMA AssignOrderKeeps ==
  ASSUME IInv, NEW k \in Calls, AssignOrder(k)
  PROVE  IInv'
<1> DEFINE s == call[k].s
<1>1. /\ call[k].pc = "attempt" /\ Submits(call[k]) /\ UNCHANGED <<money, memberVars>>
      /\ call' = [call EXCEPT ![k].pay.order = TRUE]
      /\ deposit' = [deposit EXCEPT ![s] = call'[k].pay]
  BY DEF AssignOrder, At, Submits
<1>2. /\ call[k] \in Call /\ CallShape(call[k]) /\ CallTrue(call[k]) /\ s \in Purchases
      /\ call[k].pay \in Deposit /\ sub[s] # NoRow /\ ~sub[s].trial
      /\ \A p \in Providers : money[s][p] = "missing"
  BY <1>1, Submission DEF Unsent, CallShape
<1>3. PICK d \in Deposit : d = [call[k].pay EXCEPT !.order = TRUE]
                           /\ d.status = call[k].pay.status
  BY <1>2, OrderKnown
<1>4. PICK c : c = [call[k] EXCEPT !.pay = d]
  OBVIOUS
<1>5. call' = [call EXCEPT ![k] = c]  BY <1>1, <1>3, <1>4, IInvIs
<1>6. /\ c \in Call /\ c # NoCall /\ c.pc = "attempt" /\ c.s = s
      /\ c.row = call[k].row /\ c.pay = d
      /\ c.answer = call[k].answer /\ c.todo = call[k].todo
  BY <1>1, <1>2, <1>4, IsCall DEF Call
<1>7. call'[k] = c  BY <1>5, IInvIs
<1>8. CallShape(c)  BY <1>1, <1>2, <1>6 DEF CallShape
<1>9. CallTrue(c)  BY <1>1, <1>2, <1>3, <1>6 DEF CallTrue
<1>10. SubmissionTrue(c)'
  BY <1>1, <1>2, <1>6 DEF SubmissionTrue, memberVars
<1>11. d.status = "succeeded" => MoneyPaid(s)
  BY <1>2, <1>3 DEF CallTrue
<1> QED
  BY <1>1, <1>2, <1>3, <1>5, <1>6, <1>7, <1>8, <1>9, <1>10, <1>11, Blank,
     Deposited, DepositChanges

LEMMA PostKeeps ==
  ASSUME IInv, NEW k \in Calls, Post(k)
  PROVE  IInv'
<1> DEFINE s == call[k].s  p == call[k].pay.provider
<1>1. /\ call[k].pc = "attempt" /\ Submits(call[k]) /\ UNCHANGED <<deposit, memberVars>>
      /\ "answered" \in Steps
  BY DEF Post, At, Submits, Steps
<1>2. PICK out \in PostOutcomes :
        /\ call' = [call EXCEPT ![k].pc = "answered", ![k].answer = out[1]]
        /\ money' = [money EXCEPT ![s][p] = out[2]]
  BY DEF Post
<1>3. /\ call[k] \in Call /\ CallShape(call[k]) /\ CallTrue(call[k]) /\ s \in Purchases
      /\ call[k].pay \in Deposit /\ call[k].row \in Row
      /\ call[k].row.status = "pending" /\ sub[s] # NoRow /\ ~sub[s].trial
      /\ \A q \in Providers : money[s][q] = "missing"
  BY <1>1, Submission DEF Unsent, CallShape
<1>4. p \in Providers  BY <1>3 DEF Deposit
<1>5. /\ out[1] \in {"accepted", "unknown", "rejected", "retryable"}
      /\ out[2] \in {"sent", "missing"}
      /\ out[1] \in {"rejected", "retryable"} => out[2] = "missing"
  BY DEF PostOutcomes
<1>6. PICK c : c = [call[k] EXCEPT !.pc = "answered", !.answer = out[1]]
  OBVIOUS
<1>7. call' = [call EXCEPT ![k] = c]  BY <1>2, <1>6, IInvIs
<1>8. /\ c \in Call /\ c # NoCall /\ c.pc = "answered" /\ c.s = s
      /\ c.row = call[k].row /\ c.pay = call[k].pay
      /\ c.answer = out[1] /\ c.todo = call[k].todo
  BY <1>1, <1>3, <1>5, <1>6, IsCall DEF Call
<1> DEFINE m == [money[s] EXCEPT ![p] = out[2]]
<1>9. /\ money \in [Purchases -> [Providers -> Fates]]
      /\ money' = [money EXCEPT ![s] = m]
      /\ m \in [Providers -> Fates] /\ m[p] = out[2]
      /\ \A q \in Providers \ {p} : m[q] = "missing"
  BY <1>2, <1>3, <1>4, <1>5, IInvIs DEF World, DepositsTypeOK, Fates
<1> HIDE DEF m
<1>10. /\ money' \in [Purchases -> [Providers -> Fates]] /\ money'[s] = m
       /\ \A t \in Purchases \ {s} : money'[t] = money[t]
  BY <1>3, <1>9
<1>11. DepositsTypeOK'  BY <1>1, <1>10, IInvIs DEF World, DepositsTypeOK
<1>12. KeepsMissing(k)  BY <1>1, <1>10 DEF KeepsMissing
<1>13. ASSUME NEW t \in Purchases
       PROVE  (MoneyPaid(t) => MoneyPaid(t)') /\ DepositTrue(t)'
  <2>1. DepositTrue(t)  BY IInvIs DEF World
  <2>2. CASE t = s
    <3>1. ~MoneyPaid(t)  BY <1>3, <2>2 DEF MoneyPaid
    <3> QED  BY <1>1, <1>3, <2>1, <2>2, <3>1 DEF DepositTrue, memberVars
  <2>3. CASE t # s
    <3>1. MoneyPaid(t) = MoneyPaid(t)'  BY <1>10, <2>3 DEF MoneyPaid
    <3> QED  BY <1>1, <1>10, <2>1, <2>3, <3>1 DEF DepositTrue, memberVars
  <2> QED  BY <2>2, <2>3
<1>14. CallShape(c)  BY <1>3, <1>8 DEF CallShape
<1>15. CallTrue(c)  BY <1>1, <1>3, <1>5, <1>8 DEF CallTrue
<1>16. SubmissionTrue(c)'
  BY <1>1, <1>3, <1>4, <1>5, <1>8, <1>9, <1>10
     DEF SubmissionTrue, Unsent, memberVars
<1> QED
  BY <1>1, <1>7, <1>8, <1>11, <1>12, <1>13, <1>14, <1>15, <1>16, DepositChanges

LEMMA FailoverKeeps ==
  ASSUME IInv, NEW k \in Calls, Failover(k)
  PROVE  IInv'
<1> DEFINE s == call[k].s  next == NewDeposit(Head(call[k].rest))
<1>1. /\ call[k].pc = "answered" /\ Submits(call[k]) /\ UNCHANGED <<money, memberVars>>
      /\ call[k].answer = "retryable" /\ call[k].rest # <<>>
      /\ deposit' = [deposit EXCEPT ![s] = next]
      /\ call' = [call EXCEPT ![k] = [call[k] EXCEPT !.pc = "attempt", !.pay = next,
                                        !.rest = Tail(@), !.answer = None]]
      /\ "attempt" \in Steps /\ None \in Answers
  BY DEF Failover, CanFailover, Become, At, Submits, Steps, Answers
<1>2. /\ call[k] \in Call /\ CallShape(call[k]) /\ CallTrue(call[k]) /\ s \in Purchases
      /\ call[k].row \in Row /\ call[k].row.status = "pending"
      /\ sub[s] # NoRow /\ ~sub[s].trial
      /\ \A p \in Providers : money[s][p] = "missing"
  BY <1>1, Submission DEF Unsent
<1>3. Head(call[k].rest) \in Providers /\ Tail(call[k].rest) \in Seq(Providers)
  BY <1>1, <1>2, CallFields
<1>4. PICK d \in Deposit : d = next /\ d.status = "pending"
  BY <1>3, NewDepositIs
<1>5. PICK c : c = [call[k] EXCEPT !.pc = "attempt", !.pay = d,
                                   !.rest = Tail(@), !.answer = None]
  OBVIOUS
<1> HIDE DEF next
<1>6. call' = [call EXCEPT ![k] = c]  BY <1>1, <1>4, <1>5
<1>7. /\ c \in Call /\ c # NoCall /\ c.pc = "attempt" /\ c.s = s
      /\ c.row = call[k].row /\ c.pay = d
      /\ c.answer = None /\ c.todo = call[k].todo
  BY <1>1, <1>2, <1>3, <1>5, IsCall DEF Call, Answers
<1>8. CallShape(c)  BY <1>2, <1>7 DEF CallShape
<1>9. CallTrue(c)  BY <1>1, <1>2, <1>4, <1>7 DEF CallTrue, None
<1>10. SubmissionTrue(c)'
  BY <1>1, <1>2, <1>7 DEF SubmissionTrue, memberVars
<1> QED
  BY <1>1, <1>2, <1>4, <1>6, <1>7, <1>8, <1>9, <1>10, Blank, Deposited, DepositChanges

\* The row built from an answer is no payment, and what is written of it is
\* that row or the one that was there.
LEMMA AnswerRowIs ==
  ASSUME NEW d \in Deposit, NEW answer
  PROVE  AnswerRow(d, answer) \in Deposit /\ AnswerRow(d, answer).status # "succeeded"
  BY DEF AnswerRow, Deposit, Open, Terminal, Refused

LEMMA WrittenIs ==
  ASSUME NEW cur \in Deposit \cup {NoDeposit}, NEW new \in Deposit
  PROVE  /\ Written(cur, new) \in Deposit \cup {NoDeposit}
         /\ cur # NoDeposit => Written(cur, new) # NoDeposit
         /\ Written(cur, new).status \in {cur.status, new.status}
<1>1. CASE Written(cur, new) = new  BY <1>1, Blank
<1>2. CASE Written(cur, new) = cur  BY <1>2
<1>3. CASE cur # NoDeposit /\ Written(cur, new) = [cur EXCEPT !.status = new.status]
  <2>1. cur \in Deposit  BY <1>3
  <2>2. PICK e : e = [cur EXCEPT !.status = new.status]  OBVIOUS
  <2>3. e \in Deposit /\ e.status = new.status  BY <2>1, <2>2 DEF Deposit
  <2> QED  BY <1>3, <2>2, <2>3, Blank
<1>4. cur = NoDeposit => Written(cur, new) \in {cur, new}
  BY DEF Written, PawaPayRejects, NoDeposit, Deposit, Providers
<1> QED  BY <1>1, <1>2, <1>3, <1>4 DEF Written

LEMMA KeepAnswerKeeps ==
  ASSUME IInv, NEW k \in Calls, KeepAnswer(k)
  PROVE  IInv'
<1> DEFINE s == call[k].s
<1>1. /\ call[k].pc = "answered" /\ Submits(call[k]) /\ UNCHANGED <<money, memberVars>>
      /\ {"refused", "link"} \subseteq Steps
  BY DEF KeepAnswer, At, Submits, Steps
<1>2. PICK new : new = AnswerRow(call[k].pay, call[k].answer)
  OBVIOUS
<1>3. PICK pc \in {"refused", "link"} :
        /\ deposit' = [deposit EXCEPT ![s] = Written(@, new)]
        /\ Become(k, [Begun("subscribe", pc) EXCEPT !.s = s, !.row = call[k].row])
  BY <1>2 DEF KeepAnswer
<1>4. /\ call[k] \in Call /\ CallShape(call[k]) /\ CallTrue(call[k]) /\ s \in Purchases
      /\ call[k].pay \in Deposit /\ call[k].row \in Row
      /\ call[k].row.status = "pending" /\ CopyTrue(s, call[k].row)
      /\ sub[s] # NoRow /\ ~sub[s].trial
  BY <1>1, Submission DEF CallShape
<1>5. PICK d \in Deposit \cup {NoDeposit} :
        /\ d = Written(deposit[s], new)
        /\ deposit[s] # NoDeposit => d # NoDeposit
        /\ d.status = "succeeded" => deposit[s].status = "succeeded"
  <2>1. deposit[s] \in Deposit \cup {NoDeposit}
    BY <1>4, IInvIs DEF World, DepositsTypeOK
  <2>2. new \in Deposit /\ new.status # "succeeded"  BY <1>2, <1>4, AnswerRowIs
  <2> QED  BY <2>1, <2>2, WrittenIs
<1>6. deposit' = [deposit EXCEPT ![s] = d] /\ (d.status = "succeeded" => MoneyPaid(s))
  BY <1>3, <1>4, <1>5, IInvIs DEF World, DepositsTypeOK, DepositTrue
<1>7. PICK c : c = [Begun("subscribe", pc) EXCEPT !.s = s, !.row = call[k].row]
  OBVIOUS
<1>8. call' = [call EXCEPT ![k] = c]  BY <1>3, <1>7 DEF Become
<1>9. /\ c \in Call /\ c # NoCall /\ c.pc = pc /\ c.s = s
      /\ c.row = call[k].row /\ c.pay = NoDeposit /\ c.answer = None /\ c.todo = {}
  <2>1. Begun("subscribe", pc) \in Call  BY <1>1, <1>3, BegunCall DEF Operations
  <2>2. c \in Call /\ c # NoCall  BY <1>4, <1>7, <2>1, IsCall DEF Call
  <2> QED  BY <1>7, <2>2 DEF Begun
<1>10. CallShape(c) /\ ~Submits(c)  BY <1>3, <1>4, <1>9 DEF CallShape, Submits
<1>11. CallTrue(c)  BY <1>3, <1>4, <1>9, Blank DEF CallTrue, None
<1> QED
  BY <1>1, <1>4, <1>5, <1>6, <1>8, <1>9, <1>10, <1>11, Deposited, DepositChanges

LEMMA SavePurchaseKeeps ==
  ASSUME IInv, NEW k \in Calls, SavePurchase(k)
  PROVE  IInv'
<1> DEFINE s == call[k].s
<1>1. /\ call[k].pc \in {"link", "refused"}
      /\ CallShape(call[k]) /\ CallTrue(call[k]) /\ Finish(k)
      /\ UNCHANGED <<depositVars, now, debit, bonus, granted>>
  BY AtCall DEF SavePurchase, At, None
<1>2. PICK row : /\ row \in {[call[k].row EXCEPT !.linked = TRUE],
                             [call[k].row EXCEPT !.status = "payment_failed"]}
                 /\ Save(s, row)
  BY DEF SavePurchase
<1>3. /\ s \in Purchases /\ call[k].row \in Row /\ CopyTrue(s, call[k].row)
      /\ call[k].row.status = "pending"
  BY <1>1, Blank DEF CallShape, CallTrue
<1>4. row \in Row /\ row.status # "active" /\ row.trial = call[k].row.trial
  BY <1>2, <1>3 DEF Row, RowStatuses
<1>5. row.trial = sub[s].trial /\ RowTrue(s, row)
  BY <1>3, <1>4 DEF CopyTrue, RowTrue
<1>6. call' = [call EXCEPT ![k] = NoCall]  BY <1>1 DEF Finish
<1> QED
  BY <1>1, <1>2, <1>3, <1>4, <1>5, <1>6, Finished, SavedRows, SubChanges

----------------------------------------------------------------------------
(* The steps of a check.                                                   *)

\* The row a call read, or wrote, and its subscription.
LEMMA RowSeen ==
  ASSUME IInv, NEW s \in Purchases, deposit[s] # NoDeposit
  PROVE  /\ deposit[s] \in Deposit /\ sub[s] \in Row /\ sub[s] # NoRow
         /\ ~sub[s].trial /\ RowTrue(s, sub[s])
         /\ deposit[s].status = "succeeded" => MoneyPaid(s)
  BY IInvIs DEF World, DepositsTypeOK, DepositTrue

LEMMA StatusCheckKeeps ==
  ASSUME IInv, NEW k \in Calls, NEW s \in Purchases, StatusCheck(k, s)
  PROVE  IInv'
<1>1. deposit[s] # NoDeposit /\ UNCHANGED <<depositVars, memberVars>>
  BY DEF StatusCheck, NoDeposit
<1>2. PICK pc \in {"find", "asked"} :
        Become(k, [Begun("status", pc) EXCEPT !.s = s, !.pay = deposit[s]])
  BY DEF StatusCheck
<1>3. PICK c : c = [Begun("status", pc) EXCEPT !.s = s, !.pay = deposit[s]]
  OBVIOUS
<1>4. call' = [call EXCEPT ![k] = c]  BY <1>2, <1>3 DEF Become
<1>5. /\ c \in Call /\ c # NoCall /\ c.pc = pc /\ c.s = s
      /\ c.row = NoRow /\ c.pay = deposit[s] /\ c.answer = None /\ c.todo = {}
  <2>1. Begun("status", pc) \in Call  BY <1>2, BegunCall DEF Operations, Steps
  <2>2. c \in Call /\ c # NoCall  BY <1>1, <1>3, <2>1, RowSeen, IsCall DEF Call
  <2> QED  BY <1>3, <2>2 DEF Begun
<1>6. CallShape(c) /\ ~Submits(c)
  BY <1>1, <1>2, <1>5, RowSeen DEF CallShape, Submits
<1>7. CallTrue(c)
  BY <1>1, <1>2, <1>5, RowSeen, Blank DEF CallTrue, None
<1> QED  BY <1>1, <1>4, <1>5, <1>6, <1>7, CallOnly

LEMMA NoticeKeeps ==
  ASSUME IInv, NEW k \in Calls, NEW s \in Purchases, Notice(k, s)
  PROVE  IInv'
<1>1. deposit[s] # NoDeposit /\ UNCHANGED <<depositVars, memberVars>>
  BY DEF Notice
<1>2. PICK d \in Deposit : d = [deposit[s] EXCEPT !.order = TRUE]
                           /\ d.status = deposit[s].status
  BY <1>1, RowSeen, OrderKnown
<1>3. PICK c : c = [Begun("notice", "asked") EXCEPT !.s = s, !.pay = d]
  OBVIOUS
<1>4. call' = [call EXCEPT ![k] = c]  BY <1>2, <1>3 DEF Notice, Become
<1>5. /\ c \in Call /\ c # NoCall /\ c.pc = "asked" /\ c.s = s
      /\ c.row = NoRow /\ c.pay = d /\ c.answer = None /\ c.todo = {}
  <2>1. Begun("notice", "asked") \in Call  BY BegunCall DEF Operations, Steps
  <2>2. c \in Call /\ c # NoCall  BY <1>3, <2>1, IsCall DEF Call
  <2> QED  BY <1>3, <2>2 DEF Begun
<1>6. CallShape(c) /\ ~Submits(c)  BY <1>5 DEF CallShape, Submits
<1>7. CallTrue(c)
  BY <1>1, <1>2, <1>5, RowSeen, Blank DEF CallTrue, None
<1> QED  BY <1>1, <1>4, <1>5, <1>6, <1>7, CallOnly

LEMMA AnsweredKeeps ==
  ASSUME IInv, NEW k \in Calls, Answered(k)
  PROVE  IInv'
<1> DEFINE s == call[k].s
<1>1. /\ call[k] \in Call /\ CallShape(call[k]) /\ CallTrue(call[k])
      /\ call[k].pc = "asked" /\ UNCHANGED <<depositVars, memberVars>>
      /\ "save" \in Steps
  BY AtCall DEF Answered, At, None, Steps
<1>2. PICK v \in {money[s][call[k].pay.provider], "missing"} :
        call' = [call EXCEPT ![k].pc = "save", ![k].answer = v]
  BY DEF Answered
<1>3. s \in Purchases /\ call[k].pay \in Deposit /\ deposit[s] # NoDeposit
  BY <1>1 DEF CallShape, CallTrue
<1>4. call[k].pay.provider \in Providers  BY <1>3 DEF Deposit
<1>5. v \in Fates /\ (v = "paid" => MoneyPaid(s))
  BY <1>2, <1>3, <1>4, IInvIs DEF World, DepositsTypeOK, Fates, MoneyPaid
<1>6. PICK c : c = [call[k] EXCEPT !.pc = "save", !.answer = v]
  OBVIOUS
<1>7. call' = [call EXCEPT ![k] = c]  BY <1>2, <1>6, IInvIs
<1>8. /\ c \in Call /\ c # NoCall /\ c.pc = "save" /\ c.s = s
      /\ c.row = call[k].row /\ c.pay = call[k].pay
      /\ c.answer = v /\ c.todo = call[k].todo
  BY <1>1, <1>5, <1>6, IsCall DEF Call, Fates
<1>9. CallShape(c) /\ ~Submits(c)  BY <1>3, <1>8 DEF CallShape, Submits
<1>10. CallTrue(c)  BY <1>1, <1>3, <1>5, <1>8 DEF CallTrue
<1> QED  BY <1>1, <1>7, <1>8, <1>9, <1>10, CallOnly

\* What an answer makes of a row: paid only what the provider said is paid.
LEMMA CheckedRowIs ==
  ASSUME NEW d \in Deposit, NEW view, NEW new \in CheckedRows(d, view)
  PROVE  /\ new \in Deposit
         /\ new.status = "succeeded" => view = "paid" \/ d.status = "succeeded"
<1>1. PICK st \in Open \cup Terminal \cup {d.status} :
        /\ new = d \/ new = [d EXCEPT !.status = st]
        /\ st = "succeeded" => view = "paid" \/ d.status = "succeeded"
  BY DEF CheckedRows, Open, Terminal, Refused
<1> QED  BY <1>1 DEF Deposit

LEMMA SaveCheckKeeps ==
  ASSUME IInv, NEW k \in Calls, SaveCheck(k)
  PROVE  IInv'
<1> DEFINE s == call[k].s
<1>1. /\ call[k] \in Call /\ CallShape(call[k]) /\ CallTrue(call[k])
      /\ call[k].pc = "save" /\ UNCHANGED <<money, memberVars>>
  BY AtCall DEF SaveCheck, At, None
<1>2. PICK new \in CheckedRows(call[k].pay, call[k].answer) :
        /\ deposit' = [deposit EXCEPT ![s] = Written(@, new)]
        /\ \/ Finish(k)
           \/ Become(k, [Begun(call[k].op, "find") EXCEPT !.s = s, !.pay = deposit'[s]])
  BY DEF SaveCheck
<1>3. /\ s \in Purchases /\ call[k].pay \in Deposit /\ deposit[s] # NoDeposit
      /\ call[k].pay.status = "succeeded" \/ call[k].answer = "paid" => MoneyPaid(s)
  BY <1>1 DEF CallShape, CallTrue
<1>4. new \in Deposit /\ (new.status = "succeeded" => MoneyPaid(s))
  BY <1>2, <1>3, CheckedRowIs
<1>5. PICK d \in Deposit : /\ d = Written(deposit[s], new) /\ d # NoDeposit
                           /\ d.status = "succeeded" => MoneyPaid(s)
  <2>1. deposit[s] \in Deposit \cup {NoDeposit}  BY <1>3, RowSeen
  <2> QED  BY <1>3, <1>4, <2>1, WrittenIs, RowSeen
<1>6. deposit' = [deposit EXCEPT ![s] = d]  BY <1>2, <1>3, <1>5, IInvIs
<1>7. /\ DepositsTypeOK' /\ deposit'[s] = d /\ KeepsMissing(k)
      /\ \A t \in Purchases : /\ MoneyPaid(t) => MoneyPaid(t)'
                              /\ deposit[t] # NoDeposit => deposit'[t] # NoDeposit
                              /\ DepositTrue(t)'
  BY <1>1, <1>3, <1>5, <1>6, Deposited, RowSeen
<1>8. CASE Finish(k)
  <2>1. call' = [call EXCEPT ![k] = NoCall]  BY <1>8 DEF Finish
  <2> QED  BY <1>1, <1>7, <2>1, Finished, DepositChanges
<1>9. CASE Become(k, [Begun(call[k].op, "find") EXCEPT !.s = s, !.pay = deposit'[s]])
  <2>1. PICK c : c = [Begun(call[k].op, "find") EXCEPT !.s = s, !.pay = d]
    OBVIOUS
  <2>2. call' = [call EXCEPT ![k] = c]  BY <1>7, <1>9, <2>1 DEF Become
  <2>3. /\ c \in Call /\ c # NoCall /\ c.pc = "find" /\ c.s = s
        /\ c.row = NoRow /\ c.pay = d /\ c.answer = None /\ c.todo = {}
    <3>1. Begun(call[k].op, "find") \in Call
      BY <1>1, BegunCall, CallFields DEF Steps
    <3>2. c \in Call /\ c # NoCall  BY <1>3, <2>1, <3>1, IsCall DEF Call
    <3> QED  BY <2>1, <3>2 DEF Begun
  <2>4. CallShape(c) /\ ~Submits(c)  BY <1>3, <2>3 DEF CallShape, Submits
  <2>5. CallTrue(c)  BY <1>3, <1>5, <2>3, Blank DEF CallTrue, None
  <2> QED  BY <1>1, <1>7, <2>2, <2>3, <2>4, <2>5, DepositChanges
<1> QED  BY <1>2, <1>8, <1>9

LEMMA FindSubscriptionKeeps ==
  ASSUME IInv, NEW k \in Calls, FindSubscription(k)
  PROVE  IInv'
<1> DEFINE s == call[k].s
<1>1. /\ call[k] \in Call /\ CallShape(call[k]) /\ CallTrue(call[k])
      /\ call[k].pc = "find" /\ UNCHANGED <<depositVars, memberVars>>
      /\ "apply" \in Steps
      /\ call' = [call EXCEPT ![k].pc = "apply", ![k].row = sub[s]]
  BY AtCall DEF FindSubscription, At, None, Steps
<1>2. s \in Purchases /\ call[k].pay \in Deposit /\ deposit[s] # NoDeposit
  BY <1>1 DEF CallShape, CallTrue
<1>3. PICK c : c = [call[k] EXCEPT !.pc = "apply", !.row = sub[s]]
  OBVIOUS
<1>4. call' = [call EXCEPT ![k] = c]  BY <1>1, <1>3, IInvIs
<1>5. /\ c \in Call /\ c # NoCall /\ c.pc = "apply" /\ c.s = s
      /\ c.row = sub[s] /\ c.pay = call[k].pay
      /\ c.answer = call[k].answer /\ c.todo = call[k].todo
  BY <1>1, <1>2, <1>3, RowSeen, IsCall DEF Call
<1>6. CallShape(c) /\ ~Submits(c)
  BY <1>2, <1>5, RowSeen DEF CallShape, Submits
<1>7. CopyTrue(s, sub[s])  BY <1>2, RowSeen DEF CopyTrue
<1>8. CallTrue(c)  BY <1>1, <1>2, <1>5, <1>7 DEF CallTrue
<1> QED  BY <1>1, <1>4, <1>5, <1>6, <1>8, CallOnly

LEMMA ApplyPaidKeeps ==
  ASSUME IInv, NEW k \in Calls, ApplyPaid(k)
  PROVE  IInv'
<1> DEFINE s == call[k].s
<1>1. /\ call[k] \in Call /\ CallShape(call[k]) /\ CallTrue(call[k])
      /\ call[k].pc = "apply" /\ call[k].pay.status = "succeeded"
      /\ UNCHANGED <<depositVars, memberVars>> /\ {"bonus", "activate"} \subseteq Steps
  BY AtCall DEF ApplyPaid, At, None, Steps
<1>2. /\ s \in Purchases /\ call[k].row \in Row /\ deposit[s] # NoDeposit
      /\ MoneyPaid(s) /\ CopyTrue(s, call[k].row)
  BY <1>1, Blank DEF CallShape, CallTrue
<1>3. PICK pc \in {"bonus", "activate"} :
        /\ Goto(k, pc)
        /\ pc = "bonus" => AlreadyActive(call[k].row)
  BY DEF ApplyPaid
<1>4. pc = "bonus" => granted[s] # {}
  BY <1>2, <1>3 DEF AlreadyActive, CopyTrue, RowTrue
<1>5. PICK c \in Call :
        /\ call' = [call EXCEPT ![k] = c] /\ c # NoCall /\ c.pc = pc
        /\ c.s = call[k].s /\ c.row = call[k].row /\ c.pay = call[k].pay
        /\ c.answer = call[k].answer /\ c.todo = call[k].todo
  BY <1>1, <1>3, GotoIs
<1>6. CallShape(c) /\ ~Submits(c)  BY <1>2, <1>3, <1>5 DEF CallShape, Submits
<1>7. Paid(s)  BY <1>2 DEF Paid, MoneyPaid
<1>8. CallTrue(c)  BY <1>1, <1>3, <1>4, <1>5, <1>7 DEF CallTrue
<1> QED  BY <1>1, <1>5, <1>6, <1>8, CallOnly

LEMMA ApplyOtherKeeps ==
  ASSUME IInv, NEW k \in Calls, ApplyOther(k)
  PROVE  IInv'
<1> DEFINE s == call[k].s
<1>1. /\ CallShape(call[k]) /\ CallTrue(call[k]) /\ call[k].pc = "apply"
      /\ Finish(k) /\ UNCHANGED <<depositVars, now, debit, bonus, granted>>
  BY AtCall DEF ApplyOther, At, None
<1>2. /\ s \in Purchases /\ call[k].row \in Row /\ deposit[s] # NoDeposit
      /\ CopyTrue(s, call[k].row)
  BY <1>1, Blank DEF CallShape, CallTrue
<1>3. PICK st \in {"payment_failed", "cancelled", call[k].row.status} :
        Save(s, [call[k].row EXCEPT !.linked = TRUE, !.status = st])
  BY DEF ApplyOther
<1>4. PICK row : row = [call[k].row EXCEPT !.linked = TRUE, !.status = st]
  OBVIOUS
<1>5. row \in Row /\ row.status = st /\ row.trial = call[k].row.trial
  BY <1>2, <1>3, <1>4 DEF Row, RowStatuses
<1>6. ~sub[s].trial  BY <1>2, RowSeen
<1>7. row.trial = sub[s].trial /\ RowTrue(s, row)
  BY <1>2, <1>3, <1>5, <1>6 DEF CopyTrue, RowTrue
<1>8. call' = [call EXCEPT ![k] = NoCall] /\ Save(s, row)
  BY <1>1, <1>3, <1>4 DEF Finish
<1> QED
  BY <1>1, <1>2, <1>5, <1>7, <1>8, Finished, SavedRows, SubChanges

LEMMA CancelOthersKeeps ==
  ASSUME IInv, NEW k \in Calls, CancelOthers(k)
  PROVE  IInv'
<1>1. /\ call[k] \in Call /\ CallShape(call[k]) /\ CallTrue(call[k])
      /\ call[k].pc = "activate" /\ Goto(k, "start") /\ "start" \in Steps
      /\ UNCHANGED <<depositVars, now, debit, bonus, granted>>
      /\ sub' = [s \in Purchases |-> IF s \in Active \ {call[k].s}
                   THEN [sub[s] EXCEPT !.status = "cancelled"] ELSE sub[s]]
  BY AtCall DEF CancelOthers, At, None, Steps
<1>2. PICK c \in Call :
        /\ call' = [call EXCEPT ![k] = c] /\ c # NoCall /\ c.pc = "start"
        /\ c.s = call[k].s /\ c.row = call[k].row /\ c.pay = call[k].pay
        /\ c.answer = call[k].answer /\ c.todo = call[k].todo
  BY <1>1, GotoIs
<1>3. CallShape(c) /\ ~Submits(c)  BY <1>1, <1>2 DEF CallShape, Submits
<1>4. CallTrue(c)  BY <1>1, <1>2 DEF CallTrue
<1> DEFINE S == Active \ {call[k].s}
<1>5. S \in SUBSET Purchases /\ \A s \in S : sub[s] # NoRow
  BY Blank DEF Active, None
<1> HIDE DEF S
<1>6. sub' = [s \in Purchases |-> IF s \in S
                THEN [sub[s] EXCEPT !.status = "cancelled"] ELSE sub[s]]
  BY <1>1 DEF S
<1> QED  BY <1>1, <1>2, <1>3, <1>4, <1>5, <1>6, CancelledRows, SubChanges

LEMMA StartKeeps ==
  ASSUME IInv, NEW k \in Calls, Start(k)
  PROVE  IInv'
<1>0. PICK s : s = call[k].s
  OBVIOUS
<1>1. /\ call[k] \in Call /\ CallShape(call[k]) /\ CallTrue(call[k])
      /\ call[k].pc = "start" /\ UNCHANGED <<depositVars, now, debit, bonus>>
      /\ granted' = [granted EXCEPT ![s] = @ \cup {now + Period}]
  BY <1>0, AtCall DEF Start, At, None
<1>2. PICK row : /\ row = [call[k].row EXCEPT !.status = "active", !.end = now + Period,
                                              !.linked = call[k].op # "points"]
                 /\ Save(s, row)
  BY <1>0 DEF Start
<1>3. s \in Purchases /\ call[k].row \in Row /\ CopyTrue(s, call[k].row) /\ Paid(s)
  BY <1>0, <1>1, Blank DEF CallShape, CallTrue
<1>4. now \in 0..Horizon /\ now + Period \in Times
  <2>1. now \in 0..Horizon  BY IInvIs DEF World
  <2> QED  BY <2>1, SubscriptionsAssumption DEF Times
<1>5. row \in Row /\ row.trial = call[k].row.trial
  BY <1>2, <1>3, <1>4 DEF Row, RowStatuses
<1>6. /\ granted \in [Purchases -> SUBSET Times] /\ granted' \in [Purchases -> SUBSET Times]
      /\ granted'[s] # {} /\ \A t \in Purchases : granted[t] # {} => granted'[t] # {}
  BY <1>1, <1>3, <1>4, IInvIs DEF World
<1>7. /\ sub' \in [Purchases -> Row \cup {NoRow}] /\ sub'[s] = row
      /\ \A t \in Purchases \ {s} : sub'[t] = sub[t]
  BY <1>2, <1>3, <1>5, SaveIs
<1>8. Paid(s)'  BY <1>1, <1>3 DEF Paid, depositVars
<1>9. ASSUME NEW t \in Purchases
      PROVE  /\ sub[t] # NoRow => sub'[t] # NoRow /\ sub'[t].trial = sub[t].trial
             /\ RowTrue(t, sub[t])'
  <2>1. CASE t = s
    BY <2>1, <1>3, <1>5, <1>6, <1>7, <1>8, Blank DEF RowTrue, CopyTrue
  <2>2. CASE t # s
    <3>1. sub'[t] = sub[t] /\ RowTrue(t, sub[t])
      BY <2>2, <1>7, IInvIs DEF World
    <3> QED  BY <3>1, <1>1, <1>6 DEF RowTrue, Paid, depositVars
  <2> QED  BY <2>1, <2>2
<1>10. PICK c : c = [Begun(call[k].op, "bonus") EXCEPT !.s = s]
  OBVIOUS
<1>11. call' = [call EXCEPT ![k] = c]  BY <1>0, <1>10 DEF Start, Become
<1>12. /\ c \in Call /\ c # NoCall /\ c.pc = "bonus" /\ c.s = s
       /\ c.row = NoRow /\ c.pay = NoDeposit /\ c.answer = None /\ c.todo = {}
  <2>1. Begun(call[k].op, "bonus") \in Call
    BY <1>1, BegunCall, CallFields DEF Steps
  <2>2. c \in Call /\ c # NoCall  BY <1>3, <1>10, <2>1, IsCall DEF Call
  <2> QED  BY <1>10, <2>2 DEF Begun
<1>13. CallShape(c) /\ ~Submits(c)  BY <1>3, <1>12 DEF CallShape, Submits
<1>14. CallTrue(c)'  BY <1>6, <1>8, <1>12, Blank DEF CallTrue, None
<1> QED
  BY <1>1, <1>6, <1>7, <1>9, <1>11, <1>12, <1>13, <1>14, SubChanges

LEMMA LookForBonusKeeps ==
  ASSUME IInv, NEW k \in Calls, LookForBonus(k)
  PROVE  IInv'
<1> DEFINE s == call[k].s
<1>1. /\ call[k] \in Call /\ CallShape(call[k]) /\ CallTrue(call[k])
      /\ call[k].pc = "bonus" /\ UNCHANGED <<depositVars, memberVars>>
  BY AtCall DEF LookForBonus, At, None
<1>2. s \in Purchases /\ Paid(s) /\ granted[s] # {}
  BY <1>1 DEF CallShape, CallTrue
<1>3. CASE Finish(k)  BY <1>1, <1>3, FinishKeeps
<1>4. CASE Become(k, [Begun(call[k].op, "credit") EXCEPT !.s = s])
  <2>1. PICK c : c = [Begun(call[k].op, "credit") EXCEPT !.s = s]
    OBVIOUS
  <2>2. call' = [call EXCEPT ![k] = c]  BY <1>4, <2>1 DEF Become
  <2>3. /\ c \in Call /\ c # NoCall /\ c.pc = "credit" /\ c.s = s
        /\ c.row = NoRow /\ c.pay = NoDeposit /\ c.answer = None /\ c.todo = {}
    <3>1. Begun(call[k].op, "credit") \in Call
      BY <1>1, BegunCall, CallFields DEF Steps
    <3>2. c \in Call /\ c # NoCall  BY <1>2, <2>1, <3>1, IsCall DEF Call
    <3> QED  BY <2>1, <3>2 DEF Begun
  <2>4. CallShape(c) /\ ~Submits(c)  BY <1>2, <2>3 DEF CallShape, Submits
  <2>5. CallTrue(c)  BY <1>2, <2>3, Blank DEF CallTrue, None
  <2> QED  BY <1>1, <2>2, <2>3, <2>4, <2>5, CallOnly
<1> QED  BY <1>3, <1>4 DEF LookForBonus

LEMMA CreditBonusKeeps ==
  ASSUME IInv, NEW k \in Calls, CreditBonus(k)
  PROVE  IInv'
<1> DEFINE s == call[k].s
<1>1. /\ CallShape(call[k]) /\ CallTrue(call[k]) /\ call[k].pc = "credit"
      /\ UNCHANGED <<depositVars, now, sub, debit, granted>>
      /\ call' = [call EXCEPT ![k] = NoCall]
      /\ bonus' = IF bonus[s] = 0 THEN [bonus EXCEPT ![s] = 1] ELSE bonus
  BY AtCall DEF CreditBonus, Finish, At, None
<1>2. s \in Purchases /\ Paid(s) /\ granted[s] # {}
  BY <1>1 DEF CallShape, CallTrue
<1>3. Grows /\ KeepsMissing(k)
  BY <1>1 DEF Grows, KeepsMissing, MoneyPaid, depositVars
<1>4. World'
  <2>1. World  BY IInvIs
  <2>2. ASSUME NEW t \in Purchases
        PROVE  /\ bonus'[t] \in Nat /\ bonus'[t] <= 1
               /\ bonus'[t] = 1 => Paid(t) /\ granted[t] # {}
    BY <1>1, <1>2, <2>1 DEF World, BonusEarnedOnce
  <2>3. bonus' \in [Purchases -> Nat]  BY <1>1, <1>2, <2>1 DEF World
  <2>4. BonusEarnedOnce'
    BY <1>1, <2>2 DEF BonusEarnedOnce, Paid, depositVars
  <2>5. ASSUME NEW t \in Purchases PROVE RowTrue(t, sub[t])' /\ DepositTrue(t)'
    BY <1>1, <2>1 DEF World, RowTrue, DepositTrue, Paid, MoneyPaid, depositVars
  <2> QED  BY <1>1, <2>1, <2>3, <2>4, <2>5 DEF World, DepositsTypeOK, depositVars
<1> QED  BY <1>1, <1>3, <1>4, Finished, Combine

----------------------------------------------------------------------------
(* The provider, the clock, and the theorems.                              *)

LEMMA ProviderDecidesKeeps ==
  ASSUME IInv, ProviderDecides
  PROVE  IInv'
<1>1. UNCHANGED <<memberVars, call, deposit>>  BY DEF ProviderDecides, Decides
<1>2. PICK s \in Purchases, p \in Providers, v \in {"paid", "refused"} :
        money[s][p] = "sent" /\ money' = [money EXCEPT ![s][p] = v]
  BY DEF ProviderDecides, Decides
<1>3. World  BY IInvIs
<1>4. money \in [Purchases -> [Providers -> Fates]]
  BY <1>3 DEF World, DepositsTypeOK
<1> DEFINE m == [money[s] EXCEPT ![p] = v]
<1>5. /\ money' = [money EXCEPT ![s] = m] /\ m \in [Providers -> Fates]
      /\ m[p] = v /\ \A q \in Providers \ {p} : m[q] = money[s][q]
  BY <1>2, <1>4 DEF Fates
<1> HIDE DEF m
<1>6. /\ money' \in [Purchases -> [Providers -> Fates]] /\ money'[s] = m
      /\ \A t \in Purchases \ {s} : money'[t] = money[t]
  BY <1>4, <1>5
<1>7. ASSUME NEW t \in Purchases, NEW q \in Providers
      PROVE  /\ money[t][q] = "missing" => money'[t][q] = "missing"
             /\ money[t][q] = "paid" => money'[t][q] = "paid"
  BY <1>2, <1>5, <1>6
<1>8. ASSUME NEW t \in Purchases PROVE MoneyPaid(t) => MoneyPaid(t)'
  BY <1>7 DEF MoneyPaid
<1>9. Grows  BY <1>1, <1>8 DEF Grows, memberVars
<1>10. World'
  <2>1. BonusEarnedOnce'
    BY <1>1, <1>3, <1>8 DEF World, BonusEarnedOnce, Paid, MoneyPaid, memberVars
  <2>2. ASSUME NEW t \in Purchases PROVE RowTrue(t, sub[t])'
    BY <1>1, <1>3, <1>8 DEF World, RowTrue, Paid, MoneyPaid, memberVars
  <2>3. ASSUME NEW t \in Purchases PROVE DepositTrue(t)'
    BY <1>1, <1>3, <1>7, <1>8 DEF World, DepositTrue, memberVars
  <2>4. DepositsTypeOK'  BY <1>1, <1>3, <1>6 DEF World, DepositsTypeOK
  <2> QED  BY <1>1, <1>3, <2>1, <2>2, <2>3, <2>4 DEF World, memberVars
<1> QED  BY <1>1, <1>7, <1>9, <1>10, NoCallStep

LEMMA TickKeeps ==
  ASSUME IInv, Tick \/ UNCHANGED vars
  PROVE  IInv'
<1>1. UNCHANGED <<depositVars, sub, debit, bonus, call, granted>>
  BY DEF Tick, vars
<1>2. World  BY IInvIs
<1>3. now' \in 0..Horizon
  <2>1. now \in 0..Horizon  BY <1>2 DEF World
  <2> QED  BY <2>1, SubscriptionsAssumption DEF Tick, vars
<1>4. Grows  BY <1>1 DEF Grows, MoneyPaid, depositVars
<1>5. World'
  BY <1>1, <1>2, <1>3 DEF World, DepositsTypeOK, BonusEarnedOnce, RowTrue,
     DepositTrue, Paid, MoneyPaid, depositVars
<1> QED  BY <1>1, <1>4, <1>5, NoCallStep DEF depositVars

LEMMA InitInvariant == Init => IInv
<1> SUFFICES ASSUME Init PROVE IInv  OBVIOUS
<1> USE DEF Init, DepositsInit
<1>1. TypeOK
  <2>1. DepositsTypeOK  BY DEF DepositsTypeOK, Fates
  <2> QED  BY <2>1, SubscriptionsAssumption DEF TypeOK
<1>2. BonusEarnedOnce  BY DEF BonusEarnedOnce
<1>3. CallsTrue
  <2>1. \A k \in Calls : call[k] = NoCall  OBVIOUS
  <2> QED  BY <2>1, Finished DEF CallsTrue
<1>4. ASSUME NEW s \in Purchases PROVE RowTrue(s, sub[s]) /\ DepositTrue(s)
  BY Blank DEF RowTrue, DepositTrue, None
<1> QED  BY <1>1, <1>2, <1>3, <1>4 DEF IInv

LEMMA StepInvariant == IInv /\ [Next]_vars => IInv'
<1> SUFFICES ASSUME IInv, [Next]_vars PROVE IInv'  OBVIOUS
<1>1. ASSUME NEW k \in Buyers, NEW op \in {"read", "trial", "subscribe", "points"},
             Look(k, op)
      PROVE  IInv'
  BY <1>1, LookKeeps DEF Calls
<1>2. ASSUME NEW k \in Checkers, NEW s \in Purchases, StatusCheck(k, s) \/ Notice(k, s)
      PROVE  IInv'
  BY <1>2, StatusCheckKeeps, NoticeKeeps DEF Calls
<1>3. ASSUME NEW k \in Calls, Buy(k)
      PROVE  IInv'
  <2>1. CASE ReuseOpen(k)  BY <2>1, FinishKeeps DEF ReuseOpen
  <2> QED
    BY <1>3, <2>1, ExpireKeeps, ReadPendingKeeps, NoneReusableKeeps, DiscardKeeps,
       ReusePaidKeeps, CancelPendingKeeps, CreateKeeps, DebitKeeps, OpenDepositKeeps,
       AssignOrderKeeps, PostKeeps, FailoverKeeps, KeepAnswerKeeps, SavePurchaseKeeps
       DEF Buy
<1>4. ASSUME NEW k \in Calls, Settle(k)
      PROVE  IInv'
  BY <1>4, AnsweredKeeps, SaveCheckKeeps, FindSubscriptionKeeps, ApplyPaidKeeps,
     ApplyOtherKeeps, CancelOthersKeeps, StartKeeps, LookForBonusKeeps,
     CreditBonusKeeps DEF Settle
<1>5. ASSUME NEW k \in Calls, Abandon(k)
      PROVE  IInv'
  BY <1>5, FinishKeeps DEF Abandon
<1> QED
  BY <1>1, <1>2, <1>3, <1>4, <1>5, ProviderDecidesKeeps, TickKeeps DEF Next

\* The inductive invariant: what a call carries, however old, is of the purchase
\* it names; a succeeded payment row has an order a provider completed; an active
\* row was paid and started, or is an untouched trial; a submitting request owns
\* its purchase.
THEOREM Invariance == Spec => []IInv
  BY InitInvariant, StepInvariant, PTL DEF Spec

\* Rows, calls, ledger entries and payments have their types.
THEOREM TypeCorrect == Spec => []TypeOK
<1>1. IInv => TypeOK  BY DEF IInv
<1> QED  BY <1>1, Invariance, PTL

\* An active pack that is no trial was paid, whatever old copy is saved over it
\* (applyPaymentToSubscription, subscribeWithPoints).
THEOREM PaidPacksOnly == Spec => []PaidBeforeActive
<1>1. IInv => PaidBeforeActive  BY DEF IInv, RowTrue, PaidBeforeActive
<1> QED  BY <1>1, Invariance, PTL

\* The tokens offered with a pack are credited at most once, for a pack that was
\* paid and started (awardSubscriptionPaymentTokens).
THEOREM BonusOnce == Spec => []BonusEarnedOnce
<1>1. IInv => BonusEarnedOnce  BY DEF IInv
<1> QED  BY <1>1, Invariance, PTL
=============================================================================
