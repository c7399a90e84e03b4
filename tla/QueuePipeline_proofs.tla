------------------------ MODULE QueuePipeline_proofs ------------------------
(***************************************************************************)
(* Proofs about producer and consumers on a queue, for any number of       *)
(* consumers, any number of elements and any capacity.  What is known of   *)
(* the queue itself is taken from BoundedBlockingQueue_proofs.             *)
(***************************************************************************)
EXTENDS QueuePipeline, FiniteSetTheorems, SequenceTheorems, TLAPS

QP == INSTANCE BoundedBlockingQueue_proofs WITH
        Producers <- {Producer}, Closers <- {Producer},
        Items <- 0 .. N-1, NoItem <- Nothing, TimeoutTakesSignal <- FALSE

USE PipelineAssumption

-----------------------------------------------------------------------------
(* The inductive invariant.                                                 *)

\* The program counters of the threads' own code, and what they imply.
Program ==
  /\ i \in 0 .. N
  /\ received \in [Consumers -> Seq(0 .. N-1)]
  /\ ended \in SUBSET Threads
  /\ op[Producer] \in {"none", "push", "close"}
  /\ \A c \in Consumers : op[c] \in {"none", "pop"}
  /\ op[Producer] = "push" =>
       /\ i < N /\ ret[Producer] # "false"
       /\ ret[Producer] = "none" => val[Producer] = i
  /\ op[Producer] = "close" \/ Producer \in ended => i = N
  /\ closed => op[Producer] = "close" \/ Producer \in ended
  /\ \A c \in Consumers :
       /\ ret[c] = "true" => val[c] \in 0 .. N-1
       /\ ret[c] = "false" \/ c \in ended => closed /\ q = <<>>

\* The queue holds the elements from out on, in order.
Newest(queue, out) == \A k \in DOMAIN queue : queue[k] = out + k - 1

\* The consumers have got the elements before out: only these, in increasing
\* order, each of them, and no two consumers the same.
InRange(g, out) == \A c \in Consumers : \A k \in DOMAIN g[c] : g[c][k] \in k - 1 .. out - 1
Increasing(g) ==
  \A c \in Consumers : \A k, l \in DOMAIN g[c] : k < l => g[c][k] < g[c][l]
Complete(g, out) == \A e \in 0 .. out - 1 : \E c \in Consumers : \E k \in DOMAIN g[c] : g[c][k] = e
Disjoint(g) ==
  \A c, d \in Consumers : \A k \in DOMAIN g[c] : \A l \in DOMAIN g[d] :
    g[c][k] = g[d][l] => c = d
Shared(g, out) == InRange(g, out) /\ Increasing(g) /\ Complete(g, out) /\ Disjoint(g)

\* Where the n elements that push has accepted are.
Flow(queue, n, g) ==
  /\ n - Len(queue) \in Nat
  /\ Newest(queue, n - Len(queue))
  /\ Shared(g, n - Len(queue))

got == [c \in Consumers |-> Got(c)]

IInv == Q!TypeOK /\ Program /\ Flow(q, Accepted, got)

-----------------------------------------------------------------------------
(* The elements.                                                            *)

\* Sequences of elements, and what one more does to them.
LEMMA Appended ==
  ASSUME NEW s \in Seq(0 .. N-1), NEW e \in 0 .. N-1
  PROVE  /\ Append(s, e) \in Seq(0 .. N-1)
         /\ Len(s) \in Nat /\ Len(Append(s, e)) = Len(s) + 1
         /\ DOMAIN s = 1 .. Len(s) /\ DOMAIN Append(s, e) = 1 .. Len(s) + 1
         /\ \A k \in 1 .. Len(s) : Append(s, e)[k] = s[k]
         /\ Append(s, e)[Len(s) + 1] = e
BY AppendProperties, LenProperties

LEMMA OneAppended ==
  ASSUME NEW s \in Seq(0 .. N-1), NEW e \in 0 .. N-1
  PROVE  /\ s \o <<>> = s /\ s \o <<e>> = Append(s, e)
         /\ Append(s, e) \in Seq(0 .. N-1) /\ Append(s, e) \o <<>> = Append(s, e)
<1>1. Append(s, e) \in Seq(0 .. N-1)
  BY AppendProperties
<1> QED BY <1>1, AppendIsConcat, ConcatEmptySeq

LEMMA EmptyFlow == Flow(<<>>, 0, [c \in Consumers |-> <<>>])
<1> DEFINE g == [c \in Consumers |-> <<>>]
<1>1. Len(<<>>) = 0 /\ \A c \in Consumers : DOMAIN g[c] = {}
  OBVIOUS
<1>2. Newest(<<>>, 0)
  BY DEF Newest
<1>3. InRange(g, 0) /\ Increasing(g) /\ Disjoint(g)
  BY <1>1 DEF InRange, Increasing, Disjoint
<1>4. Complete(g, 0)
  BY DEF Complete
<1> QED BY <1>1, <1>2, <1>3, <1>4 DEF Flow, Shared

\* push appends the element whose turn it is.
LEMMA PushFlow ==
  ASSUME NEW s \in Seq(0 .. N-1), NEW n \in 0 .. N-1, NEW g, Flow(s, n, g)
  PROVE  Flow(Append(s, n), n + 1, g)
<1>1. n + 1 - Len(Append(s, n)) = n - Len(s)
  BY Appended
<1>2. Newest(Append(s, n), n - Len(s))
  BY Appended DEF Flow, Newest
<1> QED BY <1>1, <1>2 DEF Flow

\* A consumer that gets the oldest element has got what it had, and that.
LEMMA OneMore ==
  ASSUME NEW g \in [Consumers -> Seq(0 .. N-1)], NEW x \in Consumers,
         NEW out \in 0 .. N-1, NEW h, h = [g EXCEPT ![x] = Append(g[x], out)],
         NEW c \in Consumers
  PROVE  /\ \A k \in DOMAIN g[c] : k \in Nat /\ k \in DOMAIN h[c] /\ h[c][k] = g[c][k]
         /\ \A k \in DOMAIN h[c] :
              \/ k \in DOMAIN g[c]
              \/ c = x /\ k = Len(g[x]) + 1 /\ h[c][k] = out
         /\ Len(g[x]) + 1 \in DOMAIN h[x] /\ h[x][Len(g[x]) + 1] = out
<1>1. g[x] \in Seq(0 .. N-1) /\ g[c] \in Seq(0 .. N-1) /\ h[x] = Append(g[x], out)
  OBVIOUS
<1>2. CASE c = x
  BY <1>1, <1>2, Appended
<1>3. CASE c # x
  BY <1>1, <1>3, Appended
<1> QED BY <1>2, <1>3

\* No consumer has got more elements than were taken out.
LEMMA LenInRange ==
  ASSUME NEW g \in [Consumers -> Seq(0 .. N-1)], NEW x \in Consumers, NEW out \in Nat,
         InRange(g, out)
  PROVE  Len(g[x]) <= out
<1>1. g[x] \in Seq(0 .. N-1) /\ Len(g[x]) \in Nat /\ DOMAIN g[x] = 1 .. Len(g[x])
  BY LenProperties
<1>2. CASE Len(g[x]) # 0
  <2>1. g[x][Len(g[x])] \in Len(g[x]) - 1 .. out - 1
    BY <1>1, <1>2 DEF InRange
  <2> QED BY <1>1, <2>1
<1> QED BY <1>1, <1>2

\* The oldest element goes to a consumer.
LEMMA TakeFlow ==
  ASSUME NEW g \in [Consumers -> Seq(0 .. N-1)], NEW x \in Consumers,
         NEW out \in 0 .. N-1, NEW h, h = [g EXCEPT ![x] = Append(g[x], out)],
         Shared(g, out)
  PROVE  Shared(h, out + 1)
<1>0. InRange(g, out) /\ Increasing(g) /\ Complete(g, out) /\ Disjoint(g)
  BY DEF Shared
<1>1. \A c \in Consumers : \A k \in DOMAIN g[c] : g[c][k] \in k - 1 .. out - 1 /\ g[c][k] < out
  BY <1>0 DEF InRange
<1>2. Len(g[x]) \in Nat /\ Len(g[x]) <= out
  BY <1>0, LenInRange, LenProperties
<1>3. ASSUME NEW c \in Consumers, NEW k \in DOMAIN h[c]
      PROVE  h[c][k] \in k - 1 .. out
  <2>1. CASE k \in DOMAIN g[c]
    <3>1. g[c][k] \in k - 1 .. out - 1 /\ h[c][k] = g[c][k] /\ k \in Nat
      BY <1>1, <2>1, OneMore
    <3> QED BY <3>1
  <2>2. CASE k = Len(g[x]) + 1 /\ h[c][k] = out
    BY <1>2, <2>2
  <2> QED BY <2>1, <2>2, OneMore
<1>4. ASSUME NEW c \in Consumers, NEW k \in DOMAIN h[c], NEW l \in DOMAIN h[c], k < l
      PROVE  h[c][k] < h[c][l]
  <2>1. CASE l \in DOMAIN g[c]
    <3>1. g[c] \in Seq(0 .. N-1) /\ h[c] \in Seq(0 .. N-1)
      BY Appended
    <3>2. k \in DOMAIN g[c]
      BY <1>4, <2>1, <3>1, LenProperties
    <3>3. g[c][k] < g[c][l]
      BY <1>0, <1>4, <2>1, <3>2 DEF Increasing
    <3> QED BY <2>1, <3>2, <3>3, OneMore
  <2>2. CASE c = x /\ l = Len(g[x]) + 1 /\ h[c][l] = out
    <3>1. k \in DOMAIN g[c]
      BY <1>2, <1>4, <2>2, OneMore
    <3>2. g[c][k] < out /\ h[c][k] = g[c][k]
      BY <1>1, <3>1, OneMore
    <3> QED BY <2>2, <3>2
  <2> QED BY <2>1, <2>2, OneMore
<1>5. Complete(h, out + 1)
  <2> SUFFICES ASSUME NEW e \in 0 .. out
               PROVE  \E c \in Consumers : \E k \in DOMAIN h[c] : h[c][k] = e
    <3>1. 0 .. (out + 1) - 1 = 0 .. out
      OBVIOUS
    <3> QED BY <3>1 DEF Complete
  <2>1. CASE e = out
    <3>1. Len(g[x]) + 1 \in DOMAIN h[x] /\ h[x][Len(g[x]) + 1] = out
      BY OneMore
    <3> QED BY <2>1, <3>1
  <2>2. CASE e # out
    <3>1. e \in 0 .. out - 1
      BY <2>2
    <3>2. PICK c \in Consumers : \E k \in DOMAIN g[c] : g[c][k] = e
      BY <1>0, <3>1 DEF Complete
    <3>3. PICK k \in DOMAIN g[c] : g[c][k] = e
      BY <3>2
    <3>4. k \in DOMAIN h[c] /\ h[c][k] = e
      BY <3>3, OneMore
    <3> QED BY <3>4
  <2> QED BY <2>1, <2>2
<1>6. ASSUME NEW c \in Consumers, NEW d \in Consumers,
             NEW k \in DOMAIN h[c], NEW l \in DOMAIN h[d], h[c][k] = h[d][l]
      PROVE  c = d
  <2>0. /\ k \in DOMAIN g[c] => h[c][k] # out
        /\ l \in DOMAIN g[d] => h[d][l] # out
    <3>1. \A b \in Consumers : \A m \in DOMAIN g[b] : h[b][m] = g[b][m]
      BY OneMore
    <3>2. \A b \in Consumers : \A m \in DOMAIN g[b] : g[b][m] # out
      BY <1>1
    <3> QED BY <3>1, <3>2
  <2>1. CASE k \in DOMAIN g[c] /\ l \in DOMAIN g[d]
    <3>1. g[c][k] = g[d][l]
      BY <1>6, <2>1, OneMore
    <3> QED BY <1>0, <2>1, <3>1 DEF Disjoint
  <2>2. CASE k \notin DOMAIN g[c]
    <3>1. c = x /\ h[c][k] = out
      BY <2>2, OneMore
    <3>2. l \notin DOMAIN g[d]
      BY <1>6, <2>0, <3>1
    <3> QED BY <3>1, <3>2, OneMore
  <2>3. CASE l \notin DOMAIN g[d]
    <3>1. d = x /\ h[d][l] = out
      BY <2>3, OneMore
    <3>2. k \notin DOMAIN g[c]
      BY <1>6, <2>0, <3>1
    <3> QED BY <3>1, <3>2, OneMore
  <2> QED BY <2>1, <2>2, <2>3
<1>7. InRange(h, out + 1)
  BY <1>3 DEF InRange
<1>8. Increasing(h)
  BY <1>4 DEF Increasing
<1>9. Disjoint(h)
  BY <1>6 DEF Disjoint
<1> QED BY <1>5, <1>7, <1>8, <1>9 DEF Shared

\* pop takes the oldest element, which is newer than all that any consumer got.
LEMMA PopFlow ==
  ASSUME NEW s \in Seq(0 .. N-1), NEW n \in 0 .. N, NEW g \in [Consumers -> Seq(0 .. N-1)],
         Flow(s, n, g), s # <<>>, NEW x \in Consumers
  PROVE  Flow(Tail(s), n, [g EXCEPT ![x] = Append(g[x], Head(s))])
<1> DEFINE out == n - Len(s)
           h == [g EXCEPT ![x] = Append(g[x], Head(s))]
<1>1. /\ Len(s) \in Nat \ {0} /\ DOMAIN s = 1 .. Len(s)
      /\ Tail(s) \in Seq(0 .. N-1) /\ Len(Tail(s)) = Len(s) - 1
      /\ DOMAIN Tail(s) = 1 .. Len(s) - 1
      /\ \A k \in 1 .. Len(s) - 1 : Tail(s)[k] = s[k + 1]
      /\ Head(s) = s[1] /\ Head(s) \in 0 .. N-1
  BY HeadTailProperties, LenProperties, EmptySeq
<1>2. out \in Nat /\ n - Len(Tail(s)) = out + 1
  BY <1>1 DEF Flow
<1>3. Head(s) = out
  BY <1>1, <1>2 DEF Flow, Newest
<1>4. Newest(Tail(s), out + 1)
  <2>1. ASSUME NEW k \in DOMAIN Tail(s) PROVE Tail(s)[k] = (out + 1) + k - 1
    <3>1. k \in 1 .. Len(s) - 1 /\ k + 1 \in DOMAIN s /\ Tail(s)[k] = s[k + 1]
      BY <1>1
    <3>2. s[k + 1] = out + (k + 1) - 1
      BY <3>1 DEF Flow, Newest
    <3> QED BY <1>2, <3>1, <3>2
  <2> QED BY <2>1 DEF Newest
<1>5. Shared(g, out)
  BY DEF Flow
<1>6. out \in 0 .. N-1 /\ h = [g EXCEPT ![x] = Append(g[x], out)]
  BY <1>1, <1>3
<1>7. Shared(h, out + 1)
  <2> HIDE DEF out, h
  <2> QED BY <1>5, <1>6, TakeFlow
<1>8. Flow(Tail(s), n, h)
  <2> HIDE DEF h
  <2> QED BY <1>2, <1>4, <1>7 DEF Flow
<1> QED BY <1>8

-----------------------------------------------------------------------------
(* The threads use the queue as its specification has them do, so whatever  *)
(* is proved of the queue holds here.                                       *)

\* What BoundedBlockingQueue_proofs assumes of its constants.
LEMMA QueueAssumptions ==
  /\ QP!IsFiniteSet(QP!Threads)
  /\ Nothing \notin 0 .. N-1
  /\ Capacity \in Nat
  /\ FALSE \in BOOLEAN
<1>1. IsFiniteSet({Producer} \cup Consumers)
  BY FS_AddElement
<1>2. QP!Threads = {Producer} \cup Consumers
  BY DEF QP!Threads
<1>3. QP!IsFiniteSet(QP!Threads)
  BY <1>1, <1>2 DEF QP!IsFiniteSet, IsFiniteSet
<1> QED BY <1>3 DEF Nothing

\* The queue of QueuePipeline and the one of BoundedBlockingQueue_proofs are
\* the same.
LEMMA SameType == (Q!TypeOK <=> QP!TypeOK) /\ (Q!TypeOK' <=> QP!TypeOK')
BY DEF Q!TypeOK, Q!Threads, Q!PCs, Q!Ops, Q!PushOps, Q!PopOps, Q!TimedOps,
       QP!TypeOK, QP!Threads, QP!PCs, QP!Ops, QP!PushOps, QP!PopOps, QP!TimedOps

LEMMA SameStep == [Q!Next]_(Q!vars) => [QP!Next]_(QP!vars)
<1> USE DEF Q!Threads, Q!PushOps, Q!PopOps, Q!TimedOps, Q!InSection, Q!Finish, Q!MustWait,
            QP!Threads, QP!PushOps, QP!PopOps, QP!TimedOps, QP!InSection, QP!Finish,
            QP!MustWait
<1>1. UNCHANGED Q!vars <=> UNCHANGED QP!vars
  BY DEF Q!vars, QP!vars
<1>2. \A t : Q!CallSome(t) <=> QP!CallSome(t)
  BY DEF Q!CallSome, Q!Call, QP!CallSome, QP!Call
<1>3. \A t : Q!Section(t) <=> QP!Section(t)
  BY DEF Q!Section, Q!Wait, Q!PushAccept, Q!PushRefuse, Q!PopTake, Q!PopRefuse, Q!CloseSection,
         QP!Section, QP!Wait, QP!PushAccept, QP!PushRefuse, QP!PopTake, QP!PopRefuse,
         QP!CloseSection
<1>4. \A t : Q!Notify(t) <=> QP!Notify(t)
  BY DEF Q!Notify, Q!NotifyOne, Q!Wake, Q!NotEmptyWaiters, Q!NotFullWaiters,
         QP!Notify, QP!NotifyOne, QP!Wake, QP!NotEmptyWaiters, QP!NotFullWaiters
<1>5. \A t : /\ Q!NotifyAllNotEmpty(t) <=> QP!NotifyAllNotEmpty(t)
             /\ Q!NotifyAllNotFull(t) <=> QP!NotifyAllNotFull(t)
  BY DEF Q!NotifyAllNotEmpty, Q!NotifyAllNotFull, Q!Wake, Q!NotEmptyWaiters, Q!NotFullWaiters,
         QP!NotifyAllNotEmpty, QP!NotifyAllNotFull, QP!Wake, QP!NotEmptyWaiters,
         QP!NotFullWaiters
<1>6. \A t : /\ Q!TimeOut(t) <=> QP!TimeOut(t)
             /\ Q!Return(t) <=> QP!Return(t)
             /\ Q!DeadlinePasses(t) <=> QP!DeadlinePasses(t)
             /\ Q!SpuriousWake(t) <=> QP!SpuriousWake(t)
  BY DEF Q!TimeOut, Q!Return, Q!DeadlinePasses, Q!SpuriousWake, Q!Wake,
         QP!TimeOut, QP!Return, QP!DeadlinePasses, QP!SpuriousWake, QP!Wake
<1>7. \A t : Q!Step(t) <=> QP!Step(t)
  BY <1>3, <1>4, <1>5, <1>6 DEF Q!Step, Q!Run, QP!Step, QP!Run
<1>8. Q!Next <=> QP!Next
  BY <1>2, <1>6, <1>7 DEF Q!Next, QP!Next
<1> QED BY <1>1, <1>8

LEMMA QueueTypeInit == Q!Init => Q!TypeOK
<1>1. Q!Init => QP!Init
  BY DEF Q!Init, Q!Threads, QP!Init, QP!Threads
<1>2. QP!Init => QP!TypeOK
  BY QueueAssumptions, QP!TypeInit
<1> QED BY <1>1, <1>2, SameType

LEMMA QueueTypeStep == Q!TypeOK /\ [Q!Next]_(Q!vars) => Q!TypeOK'
<1>1. QP!TypeOK /\ [QP!Next]_(QP!vars) => QP!TypeOK'
  BY QueueAssumptions, QP!TypeStep
<1> QED BY <1>1, SameType, SameStep

\* Every step of the program is a step of the queue or leaves it alone.
LEMMA QueueStep ==
  ASSUME Program, [Next]_vars
  PROVE  [Q!Next]_(Q!vars)
<1> USE DEF Q!Threads, Threads
<1>1. CASE Produce
  <2>1. CASE Push
    <3>1. i \in 0 .. N-1 /\ Q!Call(Producer, "push", i)
      BY <2>1 DEF Push, Program
    <3>2. Q!CallSome(Producer)
      BY <3>1 DEF Q!CallSome, Q!PushOps
    <3> QED BY <3>2 DEF Q!Next
  <2>2. CASE Close
    BY <2>2 DEF Close, Q!CallSome, Q!Next
  <2>3. CASE Pushed \/ Closed
    BY <2>3 DEF Pushed, Closed, Q!Step, Q!Next
  <2>4. CASE Inside(Producer)
    BY <2>4 DEF Inside, Q!Step, Q!Next
  <2> QED BY <1>1, <2>1, <2>2, <2>3, <2>4 DEF Produce
<1>2. ASSUME NEW c \in Consumers, Consume(c)
      PROVE  [Q!Next]_(Q!vars)
  <2>1. CASE Pop(c)
    BY <2>1 DEF Pop, Q!CallSome, Q!PopOps, Q!Next
  <2>2. CASE Popped(c) \/ Ended(c)
    BY <2>2 DEF Popped, Ended, Q!Step, Q!Next
  <2>3. CASE Inside(c)
    BY <2>3 DEF Inside, Q!Step, Q!Next
  <2> QED BY <1>2, <2>1, <2>2, <2>3 DEF Consume
<1>3. ASSUME NEW t \in Threads, SpuriousWake(t)
      PROVE  [Q!Next]_(Q!vars)
  BY <1>3 DEF SpuriousWake, Q!Next
<1>4. CASE UNCHANGED vars
  BY <1>4 DEF vars, Q!vars
<1> QED BY <1>1, <1>2, <1>3, <1>4 DEF Next, Joined

-----------------------------------------------------------------------------
(* The invariant is inductive.                                              *)

\* What the type of the queue says about one thread.
LEMMA ThreadFacts ==
  ASSUME Q!TypeOK, NEW t \in Threads
  PROVE  /\ DOMAIN op = Threads /\ DOMAIN val = Threads /\ DOMAIN ret = Threads
         /\ pc[t] = "idle" => op[t] = "none" /\ ret[t] = "none"
         /\ Q!InSection(t) => ret[t] = "none"
         /\ pc[t] = "done" => ret[t] \in {"true", "false"}
         /\ q \in Seq(0 .. N-1)
BY DEF Q!TypeOK, Q!PCs, Q!Threads, Threads, Q!InSection

\* The consumers' elements are the same when none is taken or appended.
LEMMA GotSame ==
  ASSUME \A c \in Consumers : /\ received'[c] = received[c] /\ ret'[c] = ret[c]
                              /\ ret[c] = "true" => val'[c] = val[c]
  PROVE  got' = got
BY DEF got, Got, InHand

LEMMA GotType == Program => got \in [Consumers -> Seq(0 .. N-1)]
<1> SUFFICES ASSUME Program, NEW c \in Consumers PROVE Got(c) \in Seq(0 .. N-1)
  BY DEF got
<1>1. InHand(c) \in Seq(0 .. N-1)
  <2>1. CASE ret[c] = "true"
    <3>1. val[c] \in 0 .. N-1
      BY <2>1 DEF Program
    <3>2. <<val[c]>> \in Seq(0 .. N-1)
      BY <3>1
    <3> QED BY <2>1, <3>2 DEF InHand
  <2>2. CASE ret[c] # "true"
    BY <2>2, EmptySeq DEF InHand
  <2> QED BY <2>1, <2>2
<1>2. received[c] \in Seq(0 .. N-1)
  BY DEF Program
<1> QED BY <1>1, <1>2, ConcatProperties DEF Got

LEMMA FlowSame ==
  ASSUME Flow(q, Accepted, got), q' = q, Accepted' = Accepted, got' = got
  PROVE  Flow(q, Accepted, got)'
OBVIOUS

\* Steps that change neither the program's variables nor the queue's, but for
\* the threads' places in the code of the queue.
LEMMA QuietStep ==
  ASSUME Program, Flow(q, Accepted, got),
         UNCHANGED <<q, closed, op, val, ret, i, received, ended>>
  PROVE  Program' /\ Flow(q, Accepted, got)'
<1>1. got' = got /\ Accepted' = Accepted
  BY GotSame DEF Accepted
<1>2. Program'
  BY DEF Program
<1> QED BY <1>1, <1>2, FlowSame

LEMMA InitIInv == Init => IInv
<1> SUFFICES ASSUME Init PROVE IInv
  OBVIOUS
<1> USE DEF Init, Q!Init, Q!Threads, Threads
<1>1. Q!TypeOK
  BY QueueTypeInit
<1>2. Program
  BY EmptySeq DEF Program
<1>3. Accepted = 0
  BY DEF Accepted
<1>4. got = [c \in Consumers |-> <<>>]
  <2>1. \A c \in Consumers : InHand(c) = <<>> /\ received[c] = <<>>
    BY DEF InHand
  <2>2. \A c \in Consumers : Got(c) = <<>>
    BY <2>1, EmptySeq, ConcatEmptySeq DEF Got
  <2> QED BY <2>2 DEF got
<1>5. Flow(q, Accepted, got)
  BY <1>3, <1>4, EmptyFlow
<1> QED BY <1>1, <1>2, <1>5 DEF IInv

\* What the producer does between two calls.
LEMMA ProducerStep ==
  ASSUME Q!TypeOK, Program, Flow(q, Accepted, got),
         Push \/ Pushed \/ Close \/ Closed
  PROVE  Program' /\ Flow(q, Accepted, got)'
<1> USE ThreadFacts DEF Threads
<1>1. CASE Push
  <2>1. /\ op[Producer] = "none" /\ ret[Producer] = "none" /\ i < N
        /\ op' = [op EXCEPT ![Producer] = "push"] /\ val' = [val EXCEPT ![Producer] = i]
        /\ UNCHANGED <<q, closed, ret, i, received, ended>>
    BY <1>1 DEF Push, Q!Call
  <2>2. Accepted' = Accepted
    BY <2>1 DEF Accepted
  <2>3. got' = got
    BY <2>1, GotSame
  <2>4. Program'
    BY <2>1 DEF Program
  <2> QED BY <2>1, <2>2, <2>3, <2>4, FlowSame
<1>2. CASE Pushed
  <2>1. /\ op[Producer] = "push" /\ ret[Producer] \in {"true", "false"}
        /\ op' = [op EXCEPT ![Producer] = "none"] /\ val' = [val EXCEPT ![Producer] = Nothing]
        /\ ret' = [ret EXCEPT ![Producer] = "none"] /\ i' = i + 1
        /\ UNCHANGED <<q, closed, received, ended>>
    BY <1>2 DEF Pushed, Q!Return
  <2>2. ret[Producer] = "true" /\ i < N
    BY <2>1 DEF Program
  <2>3. Accepted' = Accepted
    BY <2>1, <2>2 DEF Accepted, Program
  <2>4. got' = got
    BY <2>1, GotSame
  <2>5. Program'
    BY <2>1, <2>2 DEF Program
  <2> QED BY <2>1, <2>3, <2>4, <2>5, FlowSame
<1>3. CASE Close
  <2>1. /\ op[Producer] = "none" /\ ret[Producer] = "none" /\ i = N
        /\ op' = [op EXCEPT ![Producer] = "close"] /\ val' = [val EXCEPT ![Producer] = Nothing]
        /\ UNCHANGED <<q, closed, ret, i, received, ended>>
    BY <1>3 DEF Close, Q!Call
  <2>2. Accepted' = Accepted
    BY <2>1 DEF Accepted
  <2>3. got' = got
    BY <2>1, GotSame
  <2>4. Program'
    BY <2>1 DEF Program
  <2> QED BY <2>1, <2>2, <2>3, <2>4, FlowSame
<1>4. CASE Closed
  <2>1. /\ op[Producer] = "close"
        /\ op' = [op EXCEPT ![Producer] = "none"] /\ val' = [val EXCEPT ![Producer] = Nothing]
        /\ ret' = [ret EXCEPT ![Producer] = "none"] /\ ended' = ended \cup {Producer}
        /\ UNCHANGED <<q, closed, i, received>>
    BY <1>4 DEF Closed, Q!Return
  <2>2. Accepted' = Accepted
    BY <2>1 DEF Accepted
  <2>3. got' = got
    BY <2>1, GotSame
  <2>4. Program'
    BY <2>1 DEF Program
  <2> QED BY <2>1, <2>2, <2>3, <2>4, FlowSame
<1> QED BY <1>1, <1>2, <1>3, <1>4

\* What a consumer does between two calls: an element in its hand becomes the
\* last one of its vector.
LEMMA ConsumerStep ==
  ASSUME Q!TypeOK, Program, Flow(q, Accepted, got), NEW c \in Consumers,
         Pop(c) \/ Popped(c) \/ Ended(c)
  PROVE  Program' /\ Flow(q, Accepted, got)'
<1> USE ThreadFacts DEF Threads
<1>1. CASE Pop(c)
  <2>1. /\ op[c] = "none" /\ ret[c] = "none" /\ c \notin ended
        /\ op' = [op EXCEPT ![c] = "pop"] /\ val' = [val EXCEPT ![c] = Nothing]
        /\ UNCHANGED <<q, closed, ret, i, received, ended>>
    BY <1>1 DEF Pop, Q!Call
  <2>2. Accepted' = Accepted
    BY <2>1 DEF Accepted
  <2>3. got' = got
    BY <2>1, GotSame
  <2>4. Program'
    BY <2>1 DEF Program
  <2> QED BY <2>1, <2>2, <2>3, <2>4, FlowSame
<1>2. CASE Popped(c)
  <2>1. /\ ret[c] = "true"
        /\ op' = [op EXCEPT ![c] = "none"] /\ val' = [val EXCEPT ![c] = Nothing]
        /\ ret' = [ret EXCEPT ![c] = "none"]
        /\ received' = [received EXCEPT ![c] = Append(received[c], val[c])]
        /\ UNCHANGED <<q, closed, i, ended>>
    BY <1>2 DEF Popped, Q!Return
  <2>2. Accepted' = Accepted
    BY <2>1 DEF Accepted
  <2>3. received[c] \in Seq(0 .. N-1) /\ val[c] \in 0 .. N-1
    BY <2>1 DEF Program
  <2>4. /\ Append(received[c], val[c]) \in Seq(0 .. N-1)
        /\ Append(received[c], val[c]) \o <<>> = received[c] \o <<val[c]>>
    BY <2>3, OneAppended
  <2>5. \A d \in Consumers : Got(d)' = Got(d)
    <3>1. Got(c)' = Got(c)
      BY <2>1, <2>4 DEF Got, InHand, Program
    <3>2. \A d \in Consumers \ {c} : Got(d)' = Got(d)
      BY <2>1 DEF Got, InHand, Program
    <3> QED BY <3>1, <3>2
  <2>6. got' = got
    BY <2>5 DEF got
  <2>7. Program'
    BY <2>1, <2>4 DEF Program
  <2> QED BY <2>1, <2>2, <2>6, <2>7, FlowSame
<1>3. CASE Ended(c)
  <2>1. /\ ret[c] = "false"
        /\ op' = [op EXCEPT ![c] = "none"] /\ val' = [val EXCEPT ![c] = Nothing]
        /\ ret' = [ret EXCEPT ![c] = "none"] /\ ended' = ended \cup {c}
        /\ UNCHANGED <<q, closed, i, received>>
    BY <1>3 DEF Ended, Q!Return
  <2>2. Accepted' = Accepted
    BY <2>1 DEF Accepted
  <2>3. \A d \in Consumers : Got(d)' = Got(d)
    <3>1. Got(c)' = Got(c)
      BY <2>1 DEF Got, InHand
    <3>2. \A d \in Consumers \ {c} : Got(d)' = Got(d)
      BY <2>1 DEF Got, InHand
    <3> QED BY <3>1, <3>2
  <2>4. got' = got
    BY <2>3 DEF got
  <2>5. closed /\ q = <<>>
    BY <2>1 DEF Program
  <2>6. Program'
    BY <2>1, <2>5 DEF Program
  <2> QED BY <2>1, <2>2, <2>4, <2>6, FlowSame
<1> QED BY <1>1, <1>2, <1>3

\* What a thread does inside the queue.
LEMMA InsideStep ==
  ASSUME Q!TypeOK, Program, Flow(q, Accepted, got), NEW t \in Threads, Inside(t)
  PROVE  Program' /\ Flow(q, Accepted, got)'
<1> USE ThreadFacts DEF Threads, Q!Finish
<1>0. UNCHANGED <<i, received, ended>>
  BY DEF Inside
<1>1. CASE Q!PushAccept(t)
  <2>1. /\ t = Producer /\ op[t] = "push" /\ ret[t] = "none" /\ val[t] = i
        /\ ~closed /\ i \in 0 .. N-1
        /\ q' = Append(q, i)
        /\ val' = [val EXCEPT ![t] = Nothing] /\ ret' = [ret EXCEPT ![t] = "true"]
        /\ UNCHANGED <<closed, op>>
    BY <1>1 DEF Q!PushAccept, Q!PushOps, Program
  <2>2. Accepted = i /\ Accepted' = i + 1
    BY <1>0, <2>1 DEF Accepted
  <2>3. got' = got
    BY <1>0, <2>1, GotSame
  <2>4. Flow(Append(q, i), i + 1, got)
    BY <2>1, <2>2, PushFlow
  <2>5. Flow(q, Accepted, got)'
    BY <2>1, <2>2, <2>3, <2>4
  <2>6. Program'
    BY <1>0, <2>1 DEF Program
  <2> QED BY <2>5, <2>6
<1>2. CASE Q!PushRefuse(t)
  BY <1>2 DEF Q!PushRefuse, Q!PushOps, Program
<1>3. CASE Q!PopTake(t)
  <2>1. /\ t \in Consumers /\ op[t] = "pop" /\ ret[t] = "none" /\ q # <<>>
        /\ q' = Tail(q)
        /\ val' = [val EXCEPT ![t] = Head(q)] /\ ret' = [ret EXCEPT ![t] = "true"]
        /\ UNCHANGED <<closed, op>>
    BY <1>3 DEF Q!PopTake, Q!PopOps, Program
  <2>2. Head(q) \in 0 .. N-1 /\ Tail(q) \in Seq(0 .. N-1)
    BY <2>1, HeadTailProperties
  <2>3. Accepted' = Accepted /\ Accepted \in 0 .. N
    BY <1>0, <2>1 DEF Accepted, Program
  <2>4. got' = [got EXCEPT ![t] = Append(got[t], Head(q))]
    <3>1. received[t] \in Seq(0 .. N-1)
      BY <2>1 DEF Program
    <3>2. received[t] \o <<>> = received[t] /\ received[t] \o <<Head(q)>> = Append(received[t], Head(q))
      BY <2>2, <3>1, OneAppended
    <3>3. Got(t) = received[t] /\ Got(t)' = Append(received[t], Head(q))
      BY <1>0, <2>1, <3>2 DEF Got, InHand
    <3>4. \A d \in Consumers \ {t} : Got(d)' = Got(d)
      BY <1>0, <2>1 DEF Got, InHand
    <3> QED BY <2>1, <3>3, <3>4 DEF got
  <2>5. Flow(Tail(q), Accepted, [got EXCEPT ![t] = Append(got[t], Head(q))])
    BY <2>1, <2>3, GotType, PopFlow
  <2>6. Flow(q, Accepted, got)'
    BY <2>1, <2>3, <2>4, <2>5
  <2>7. Program'
    BY <1>0, <2>1, <2>2 DEF Program
  <2> QED BY <2>6, <2>7
<1>4. CASE Q!PopRefuse(t)
  <2>1. /\ t \in Consumers /\ ret[t] = "none" /\ closed /\ q = <<>>
        /\ ret' = [ret EXCEPT ![t] = "false"]
        /\ UNCHANGED <<q, closed, op, val>>
    BY <1>4 DEF Q!PopRefuse, Q!PopOps, Q!PushOps, Q!MustWait, Program
  <2>2. Accepted' = Accepted
    BY <1>0, <2>1 DEF Accepted
  <2>3. got' = got
    <3>1. \A d \in Consumers : Got(d)' = Got(d)
      BY <1>0, <2>1 DEF Got, InHand
    <3> QED BY <3>1 DEF got
  <2>4. Program'
    BY <1>0, <2>1 DEF Program
  <2> QED BY <2>1, <2>2, <2>3, <2>4, FlowSame
<1>5. CASE Q!CloseSection(t)
  <2>1. /\ t = Producer /\ op[t] = "close" /\ closed' = TRUE
        /\ ret' = [ret EXCEPT ![t] = "true"]
        /\ UNCHANGED <<q, op, val>>
    BY <1>5 DEF Q!CloseSection, Program
  <2>2. Accepted' = Accepted
    BY <1>0, <2>1 DEF Accepted
  <2>3. got' = got
    BY <1>0, <2>1, GotSame
  <2>4. Program'
    BY <1>0, <2>1 DEF Program
  <2> QED BY <2>1, <2>2, <2>3, <2>4, FlowSame
<1>6. CASE Q!Wait(t)
  BY <1>0, <1>6, QuietStep DEF Q!Wait
<1>7. CASE Q!Notify(t) \/ Q!NotifyAllNotEmpty(t) \/ Q!NotifyAllNotFull(t)
  BY <1>0, <1>7, QuietStep DEF Q!Notify, Q!NotifyAllNotEmpty, Q!NotifyAllNotFull
<1>8. CASE Q!TimeOut(t)
  BY <1>8 DEF Q!TimeOut, Q!TimedOps, Program
<1>9. Q!Run(t)
  BY DEF Inside
<1> QED
  BY <1>1, <1>2, <1>3, <1>4, <1>5, <1>6, <1>7, <1>8, <1>9 DEF Q!Run, Q!Section

LEMMA StepIInv == IInv /\ [Next]_vars => IInv'
<1> SUFFICES ASSUME Q!TypeOK, Program, Flow(q, Accepted, got), [Next]_vars
             PROVE  IInv'
  BY DEF IInv
<1>1. Q!TypeOK'
  BY QueueStep, QueueTypeStep
<1>2. Program' /\ Flow(q, Accepted, got)'
  <2>1. CASE Produce
    <3>1. CASE Inside(Producer)
      BY <3>1, InsideStep DEF Threads
    <3> QED BY <2>1, <3>1, ProducerStep DEF Produce
  <2>2. ASSUME NEW c \in Consumers, Consume(c)
        PROVE  Program' /\ Flow(q, Accepted, got)'
    <3>1. CASE Inside(c)
      BY <3>1, InsideStep DEF Threads
    <3> QED BY <2>2, <3>1, ConsumerStep DEF Consume
  <2>3. ASSUME NEW t \in Threads, SpuriousWake(t)
        PROVE  Program' /\ Flow(q, Accepted, got)'
    BY <2>3, QuietStep DEF SpuriousWake, Q!SpuriousWake
  <2>4. CASE UNCHANGED vars
    BY <2>4, QuietStep DEF vars
  <2> QED BY <2>1, <2>2, <2>3, <2>4 DEF Next, Joined
<1> QED BY <1>1, <1>2 DEF IInv

LEMMA Invariance == Spec => []IInv
BY InitIInv, StepIInv, PTL DEF Spec

-----------------------------------------------------------------------------
(* The results.                                                             *)

\* The threads of the test use the queue as its specification has them do, so
\* that whatever is proved of the queue holds of theirs.
THEOREM QueueInUse == Spec => Q!Spec
<1>1. Init => Q!Init
  BY DEF Init
<1>2. IInv /\ [Next]_vars => [Q!Next]_(Q!vars)
  BY QueueStep DEF IInv
<1> QED BY <1>1, <1>2, Invariance, PTL DEF Spec, Q!Spec

\* What the theorems about the queue need, as their module has it.
QueueSound ==
  QP!CapacityBound /\ QP!NotEmptySignalled /\ QP!NotFullSignalled /\ QP!CloseCoverage

\* At the beginning nobody waits.
LEMMA QueueSoundInit == QP!Init => QueueSound
<1> SUFFICES ASSUME QP!Init PROVE QueueSound
  OBVIOUS
<1>1. q = <<>> /\ ~closed /\ \A t \in QP!Threads : pc[t] = "idle"
  BY DEF QP!Init
<1>2. QP!NotEmptyWaiters = {} /\ QP!NotFullWaiters = {}
  BY <1>1 DEF QP!NotEmptyWaiters, QP!NotFullWaiters
<1>3. QP!CapacityBound
  BY <1>1 DEF QP!CapacityBound
<1>4. QP!NotEmptySignalled /\ QP!NotFullSignalled
  BY <1>2 DEF QP!NotEmptySignalled, QP!NotFullSignalled
<1>5. QP!CloseCoverage
  BY <1>1 DEF QP!CloseCoverage
<1> QED BY <1>3, <1>4, <1>5 DEF QueueSound

\* The steps of the queue keep it, as its own module has it.
LEMMA QueueSoundStep ==
  ASSUME QP!TypeOK, QueueSound, [QP!Next]_(QP!vars)
  PROVE  QueueSound'
<1>1. QP!CapacityBound'
  BY QueueAssumptions, QP!CapacityStep DEF QueueSound
<1>2. QP!NotEmptySignalled'
  BY QueueAssumptions, QP!NotEmptyStep DEF QueueSound
<1>3. QP!NotFullSignalled'
  BY QueueAssumptions, QP!NotFullStep DEF QueueSound
<1>4. QP!CloseCoverage'
  BY QueueAssumptions, QP!CloseStep DEF QueueSound
<1> QED BY <1>1, <1>2, <1>3, <1>4 DEF QueueSound

\* The two instances mean the same by their properties.
LEMMA SameQueue ==
  /\ Q!CapacityBound <=> QP!CapacityBound
  /\ Q!NotEmptySignalled <=> QP!NotEmptySignalled
  /\ Q!NotFullSignalled <=> QP!NotFullSignalled
  /\ Q!CloseCoverage <=> QP!CloseCoverage
  /\ Q!NoGridlock <=> QP!NoGridlock
<1> USE DEF Q!Threads, QP!Threads, Q!PushOps, QP!PushOps, Q!PopOps, QP!PopOps,
            Q!NotEmptyWaiters, QP!NotEmptyWaiters, Q!NotFullWaiters, QP!NotFullWaiters,
            Q!NotEmptyWakeups, QP!NotEmptyWakeups, Q!NotFullWakeups, QP!NotFullWakeups
<1>1. \A S : Q!Cardinality(S) = QP!Cardinality(S)
  BY DEF Q!Cardinality, QP!Cardinality
<1>2. Q!CapacityBound <=> QP!CapacityBound
  BY DEF Q!CapacityBound, QP!CapacityBound
<1>3. Q!NotEmptySignalled <=> QP!NotEmptySignalled
  BY <1>1 DEF Q!NotEmptySignalled, QP!NotEmptySignalled
<1>4. Q!NotFullSignalled <=> QP!NotFullSignalled
  BY <1>1 DEF Q!NotFullSignalled, QP!NotFullSignalled
<1>5. Q!CloseCoverage <=> QP!CloseCoverage
  BY DEF Q!CloseCoverage, QP!CloseCoverage
<1>6. Q!NoGridlock <=> QP!NoGridlock
  BY DEF Q!NoGridlock, QP!NoGridlock
<1> QED BY <1>2, <1>3, <1>4, <1>5, <1>6

\* While the producer and the consumers run, the queue never exceeds its
\* capacity, loses no wake-up of theirs, leaves nobody behind in close(), and
\* never has the producer and a consumer asleep with nobody on the way.
THEOREM NobodyLeftAsleep ==
  Spec => [](/\ Q!CapacityBound /\ Q!NotEmptySignalled /\ Q!NotFullSignalled
             /\ Q!CloseCoverage /\ Q!NoGridlock)
<1> DEFINE Awake == /\ Q!CapacityBound /\ Q!NotEmptySignalled /\ Q!NotFullSignalled
                    /\ Q!CloseCoverage /\ Q!NoGridlock
<1>1. Init => QueueSound
  <2>1. Q!Init => QP!Init
    BY DEF Q!Init, Q!Threads, QP!Init, QP!Threads
  <2> QED BY <2>1, QueueSoundInit DEF Init
<1>2. IInv /\ QueueSound /\ [Next]_vars => QueueSound'
  BY QueueStep, SameStep, SameType, QueueSoundStep DEF IInv
<1>3. IInv /\ QueueSound => Awake
  <2> SUFFICES ASSUME IInv, QueueSound PROVE Awake
    OBVIOUS
  <2>1. QP!TypeOK
    BY SameType DEF IInv
  <2>2. QP!NoGridlock
    BY <2>1, QueueAssumptions, QP!SignalledNoGridlock DEF QueueSound
  <2> QED BY <2>2, SameQueue DEF QueueSound
<1> QED BY <1>1, <1>2, <1>3, Invariance, PTL DEF Spec

\* The loop variable, the vectors and the queue have their types.
THEOREM TypeCorrect == Spec => []TypeOK
<1>1. IInv => TypeOK
  BY DEF IInv, Program, TypeOK
<1> QED BY <1>1, Invariance, PTL

\* The places of one element, as the invariant has them.
LEMMA Bounds ==
  ASSUME IInv
  PROVE  /\ Accepted \in 0 .. N /\ Len(q) \in Nat /\ DOMAIN q = 1 .. Len(q)
         /\ Accepted - Len(q) \in 0 .. N
         /\ got \in [Consumers -> Seq(0 .. N-1)]
<1>1. q \in Seq(0 .. N-1)
  BY DEF IInv, Q!TypeOK
<1>2. Len(q) \in Nat /\ DOMAIN q = 1 .. Len(q)
  BY <1>1, LenProperties
<1>3. Accepted \in 0 .. N
  BY DEF IInv, Program, Accepted
<1>4. Accepted - Len(q) \in Nat
  BY DEF IInv, Flow
<1> QED BY <1>2, <1>3, <1>4, GotType DEF IInv

LEMMA NoneOrOne == Cardinality({}) = 0 /\ \A x : Cardinality({x}) = 1
<1>1. ASSUME NEW x PROVE Cardinality({x}) = 1
  BY FS_Singleton
<1> QED BY <1>1, FS_EmptySet

LEMMA OnePlace ==
  ASSUME IInv, NEW e \in 0 .. Accepted - 1
  PROVE  Cardinality(InQueue(e)) + Cardinality(Taken(e)) = 1
<1> DEFINE out == Accepted - Len(q)
<1>0. /\ Newest(q, out) /\ InRange(got, out) /\ Increasing(got)
      /\ Complete(got, out) /\ Disjoint(got)
  BY DEF IInv, Flow, Shared
<1>1. \A c \in Consumers : \A k \in DOMAIN Got(c) :
        got[c] = Got(c) /\ k \in Nat /\ Got(c)[k] \in k - 1 .. out - 1
  <2> SUFFICES ASSUME NEW c \in Consumers, NEW k \in DOMAIN Got(c)
               PROVE  got[c] = Got(c) /\ k \in Nat /\ Got(c)[k] \in k - 1 .. out - 1
    OBVIOUS
  <2>1. got[c] = Got(c)
    BY DEF got
  <2>2. DOMAIN Got(c) = 1 .. Len(Got(c)) /\ Len(Got(c)) \in Nat
    BY <2>1, Bounds, LenProperties
  <2> QED BY <1>0, <2>1, <2>2 DEF InRange
<1>2. CASE e < out
  <2>1. InQueue(e) = {}
    BY <1>0, <1>2, Bounds DEF InQueue, Newest
  <2>2. PICK c \in Consumers : \E k \in DOMAIN got[c] : got[c][k] = e
    BY <1>0, <1>2, Bounds DEF Complete
  <2>3. PICK k \in DOMAIN Got(c) : Got(c)[k] = e
    BY <2>2 DEF got
  <2>4. k \in 1 .. N
    <3>1. DOMAIN Got(c) = 1 .. Len(Got(c)) /\ Len(Got(c)) \in Nat
      BY Bounds, LenProperties DEF got
    <3> QED BY <1>1, <2>3, <3>1, Bounds
  <2>5. ASSUME NEW d \in Consumers, NEW l \in DOMAIN Got(d), Got(d)[l] = e
        PROVE  d = c /\ l = k
    <3>1. d = c
      BY <1>0, <1>1, <2>3, <2>5 DEF Disjoint
    <3>2. ~(l < k) /\ ~(k < l)
      BY <1>0, <1>1, <2>3, <2>5, <3>1 DEF Increasing
    <3> QED BY <1>1, <2>3, <3>1, <3>2
  <2>6. Taken(e) = {<<c, k>>}
    <3>1. <<c, k>> \in Taken(e)
      BY <2>3, <2>4 DEF Taken
    <3>2. ASSUME NEW p \in Taken(e) PROVE p = <<c, k>>
      <4>1. p \in Consumers \X (1 .. N) /\ p[2] \in DOMAIN Got(p[1]) /\ Got(p[1])[p[2]] = e
        BY DEF Taken
      <4> QED BY <4>1, <2>5
    <3> QED BY <3>1, <3>2
  <2>7. Cardinality(InQueue(e)) = 0 /\ Cardinality(Taken(e)) = 1
    BY <2>1, <2>6, NoneOrOne
  <2> QED BY <2>7
<1>3. CASE ~(e < out)
  <2>1. InQueue(e) = {e - out + 1}
    <3>1. e - out + 1 \in DOMAIN q
      BY <1>3, Bounds
    <3>2. \A k \in DOMAIN q : k \in Nat /\ q[k] = out + k - 1
      BY <1>0, Bounds DEF Newest
    <3>3. \A k \in DOMAIN q : q[k] = e <=> k = e - out + 1
      BY <3>2, Bounds
    <3> QED BY <3>1, <3>3 DEF InQueue
  <2>2. Taken(e) = {}
    <3>1. ASSUME NEW p \in Taken(e) PROVE FALSE
      <4>1. p[1] \in Consumers /\ p[2] \in DOMAIN Got(p[1]) /\ Got(p[1])[p[2]] = e
        BY DEF Taken
      <4> QED BY <1>1, <1>3, <4>1, Bounds
    <3> QED BY <3>1
  <2>3. Cardinality(InQueue(e)) = 1 /\ Cardinality(Taken(e)) = 0
    BY <2>1, <2>2, NoneOrOne
  <2> QED BY <2>3
<1> QED BY <1>2, <1>3

\* Every element that push has accepted is in exactly one place, each consumer
\* gets its elements in the order they were sent, and the queue holds the
\* newest ones: however many consumers take from it.
THEOREM OrderCorrect == Spec => []ExactlyOnceInOrder
<1>1. IInv => ExactlyOnceInOrder
  <2> SUFFICES ASSUME IInv PROVE ExactlyOnceInOrder
    OBVIOUS
  <2>1. \A e \in 0 .. Accepted - 1 : Cardinality(InQueue(e)) + Cardinality(Taken(e)) = 1
    BY OnePlace
  <2>2. \A k \in DOMAIN q : q[k] = Accepted - Len(q) + k - 1
    BY DEF IInv, Flow, Newest
  <2>3. \A c \in Consumers : \A k, l \in DOMAIN Got(c) : k < l => Got(c)[k] < Got(c)[l]
    BY DEF IInv, Flow, Shared, Increasing, got
  <2> QED BY <2>1, <2>2, <2>3 DEF ExactlyOnceInOrder
<1> QED BY <1>1, Invariance, PTL

\* A consumer's loop ends only when the producer has sent everything and
\* everything has been taken out.
THEOREM DrainCorrect == Spec => []DrainedAtEnd
<1>1. IInv => DrainedAtEnd
  <2> SUFFICES ASSUME IInv, NEW d \in Consumers, d \in ended
               PROVE  closed /\ \A e \in 0 .. N-1 : \E c \in Consumers, k \in 1 .. N :
                                   k \in DOMAIN Got(c) /\ Got(c)[k] = e
    BY DEF DrainedAtEnd
  <2>1. closed /\ q = <<>> /\ Accepted = N
    BY DEF IInv, Program, Accepted
  <2>2. Accepted - Len(q) = N
    BY <2>1, EmptySeq
  <2>3. Complete(got, N) /\ InRange(got, N)
    BY <2>2 DEF IInv, Flow, Shared
  <2>4. ASSUME NEW e \in 0 .. N-1
        PROVE  \E c \in Consumers, k \in 1 .. N : k \in DOMAIN Got(c) /\ Got(c)[k] = e
    <3>1. PICK c \in Consumers : \E k \in DOMAIN got[c] : got[c][k] = e
      BY <2>3 DEF Complete
    <3>2. PICK k \in DOMAIN got[c] : got[c][k] = e
      BY <3>1
    <3>3. got[c] = Got(c) /\ DOMAIN got[c] = 1 .. Len(got[c]) /\ Len(got[c]) \in Nat
      BY Bounds, LenProperties DEF got
    <3>4. got[c][k] \in k - 1 .. N - 1
      BY <2>3 DEF InRange
    <3>5. k \in 1 .. N
      BY <3>3, <3>4
    <3> QED BY <3>2, <3>3, <3>5
  <2> QED BY <2>1, <2>4
<1> QED BY <1>1, Invariance, PTL
=============================================================================
