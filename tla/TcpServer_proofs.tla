-------------------------- MODULE TcpServer_proofs --------------------------
(***************************************************************************)
(* Proofs about the accept loops, for any number of them and any number of *)
(* cancellations under way.                                                *)
(***************************************************************************)
EXTENDS TcpServer, TLAPS

Places == {"unspawned", "ready", "resolve", "accept", "over", "failed"}

\* The part of TypeOK that the others rest on.
Types ==
  /\ ready \in Seq([loop : Loops, event : Events])
  /\ slot \in Loops \cup {NoLoop}
  /\ hasService \in [Loops -> BOOLEAN]
  /\ at \in [Loops -> Places]
  /\ cancelled \in [Loops -> BOOLEAN] /\ asked \in [Loops -> BOOLEAN]

\* What a queued handler says of its loop: a cancellation was asked for, and an
\* accept was aborted because one had arrived.
Grounded ==
  \A i \in DOMAIN ready :
    /\ ready[i].event = "cancel"  => asked[ready[i].loop]
    /\ ready[i].event = "aborted" => cancelled[ready[i].loop]

\* Only a cancellation that was asked for reaches a coroutine.
Asked == \A l \in Loops : cancelled[l] => asked[l]

IInv == Types /\ Grounded /\ Asked /\ NoAcceptAfterCancel /\ EndsForAReason

-----------------------------------------------------------------------------
(* The queue of handlers.                                                   *)

\* What holds of every queued handler and of a new one holds after Append.
LEMMA AppendKeeps ==
  ASSUME NEW S, NEW q \in Seq(S), NEW h \in S
  PROVE  /\ Append(q, h) \in Seq(S)
         /\ \A i \in DOMAIN Append(q, h) :
              Append(q, h)[i] = h \/ \E j \in DOMAIN q : Append(q, h)[i] = q[j]
OBVIOUS

\* The head and the tail of a queue are of the queue.
LEMMA TailKeeps ==
  ASSUME NEW S, NEW q \in Seq(S), q # <<>>
  PROVE  /\ Tail(q) \in Seq(S)
         /\ \E j \in DOMAIN q : Head(q) = q[j]
         /\ \A i \in DOMAIN Tail(q) : \E j \in DOMAIN q : Tail(q)[i] = q[j]
<1>1. 1 \in DOMAIN q /\ Head(q) = q[1]
  OBVIOUS
<1>2. \A i \in DOMAIN Tail(q) : i + 1 \in DOMAIN q /\ Tail(q)[i] = q[i + 1]
  OBVIOUS
<1> QED BY <1>1, <1>2

\* An element of a sequence.
LEMMA ElementOf ==
  ASSUME NEW S, NEW q \in Seq(S), NEW i \in DOMAIN q
  PROVE  q[i] \in S
OBVIOUS

\* Every queued handler is one of a loop.
LEMMA LoopOf ==
  ASSUME NEW q \in Seq([loop : Loops, event : Events]), NEW i \in DOMAIN q
  PROVE  q[i].loop \in Loops
<1>1. q[i] \in [loop : Loops, event : Events]
  BY ElementOf
<1> QED BY <1>1

\* Handlers are well formed.
LEMMA Handlers ==
  ASSUME NEW l \in Loops, NEW e \in Events
  PROVE  /\ Handler(l, e) \in [loop : Loops, event : Events]
         /\ Handler(l, e).loop = l /\ Handler(l, e).event = e
BY DEF Handler

-----------------------------------------------------------------------------

LEMMA IInvInit == Init => IInv
BY DEF Init, IInv, Types, Places, Grounded, Asked, NoAcceptAfterCancel, EndsForAReason

\* An emission leaves the coroutine without an outstanding accept.
LEMMA EmitKeeps ==
  ASSUME IInv, NEW l \in Loops, NEW queue \in Seq([loop : Loops, event : Events]),
         \A i \in DOMAIN queue : \E j \in DOMAIN ready : queue[i] = ready[j],
         Emit(l, queue), asked'[l], asked' \in [Loops -> BOOLEAN],
         \A k \in Loops : asked[k] => asked'[k],
         UNCHANGED <<slot, hasService>>
  PROVE  IInv'
<1> USE DEF IInv
<1>1. /\ cancelled' \in [Loops -> BOOLEAN] /\ cancelled'[l]
      /\ \A k \in Loops : cancelled[k] => cancelled'[k]
      /\ \A k \in Loops \ {l} : cancelled'[k] = cancelled[k]
  BY DEF Emit, Types
<1>2. CASE at[l] = "accept"
  <2>1. at' = [at EXCEPT ![l] = "ready"] /\ ready' = Append(queue, Handler(l, "aborted"))
    BY <1>2 DEF Emit, Goto
  <2>2. Types'
    BY <1>1, <2>1, Handlers, AppendKeeps DEF Types, Places, Events
  <2>3. Grounded'
    <3> SUFFICES ASSUME NEW i \in DOMAIN ready'
                 PROVE  /\ ready'[i].event = "cancel"  => asked'[ready'[i].loop]
                        /\ ready'[i].event = "aborted" => cancelled'[ready'[i].loop]
      BY DEF Grounded
    <3>1. ready'[i] = Handler(l, "aborted") \/ \E j \in DOMAIN queue : ready'[i] = queue[j]
      BY <2>1, Handlers, AppendKeeps DEF Events
    <3>2. CASE ready'[i] = Handler(l, "aborted")
      BY <3>2, <1>1 DEF Handler
    <3>3. CASE \E j \in DOMAIN queue : ready'[i] = queue[j]
      <4>1. PICK j \in DOMAIN ready : ready'[i] = ready[j]
        BY <3>3
      <4>2. ready[j].loop \in Loops
        BY LoopOf DEF Types
      <4> QED BY <4>1, <4>2, <1>1 DEF Grounded
    <3> QED BY <3>1, <3>2, <3>3
  <2>4. Asked'
    BY <1>1 DEF Asked
  <2>5. NoAcceptAfterCancel'
    BY <1>1, <2>1 DEF Types, NoAcceptAfterCancel
  <2>6. EndsForAReason'
    BY <1>1, <2>1 DEF Types, EndsForAReason
  <2> QED BY <2>2, <2>3, <2>4, <2>5, <2>6
<1>3. CASE at[l] # "accept"
  <2>1. at' = at /\ ready' = queue
    BY <1>3 DEF Emit
  <2>2. Types'
    BY <1>1, <2>1 DEF Types
  <2>3. Grounded'
    <3> SUFFICES ASSUME NEW i \in DOMAIN ready'
                 PROVE  /\ ready'[i].event = "cancel"  => asked'[ready'[i].loop]
                        /\ ready'[i].event = "aborted" => cancelled'[ready'[i].loop]
      BY DEF Grounded
    <3>1. PICK j \in DOMAIN ready : ready'[i] = ready[j]
      BY <2>1
    <3>2. ready[j].loop \in Loops
      BY LoopOf DEF Types
    <3> QED BY <3>1, <3>2, <1>1 DEF Grounded
  <2>4. Asked'
    BY <1>1 DEF Asked
  <2>5. NoAcceptAfterCancel'
    BY <1>1, <1>3, <2>1 DEF Types, NoAcceptAfterCancel
  <2>6. EndsForAReason'
    BY <1>1, <1>3, <2>1 DEF Types, EndsForAReason
  <2> QED BY <2>2, <2>3, <2>4, <2>5, <2>6
<1> QED BY <1>2, <1>3

\* A step that queues one handler for a loop that was not over.
LEMMA PostKeeps ==
  ASSUME IInv, NEW l \in Loops, NEW e \in Events \ {"cancel", "aborted"},
         ready' = Append(ready, Handler(l, e)),
         Goto(l, "ready"), slot' \in Loops \cup {NoLoop},
         UNCHANGED <<hasService, cancelled, asked>>
  PROVE  IInv'
<1> USE DEF IInv
<1>1. Types'
  BY Handlers, AppendKeeps DEF Types, Places, Goto
<1>2. Grounded'
  <2> SUFFICES ASSUME NEW i \in DOMAIN ready'
               PROVE  /\ ready'[i].event = "cancel"  => asked[ready'[i].loop]
                      /\ ready'[i].event = "aborted" => cancelled[ready'[i].loop]
    BY DEF Grounded
  <2>1. ready'[i] = Handler(l, e) \/ \E j \in DOMAIN ready : ready'[i] = ready[j]
    BY Handlers, AppendKeeps DEF Types
  <2> QED BY <2>1, Handlers DEF Grounded
<1>3. Asked' /\ NoAcceptAfterCancel' /\ EndsForAReason'
  BY DEF Types, Goto, Asked, NoAcceptAfterCancel, EndsForAReason
<1> QED BY <1>1, <1>2, <1>3

\* A step that runs the next handler and leaves the loop at a place it may be at.
LEMMA RunKeeps ==
  ASSUME IInv, NEW l \in Loops, NEW place \in Places, ready # <<>>,
         ready' = Tail(ready), Goto(l, place),
         place = "accept" => ~cancelled[l],
         place = "over" => ~hasService[l] \/ asked[l],
         UNCHANGED <<slot, hasService, cancelled, asked>>
  PROVE  IInv'
<1> USE DEF IInv
<1>1. Types'
  BY TailKeeps DEF Types, Goto
<1>2. Grounded'
  <2> SUFFICES ASSUME NEW i \in DOMAIN ready'
               PROVE  /\ ready'[i].event = "cancel"  => asked[ready'[i].loop]
                      /\ ready'[i].event = "aborted" => cancelled[ready'[i].loop]
    BY DEF Grounded
  <2>1. \E j \in DOMAIN ready : ready'[i] = ready[j]
    BY TailKeeps DEF Types
  <2> QED BY <2>1 DEF Grounded
<1>3. Asked' /\ NoAcceptAfterCancel' /\ EndsForAReason'
  BY DEF Types, Goto, Asked, NoAcceptAfterCancel, EndsForAReason
<1> QED BY <1>1, <1>2, <1>3

\* What a handler at the head of the queue says of its loop.
LEMMA HeadGrounded ==
  ASSUME IInv, NEW l \in Loops, NEW e \in Events, Runs(l, e)
  PROVE  /\ ready # <<>>
         /\ e = "cancel"  => asked[l]
         /\ e = "aborted" => cancelled[l] /\ asked[l]
<1>1. ready # <<>> /\ Head(ready) = Handler(l, e)
  BY DEF Runs
<1>2. \E j \in DOMAIN ready : ready[j] = Handler(l, e)
  BY <1>1, TailKeeps DEF IInv, Types
<1> QED BY <1>1, <1>2, Handlers DEF IInv, Grounded, Asked

LEMMA IInvStep ==
  ASSUME IInv, [Next]_vars
  PROVE  IInv'
<1>1. CASE Cancel
  <2>1. slot \in Loops
    BY <1>1 DEF Cancel, IInv, Types
  <2>2. /\ asked' \in [Loops -> BOOLEAN] /\ asked'[slot]
        /\ \A k \in Loops : asked[k] => asked'[k]
        /\ UNCHANGED <<slot, hasService>>
    BY <1>1, <2>1 DEF Cancel, IInv, Types
  <2>3. CASE Emit(slot, ready)
    <3>1. ready \in Seq([loop : Loops, event : Events])
      BY DEF IInv, Types
    <3> QED BY <2>1, <2>2, <2>3, <3>1, EmitKeeps
  <2>4. CASE ready' = Append(ready, Handler(slot, "cancel")) /\ UNCHANGED <<at, cancelled>>
    <3>1. Types'
      BY <2>1, <2>2, <2>4, Handlers, AppendKeeps DEF IInv, Types, Events
    <3>2. Grounded'
      <4> SUFFICES ASSUME NEW i \in DOMAIN ready'
                   PROVE  /\ ready'[i].event = "cancel"  => asked'[ready'[i].loop]
                          /\ ready'[i].event = "aborted" => cancelled[ready'[i].loop]
        BY <2>4 DEF Grounded
      <4>1. \/ ready'[i] = Handler(slot, "cancel")
            \/ \E j \in DOMAIN ready : ready'[i] = ready[j]
        BY <2>1, <2>4, Handlers, AppendKeeps DEF IInv, Types, Events
      <4>2. Handler(slot, "cancel").loop = slot /\ Handler(slot, "cancel").event = "cancel"
        BY DEF Handler
      <4>3. \A j \in DOMAIN ready : ready[j].loop \in Loops
        BY LoopOf DEF IInv, Types
      <4> QED BY <2>2, <4>1, <4>2, <4>3 DEF IInv, Grounded
    <3>3. Asked' /\ NoAcceptAfterCancel' /\ EndsForAReason'
      BY <2>2, <2>4 DEF IInv, Asked, NoAcceptAfterCancel, EndsForAReason
    <3> QED BY <3>1, <3>2, <3>3 DEF IInv
  <2> QED BY <1>1, <2>3, <2>4 DEF Cancel
<1>2. ASSUME NEW l \in Loops, Spawn(l) \/ ResolveCompletes(l) \/ AcceptCompletes(l)
      PROVE  IInv'
  <2>1. \E e \in Events \ {"cancel", "aborted"} : ready' = Append(ready, Handler(l, e))
    BY <1>2 DEF Spawn, ResolveCompletes, AcceptCompletes, Completes, Events
  <2>2. /\ Goto(l, "ready") /\ slot' \in Loops \cup {NoLoop}
        /\ UNCHANGED <<hasService, cancelled, asked>>
    BY <1>2 DEF Spawn, ResolveCompletes, AcceptCompletes, Completes, IInv, Types
  <2> QED BY <2>1, <2>2, PostKeeps
<1>3. ASSUME NEW l \in Loops, Deliver(l)
      PROVE  IInv'
  <2>1. ready # <<>> /\ asked[l] /\ Emit(l, Tail(ready)) /\ asked' = asked
          /\ UNCHANGED <<slot, hasService>>
    BY <1>3, HeadGrounded DEF Deliver, Events
  <2>2. /\ Tail(ready) \in Seq([loop : Loops, event : Events])
        /\ \A i \in DOMAIN Tail(ready) : \E j \in DOMAIN ready : Tail(ready)[i] = ready[j]
    BY <2>1, TailKeeps DEF IInv, Types
  <2>3. asked' \in [Loops -> BOOLEAN] /\ asked'[l] /\ \A k \in Loops : asked[k] => asked'[k]
    BY <2>1 DEF IInv, Types
  <2> QED BY <2>1, <2>2, <2>3, EmitKeeps
<1>4. ASSUME NEW l \in Loops, Start(l) \/ Resolved(l) \/ Accepted(l)
      PROVE  IInv'
  <2>1. ready # <<>> /\ ready' = Tail(ready) /\ UNCHANGED <<slot, hasService, cancelled, asked>>
    BY <1>4 DEF Start, Resolved, Accepted, Runs
  <2>2. cancelled[l] => asked[l]
    BY DEF IInv, Asked
  <2>3. \/ ~hasService[l] /\ Goto(l, "over")
        \/ Await(l, "resolve") \/ Await(l, "accept") \/ Goto(l, "failed")
        \/ Runs(l, "aborted") /\ Goto(l, "over")
    BY <1>4 DEF Start, Resolved, Accepted
  <2>4. Runs(l, "aborted") => asked[l]
    BY HeadGrounded DEF Events
  <2>5. \E place \in Places :
          /\ Goto(l, place)
          /\ place = "accept" => ~cancelled[l]
          /\ place = "over" => ~hasService[l] \/ asked[l]
    BY <2>2, <2>3, <2>4 DEF Await, Places
  <2> QED BY <2>1, <2>5, RunKeeps
<1>5. CASE UNCHANGED vars
  BY <1>5 DEF IInv, Types, Grounded, Asked, NoAcceptAfterCancel, EndsForAReason, vars
<1> QED BY <1>1, <1>2, <1>3, <1>4, <1>5 DEF Next, IoContext, Crashed

\* The inductive invariant holds while the io_context runs: the loops know about
\* cancellations only what cancel() was asked for.
THEOREM Invariance == Spec => []IInv
BY IInvInit, IInvStep, PTL DEF Spec

\* Once a cancellation has reached the coroutine, no accept is outstanding, for
\* any number of loops and cancellations.
THEOREM CancelCorrect == Spec => []NoAcceptAfterCancel
<1>1. IInv => NoAcceptAfterCancel
  BY DEF IInv
<1> QED BY <1>1, Invariance, PTL

\* A loop that has a service ends only when its own cancel() has been called,
\* or because it could not be set up.
THEOREM EndCorrect == Spec => []EndsForAReason
<1>1. IInv => EndsForAReason
  BY DEF IInv
<1> QED BY <1>1, Invariance, PTL
-----------------------------------------------------------------------------
(* One resumption for one wait.                                             *)

\* No handler in the queue resumes l, and exactly one does.
None(queue, l) == \A i \in DOMAIN queue : queue[i].loop = l => queue[i].event = "cancel"
One(queue, l) ==
  \E i \in DOMAIN queue :
    /\ queue[i].loop = l /\ queue[i].event # "cancel"
    /\ \A j \in DOMAIN queue : queue[j].loop = l /\ queue[j].event # "cancel" => j = i

Resumed(queue, l, place) == IF place = "ready" THEN One(queue, l) ELSE None(queue, l)

\* TypeOK by loops: each has the one handler it waits to be resumed by, or none.
Once ==
  /\ Types
  /\ sessions \subseteq Ids /\ crashed \in BOOLEAN
  /\ \A l \in Loops : Resumed(ready, l, at[l])

Queues == Seq([loop : Loops, event : Events])

\* A handler of another loop, or of a cancellation, changes nothing for l.
LEMMA AppendOther ==
  ASSUME NEW queue \in Queues, NEW h \in [loop : Loops, event : Events],
         NEW l \in Loops, h.loop # l \/ h.event = "cancel", NEW place,
         Resumed(queue, l, place)
  PROVE  Resumed(Append(queue, h), l, place)
<1>1. /\ DOMAIN queue \subseteq DOMAIN Append(queue, h)
      /\ \A i \in DOMAIN queue : Append(queue, h)[i] = queue[i]
      /\ \A i \in DOMAIN Append(queue, h) \ DOMAIN queue : Append(queue, h)[i] = h
  BY DEF Queues
<1>2. CASE place = "ready"
  <2>1. PICK i \in DOMAIN queue :
          /\ queue[i].loop = l /\ queue[i].event # "cancel"
          /\ \A j \in DOMAIN queue : queue[j].loop = l /\ queue[j].event # "cancel" => j = i
    BY <1>2 DEF Resumed, One
  <2>2. i \in DOMAIN Append(queue, h) /\ Append(queue, h)[i] = queue[i]
    BY <1>1
  <2>3. ASSUME NEW j \in DOMAIN Append(queue, h), Append(queue, h)[j].loop = l,
               Append(queue, h)[j].event # "cancel"
        PROVE  j = i
    BY <1>1, <2>1, <2>3
  <2>4. One(Append(queue, h), l)
    BY <2>1, <2>2, <2>3 DEF One
  <2> QED BY <1>2, <2>4 DEF Resumed
<1>3. CASE place # "ready"
  BY <1>1, <1>3 DEF Resumed, None
<1> QED BY <1>2, <1>3

\* The first handler that resumes l is the only one.
LEMMA AppendOne ==
  ASSUME NEW queue \in Queues, NEW h \in [loop : Loops, event : Events],
         h.event # "cancel", None(queue, h.loop)
  PROVE  One(Append(queue, h), h.loop)
<1>1. /\ DOMAIN queue \subseteq DOMAIN Append(queue, h)
      /\ \A i \in DOMAIN queue : Append(queue, h)[i] = queue[i]
      /\ Len(queue) + 1 \in DOMAIN Append(queue, h)
      /\ Append(queue, h)[Len(queue) + 1] = h
      /\ \A i \in DOMAIN Append(queue, h) : i \in DOMAIN queue \/ i = Len(queue) + 1
  BY DEF Queues
<1> QED BY <1>1 DEF One, None

\* What is behind the head of a queue, by position.
LEMMA TailShift ==
  ASSUME NEW queue \in Queues, queue # <<>>
  PROVE  /\ Tail(queue) \in Queues
         /\ 1 \in DOMAIN queue /\ Head(queue) = queue[1]
         /\ \A i \in DOMAIN Tail(queue) :
              i + 1 \in DOMAIN queue /\ i + 1 # 1 /\ Tail(queue)[i] = queue[i + 1]
         /\ \A i \in DOMAIN queue : i # 1 =>
              i - 1 \in DOMAIN Tail(queue) /\ Tail(queue)[i - 1] = queue[i]
         /\ DOMAIN queue \subseteq Nat /\ DOMAIN Tail(queue) \subseteq Nat
BY DEF Queues

\* Taking a handler of another loop, or of a cancellation, changes nothing for l.
LEMMA TailOther ==
  ASSUME NEW queue \in Queues, queue # <<>>, NEW l \in Loops,
         Head(queue).loop # l \/ Head(queue).event = "cancel", NEW place,
         Resumed(queue, l, place)
  PROVE  Resumed(Tail(queue), l, place)
<1>1. CASE place = "ready"
  <2>1. PICK i \in DOMAIN queue :
          /\ queue[i].loop = l /\ queue[i].event # "cancel"
          /\ \A j \in DOMAIN queue : queue[j].loop = l /\ queue[j].event # "cancel" => j = i
    BY <1>1 DEF Resumed, One
  <2>2. i # 1
    BY <2>1, TailShift
  <2>3. i - 1 \in DOMAIN Tail(queue) /\ Tail(queue)[i - 1] = queue[i]
    BY <2>2, TailShift
  <2>4. ASSUME NEW j \in DOMAIN Tail(queue), Tail(queue)[j].loop = l,
               Tail(queue)[j].event # "cancel"
        PROVE  j = i - 1
    <3>1. j + 1 \in DOMAIN queue /\ Tail(queue)[j] = queue[j + 1]
      BY TailShift
    <3>2. j + 1 = i
      BY <2>1, <2>4, <3>1
    <3> QED BY <3>2, TailShift
  <2>5. One(Tail(queue), l)
    BY <2>1, <2>3, <2>4 DEF One
  <2> QED BY <1>1, <2>5 DEF Resumed
<1>2. CASE place # "ready"
  BY <1>2, TailShift DEF Resumed, None
<1> QED BY <1>1, <1>2

\* Once the handler that resumes l is taken, none is left.
LEMMA TailOne ==
  ASSUME NEW queue \in Queues, queue # <<>>,
         Head(queue).event # "cancel", One(queue, Head(queue).loop)
  PROVE  None(Tail(queue), Head(queue).loop)
<1>1. \A j \in DOMAIN queue :
        queue[j].loop = Head(queue).loop /\ queue[j].event # "cancel" => j = 1
  BY TailShift DEF One
<1> QED BY <1>1, TailShift DEF None

-----------------------------------------------------------------------------

LEMMA OnceInit == Init => Once
<1> SUFFICES ASSUME Init PROVE Once
  OBVIOUS
<1>1. Types
  BY DEF Init, Types, Places
<1>2. ASSUME NEW l \in Loops PROVE Resumed(ready, l, at[l])
  <2>1. DOMAIN ready = {} /\ at[l] = "unspawned"
    BY DEF Init
  <2> QED BY <2>1 DEF Resumed, None
<1> QED BY <1>1, <1>2 DEF Init, Once

\* A step that queues the handler that resumes l.
LEMMA PostOnce ==
  ASSUME Once, NEW l \in Loops, NEW e \in Events \ {"cancel"}, NEW queue \in Queues,
         \A k \in Loops : Resumed(queue, k, at[k]), at[l] # "ready",
         ready' = Append(queue, Handler(l, e)), Goto(l, "ready")
  PROVE  \A k \in Loops : Resumed(ready', k, at'[k])
<1> SUFFICES ASSUME NEW k \in Loops PROVE Resumed(ready', k, at'[k])
  OBVIOUS
<1>1. /\ Handler(l, e) \in [loop : Loops, event : Events]
      /\ Handler(l, e).loop = l /\ Handler(l, e).event = e
  BY Handlers
<1>2. at'[k] = IF k = l THEN "ready" ELSE at[k]
  BY DEF Goto, Once, Types
<1>3. CASE k = l
  BY <1>1, <1>2, <1>3, AppendOne DEF Resumed
<1>4. CASE k # l
  BY <1>1, <1>2, <1>4, AppendOther
<1> QED BY <1>3, <1>4

\* An emission resumes a coroutine that waits for an accept, and no other.
LEMMA EmitOnce ==
  ASSUME Once, NEW l \in Loops, NEW queue \in Queues,
         \A k \in Loops : Resumed(queue, k, at[k]), Emit(l, queue)
  PROVE  /\ \A k \in Loops : Resumed(ready', k, at'[k])
         /\ ready' \in Queues /\ at' \in [Loops -> Places]
         /\ cancelled' \in [Loops -> BOOLEAN]
<1>1. cancelled' \in [Loops -> BOOLEAN]
  BY DEF Emit, Once, Types
<1>2. CASE at[l] = "accept"
  <2>1. Goto(l, "ready") /\ ready' = Append(queue, Handler(l, "aborted"))
    BY <1>2 DEF Emit
  <2>2. ready' \in Queues /\ at' \in [Loops -> Places]
    BY <2>1, Handlers, AppendKeeps DEF Queues, Events, Goto, Once, Types, Places
  <2>3. \A k \in Loops : Resumed(ready', k, at'[k])
    BY <1>2, <2>1, PostOnce DEF Events
  <2> QED BY <1>1, <2>2, <2>3
<1>3. CASE at[l] # "accept"
  BY <1>1, <1>3 DEF Emit, Once, Types
<1> QED BY <1>2, <1>3

LEMMA OnceStep ==
  ASSUME Once, [Next]_vars
  PROVE  Once'
<1>1. ready \in Queues /\ \A l \in Loops : Resumed(ready, l, at[l])
  BY DEF Once, Types, Queues
<1>2. CASE Cancel
  <2>1. slot \in Loops /\ asked' \in [Loops -> BOOLEAN]
        /\ UNCHANGED <<slot, hasService, sessions, crashed>>
    BY <1>2 DEF Cancel, Once, Types
  <2>2. CASE Emit(slot, ready)
    BY <1>1, <2>1, <2>2, EmitOnce DEF Once, Types, Queues
  <2>3. CASE ready' = Append(ready, Handler(slot, "cancel")) /\ UNCHANGED <<at, cancelled>>
    <3>1. /\ Handler(slot, "cancel") \in [loop : Loops, event : Events]
          /\ Handler(slot, "cancel").event = "cancel"
      BY <2>1, Handlers DEF Events
    <3>2. ready' \in Queues
      BY <1>1, <2>3, <3>1, AppendKeeps DEF Queues
    <3>3. \A l \in Loops : Resumed(ready', l, at'[l])
      BY <1>1, <2>3, <3>1, AppendOther
    <3> QED BY <2>1, <2>3, <3>2, <3>3 DEF Once, Types, Queues
  <2> QED BY <1>2, <2>2, <2>3 DEF Cancel
<1>3. ASSUME NEW l \in Loops, Spawn(l) \/ ResolveCompletes(l) \/ AcceptCompletes(l)
      PROVE  Once'
  <2>1. PICK e \in Events \ {"cancel"} : ready' = Append(ready, Handler(l, e))
    BY <1>3 DEF Spawn, ResolveCompletes, AcceptCompletes, Completes, Events
  <2>2. /\ Goto(l, "ready") /\ at[l] # "ready" /\ slot' \in Loops \cup {NoLoop}
        /\ UNCHANGED <<hasService, cancelled, asked, sessions, crashed>>
    BY <1>3 DEF Spawn, ResolveCompletes, AcceptCompletes, Completes, Once, Types
  <2>3. \A k \in Loops : Resumed(ready', k, at'[k])
    BY <1>1, <2>1, <2>2, PostOnce
  <2>4. ready' \in Queues /\ at' \in [Loops -> Places]
    BY <1>1, <2>1, <2>2, Handlers, AppendKeeps DEF Queues, Goto, Once, Types, Places
  <2> QED BY <2>2, <2>3, <2>4 DEF Once, Types, Queues
<1>4. ASSUME NEW l \in Loops, Deliver(l)
      PROVE  Once'
  <2>1. /\ ready # <<>> /\ Head(ready) = Handler(l, "cancel") /\ Emit(l, Tail(ready))
        /\ UNCHANGED <<slot, hasService, asked, sessions, crashed>>
    BY <1>4 DEF Deliver, Runs
  <2>2. Tail(ready) \in Queues
    BY <1>1, <2>1, TailShift
  <2>3. \A k \in Loops : Resumed(Tail(ready), k, at[k])
    BY <1>1, <2>1, Handlers, TailOther DEF Events
  <2> QED BY <2>1, <2>2, <2>3, EmitOnce DEF Once, Types, Queues
<1>5. ASSUME NEW l \in Loops, Start(l) \/ Resolved(l) \/ Accepted(l)
      PROVE  Once'
  <2>1. PICK e \in Events \ {"cancel"} : Runs(l, e)
    BY <1>5 DEF Start, Resolved, Accepted, Events
  <2>2. /\ ready # <<>> /\ Head(ready) = Handler(l, e) /\ ready' = Tail(ready)
        /\ UNCHANGED <<slot, hasService, cancelled, asked>>
    BY <1>5, <2>1 DEF Start, Resolved, Accepted, Runs
  <2>3. PICK place \in Places \ {"ready"} : Goto(l, place)
    BY <1>5 DEF Start, Resolved, Accepted, Await, Places
  <2>4. sessions' \subseteq Ids /\ crashed' \in BOOLEAN
    BY <1>5 DEF Start, Resolved, Accepted, AddSession, Once
  <2>5. Head(ready).loop = l /\ Head(ready).event = e
    BY <2>2, Handlers
  <2>6. One(ready, l)
    <3>1. ~ None(ready, l)
      BY <1>1, <2>2, <2>5, TailShift DEF None
    <3> QED BY <1>1, <3>1 DEF Resumed
  <2>7. ASSUME NEW k \in Loops
        PROVE  Resumed(ready', k, at'[k])
    <3>1. at'[k] = IF k = l THEN place ELSE at[k]
      BY <2>3 DEF Goto, Once, Types
    <3>2. CASE k = l
      BY <1>1, <2>2, <2>3, <2>5, <2>6, <3>1, <3>2, TailOne DEF Resumed
    <3>3. CASE k # l
      BY <1>1, <2>2, <2>5, <3>1, <3>3, TailOther
    <3> QED BY <3>2, <3>3
  <2>8. ready' \in Queues /\ at' \in [Loops -> Places]
    BY <1>1, <2>2, <2>3, TailShift DEF Goto, Once, Types
  <2> QED BY <2>2, <2>4, <2>7, <2>8 DEF Once, Types, Queues
<1>6. CASE UNCHANGED vars
  BY <1>6 DEF Once, Types, vars
<1> QED BY <1>2, <1>3, <1>4, <1>5, <1>6 DEF Next, IoContext, Crashed

\* What Once says of loops is what TypeOK says of positions in the queue.
LEMMA OnceTypes == Once => TypeOK
<1> SUFFICES ASSUME Once PROVE TypeOK
  OBVIOUS
<1>1. \A i \in DOMAIN ready : ready[i].loop \in Loops
  BY LoopOf DEF Once, Types
<1>2. \A i \in DOMAIN ready : ready[i].event # "cancel" => at[ready[i].loop] = "ready"
  BY <1>1 DEF Once, Resumed, None
<1>3. \A l \in Loops : at[l] = "ready" =>
        \E i \in DOMAIN ready : ready[i].loop = l /\ ready[i].event # "cancel"
  BY DEF Once, Resumed, One
<1>4. ASSUME NEW i \in DOMAIN ready, NEW j \in DOMAIN ready,
             ready[i].loop = ready[j].loop, ready[i].event # "cancel",
             ready[j].event # "cancel"
      PROVE  i = j
  <2>1. One(ready, ready[i].loop)
    BY <1>1, <1>2, <1>4 DEF Once, Resumed
  <2> QED BY <1>4, <2>1 DEF One
<1> QED BY <1>2, <1>3, <1>4 DEF Once, Types, Places, TypeOK

\* A coroutine is resumed once for each thing it waits for: a connection and a
\* cancellation that meet (async_tcp_server.cpp:26) do not both queue a handler,
\* for any number of loops and cancellations under way.
THEOREM ResumedOnce == Spec => []TypeOK
BY OnceInit, OnceStep, OnceTypes, PTL DEF Spec
=============================================================================
