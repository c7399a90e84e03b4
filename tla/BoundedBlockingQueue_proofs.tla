-------------------- MODULE BoundedBlockingQueue_proofs --------------------
(***************************************************************************)
(* Machine-checked proofs about BoundedBlockingQueue, for any number of    *)
(* threads, any elements and any capacity.                                 *)
(***************************************************************************)
EXTENDS BoundedBlockingQueue, FiniteSetTheorems, SequenceTheorems, TLAPS

USE ThreadsAssumption, ItemsAssumption, CapacityAssumption, SignalAssumption

-----------------------------------------------------------------------------
(* Type correctness.                                                        *)

\* The empty queue with no call running is well typed.
LEMMA TypeInit == Init => TypeOK
<1> SUFFICES ASSUME Init PROVE TypeOK
    OBVIOUS
<1> USE DEF Init, PCs, Ops, PushOps, PopOps, TimedOps
<1>1. q \in Seq(Items) /\ closed \in BOOLEAN
  BY EmptySeq
<1>2. /\ pc \in [Threads -> PCs]
      /\ op \in [Threads -> Ops \cup {"none"}]
      /\ val \in [Threads -> Items \cup {NoItem}]
      /\ ret \in [Threads -> {"none", "true", "false"}]
      /\ expired \in [Threads -> BOOLEAN]
  OBVIOUS
<1> QED
  BY <1>1, <1>2 DEF TypeOK

\* Every step of every member function keeps the types.
LEMMA TypeStep == TypeOK /\ [Next]_vars => TypeOK'
<1> SUFFICES ASSUME TypeOK, [Next]_vars PROVE TypeOK'
    OBVIOUS
<1> USE DEF TypeOK, PCs, Ops, PushOps, PopOps, TimedOps, InSection, Finish,
            NotFullWaiters, NotEmptyWaiters, Wake
<1>1. ASSUME NEW t \in Threads, CallSome(t) PROVE TypeOK'
  <2>1. CASE t \in Producers /\ \E o \in PushOps, v \in Items : Call(t, o, v)
    BY <2>1 DEF Call
  <2>2. CASE t \in Consumers /\ \E o \in PopOps : Call(t, o, NoItem)
    BY <2>2 DEF Call
  <2>3. CASE t \in Closers /\ Call(t, "close", NoItem)
    BY <2>3 DEF Call
  <2> QED BY <1>1, <2>1, <2>2, <2>3 DEF CallSome
<1>2. ASSUME NEW t \in Threads, Wait(t) PROVE TypeOK'
  BY <1>2 DEF Wait
<1>3. ASSUME NEW t \in Threads, PushAccept(t) PROVE TypeOK'
  BY <1>3 DEF PushAccept
<1>4. ASSUME NEW t \in Threads, PushRefuse(t) PROVE TypeOK'
  BY <1>4 DEF PushRefuse
<1>5. ASSUME NEW t \in Threads, PopTake(t) PROVE TypeOK'
  BY <1>5 DEF PopTake
<1>6. ASSUME NEW t \in Threads, PopRefuse(t) PROVE TypeOK'
  BY <1>6 DEF PopRefuse
<1>7. ASSUME NEW t \in Threads, CloseSection(t) PROVE TypeOK'
  BY <1>7 DEF CloseSection
<1>8. ASSUME NEW t \in Threads, Notify(t) PROVE TypeOK'
  <2>1. CASE pc' = [pc EXCEPT ![t] = "done"]
    BY <1>8, <2>1 DEF Notify
  <2>2. ASSUME NEW w \in NotEmptyWaiters \cup NotFullWaiters,
               pc' = [Wake({w}) EXCEPT ![t] = "done"]
        PROVE  TypeOK'
    BY <1>8, <2>2 DEF Notify
  <2> QED BY <1>8, <2>1, <2>2 DEF Notify, NotifyOne
<1>9. ASSUME NEW t \in Threads, NotifyAllNotEmpty(t) PROVE TypeOK'
  BY <1>9 DEF NotifyAllNotEmpty
<1>10. ASSUME NEW t \in Threads, NotifyAllNotFull(t) PROVE TypeOK'
  BY <1>10 DEF NotifyAllNotFull
<1>11. ASSUME NEW t \in Threads, TimeOut(t) PROVE TypeOK'
  BY <1>11 DEF TimeOut
<1>12. ASSUME NEW t \in Threads, Return(t) PROVE TypeOK'
  BY <1>12 DEF Return
<1>13. ASSUME NEW t \in Threads, DeadlinePasses(t) PROVE TypeOK'
  BY <1>13 DEF DeadlinePasses
<1>14. ASSUME NEW t \in Threads, SpuriousWake(t) PROVE TypeOK'
  BY <1>14 DEF SpuriousWake
<1>15. CASE UNCHANGED vars
  BY <1>15 DEF vars
<1> QED
  BY <1>1, <1>2, <1>3, <1>4, <1>5, <1>6, <1>7, <1>8, <1>9, <1>10, <1>11,
     <1>12, <1>13, <1>14, <1>15 DEF Next, Step, Run, Section

\* The code's variables always have their types, and a thread's place in the
\* code fits the member function it is in.
THEOREM TypeCorrect == Spec => []TypeOK
BY TypeInit, TypeStep, PTL DEF Spec
-----------------------------------------------------------------------------
(* The capacity.                                                            *)

\* A push adds to the queue only when it has just seen room, under the mutex.
LEMMA CapacityStep == TypeOK /\ CapacityBound /\ [Next]_vars => CapacityBound'
<1> SUFFICES ASSUME TypeOK, CapacityBound, [Next]_vars PROVE CapacityBound'
    OBVIOUS
<1>1. q \in Seq(Items) /\ Len(q) \in Nat
  BY LenProperties DEF TypeOK
<1>2. ASSUME NEW t \in Threads, PushAccept(t) PROVE CapacityBound'
  <2>1. val[t] \in Items
    BY <1>2 DEF PushAccept, TypeOK, InSection, PushOps
  <2>2. Len(q') = Len(q) + 1
    BY <1>1, <1>2, <2>1, AppendProperties DEF PushAccept
  <2>3. Len(q) < Capacity
    BY <1>1, <1>2 DEF PushAccept, MustWait, PushOps, PopOps
  <2> QED BY <1>1, <2>2, <2>3 DEF CapacityBound
<1>3. ASSUME NEW t \in Threads, PopTake(t) PROVE CapacityBound'
  <2>1. Len(q') = Len(q) - 1
    BY <1>1, <1>3, HeadTailProperties DEF PopTake
  <2> QED BY <1>1, <2>1 DEF CapacityBound
<1>4. CASE UNCHANGED q
  BY <1>4 DEF CapacityBound
<1> QED
  BY <1>2, <1>3, <1>4 DEF Next, Step, Run, Section, CallSome, Call, Wait,
     PushRefuse, PopRefuse, CloseSection, Notify, NotifyAllNotEmpty,
     NotifyAllNotFull, TimeOut, Return, DeadlinePasses, SpuriousWake, vars

\* The queue never holds more than capacity_ elements, whatever the number of
\* producers woken for one slot.
THEOREM CapacityCorrect == Spec => []CapacityBound
<1>1. Init => CapacityBound
  BY EmptySeq DEF Init, CapacityBound
<1> QED BY <1>1, CapacityStep, TypeCorrect, PTL DEF Spec

-----------------------------------------------------------------------------
(* No capacity at all.                                                      *)

\* No push or pop, timed or not, has succeeded or is about to wake anyone; and
\* the untimed ones are still inside the queue while it is open.
BlocksUntilClose ==
  \A t \in Threads :
    /\ op[t] \in PushOps \cup PopOps => ret[t] # "true" /\ pc[t] # "notify"
    /\ op[t] \in {"push", "pop"} /\ ~closed => pc[t] \in {"enter", "waiting", "woken"}

LEMMA BlocksStep ==
  ASSUME Capacity = 0, TypeOK, CapacityBound, BlocksUntilClose, [Next]_vars
  PROVE  BlocksUntilClose'
<1> USE DEF BlocksUntilClose, TypeOK, PushOps, PopOps, TimedOps, Ops, InSection, Finish
<1>1. q = <<>> /\ Len(q) = 0
  BY EmptySeq, LenProperties DEF CapacityBound
<1>2. ASSUME NEW t \in Threads, CallSome(t) PROVE BlocksUntilClose'
  <2>1. PICK o \in Ops : \E v : Call(t, o, v)
    BY <1>2 DEF CallSome
  <2> QED BY <2>1 DEF Call
<1>3. ASSUME NEW t \in Threads, Wait(t) PROVE BlocksUntilClose'
  BY <1>3 DEF Wait
<1>4. ASSUME NEW t \in Threads, PushAccept(t) PROVE FALSE
  BY <1>1, <1>4 DEF PushAccept, MustWait
<1>5. ASSUME NEW t \in Threads, PushRefuse(t) PROVE BlocksUntilClose'
  BY <1>5 DEF PushRefuse
<1>6. ASSUME NEW t \in Threads, PopTake(t) PROVE FALSE
  BY <1>1, <1>6 DEF PopTake
<1>7. ASSUME NEW t \in Threads, PopRefuse(t) PROVE BlocksUntilClose'
  BY <1>7 DEF PopRefuse, MustWait
<1>8. ASSUME NEW t \in Threads, CloseSection(t) PROVE BlocksUntilClose'
  BY <1>8 DEF CloseSection
<1>9. ASSUME NEW t \in Threads, Notify(t) PROVE FALSE
  BY <1>9 DEF Notify
<1>10. ASSUME NEW t \in Threads, NotifyAllNotEmpty(t) \/ NotifyAllNotFull(t)
       PROVE  BlocksUntilClose'
  BY <1>10 DEF NotifyAllNotEmpty, NotifyAllNotFull, Wake, NotEmptyWaiters, NotFullWaiters
<1>11. ASSUME NEW t \in Threads, TimeOut(t) PROVE BlocksUntilClose'
  BY <1>11 DEF TimeOut
<1>12. ASSUME NEW t \in Threads, Return(t) PROVE BlocksUntilClose'
  BY <1>12 DEF Return
<1>13. ASSUME NEW t \in Threads, DeadlinePasses(t) PROVE BlocksUntilClose'
  BY <1>13 DEF DeadlinePasses
<1>14. ASSUME NEW t \in Threads, SpuriousWake(t) PROVE BlocksUntilClose'
  BY <1>14 DEF SpuriousWake, Wake
<1>15. CASE UNCHANGED vars
  BY <1>15 DEF vars
<1> QED
  BY <1>2, <1>3, <1>4, <1>5, <1>6, <1>7, <1>8, <1>9, <1>10, <1>11, <1>12, <1>13,
     <1>14, <1>15 DEF Next, Step, Run, Section

\* The constructor accepts capacity 0.  Then no element ever passes, pop and
\* push block until close(), and only the timed calls may return before it.
THEOREM ZeroCapacityBlocks ==
  ASSUME Capacity = 0
  PROVE  Spec => []BlocksUntilClose
<1>1. Init => BlocksUntilClose
  BY DEF Init, BlocksUntilClose, PushOps, PopOps
<1>2. TypeOK /\ CapacityBound /\ BlocksUntilClose /\ [Next]_vars => BlocksUntilClose'
  BY BlocksStep
<1> QED BY <1>1, <1>2, TypeCorrect, CapacityCorrect, PTL DEF Spec

-----------------------------------------------------------------------------
(* Counting wake-ups.                                                       *)

\* A set is no larger than one it is contained in.
LEMMA CardMonotone ==
  ASSUME NEW S, NEW R, IsFiniteSet(R), S \subseteq R
  PROVE  Cardinality(S) <= Cardinality(R)
BY FS_Subset

\* ... and smaller by one when an element is missing.
LEMMA CardPlusOne ==
  ASSUME NEW S, NEW R, NEW x \in R, IsFiniteSet(R), S \subseteq R \ {x}
  PROVE  Cardinality(S) + 1 <= Cardinality(R)
<1>1. IsFiniteSet(R \ {x}) /\ Cardinality(R \ {x}) = Cardinality(R) - 1
  BY FS_RemoveElement
<1>2. Cardinality(S) <= Cardinality(R \ {x})
  BY <1>1, FS_Subset
<1>3. IsFiniteSet(S) /\ Cardinality(S) \in Nat /\ Cardinality(R) \in Nat
  BY <1>1, FS_Subset, FS_CardinalityType
<1> QED BY <1>1, <1>2, <1>3

\* Taking one element away loses at most one.
LEMMA CardMinusOne ==
  ASSUME NEW S, NEW R, NEW x, IsFiniteSet(R), S \subseteq R \cup {x}
  PROVE  Cardinality(S) <= Cardinality(R) + 1
<1>1. /\ IsFiniteSet(R \cup {x})
      /\ Cardinality(R \cup {x}) <= Cardinality(R) + 1
  <2>1. Cardinality(R) \in Nat
    BY FS_CardinalityType
  <2>2. /\ IsFiniteSet(R \cup {x})
        /\ Cardinality(R \cup {x}) =
             IF x \in R THEN Cardinality(R) ELSE Cardinality(R) + 1
    BY FS_AddElement
  <2> QED BY <2>1, <2>2
<1>2. Cardinality(S) <= Cardinality(R \cup {x})
  BY <1>1, FS_Subset
<1>3. /\ Cardinality(S) \in Nat /\ Cardinality(R) \in Nat
      /\ Cardinality(R \cup {x}) \in Nat
  BY <1>1, FS_Subset, FS_CardinalityType
<1> QED BY <1>1, <1>2, <1>3

\* Exchanging an element for a new one loses none.
LEMMA CardSwap ==
  ASSUME NEW S, NEW R, NEW x, NEW y \in R, y \notin S, IsFiniteSet(R),
         x \in S, S \subseteq R \cup {x}
  PROVE  Cardinality(S) <= Cardinality(R)
<1>1. IsFiniteSet(S)
  <2>1. IsFiniteSet(R \cup {x})
    BY FS_AddElement
  <2> QED BY <2>1, FS_Subset
<1>2. Cardinality(S \ {x}) = Cardinality(S) - 1
  BY <1>1, FS_RemoveElement
<1>3. Cardinality(S \ {x}) + 1 <= Cardinality(R)
  BY CardPlusOne
<1>4. Cardinality(S) \in Nat
  BY <1>1, FS_CardinalityType
<1> QED BY <1>2, <1>3, <1>4

\* The wake-ups under way are threads, so there are finitely many.
LEMMA WakeupsFinite ==
  /\ IsFiniteSet(NotEmptyWakeups) /\ Cardinality(NotEmptyWakeups) \in Nat
  /\ IsFiniteSet(NotFullWakeups)  /\ Cardinality(NotFullWakeups) \in Nat
<1>1. NotEmptyWakeups \subseteq Threads /\ NotFullWakeups \subseteq Threads
  BY DEF NotEmptyWakeups, NotFullWakeups
<1> QED BY <1>1, FS_Subset, FS_CardinalityType
-----------------------------------------------------------------------------
(* No lost wake-up on cv_not_empty_.                                        *)

\* A step keeps NotEmptySignalled if it opens nothing, blocks no further
\* consumer, adds no element and drops no wake-up.
LEMMA NotEmptyMonotone ==
  ASSUME TypeOK, TypeOK', NotEmptySignalled, closed => closed',
         NotEmptyWaiters' \subseteq NotEmptyWaiters,
         q' = q, NotEmptyWakeups \subseteq NotEmptyWakeups'
  PROVE  NotEmptySignalled'
<1>1. IsFiniteSet(NotEmptyWakeups') /\ NotEmptyWakeups' \subseteq Threads
  <2>1. NotEmptyWakeups' \subseteq Threads
    BY DEF NotEmptyWakeups
  <2> QED BY <2>1, FS_Subset
<1>2. Cardinality(NotEmptyWakeups) <= Cardinality(NotEmptyWakeups')
  BY <1>1, CardMonotone
<1>3. /\ Cardinality(NotEmptyWakeups) \in Nat
      /\ Cardinality(NotEmptyWakeups') \in Nat
      /\ Len(q) \in Nat
  BY <1>1, WakeupsFinite, FS_CardinalityType, LenProperties DEF TypeOK
<1> QED BY <1>2, <1>3 DEF NotEmptySignalled

\* Every step keeps the wake-ups for consumers complete, provided a thread
\* that has been picked by notify_one does go back to the queue.
LEMMA NotEmptyStep ==
  ASSUME ~TimeoutTakesSignal, TypeOK, NotEmptySignalled, [Next]_vars
  PROVE  NotEmptySignalled'
<1> TypeOK'
  BY TypeStep
<1> USE DEF NotEmptyWaiters, NotEmptyWakeups, PushOps, PopOps
<1>fin. /\ IsFiniteSet(NotEmptyWakeups') /\ Cardinality(NotEmptyWakeups') \in Nat
        /\ IsFiniteSet(NotEmptyWakeups) /\ Cardinality(NotEmptyWakeups) \in Nat
        /\ Len(q) \in Nat /\ Len(q') \in Nat
  <2>1. NotEmptyWakeups' \subseteq Threads
    OBVIOUS
  <2> QED BY <2>1, WakeupsFinite, FS_Subset, FS_CardinalityType, LenProperties
          DEF TypeOK
<1>1. ASSUME NEW t \in Threads, CallSome(t) PROVE NotEmptySignalled'
  BY <1>1, NotEmptyMonotone DEF CallSome, Call, TypeOK
<1>2. ASSUME NEW t \in Threads, Wait(t) PROVE NotEmptySignalled'
  <2>1. CASE op[t] \in PopOps
    <3>1. q' = <<>>
      BY <1>2, <2>1 DEF Wait, MustWait
    <3> QED BY <3>1, <1>fin, EmptySeq DEF NotEmptySignalled
  <2>2. CASE op[t] \in PushOps
    BY <1>2, <2>2, NotEmptyMonotone DEF Wait, TypeOK
  <2> QED BY <1>2, <2>1, <2>2 DEF Wait
<1>3. ASSUME NEW t \in Threads, PushAccept(t) PROVE NotEmptySignalled'
  <2> USE DEF PushAccept, Finish, InSection
  <2>1. t \in NotEmptyWakeups' /\ NotEmptyWakeups \subseteq NotEmptyWakeups' \ {t}
    BY <1>3 DEF TypeOK
  <2>2. Cardinality(NotEmptyWakeups) + 1 <= Cardinality(NotEmptyWakeups')
    BY <2>1, <1>fin, CardPlusOne
  <2>3. Len(q') = Len(q) + 1
    BY <1>3, AppendProperties DEF TypeOK
  <2>4. NotEmptyWaiters' \subseteq NotEmptyWaiters /\ closed' = closed
    BY <1>3 DEF TypeOK
  <2> QED BY <2>2, <2>3, <2>4, <1>fin DEF NotEmptySignalled
<1>4. ASSUME NEW t \in Threads, PushRefuse(t) PROVE NotEmptySignalled'
  BY <1>4 DEF PushRefuse, NotEmptySignalled
<1>5. ASSUME NEW t \in Threads, PopTake(t) PROVE NotEmptySignalled'
  <2> USE DEF PopTake, Finish, InSection
  <2>1. NotEmptyWakeups \subseteq NotEmptyWakeups' \cup {t}
    BY <1>5 DEF TypeOK
  <2>2. Cardinality(NotEmptyWakeups) <= Cardinality(NotEmptyWakeups') + 1
    BY <2>1, <1>fin, CardMinusOne
  <2>3. Len(q') = Len(q) - 1
    BY <1>5, HeadTailProperties DEF TypeOK
  <2>4. NotEmptyWaiters' \subseteq NotEmptyWaiters /\ closed' = closed
    BY <1>5 DEF TypeOK
  <2> QED BY <2>2, <2>3, <2>4, <1>fin DEF NotEmptySignalled
<1>6. ASSUME NEW t \in Threads, PopRefuse(t) PROVE NotEmptySignalled'
  BY <1>6 DEF PopRefuse, MustWait, NotEmptySignalled
<1>7. ASSUME NEW t \in Threads, CloseSection(t) PROVE NotEmptySignalled'
  BY <1>7 DEF CloseSection, NotEmptySignalled
<1>8. ASSUME NEW t \in Threads, Notify(t) PROVE NotEmptySignalled'
  <2> USE DEF Notify, NotifyOne, NotFullWaiters, Wake
  <2>1. CASE op[t] \in PopOps
    <3>1. CASE pc' = [pc EXCEPT ![t] = "done"]
      BY <1>8, <2>1, <3>1, NotEmptyMonotone DEF TypeOK
    <3>2. ASSUME NEW w \in NotFullWaiters,
                 pc' = [Wake({w}) EXCEPT ![t] = "done"]
          PROVE  NotEmptySignalled'
      BY <1>8, <2>1, <3>2, NotEmptyMonotone DEF TypeOK
    <3> QED BY <1>8, <2>1, <3>1, <3>2
  <2>2. CASE op[t] \in PushOps /\ NotEmptyWaiters = {}
    <3>1. NotEmptyWaiters' = {}
      BY <1>8, <2>2 DEF TypeOK
    <3> QED BY <3>1 DEF NotEmptySignalled
  <2>3. ASSUME op[t] \in PushOps, NEW w \in NotEmptyWaiters,
               pc' = [Wake({w}) EXCEPT ![t] = "done"]
        PROVE  NotEmptySignalled'
    <3>1. /\ w \in NotEmptyWakeups' /\ w \notin NotEmptyWakeups
          /\ t \in NotEmptyWakeups
          /\ NotEmptyWakeups \subseteq NotEmptyWakeups' \cup {t}
      BY <1>8, <2>3 DEF TypeOK
    <3>2. Cardinality(NotEmptyWakeups) <= Cardinality(NotEmptyWakeups')
      BY <3>1, <1>fin, CardSwap
    <3>3. NotEmptyWaiters' \subseteq NotEmptyWaiters /\ closed' = closed /\ q' = q
      BY <1>8, <2>3 DEF TypeOK
    <3> QED BY <3>2, <3>3, <1>fin DEF NotEmptySignalled
  <2> QED BY <1>8, <2>1, <2>2, <2>3 DEF TypeOK
<1>9. ASSUME NEW t \in Threads, NotifyAllNotEmpty(t) PROVE NotEmptySignalled'
  <2>1. NotEmptyWaiters' = {}
    BY <1>9 DEF NotifyAllNotEmpty, Wake, TypeOK
  <2> QED BY <2>1 DEF NotEmptySignalled
<1>10. ASSUME NEW t \in Threads, NotifyAllNotFull(t) PROVE NotEmptySignalled'
  BY <1>10, NotEmptyMonotone DEF NotifyAllNotFull, Wake, NotFullWaiters, TypeOK
<1>11. ASSUME NEW t \in Threads, TimeOut(t) PROVE NotEmptySignalled'
  BY <1>11, NotEmptyMonotone DEF TimeOut, Finish, TypeOK
<1>12. ASSUME NEW t \in Threads, Return(t) PROVE NotEmptySignalled'
  BY <1>12, NotEmptyMonotone DEF Return, TypeOK
<1>13. ASSUME NEW t \in Threads, DeadlinePasses(t) PROVE NotEmptySignalled'
  BY <1>13, NotEmptyMonotone DEF DeadlinePasses
<1>14. ASSUME NEW t \in Threads, SpuriousWake(t) PROVE NotEmptySignalled'
  BY <1>14, NotEmptyMonotone DEF SpuriousWake, Wake, TypeOK
<1>15. CASE UNCHANGED vars
  BY <1>15, NotEmptyMonotone DEF vars
<1> QED
  BY <1>1, <1>2, <1>3, <1>4, <1>5, <1>6, <1>7, <1>8, <1>9, <1>10, <1>11,
     <1>12, <1>13, <1>14, <1>15 DEF Next, Step, Run, Section
-----------------------------------------------------------------------------
(* No lost wake-up on cv_not_full_: the same argument with the free slots   *)
(* in the place of the elements.                                            *)

\* A step keeps NotFullSignalled if it opens nothing, blocks no further
\* producer, frees no slot and drops no wake-up.
LEMMA NotFullMonotone ==
  ASSUME TypeOK, TypeOK', NotFullSignalled, closed => closed',
         NotFullWaiters' \subseteq NotFullWaiters,
         q' = q, NotFullWakeups \subseteq NotFullWakeups'
  PROVE  NotFullSignalled'
<1>1. IsFiniteSet(NotFullWakeups') /\ NotFullWakeups' \subseteq Threads
  <2>1. NotFullWakeups' \subseteq Threads
    BY DEF NotFullWakeups
  <2> QED BY <2>1, FS_Subset
<1>2. Cardinality(NotFullWakeups) <= Cardinality(NotFullWakeups')
  BY <1>1, CardMonotone
<1>3. /\ Cardinality(NotFullWakeups) \in Nat
      /\ Cardinality(NotFullWakeups') \in Nat
      /\ Len(q) \in Nat
  BY <1>1, WakeupsFinite, FS_CardinalityType, LenProperties DEF TypeOK
<1> QED BY <1>2, <1>3 DEF NotFullSignalled

\* Every step keeps the wake-ups for producers complete, provided a thread
\* that has been picked by notify_one does go back to the queue.
LEMMA NotFullStep ==
  ASSUME ~TimeoutTakesSignal, TypeOK, NotFullSignalled, [Next]_vars
  PROVE  NotFullSignalled'
<1> TypeOK'
  BY TypeStep
<1> USE DEF NotFullWaiters, NotFullWakeups, PushOps, PopOps
<1>fin. /\ IsFiniteSet(NotFullWakeups') /\ Cardinality(NotFullWakeups') \in Nat
        /\ IsFiniteSet(NotFullWakeups) /\ Cardinality(NotFullWakeups) \in Nat
        /\ Len(q) \in Nat /\ Len(q') \in Nat
  <2>1. NotFullWakeups' \subseteq Threads
    OBVIOUS
  <2> QED BY <2>1, WakeupsFinite, FS_Subset, FS_CardinalityType, LenProperties
          DEF TypeOK
<1>1. ASSUME NEW t \in Threads, CallSome(t) PROVE NotFullSignalled'
  BY <1>1, NotFullMonotone DEF CallSome, Call, TypeOK
<1>2. ASSUME NEW t \in Threads, Wait(t) PROVE NotFullSignalled'
  <2>1. CASE op[t] \in PushOps
    <3>1. q' = q /\ Len(q) >= Capacity
      BY <1>2, <2>1 DEF Wait, MustWait
    <3> QED BY <3>1, <1>fin DEF NotFullSignalled
  <2>2. CASE op[t] \in PopOps
    BY <1>2, <2>2, NotFullMonotone DEF Wait, TypeOK
  <2> QED BY <1>2, <2>1, <2>2 DEF Wait
<1>3. ASSUME NEW t \in Threads, PushAccept(t) PROVE NotFullSignalled'
  <2> USE DEF PushAccept, Finish, InSection
  <2>1. NotFullWakeups \subseteq NotFullWakeups' \cup {t}
    BY <1>3 DEF TypeOK
  <2>2. Cardinality(NotFullWakeups) <= Cardinality(NotFullWakeups') + 1
    BY <2>1, <1>fin, CardMinusOne
  <2>3. Len(q') = Len(q) + 1
    BY <1>3, AppendProperties DEF TypeOK
  <2>4. NotFullWaiters' \subseteq NotFullWaiters /\ closed' = closed
    BY <1>3 DEF TypeOK
  <2> QED BY <2>2, <2>3, <2>4, <1>fin DEF NotFullSignalled
<1>4. ASSUME NEW t \in Threads, PushRefuse(t) PROVE NotFullSignalled'
  BY <1>4 DEF PushRefuse, NotFullSignalled
<1>5. ASSUME NEW t \in Threads, PopTake(t) PROVE NotFullSignalled'
  <2> USE DEF PopTake, Finish, InSection
  <2>1. t \in NotFullWakeups' /\ NotFullWakeups \subseteq NotFullWakeups' \ {t}
    BY <1>5 DEF TypeOK
  <2>2. Cardinality(NotFullWakeups) + 1 <= Cardinality(NotFullWakeups')
    BY <2>1, <1>fin, CardPlusOne
  <2>3. Len(q') = Len(q) - 1
    BY <1>5, HeadTailProperties DEF TypeOK
  <2>4. NotFullWaiters' \subseteq NotFullWaiters /\ closed' = closed
    BY <1>5 DEF TypeOK
  <2> QED BY <2>2, <2>3, <2>4, <1>fin DEF NotFullSignalled
<1>6. ASSUME NEW t \in Threads, PopRefuse(t) PROVE NotFullSignalled'
  BY <1>6 DEF PopRefuse, MustWait, NotFullSignalled
<1>7. ASSUME NEW t \in Threads, CloseSection(t) PROVE NotFullSignalled'
  BY <1>7 DEF CloseSection, NotFullSignalled
<1>8. ASSUME NEW t \in Threads, Notify(t) PROVE NotFullSignalled'
  <2> USE DEF Notify, NotifyOne, NotEmptyWaiters, Wake
  <2>1. CASE op[t] \in PushOps
    <3>1. CASE pc' = [pc EXCEPT ![t] = "done"]
      BY <1>8, <2>1, <3>1, NotFullMonotone DEF TypeOK
    <3>2. ASSUME NEW w \in NotEmptyWaiters,
                 pc' = [Wake({w}) EXCEPT ![t] = "done"]
          PROVE  NotFullSignalled'
      BY <1>8, <2>1, <3>2, NotFullMonotone DEF TypeOK
    <3> QED BY <1>8, <2>1, <3>1, <3>2
  <2>2. CASE op[t] \in PopOps /\ NotFullWaiters = {}
    <3>1. NotFullWaiters' = {}
      BY <1>8, <2>2 DEF TypeOK
    <3> QED BY <3>1 DEF NotFullSignalled
  <2>3. ASSUME op[t] \in PopOps, NEW w \in NotFullWaiters,
               pc' = [Wake({w}) EXCEPT ![t] = "done"]
        PROVE  NotFullSignalled'
    <3>1. /\ w \in NotFullWakeups' /\ w \notin NotFullWakeups
          /\ t \in NotFullWakeups
          /\ NotFullWakeups \subseteq NotFullWakeups' \cup {t}
      BY <1>8, <2>3 DEF TypeOK
    <3>2. Cardinality(NotFullWakeups) <= Cardinality(NotFullWakeups')
      BY <3>1, <1>fin, CardSwap
    <3>3. NotFullWaiters' \subseteq NotFullWaiters /\ closed' = closed /\ q' = q
      BY <1>8, <2>3 DEF TypeOK
    <3> QED BY <3>2, <3>3, <1>fin DEF NotFullSignalled
  <2> QED BY <1>8, <2>1, <2>2, <2>3 DEF TypeOK
<1>9. ASSUME NEW t \in Threads, NotifyAllNotFull(t) PROVE NotFullSignalled'
  <2>1. NotFullWaiters' = {}
    BY <1>9 DEF NotifyAllNotFull, Wake, TypeOK
  <2> QED BY <2>1 DEF NotFullSignalled
<1>10. ASSUME NEW t \in Threads, NotifyAllNotEmpty(t) PROVE NotFullSignalled'
  BY <1>10, NotFullMonotone DEF NotifyAllNotEmpty, Wake, NotEmptyWaiters, TypeOK
<1>11. ASSUME NEW t \in Threads, TimeOut(t) PROVE NotFullSignalled'
  BY <1>11, NotFullMonotone DEF TimeOut, Finish, TypeOK
<1>12. ASSUME NEW t \in Threads, Return(t) PROVE NotFullSignalled'
  BY <1>12, NotFullMonotone DEF Return, TypeOK
<1>13. ASSUME NEW t \in Threads, DeadlinePasses(t) PROVE NotFullSignalled'
  BY <1>13, NotFullMonotone DEF DeadlinePasses
<1>14. ASSUME NEW t \in Threads, SpuriousWake(t) PROVE NotFullSignalled'
  BY <1>14, NotFullMonotone DEF SpuriousWake, Wake, TypeOK
<1>15. CASE UNCHANGED vars
  BY <1>15, NotFullMonotone DEF vars
<1> QED
  BY <1>1, <1>2, <1>3, <1>4, <1>5, <1>6, <1>7, <1>8, <1>9, <1>10, <1>11,
     <1>12, <1>13, <1>14, <1>15 DEF Next, Step, Run, Section

-----------------------------------------------------------------------------
(* No lost wake-ups, no gridlock.                                           *)

\* With a condition variable that takes no signal with a timeout, no wake-up
\* for a consumer is ever lost between push's unlock and its notify_one.
THEOREM NotEmptyCorrect ==
  ASSUME ~TimeoutTakesSignal
  PROVE  Spec => []NotEmptySignalled
<1>1. Init => NotEmptySignalled
  BY DEF Init, NotEmptySignalled, NotEmptyWaiters
<1>2. TypeOK /\ NotEmptySignalled /\ [Next]_vars => NotEmptySignalled'
  BY NotEmptyStep
<1> QED BY <1>1, <1>2, TypeCorrect, PTL DEF Spec

\* Likewise for the producers that wait for a slot.
THEOREM NotFullCorrect ==
  ASSUME ~TimeoutTakesSignal
  PROVE  Spec => []NotFullSignalled
<1>1. Init => NotFullSignalled
  BY DEF Init, NotFullSignalled, NotFullWaiters
<1>2. TypeOK /\ NotFullSignalled /\ [Next]_vars => NotFullSignalled'
  BY NotFullStep
<1> QED BY <1>1, <1>2, TypeCorrect, PTL DEF Spec

\* Were both sides asleep and nobody on the way, there would be no element
\* and no free slot: the queue would have no capacity.
LEMMA SignalledNoGridlock ==
  TypeOK /\ NotEmptySignalled /\ NotFullSignalled => NoGridlock
<1> SUFFICES ASSUME TypeOK, NotEmptySignalled, NotFullSignalled,
                    Capacity > 0, ~closed, NotEmptyWaiters # {}, NotFullWaiters # {},
                    NotEmptyWakeups = {}, NotFullWakeups = {}
             PROVE  FALSE
    BY DEF NoGridlock
<1>1. Cardinality(NotEmptyWakeups) = 0 /\ Cardinality(NotFullWakeups) = 0
  BY FS_EmptySet
<1>2. Len(q) \in Nat
  BY LenProperties DEF TypeOK
<1>3. Len(q) <= 0 /\ Capacity - Len(q) <= 0
  BY <1>1 DEF NotEmptySignalled, NotFullSignalled
<1> QED BY <1>2, <1>3

\* push and pop cannot leave each other's callers asleep.
THEOREM GridlockFree ==
  ASSUME ~TimeoutTakesSignal
  PROVE  Spec => []NoGridlock
BY SignalledNoGridlock, TypeCorrect, NotEmptyCorrect, NotFullCorrect, PTL

-----------------------------------------------------------------------------
(* Closing.                                                                 *)

\* close() sends notify_all to the consumers' and then to the producers'
\* condition variable, and nobody starts to wait once closed_ is set.
LEMMA CloseStep == TypeOK /\ CloseCoverage /\ [Next]_vars => CloseCoverage'
<1> SUFFICES ASSUME TypeOK, CloseCoverage, [Next]_vars PROVE CloseCoverage'
    OBVIOUS
<1> USE DEF TypeOK, CloseCoverage, NotEmptyWaiters, NotFullWaiters, Finish,
            InSection, PushOps, PopOps
<1>1. ASSUME NEW t \in Threads, CallSome(t) PROVE CloseCoverage'
  <2>1. PICK o, v : Call(t, o, v)
    BY <1>1 DEF CallSome
  <2>2. /\ NotEmptyWaiters' = NotEmptyWaiters /\ NotFullWaiters' = NotFullWaiters
        /\ closed' = closed
    BY <2>1 DEF Call
  <2>3. \A u \in Threads :
          pc[u] \in {"notify_not_empty", "notify_not_full"} => pc'[u] = pc[u]
    BY <2>1 DEF Call
  <2> QED BY <2>2, <2>3
<1>2. ASSUME NEW t \in Threads, Wait(t) PROVE CloseCoverage'
  BY <1>2 DEF Wait, MustWait
<1>3. ASSUME NEW t \in Threads, PushAccept(t) PROVE CloseCoverage'
  BY <1>3 DEF PushAccept
<1>4. ASSUME NEW t \in Threads, PushRefuse(t) PROVE CloseCoverage'
  BY <1>4 DEF PushRefuse
<1>5. ASSUME NEW t \in Threads, PopTake(t) PROVE CloseCoverage'
  BY <1>5 DEF PopTake
<1>6. ASSUME NEW t \in Threads, PopRefuse(t) PROVE CloseCoverage'
  BY <1>6 DEF PopRefuse
<1>7. ASSUME NEW t \in Threads, CloseSection(t) PROVE CloseCoverage'
  BY <1>7 DEF CloseSection
<1>8. ASSUME NEW t \in Threads, Notify(t) PROVE CloseCoverage'
  <2>1. CASE pc' = [pc EXCEPT ![t] = "done"]
    BY <1>8, <2>1 DEF Notify
  <2>2. ASSUME NEW w \in NotEmptyWaiters \cup NotFullWaiters,
               pc' = [Wake({w}) EXCEPT ![t] = "done"]
        PROVE  CloseCoverage'
    BY <1>8, <2>2 DEF Notify, Wake
  <2> QED BY <1>8, <2>1, <2>2 DEF Notify, NotifyOne
<1>9. ASSUME NEW t \in Threads, NotifyAllNotEmpty(t) PROVE CloseCoverage'
  BY <1>9 DEF NotifyAllNotEmpty, Wake
<1>10. ASSUME NEW t \in Threads, NotifyAllNotFull(t) PROVE CloseCoverage'
  BY <1>10 DEF NotifyAllNotFull, Wake
<1>11. ASSUME NEW t \in Threads, TimeOut(t) PROVE CloseCoverage'
  BY <1>11 DEF TimeOut
<1>12. ASSUME NEW t \in Threads, Return(t) PROVE CloseCoverage'
  BY <1>12 DEF Return
<1>13. ASSUME NEW t \in Threads, DeadlinePasses(t) PROVE CloseCoverage'
  BY <1>13 DEF DeadlinePasses
<1>14. ASSUME NEW t \in Threads, SpuriousWake(t) PROVE CloseCoverage'
  BY <1>14 DEF SpuriousWake, Wake
<1>15. CASE UNCHANGED vars
  BY <1>15 DEF vars
<1> QED
  BY <1>1, <1>2, <1>3, <1>4, <1>5, <1>6, <1>7, <1>8, <1>9, <1>10, <1>11,
     <1>12, <1>13, <1>14, <1>15 DEF Next, Step, Run, Section

\* Nobody sleeps through close(), whoever else is notifying at the time.
THEOREM CloseCorrect == Spec => []CloseCoverage
<1>1. Init => CloseCoverage
  BY DEF Init, CloseCoverage
<1> QED BY <1>1, CloseStep, TypeCorrect, PTL DEF Spec

-----------------------------------------------------------------------------
(* Linearizability: BoundedBlockingQueue implements AtomicQueue.            *)

\* The phase of a call by the place its thread has in the code, before and
\* after a step: pending up to its last critical section, done from then on.
LEMMA PhaseOf ==
  ASSUME TypeOK, TypeOK'
  PROVE  /\ phase \in [Threads -> {"idle", "pending", "done"}]
         /\ phase' \in [Threads -> {"idle", "pending", "done"}]
         /\ \A t \in Threads :
              /\ pc[t] = "idle" => phase[t] = "idle"
              /\ pc[t] \in {"enter", "waiting", "woken"} => phase[t] = "pending"
              /\ pc[t] \in {"notify", "notify_not_empty", "notify_not_full", "done"}
                   => phase[t] = "done"
              /\ pc'[t] = "idle" => phase'[t] = "idle"
              /\ pc'[t] \in {"enter", "waiting", "woken"} => phase'[t] = "pending"
              /\ pc'[t] \in {"notify", "notify_not_empty", "notify_not_full", "done"}
                   => phase'[t] = "done"
BY DEF phase, TypeOK

\* When only t changes its place, only t's phase can change.
LEMMA PhaseChange ==
  ASSUME TypeOK, TypeOK', NEW t \in Threads, NEW where \in PCs,
         pc' = [pc EXCEPT ![t] = where]
  PROVE  phase' = [phase EXCEPT ![t] = phase'[t]]
<1>1. \A u \in Threads \ {t} : pc'[u] = pc[u]
  BY DEF TypeOK
<1>2. \A u \in Threads \ {t} : phase'[u] = phase[u]
  BY <1>1 DEF phase
<1> QED BY <1>2 DEF phase

\* A notification changes nothing the caller of any member function can see.
LEMMA WakeKeepsPhase ==
  ASSUME TypeOK, TypeOK', NEW t \in Threads, NEW where \in PCs,
         NEW W \in SUBSET (NotEmptyWaiters \cup NotFullWaiters),
         pc[t] \in {"notify", "notify_not_empty", "notify_not_full"},
         where \in {"notify_not_full", "done"},
         pc' = [Wake(W) EXCEPT ![t] = where]
  PROVE  phase' = phase
<1>1. \A u \in Threads :
        \/ pc'[u] = pc[u]
        \/ pc[u] = "waiting" /\ pc'[u] = "woken"
        \/ u = t /\ pc'[u] = where
  BY DEF Wake, TypeOK, NotEmptyWaiters, NotFullWaiters
<1>2. \A u \in Threads : phase'[u] = phase[u]
  BY <1>1, PhaseOf DEF phase
<1> QED BY <1>2 DEF phase

\* Every step of the code is a step of the abstract queue or changes nothing
\* in it; an operation takes effect in its last critical section.
LEMMA RefinementStep ==
  TypeOK /\ [Next]_vars => [Abstract!Next]_(Abstract!vars)
<1> SUFFICES ASSUME TypeOK, [Next]_vars
             PROVE  [Abstract!Next]_(Abstract!vars)
    OBVIOUS
<1> TypeOK'
  BY TypeStep
<1> Abstract!Threads = Threads /\ Abstract!PushOps = PushOps
      /\ Abstract!PopOps = PopOps /\ Abstract!TimedOps = TimedOps
  BY DEF Abstract!Threads, Threads, Abstract!PushOps, PushOps, Abstract!PopOps,
         PopOps, Abstract!TimedOps, TimedOps
<1>1. ASSUME NEW t \in Threads, CallSome(t) PROVE Abstract!Next
  <2>1. ASSUME NEW o, NEW v, Call(t, o, v) PROVE Abstract!Call(t, o, v)
    <3>1. pc'[t] = "enter" /\ pc[t] = "idle"
      BY <2>1 DEF Call, TypeOK
    <3>2. phase[t] = "idle" /\ phase' = [phase EXCEPT ![t] = "pending"]
      BY <2>1, <3>1, PhaseOf, PhaseChange DEF Call, PCs
    <3> QED BY <2>1, <3>2 DEF Call, Abstract!Call
  <2> QED BY <1>1, <2>1 DEF CallSome, Abstract!Next
<1>2. ASSUME NEW t \in Threads, NEW r, NEW where \in {"notify", "notify_not_empty", "done"},
             pc[t] \in {"enter", "waiting", "woken"}, Finish(t, where, r), op' = op
      PROVE  Abstract!Finish(t, r)
  <2>1. pc'[t] = where
    BY <1>2 DEF Finish, TypeOK
  <2>2. phase[t] = "pending" /\ phase' = [phase EXCEPT ![t] = "done"]
    BY <1>2, <2>1, PhaseOf, PhaseChange DEF Finish, PCs
  <2> QED BY <1>2, <2>2 DEF Finish, Abstract!Finish
<1>3. ASSUME NEW t \in Threads, PushAccept(t) PROVE Abstract!Push(t)
  <2>1. ~closed /\ Len(q) < Capacity
    BY <1>3, LenProperties DEF PushAccept, MustWait, PushOps, PopOps, TypeOK
  <2> QED BY <1>2, <1>3, <2>1 DEF PushAccept, InSection, Abstract!Push
<1>4. ASSUME NEW t \in Threads, PushRefuse(t) PROVE Abstract!Refuse(t)
  BY <1>2, <1>4 DEF PushRefuse, InSection, Abstract!Refuse
<1>5. ASSUME NEW t \in Threads, PopTake(t) PROVE Abstract!Pop(t)
  BY <1>2, <1>5 DEF PopTake, InSection, Abstract!Pop
<1>6. ASSUME NEW t \in Threads, PopRefuse(t) PROVE Abstract!Refuse(t)
  <2>1. closed
    BY <1>6 DEF PopRefuse, MustWait, PushOps, PopOps
  <2> QED BY <1>2, <1>6, <2>1 DEF PopRefuse, InSection, Abstract!Refuse
<1>7. ASSUME NEW t \in Threads, CloseSection(t) PROVE Abstract!Close(t)
  BY <1>2, <1>7 DEF CloseSection, InSection, Abstract!Close
<1>8. ASSUME NEW t \in Threads, TimeOut(t) PROVE Abstract!TimeOut(t)
  BY <1>2, <1>8 DEF TimeOut, Abstract!TimeOut
<1>9. ASSUME NEW t \in Threads, Return(t) PROVE Abstract!Return(t)
  <2>1. pc[t] = "done" /\ pc'[t] = "idle"
    BY <1>9 DEF Return, TypeOK
  <2>2. phase[t] = "done" /\ phase' = [phase EXCEPT ![t] = "idle"]
    BY <1>9, <2>1, PhaseOf, PhaseChange DEF Return, PCs
  <2> QED BY <1>9, <2>2 DEF Return, Abstract!Return
<1>10. ASSUME NEW t \in Threads, Wait(t) PROVE UNCHANGED Abstract!vars
  <2>1. pc[t] \in {"enter", "woken"} /\ pc'[t] = "waiting"
    BY <1>10 DEF Wait, InSection, TypeOK
  <2>2. phase' = phase
    <3>1. phase'[t] = phase[t]
      BY <2>1, PhaseOf
    <3>2. phase' = [phase EXCEPT ![t] = phase'[t]]
      BY <1>10, PhaseChange DEF Wait, PCs
    <3> QED BY <3>1, <3>2, PhaseOf
  <2> QED BY <1>10, <2>2 DEF Wait, Abstract!vars
<1>11. ASSUME NEW t \in Threads,
              Notify(t) \/ NotifyAllNotEmpty(t) \/ NotifyAllNotFull(t)
       PROVE  UNCHANGED Abstract!vars
  <2>1. phase' = phase
    <3>1. CASE Notify(t) /\ pc' = [pc EXCEPT ![t] = "done"]
      <4>1. pc[t] = "notify" /\ pc'[t] = "done"
        BY <3>1 DEF Notify, TypeOK
      <4>2. phase'[t] = phase[t]
        BY <4>1, PhaseOf
      <4>3. phase' = [phase EXCEPT ![t] = phase'[t]]
        BY <3>1, PhaseChange DEF PCs
      <4> QED BY <4>2, <4>3, PhaseOf
    <3>2. ASSUME Notify(t), NEW w \in NotEmptyWaiters \cup NotFullWaiters,
                 pc' = [Wake({w}) EXCEPT ![t] = "done"]
          PROVE  phase' = phase
      <4>1. {w} \in SUBSET (NotEmptyWaiters \cup NotFullWaiters) /\ pc[t] = "notify"
        BY <3>2 DEF Notify
      <4> QED BY <3>2, <4>1, WakeKeepsPhase DEF PCs
    <3>3. CASE NotifyAllNotEmpty(t)
      BY <3>3, WakeKeepsPhase DEF NotifyAllNotEmpty, PCs
    <3>4. CASE NotifyAllNotFull(t)
      BY <3>4, WakeKeepsPhase DEF NotifyAllNotFull, PCs
    <3> QED BY <1>11, <3>1, <3>2, <3>3, <3>4 DEF Notify, NotifyOne
  <2> QED BY <1>11, <2>1 DEF Notify, NotifyAllNotEmpty, NotifyAllNotFull,
             Abstract!vars
<1>12. ASSUME NEW t \in Threads, DeadlinePasses(t) PROVE UNCHANGED Abstract!vars
  BY <1>12 DEF DeadlinePasses, phase, Abstract!vars
<1>13. ASSUME NEW t \in Threads, SpuriousWake(t) PROVE UNCHANGED Abstract!vars
  <2>1. \A u \in Threads :
          pc'[u] = pc[u] \/ (pc[u] = "waiting" /\ pc'[u] = "woken")
    BY <1>13 DEF SpuriousWake, Wake
  <2>2. phase' = phase
    BY <2>1 DEF phase
  <2> QED BY <1>13, <2>2 DEF SpuriousWake, Abstract!vars
<1>14. CASE UNCHANGED vars
  BY <1>14 DEF vars, phase, Abstract!vars
<1> QED
  BY <1>1, <1>3, <1>4, <1>5, <1>6, <1>7, <1>8, <1>9, <1>10, <1>11, <1>12,
     <1>13, <1>14 DEF Next, Step, Run, Section, Abstract!Next

\* The threads cannot tell the blocking queue from an atomic FIFO queue: each
\* call takes effect at one instant, in the order the critical sections run.
THEOREM Refinement == Spec => Linearizable
<1>1. Init => Abstract!Init
  BY DEF Init, Abstract!Init, phase, Threads, Abstract!Threads
<1> QED BY <1>1, RefinementStep, TypeCorrect, PTL
        DEF Spec, Linearizable, Abstract!Spec
=============================================================================
