------------------------ MODULE BoundedBlockingQueue ------------------------
(***************************************************************************)
(* comm::utilities::bounded_blocking_queue<T>                              *)
(* (libs/comm/include/comm/utilities/bounded_blocking_queue.hpp): a deque, *)
(* a closed flag, one mutex and two condition variables, used by any       *)
(* number of threads at once.                                              *)
(*                                                                         *)
(* All reads and writes of q_ and closed_ happen under m_, so the code     *)
(* from taking m_ to giving it up (unlock, wait or return) is one step.    *)
(* What happens outside the mutex are steps of their own: the notify calls *)
(* that follow lk.unlock(), waking up, and the passing of a deadline.      *)
(***************************************************************************)
EXTENDS Naturals, Sequences, FiniteSets

CONSTANTS
  Producers,  \* threads that call push and push_for
  Consumers,  \* threads that call pop and pop_for
  Closers,    \* threads that call close
  Items,      \* the values a queue element can have
  NoItem,     \* "no element": a moved-from argument, an out parameter not set
  Capacity,   \* capacity_
  TimeoutTakesSignal
    \* May timed_wait report a timeout although a notify_one had already
    \* picked its caller?  POSIX lets a condition variable do so ("may
    \* consume a condition signal directed concurrently"); one that decides
    \* atomically between the two does not.

Threads == Producers \cup Consumers \cup Closers

\* A program has finitely many threads, in the roles above; the capacity is
\* any std::size_t, 0 included, for the constructor does not reject it.
ASSUME ThreadsAssumption  == IsFiniteSet(Threads)
ASSUME ItemsAssumption    == NoItem \notin Items
ASSUME CapacityAssumption == Capacity \in Nat
ASSUME SignalAssumption   == TimeoutTakesSignal \in BOOLEAN

PushOps  == {"push", "push_for"}
PopOps   == {"pop", "pop_for"}
TimedOps == {"push_for", "pop_for"}
Ops      == PushOps \cup PopOps \cup {"close"}

VARIABLES
  q,        \* q_, oldest element first
  closed,   \* closed_
  pc,       \* pc[t]: where thread t is, see PCs
  op,       \* op[t]: the member function t is in
  val,      \* val[t]: item of a push, *out of a pop
  ret,      \* ret[t]: the value returned, "none" before it is known
  expired   \* expired[t]: has the deadline of t's timed call passed?

vars == <<q, closed, pc, op, val, ret, expired>>

PCs == {"idle",             \* outside the queue
        "enter",            \* called, m_ not yet taken
        "waiting",          \* blocked on a condition variable
        "woken",            \* woken up, m_ not yet taken again
        "notify",           \* effect done and m_ unlocked, notify_one to come
        "notify_not_empty", \* close: cv_not_empty_.notify_all to come
        "notify_not_full",  \* close: cv_not_full_.notify_all to come
        "done"}             \* about to return ret[t]

Init ==
  /\ q = <<>>
  /\ closed  = FALSE
  /\ pc      = [t \in Threads |-> "idle"]
  /\ op      = [t \in Threads |-> "none"]
  /\ val     = [t \in Threads |-> NoItem]
  /\ ret     = [t \in Threads |-> "none"]
  /\ expired = [t \in Threads |-> FALSE]

-----------------------------------------------------------------------------
(* The threads blocked on each condition variable.                         *)

NotFullWaiters  == {t \in Threads : pc[t] = "waiting" /\ op[t] \in PushOps}
NotEmptyWaiters == {t \in Threads : pc[t] = "waiting" /\ op[t] \in PopOps}

Wake(S) == [t \in Threads |-> IF t \in S THEN "woken" ELSE pc[t]]

(* Calls and returns.  A returned call leaves nothing behind but the queue. *)

Call(t, o, v) ==
  /\ pc[t] = "idle"
  /\ pc'  = [pc EXCEPT ![t] = "enter"]
  /\ op'  = [op EXCEPT ![t] = o]
  /\ val' = [val EXCEPT ![t] = v]
  /\ UNCHANGED <<q, closed, ret, expired>>

CallSome(t) ==
  \/ t \in Producers /\ \E o \in PushOps, v \in Items : Call(t, o, v)
  \/ t \in Consumers /\ \E o \in PopOps : Call(t, o, NoItem)
  \/ t \in Closers   /\ Call(t, "close", NoItem)

\* Variant: the deadline of a call outlives it.
Return_KeepsDeadline(t) ==
  /\ pc[t] = "done"
  /\ pc'  = [pc EXCEPT ![t] = "idle"]
  /\ op'  = [op EXCEPT ![t] = "none"]
  /\ val' = [val EXCEPT ![t] = NoItem]
  /\ ret' = [ret EXCEPT ![t] = "none"]
  /\ UNCHANGED <<q, closed, expired>>

Return(t) ==
  /\ pc[t] = "done"
  /\ pc'      = [pc EXCEPT ![t] = "idle"]
  /\ op'      = [op EXCEPT ![t] = "none"]
  /\ val'     = [val EXCEPT ![t] = NoItem]
  /\ ret'     = [ret EXCEPT ![t] = "none"]
  /\ expired' = [expired EXCEPT ![t] = FALSE]
  /\ UNCHANGED <<q, closed>>

-----------------------------------------------------------------------------
(* The critical sections: t has m_, on entry or after a wake-up, and tests  *)
(* the loop condition of its call.                                          *)

InSection(t) == pc[t] \in {"enter", "woken"}

\* Variant: one element too many is let in.
MustWait_OffByOne(t) ==
  /\ ~closed
  /\ op[t] \in PushOps => Len(q) > Capacity
  /\ op[t] \in PopOps  => q = <<>>

MustWait(t) ==
  /\ ~closed
  /\ op[t] \in PushOps => Len(q) >= Capacity
  /\ op[t] \in PopOps  => q = <<>>

Finish(t, where, r) ==
  /\ pc'  = [pc EXCEPT ![t] = where]
  /\ ret' = [ret EXCEPT ![t] = r]

\* Variant: each wait gets the full timeout anew.
Wait_RestartsDeadline(t) ==
  /\ InSection(t)
  /\ op[t] \in PushOps \cup PopOps
  /\ MustWait(t)
  /\ pc'      = [pc EXCEPT ![t] = "waiting"]
  /\ expired' = [expired EXCEPT ![t] = FALSE]
  /\ UNCHANGED <<q, closed, op, val, ret>>

Wait(t) ==
  /\ InSection(t)
  /\ op[t] \in PushOps \cup PopOps
  /\ MustWait(t)
  /\ pc' = [pc EXCEPT ![t] = "waiting"]
  /\ UNCHANGED <<q, closed, op, val, ret, expired>>

\* Variant: closed_ is tested before the wait and not after it.
PushAccept_ClosedUnseen(t) ==
  /\ InSection(t) /\ op[t] \in PushOps
  /\ ~MustWait(t) /\ (pc[t] = "enter" => ~closed) /\ Len(q) < Capacity
  /\ q'   = Append(q, val[t])
  /\ val' = [val EXCEPT ![t] = NoItem]
  /\ Finish(t, "notify", "true")
  /\ UNCHANGED <<closed, op, expired>>

\* q_.push_back(std::move(item)); lk.unlock()
PushAccept(t) ==
  /\ InSection(t) /\ op[t] \in PushOps
  /\ ~MustWait(t) /\ ~closed
  /\ q'   = Append(q, val[t])
  /\ val' = [val EXCEPT ![t] = NoItem]
  /\ Finish(t, "notify", "true")
  /\ UNCHANGED <<closed, op, expired>>

PushRefuse(t) ==
  /\ InSection(t) /\ op[t] \in PushOps
  /\ closed
  /\ Finish(t, "done", "false")
  /\ UNCHANGED <<q, closed, op, val, expired>>

\* Variant: the newest element is taken instead of the oldest.
PopTake_Newest(t) ==
  /\ InSection(t) /\ op[t] \in PopOps
  /\ q # <<>>
  /\ q'   = SubSeq(q, 1, Len(q) - 1)
  /\ val' = [val EXCEPT ![t] = q[Len(q)]]
  /\ Finish(t, "notify", "true")
  /\ UNCHANGED <<closed, op, expired>>

\* out = std::move(q_.front()); q_.pop_front(); lk.unlock().  The flag is not
\* looked at again: a closed queue is drained first.
PopTake(t) ==
  /\ InSection(t) /\ op[t] \in PopOps
  /\ q # <<>>
  /\ q'   = Tail(q)
  /\ val' = [val EXCEPT ![t] = Head(q)]
  /\ Finish(t, "notify", "true")
  /\ UNCHANGED <<closed, op, expired>>

PopRefuse(t) ==
  /\ InSection(t) /\ op[t] \in PopOps
  /\ ~MustWait(t) /\ q = <<>>
  /\ Finish(t, "done", "false")
  /\ UNCHANGED <<q, closed, op, val, expired>>

\* Variant: close wakes the producers only.
CloseSection_OneCv(t) ==
  /\ InSection(t) /\ op[t] = "close"
  /\ closed' = TRUE
  /\ Finish(t, "notify_not_full", "true")
  /\ UNCHANGED <<q, op, val, expired>>

CloseSection(t) ==
  /\ InSection(t) /\ op[t] = "close"
  /\ closed' = TRUE
  /\ Finish(t, "notify_not_empty", "true")
  /\ UNCHANGED <<q, op, val, expired>>

-----------------------------------------------------------------------------
(* Notifications, outside m_.                                               *)

\* notify_one of a condition variable with the waiters W: wakes one of them,
\* any one, and is forgotten when there is none.
NotifyOne(t, W) ==
  \/ W = {} /\ pc' = [pc EXCEPT ![t] = "done"]
  \/ \E w \in W : pc' = [Wake({w}) EXCEPT ![t] = "done"]

\* Variant: a push notifies only when its element is the only one.
Notify_FirstOnly(t) ==
  /\ pc[t] = "notify"
  /\ NotifyOne(t, IF op[t] \in PopOps THEN NotFullWaiters
                  ELSE IF Len(q) = 1 THEN NotEmptyWaiters ELSE {})
  /\ UNCHANGED <<q, closed, op, val, ret, expired>>

\* Variant: one condition variable for both sides.
Notify_SharedCv(t) ==
  /\ pc[t] = "notify"
  /\ NotifyOne(t, NotEmptyWaiters \cup NotFullWaiters)
  /\ UNCHANGED <<q, closed, op, val, ret, expired>>

Notify(t) ==
  /\ pc[t] = "notify"
  /\ NotifyOne(t, IF op[t] \in PushOps THEN NotEmptyWaiters
                                       ELSE NotFullWaiters)
  /\ UNCHANGED <<q, closed, op, val, ret, expired>>

NotifyAllNotEmpty(t) ==
  /\ pc[t] = "notify_not_empty"
  /\ pc' = [Wake(NotEmptyWaiters) EXCEPT ![t] = "notify_not_full"]
  /\ UNCHANGED <<q, closed, op, val, ret, expired>>

\* Variant: notify_one for the producers.
NotifyAllNotFull_One(t) ==
  /\ pc[t] = "notify_not_full"
  /\ NotifyOne(t, NotFullWaiters)
  /\ UNCHANGED <<q, closed, op, val, ret, expired>>

NotifyAllNotFull(t) ==
  /\ pc[t] = "notify_not_full"
  /\ pc' = [Wake(NotFullWaiters) EXCEPT ![t] = "done"]
  /\ UNCHANGED <<q, closed, op, val, ret, expired>>

-----------------------------------------------------------------------------
(* Time and the condition variables themselves.                             *)

\* The clock passes the deadline, which is fixed once per call.
DeadlinePasses(t) ==
  /\ pc[t] \in {"waiting", "woken"} /\ op[t] \in TimedOps
  /\ ~expired[t]
  /\ expired' = [expired EXCEPT ![t] = TRUE]
  /\ UNCHANGED <<q, closed, pc, op, val, ret>>

\* timed_wait returns false and the call gives up without another look at
\* the queue.
TimeOut(t) ==
  /\ pc[t] = "waiting" \/ (TimeoutTakesSignal /\ pc[t] = "woken")
  /\ op[t] \in TimedOps /\ expired[t]
  /\ Finish(t, "done", "false")
  /\ UNCHANGED <<q, closed, op, val, expired>>

SpuriousWake(t) ==
  /\ pc[t] = "waiting" /\ ~expired[t]
  /\ pc' = Wake({t})
  /\ UNCHANGED <<q, closed, op, val, ret, expired>>

-----------------------------------------------------------------------------

Section(t) ==
  Wait(t) \/ PushAccept(t) \/ PushRefuse(t) \/ PopTake(t) \/ PopRefuse(t)
    \/ CloseSection(t)

\* The steps a call takes by itself once it is running, up to its return.
Run(t) ==
  Section(t) \/ Notify(t) \/ NotifyAllNotEmpty(t) \/ NotifyAllNotFull(t)
    \/ TimeOut(t)

Step(t) == Run(t) \/ Return(t)

Next ==
  \E t \in Threads : CallSome(t) \/ Step(t) \/ DeadlinePasses(t) \/ SpuriousWake(t)

Spec == Init /\ [][Next]_vars

(***************************************************************************)
(* Every running thread is scheduled, the mutex is handed on, and the      *)
(* clock goes on.  A timed_wait that is over its deadline again and again  *)
(* reports the timeout at some point, whatever wake-ups it is sent.        *)
(* Nothing is assumed of calls or of spurious wake-ups.                    *)
(***************************************************************************)
Fairness ==
  \A t \in Threads : /\ WF_vars(Step(t))
                     /\ WF_vars(DeadlinePasses(t))
                     /\ SF_vars(TimeOut(t))

FairSpec == Spec /\ Fairness
-----------------------------------------------------------------------------
(* Safety.                                                                  *)

\* Every variable has its type.  The conjuncts on op say what the members of
\* the code can be doing at each place: only push and pop block or call
\* notify_one, only close calls notify_all, only timed calls have deadlines.
TypeOK ==
  /\ q \in Seq(Items)
  /\ closed \in BOOLEAN
  /\ pc \in [Threads -> PCs]
  /\ op \in [Threads -> Ops \cup {"none"}]
  /\ val \in [Threads -> Items \cup {NoItem}]
  /\ ret \in [Threads -> {"none", "true", "false"}]
  /\ expired \in [Threads -> BOOLEAN]
  /\ \A t \in Threads :
       /\ pc[t] = "idle" <=> op[t] = "none"
       /\ pc[t] \in {"waiting", "woken", "notify"} => op[t] \in PushOps \cup PopOps
       /\ pc[t] \in {"notify_not_empty", "notify_not_full"} => op[t] = "close"
       /\ pc[t] \in {"idle", "enter", "waiting", "woken"} <=> ret[t] = "none"
       /\ ret[t] = "none" /\ op[t] \in PushOps => val[t] \in Items
       /\ expired[t] => op[t] \in TimedOps

\* push and push_for never make the queue longer than capacity_, however many
\* producers were woken for one free slot.
CapacityBound == Len(q) <= Capacity

\* The wake-ups for consumers that are under way: notify_one calls still to be
\* made by producers, and consumers on their way back to m_.
NotEmptyWakeups ==
  {t \in Threads : \/ pc[t] = "notify" /\ op[t] \in PushOps
                   \/ pc[t] = "woken"  /\ op[t] \in PopOps}

NotFullWakeups ==
  {t \in Threads : \/ pc[t] = "notify" /\ op[t] \in PopOps
                   \/ pc[t] = "woken"  /\ op[t] \in PushOps}

\* No lost wake-up on cv_not_empty_: while a consumer is blocked in pop or
\* pop_for, there is a wake-up under way for every element of the open queue,
\* although push sends its notify_one after it has given up the mutex.
NotEmptySignalled ==
  closed \/ NotEmptyWaiters = {} \/ Len(q) <= Cardinality(NotEmptyWakeups)

\* No lost wake-up on cv_not_full_: while a producer is blocked in push or
\* push_for, there is a wake-up under way for every free slot.
NotFullSignalled ==
  closed \/ NotFullWaiters = {}
         \/ Capacity - Len(q) <= Cardinality(NotFullWakeups)

\* Producers and consumers are never all asleep on the two condition
\* variables of a queue that has any capacity: someone is on the way.
NoGridlock ==
  Capacity > 0 /\ ~closed /\ NotEmptyWaiters # {} /\ NotFullWaiters # {}
    => NotEmptyWakeups \cup NotFullWakeups # {}

\* close() leaves nobody behind: a thread that is still blocked on a closed
\* queue has a notify_all of its condition variable coming.
CloseCoverage ==
  closed =>
    /\ NotEmptyWaiters # {} => \E t \in Threads : pc[t] = "notify_not_empty"
    /\ NotFullWaiters # {} =>
         \E t \in Threads : pc[t] \in {"notify_not_empty", "notify_not_full"}

-----------------------------------------------------------------------------
(* Liveness, under FairSpec.                                                *)

\* Whoever is inside the queue when it is closed, or enters it later, gets
\* out: "close() lets waiting threads end safely without an exception".
CloseReleasesAll ==
  \A t \in Threads : closed /\ pc[t] # "idle" ~> pc[t] = "idle"

\* push_for and pop_for return, whatever the other threads do: wake-ups for
\* elements that somebody else takes do not restart the timeout.
TimedCallsReturn ==
  \A t \in Threads : op[t] \in TimedOps ~> pc[t] = "idle"

\* "pop blocks until there is an element": when from some point on there
\* always is one and some consumer is always inside, elements are taken.
PopProgress ==
  <>[](q # <<>> /\ \E t \in Threads : op[t] \in PopOps /\ ret[t] = "none")
    => []<><<\E t \in Threads : PopTake(t)>>_vars

\* "push blocks until there is room": likewise for free slots and producers.
PushProgress ==
  <>[](/\ Len(q) < Capacity /\ ~closed
       /\ \E t \in Threads : op[t] \in PushOps /\ ret[t] = "none")
    => []<><<\E t \in Threads : PushAccept(t)>>_vars

-----------------------------------------------------------------------------
(* Refinement.                                                              *)

phase == [t \in Threads |->
            CASE pc[t] = "idle" -> "idle"
              [] pc[t] \in {"enter", "waiting", "woken"} -> "pending"
              [] OTHER -> "done"]

Abstract == INSTANCE AtomicQueue

\* Every call of push, pop, push_for, pop_for and close takes effect at one
\* instant between call and return, as if on an ordinary FIFO queue.
Linearizable == Abstract!Spec
=============================================================================
