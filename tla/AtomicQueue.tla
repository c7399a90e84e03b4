---------------------------- MODULE AtomicQueue ----------------------------
(***************************************************************************)
(* What comm::utilities::bounded_blocking_queue<T> promises its callers:   *)
(* a bounded FIFO queue whose operations take effect at one instant        *)
(* between the call and its return.  There are no condition variables, no  *)
(* wake-ups and no notifications here; an operation that cannot take       *)
(* effect yet simply stays pending.  BoundedBlockingQueue implements it.   *)
(***************************************************************************)
EXTENDS Naturals, Sequences

CONSTANTS
  Producers,  \* threads that call push and push_for
  Consumers,  \* threads that call pop and pop_for
  Closers,    \* threads that call close
  Items,      \* the values a queue element can have
  NoItem,     \* "no element": a moved-from argument, an out parameter not set
  Capacity    \* capacity_, the constructor argument

Threads == Producers \cup Consumers \cup Closers

PushOps  == {"push", "push_for"}
PopOps   == {"pop", "pop_for"}
TimedOps == {"push_for", "pop_for"}
Ops      == PushOps \cup PopOps \cup {"close"}

VARIABLES
  q,       \* the elements, oldest first
  closed,  \* has close() taken effect?
  phase,   \* phase[t]: "idle", "pending" (called, no effect yet) or "done"
  op,      \* op[t]: the member function t is in
  val,     \* val[t]: the item parameter of a push, the out parameter of a pop
  ret      \* ret[t]: the result of the call, "none" before it is known

vars == <<q, closed, phase, op, val, ret>>

Init ==
  /\ q = <<>>
  /\ closed = FALSE
  /\ phase = [t \in Threads |-> "idle"]
  /\ op    = [t \in Threads |-> "none"]
  /\ val   = [t \in Threads |-> NoItem]
  /\ ret   = [t \in Threads |-> "none"]

-----------------------------------------------------------------------------

Call(t, o, v) ==
  /\ phase[t] = "idle"
  /\ phase' = [phase EXCEPT ![t] = "pending"]
  /\ op'    = [op EXCEPT ![t] = o]
  /\ val'   = [val EXCEPT ![t] = v]
  /\ UNCHANGED <<q, closed, ret>>

Finish(t, r) ==
  /\ phase[t] = "pending"
  /\ phase' = [phase EXCEPT ![t] = "done"]
  /\ ret'   = [ret EXCEPT ![t] = r]
  /\ op'    = op

\* A push succeeds: there was room and the queue was open.
Push(t) ==
  /\ Finish(t, "true")
  /\ op[t] \in PushOps
  /\ ~closed /\ Len(q) < Capacity
  /\ q'   = Append(q, val[t])
  /\ val' = [val EXCEPT ![t] = NoItem]
  /\ UNCHANGED closed

\* A pop succeeds: it takes the oldest element, also from a closed queue.
Pop(t) ==
  /\ Finish(t, "true")
  /\ op[t] \in PopOps
  /\ q # <<>>
  /\ q'   = Tail(q)
  /\ val' = [val EXCEPT ![t] = Head(q)]
  /\ UNCHANGED closed

\* A call fails at once for good: push on a closed queue, pop on a closed
\* and drained one.
Refuse(t) ==
  /\ Finish(t, "false")
  /\ closed
  /\ op[t] \in PushOps \/ (op[t] \in PopOps /\ q = <<>>)
  /\ UNCHANGED <<q, closed, val>>

\* A timed call gives up.
TimeOut(t) ==
  /\ Finish(t, "false")
  /\ op[t] \in TimedOps
  /\ UNCHANGED <<q, closed, val>>

Close(t) ==
  /\ Finish(t, "true")
  /\ op[t] = "close"
  /\ closed' = TRUE
  /\ UNCHANGED <<q, val>>

Return(t) ==
  /\ phase[t] = "done"
  /\ phase' = [phase EXCEPT ![t] = "idle"]
  /\ op'    = [op EXCEPT ![t] = "none"]
  /\ val'   = [val EXCEPT ![t] = NoItem]
  /\ ret'   = [ret EXCEPT ![t] = "none"]
  /\ UNCHANGED <<q, closed>>

Next ==
  \/ \E t \in Producers, o \in PushOps, v \in Items : Call(t, o, v)
  \/ \E t \in Consumers, o \in PopOps : Call(t, o, NoItem)
  \/ \E t \in Closers : Call(t, "close", NoItem)
  \/ \E t \in Threads : \/ Push(t) \/ Pop(t) \/ Refuse(t) \/ TimeOut(t)
                        \/ Close(t) \/ Return(t)

Spec == Init /\ [][Next]_vars
=============================================================================
