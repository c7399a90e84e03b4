--------------------------- MODULE QueuePipeline ---------------------------
(***************************************************************************)
(* A bounded_blocking_queue at work: the program of the test               *)
(* producer_consumer_multithreaded                                         *)
(* (tests/src/test_bounded_blocking_queue.cpp), with any number of         *)
(* consumers where the test has one.                                       *)
(*                                                                         *)
(*     producer:  for (i = 0; i < N; ++i) q.push(i);   q.close();          *)
(*     consumer:  while (q.pop(v)) received.push_back(v);                  *)
(*                                                                         *)
(* The threads' own code is added to the steps of the queue: what a thread *)
(* does between two calls goes into the Call or the Return next to it.     *)
(***************************************************************************)
EXTENDS Naturals, Sequences, FiniteSets

CONSTANTS
  Producer,   \* the producer thread
  Consumers,  \* the consumer threads
  N,          \* the number of elements sent
  Capacity    \* the queue's capacity

ASSUME PipelineAssumption ==
  /\ Producer \notin Consumers /\ IsFiniteSet(Consumers)
  /\ N \in Nat /\ Capacity \in Nat \ {0}

Threads == {Producer} \cup Consumers
Nothing == N                             \* no element: the elements are 0 .. N-1

VARIABLES
  q, closed, pc, op, val, ret, expired,  \* the queue and the calls on it
  i,         \* the producer's loop variable
  received,  \* received[c]: what consumer c has appended to its vector
  ended      \* the threads whose function has returned

queueVars == <<q, closed, pc, op, val, ret, expired>>
vars      == <<q, closed, pc, op, val, ret, expired, i, received, ended>>

Q == INSTANCE BoundedBlockingQueue WITH
       Producers <- {Producer}, Closers <- {Producer},
       Items <- 0 .. N-1, NoItem <- Nothing, TimeoutTakesSignal <- FALSE

Init ==
  /\ Q!Init
  /\ i = 0
  /\ received = [c \in Consumers |-> <<>>]
  /\ ended = {}

-----------------------------------------------------------------------------

Push ==
  /\ i < N
  /\ Q!Call(Producer, "push", i)
  /\ UNCHANGED <<i, received, ended>>

\* The result of push is not looked at.
Pushed ==
  /\ op[Producer] = "push"
  /\ Q!Return(Producer)
  /\ i' = i + 1
  /\ UNCHANGED <<received, ended>>

\* Variant: the producer closes the queue before its last element.
Close_Early ==
  /\ i >= N - 1 /\ ~closed
  /\ Q!Call(Producer, "close", Nothing)
  /\ UNCHANGED <<i, received, ended>>

Close ==
  /\ i = N /\ Producer \notin ended
  /\ Q!Call(Producer, "close", Nothing)
  /\ UNCHANGED <<i, received, ended>>

Closed ==
  /\ op[Producer] = "close"
  /\ Q!Return(Producer)
  /\ ended' = ended \cup {Producer}
  /\ UNCHANGED <<i, received>>

Pop(c) ==
  /\ c \notin ended
  /\ Q!Call(c, "pop", Nothing)
  /\ UNCHANGED <<i, received, ended>>

\* Variant: the result of pop is not looked at.
Popped_Unchecked(c) ==
  /\ c \in Consumers /\ op[c] = "pop"
  /\ Q!Return(c)
  /\ received' = [received EXCEPT ![c] = Append(@, val[c])]
  /\ UNCHANGED <<i, ended>>

Popped(c) ==
  /\ ret[c] = "true"
  /\ Q!Return(c)
  /\ received' = [received EXCEPT ![c] = Append(@, val[c])]
  /\ UNCHANGED <<i, ended>>

Ended(c) ==
  /\ ret[c] = "false"
  /\ Q!Return(c)
  /\ ended' = ended \cup {c}
  /\ UNCHANGED <<i, received>>

Inside(t) == Q!Run(t) /\ UNCHANGED <<i, received, ended>>

Produce    == Push \/ Pushed \/ Close \/ Closed \/ Inside(Producer)
Consume(c) == Pop(c) \/ Popped(c) \/ Ended(c) \/ Inside(c)

SpuriousWake(t) == Q!SpuriousWake(t) /\ UNCHANGED <<i, received, ended>>

\* All threads have been joined.
Joined == ended = Threads /\ UNCHANGED vars

Next ==
  \/ Produce
  \/ \E c \in Consumers : Consume(c)
  \/ \E t \in Threads : SpuriousWake(t)
  \/ Joined

Spec == Init /\ [][Next]_vars

\* Every thread is scheduled; wake-ups without a cause need not happen.
FairSpec ==
  Spec /\ WF_vars(Produce) /\ \A c \in Consumers : WF_vars(Consume(c))

-----------------------------------------------------------------------------

\* The elements pop has taken out for c and c has not yet appended.
InHand(c) == IF ret[c] = "true" THEN <<val[c]>> ELSE <<>>

Got(c) == received[c] \o InHand(c)

\* The number of elements push has put into the queue.
Accepted == i + (IF op[Producer] = "push" /\ ret[Producer] = "true" THEN 1 ELSE 0)

TypeOK ==
  /\ Q!TypeOK
  /\ i \in 0 .. N
  /\ received \in [Consumers -> Seq(0 .. N-1)]
  /\ ended \in SUBSET Threads

\* The places where an element is: a position in the queue, or a consumer and a
\* position in what it got.
InQueue(e) == {k \in DOMAIN q : q[k] = e}
Taken(e) ==
  {p \in Consumers \X (1 .. N) : p[2] \in DOMAIN Got(p[1]) /\ Got(p[1])[p[2]] = e}

\* Every element the producer has pushed is in exactly one place: in the
\* queue or with one consumer.  Each consumer gets its elements in the order
\* they were sent, and what is still queued is newer than anything taken out.
ExactlyOnceInOrder ==
  /\ \A e \in 0 .. Accepted - 1 : Cardinality(InQueue(e)) + Cardinality(Taken(e)) = 1
  /\ \A k \in DOMAIN q : q[k] = Accepted - Len(q) + k - 1
  /\ \A c \in Consumers : \A k, l \in DOMAIN Got(c) :
       k < l => Got(c)[k] < Got(c)[l]

\* A consumer's loop ends only when everything that was sent has been taken
\* out: close() is no way to lose elements.
DrainedAtEnd ==
  ended \cap Consumers # {} =>
    closed /\ \A e \in 0 .. N-1 : \E c \in Consumers, k \in 1 .. N :
                 k \in DOMAIN Got(c) /\ Got(c)[k] = e

\* join() returns for every thread: close() ends all the consumers' loops.
AllJoin == <>(ended = Threads)
=============================================================================
