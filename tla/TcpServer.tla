----------------------------- MODULE TcpServer -----------------------------
(***************************************************************************)
(* comm::async_tcp_server: accept loops that run as coroutines on an       *)
(* io_context with one thread, their cancellation, and the registry of     *)
(* sessions they fill.                                                     *)
(*                                                                         *)
(* Each loop is one co_spawn of start_accepting with detached and the slot *)
(* of the server, as the comment of start_accepting asks.  A coroutine     *)
(* runs from one co_await to the next without a break: that is an action,  *)
(* and so is the completion of what it waits for.                          *)
(***************************************************************************)
EXTENDS Naturals, Sequences

CONSTANTS
  Loops,      \* the coroutines that are spawned, each at most once
  NoLoop,     \* the slot is empty
  Ids,        \* what session::id() may return
  MaxReady    \* how many handlers are queued when another cancel() comes

ASSUME LoopsAssumption == NoLoop \notin Loops
ASSUME IdsAssumption == Ids # {}
ASSUME ReadyAssumption == MaxReady \in Nat

(* What a handler in the queue of the io_context does: it starts a          *)
(* coroutine, resumes it with a result, or passes a cancellation on.        *)
Events == {"start", "resolved", "unresolved", "connection", "error", "aborted", "cancel"}

VARIABLES
  ready,       \* the queue of the io_context
  slot,        \* the loop whose handler is in the slot of cancel_signal_
  hasService,  \* hasService[l]: the parameter service is not empty
  at,          \* at[l]: what the coroutine waits for, or how it ended
  cancelled,   \* cancelled[l]: its cancellation state has seen an emission
  asked,       \* asked[l]: cancel() was called while l was in the slot
  sessions,    \* the keys of session_manager::sessions_
  crashed      \* the process is gone

vars == <<ready, slot, hasService, at, cancelled, asked, sessions, crashed>>

Init ==
  /\ ready = <<>> /\ slot = NoLoop
  /\ hasService \in [Loops -> BOOLEAN]
  /\ at = [l \in Loops |-> "unspawned"]
  /\ cancelled = [l \in Loops |-> FALSE] /\ asked = [l \in Loops |-> FALSE]
  /\ sessions = {} /\ crashed = FALSE

Handler(l, event) == [loop |-> l, event |-> event]

Goto(l, place) == at' = [at EXCEPT ![l] = place]

-----------------------------------------------------------------------------
(* The owner of the server.                                                 *)

\* co_spawn(io_context, start_accepting(service), bind_cancellation_slot(slot(),
\* detached)).  The handler of this loop takes the place of an earlier one.
Spawn(l) ==
  /\ at[l] = "unspawned"
  /\ Goto(l, "ready")
  /\ slot' = l
  /\ ready' = Append(ready, Handler(l, "start"))
  /\ UNCHANGED <<hasService, cancelled, asked, sessions, crashed>>

\* An emission reaches the coroutine: its state records it, and an accept that
\* is outstanding is aborted.  An async_resolve goes on, and an accept that has
\* completed keeps its result.
Emit(l, queue) ==
  /\ cancelled' = [cancelled EXCEPT ![l] = TRUE]
  /\ IF at[l] = "accept"
     THEN Goto(l, "ready") /\ ready' = Append(queue, Handler(l, "aborted"))
     ELSE UNCHANGED at /\ ready' = queue

\* Variant: the type of the emission is one that co_spawn does not enable.
Cancel_Partial ==
  /\ slot # NoLoop /\ Len(ready) < MaxReady
  /\ asked' = [asked EXCEPT ![slot] = TRUE]
  /\ UNCHANGED <<ready, at, cancelled, slot, hasService, sessions, crashed>>

\* Variant: cancel() resumes the coroutine itself, whatever it waits for.
Cancel_Resumes ==
  /\ slot # NoLoop /\ Len(ready) < MaxReady
  /\ asked' = [asked EXCEPT ![slot] = TRUE]
  /\ Goto(slot, "ready")
  /\ ready' = Append(ready, Handler(slot, "aborted"))
  /\ UNCHANGED <<cancelled, slot, hasService, sessions, crashed>>

\* cancel(): the emission is dispatched to the io_context, which queues it, or
\* runs it at once if its own thread has called.
Cancel ==
  /\ slot # NoLoop /\ Len(ready) < MaxReady
  /\ asked' = [asked EXCEPT ![slot] = TRUE]
  /\ \/ ready' = Append(ready, Handler(slot, "cancel")) /\ UNCHANGED <<at, cancelled>>
     \/ Emit(slot, ready)
  /\ UNCHANGED <<slot, hasService, sessions, crashed>>

-----------------------------------------------------------------------------
(* The operating system.                                                    *)

\* What loop l waits for at this place has completed.
Completes(l, place, event) ==
  /\ at[l] = place
  /\ Goto(l, "ready")
  /\ ready' = Append(ready, Handler(l, event))
  /\ UNCHANGED <<slot, hasService, cancelled, asked, sessions, crashed>>

ResolveCompletes(l) ==
  Completes(l, "resolve", "resolved") \/ Completes(l, "resolve", "unresolved")

\* A peer connects, or the accept fails (no file descriptor left, say).
AcceptCompletes(l) ==
  Completes(l, "accept", "connection") \/ Completes(l, "accept", "error")

-----------------------------------------------------------------------------
(* The thread of the io_context.                                            *)

\* The next handler is this one; it is taken from the queue.
Runs(l, event) == ready # <<>> /\ Head(ready) = Handler(l, event)

\* co_await of an operation: once a cancellation has been recorded it throws
\* operation_aborted instead, and detached drops what leaves the coroutine.
Await(l, place) == Goto(l, IF cancelled[l] THEN "over" ELSE place)

Deliver(l) ==
  /\ Runs(l, "cancel")
  /\ Emit(l, Tail(ready))
  /\ UNCHANGED <<slot, hasService, asked, sessions, crashed>>

Start(l) ==
  /\ Runs(l, "start")
  /\ IF hasService[l] THEN Await(l, "resolve") ELSE Goto(l, "over")
  /\ ready' = Tail(ready)
  /\ UNCHANGED <<slot, hasService, cancelled, asked, sessions, crashed>>

\* The constructor of the acceptor binds and listens, or throws.
Resolved(l) ==
  /\ \/ Runs(l, "resolved") /\ Await(l, "accept")
     \/ Runs(l, "resolved") /\ Goto(l, "failed")
     \/ Runs(l, "unresolved") /\ Goto(l, "failed")
  /\ ready' = Tail(ready)
  /\ UNCHANGED <<slot, hasService, cancelled, asked, sessions, crashed>>

\* add_session moves new_session into the map if the key is new, and uses it
\* again in either case: a pointer that has been moved from is null.
AddSession(id) ==
  /\ sessions' = sessions \cup {id}
  /\ crashed' = (id \notin sessions)

\* Variant: any error ends the loop.
Accepted_BreakOnError(l) ==
  /\ \/ /\ Runs(l, "aborted") \/ Runs(l, "error")
        /\ Goto(l, "over") /\ UNCHANGED <<sessions, crashed>>
     \/ /\ Runs(l, "connection")
        /\ \E id \in Ids : AddSession(id)
        /\ Await(l, "accept")
  /\ ready' = Tail(ready)
  /\ UNCHANGED <<slot, hasService, cancelled, asked>>

\* Variant: the next accept is begun from a callback, which no recorded
\* cancellation stops.
Accepted_Callback(l) ==
  /\ \/ Runs(l, "aborted") /\ Goto(l, "over") /\ UNCHANGED <<sessions, crashed>>
     \/ Runs(l, "error") /\ Goto(l, "accept") /\ UNCHANGED <<sessions, crashed>>
     \/ /\ Runs(l, "connection")
        /\ \E id \in Ids : AddSession(id)
        /\ Goto(l, "accept")
  /\ ready' = Tail(ready)
  /\ UNCHANGED <<slot, hasService, cancelled, asked>>

\* One turn of the loop: operation_aborted ends it, any other error is ignored,
\* and a connection becomes a session.
Accepted(l) ==
  /\ \/ Runs(l, "aborted") /\ Goto(l, "over") /\ UNCHANGED <<sessions, crashed>>
     \/ Runs(l, "error") /\ Await(l, "accept") /\ UNCHANGED <<sessions, crashed>>
     \/ /\ Runs(l, "connection")
        /\ \E id \in Ids : AddSession(id)
        /\ Await(l, "accept")
  /\ ready' = Tail(ready)
  /\ UNCHANGED <<slot, hasService, cancelled, asked>>

IoContext == \E l \in Loops : Deliver(l) \/ Start(l) \/ Resolved(l) \/ Accepted(l)

Crashed == crashed /\ UNCHANGED vars

Next ==
  \/ ~crashed /\ Cancel
  \/ ~crashed /\ \E l \in Loops : Spawn(l) \/ ResolveCompletes(l) \/ AcceptCompletes(l)
  \/ ~crashed /\ IoContext
  \/ Crashed

Spec == Init /\ [][Next]_vars

(* Somebody runs the io_context, and name resolution ends.  Nobody has to   *)
(* connect, to spawn or to cancel.                                          *)
Fairness ==
  /\ WF_vars(~crashed /\ IoContext)
  /\ \A l \in Loops : WF_vars(~crashed /\ ResolveCompletes(l))

FairSpec == Spec /\ Fairness

-----------------------------------------------------------------------------

Ended(l) == at[l] \in {"over", "failed"}

\* A coroutine is in the queue exactly when it is ready to run, and once: it is
\* never resumed twice for one accept, however a completion and an abort race.
TypeOK ==
  /\ ready \in Seq([loop : Loops, event : Events])
  /\ slot \in Loops \cup {NoLoop}
  /\ hasService \in [Loops -> BOOLEAN]
  /\ at \in [Loops -> {"unspawned", "ready", "resolve", "accept", "over", "failed"}]
  /\ cancelled \in [Loops -> BOOLEAN] /\ asked \in [Loops -> BOOLEAN]
  /\ sessions \subseteq Ids /\ crashed \in BOOLEAN
  /\ \A i \in DOMAIN ready : ready[i].event # "cancel" => at[ready[i].loop] = "ready"
  /\ \A l \in Loops : at[l] = "ready" =>
       \E i \in DOMAIN ready : ready[i].loop = l /\ ready[i].event # "cancel"
  /\ \A i, j \in DOMAIN ready :
       ready[i].loop = ready[j].loop /\ ready[i].event # "cancel"
         /\ ready[j].event # "cancel" => i = j

\* A cancellation is never overtaken by another accept: once it has reached the
\* coroutine, at whatever await that was, no accept is outstanding any more.
NoAcceptAfterCancel == \A l \in Loops : cancelled[l] => at[l] # "accept"

\* A loop with a service gives up only because cancel() was called for this very
\* loop: no accept error ends it, nor a cancel() that was meant for another one.
EndsForAReason == \A l \in Loops : at[l] = "over" => ~hasService[l] \/ asked[l]

\* cancel() ends the loop that was spawned last, also while it is being
\* resolved, and also if accept fails over and over; unless a connection that
\* was accepted before has crashed the process.
CancelStops == \A l \in Loops : asked[l] ~> (Ended(l) \/ crashed)

\* "Creates, keeps and disposes of the connected sessions"
\* (session_manager.hpp:21): the process survives an accepted connection.
SurvivesConnection == ~crashed
=============================================================================
