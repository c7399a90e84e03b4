# TLA+ specifications of cmake_sample

Specifications, model-checking runs and machine-checked proofs kept beside the
C++ program. Paths below are relative to the repository.

## The system

The repository is a small application (`src/main.cpp`) on two libraries:
`libs/core` (settings, exceptions, the "student council" façade) and `libs/comm`
(a bounded blocking queue, a TCP server with a session registry, and messages).

| part | state | operations | interacts with |
|---|---|---|---|
| `comm::utilities::bounded_blocking_queue` (`libs/comm/include/comm/utilities/bounded_blocking_queue.hpp`) | deque, closed flag, mutex, two condition variables | `push`, `push_for`, `pop`, `pop_for`, `close`, `closed`, `size` | any number of caller threads, `boost::condition_variable`, the clock |
| `comm::async_tcp_server` (`libs/comm/src/async_tcp_server.cpp`) | acceptor, cancellation signal | `start_accepting` (a coroutine), `cancel`, `slot` | Asio, peers, `session_manager` |
| `comm::session`, `comm::session_manager` (`session.hpp`, `session_manager.hpp`) | socket, error signal; map from id to session | `id`, `on_error`, `emit_error`; `add_session`, `remove_session` | each other through the error signal |
| `comm::messages::message_header` (`message_header.cpp`) | type, length, version, 32-byte buffer | setters, `encode_header`, `decode_header` | callers |
| `comm::messages::message_factory`, `message_register` | map from type to creator | `register_message`, `create_message` | static initialisation |
| `core::settings` (`options.cpp`, `input_file.cpp`, `commons.cpp`, `communications.cpp`) | singleton: path and contents of the input file | `read_input_file`, conversions from and to JSON | file system, `main` |
| `main`, `parse_args`, `init_logging` (`src/main.cpp`) | control flow, exit code | start-up | `options`, `student_council`, file system |
| `core::student_council` and officers | none | `hello`, `run` (empty) | `main` |
| `core::communications` wrappers | references | `resolve_once` | Asio; nobody calls them |
| `core::exceptions` | error info | `what` | `main`, `boost::diagnostic_information` |

What is hard, and what makes each part correct:

- **Queue.** Threads interleave at every mutex hand-over; notifications are sent
  after the unlock; waits time out; wake-ups can be spurious; `close()` comes at
  any time. Correct means: it cannot be told from an atomic FIFO queue, never
  exceeds its capacity, loses no wake-up, never puts both sides to sleep,
  releases everybody on `close()`, and ends timed calls.
- **TCP server.** Accept errors, a cancellation that comes before the coroutine
  has started, while it resolves, or together with a connection; a second loop on
  the same cancellation signal. Correct means: errors and connections do not end
  the loop, `cancel()` does, and no accept is begun after it.
- **Session ids.** The registry's keys come from the peer at the moment of the
  call. Correct means: the id names that peer, and two peers never share one.
- **Messages.** What is encoded is what is decoded, also at the boundaries of
  the type field, in objects that are used again and after calls that failed.
  Registration depends on the order in which static variables are initialised.
- **Settings and start-up.** Failures half way; a file that changes between the
  check and the open; the exception that reaches `main` decides how the process
  ends. Correct means: no race changes the kinds of outcome there are, a read that
  fails changes no setting and is not gone on from, the console is given back, and
  complete settings survive being written and read.

`PROJECT.json` lists every hazard with its line and the properties that
would catch it going wrong, or says why none does.

## Modules

| module | what it is |
|---|---|
| `AtomicQueue` | abstract specification: what the queue promises its callers |
| `BoundedBlockingQueue` | the queue itself, with its properties and the refinement mapping |
| `MCQueue` | instances of the queue for TLC |
| `QueuePipeline` | composition: producer and consumer threads running on the queue |
| `BoundedBlockingQueue_proofs` | theorems about the queue and their proofs |
| `QueuePipeline_proofs` | theorems about the producer and the consumers, on top of those |
| `Settings` | the settings structures and their conversions from and to JSON, as operators |
| `Startup` | the start of the program: `init_logging`, `parse_args`, `read_input_file` and the handlers of `main`, in a file system that changes |
| `MCStartup` | documents for TLC, and what a comment says of the exit code |
| `Startup_proofs` | theorems about the settings and the start |
| `TcpServer` | the accept loop as a coroutine, its cancellation, `add_session` |
| `TcpServer_proofs` | theorems about resumption, cancellation and the end of a loop |
| `SessionId`, `MCSessionId` | `session::id()` step by step, and peers for TLC |
| `SessionId_proofs` | theorems about the names of peers |
| `MessageHeader`, `MCHeader` | the header, its buffer and its codec, and an instance for TLC |
| `MessageHeader_proofs` | theorems about the buffer and the round trip |
| `MessageFactory`, `MCFactory` | registration by static variables, creation by name, and an instance for TLC |
| `MessageFactory_proofs` | theorems about the registry |

### BoundedBlockingQueue

State: `q` is `q_`, `closed` is `closed_`; for each thread `t`, `pc[t]` is its
place in the code, `op[t]` the member function it is in, `val[t]` the `item` or
`*out` of the call, `ret[t]` its result and `expired[t]` whether its deadline has
passed. The mutex is not a variable: everything the code does from taking `m_`
to giving it up (by `unlock`, by a wait or by returning) is one action, because
`q_` and `closed_` are touched nowhere else. These actions are `Wait`,
`PushAccept`, `PushRefuse`, `PopTake`, `PopRefuse` and `CloseSection`. A thread
runs one on entry (`pc[t] = "enter"`) and again after each wake-up
(`"woken"`): that is the `while` loop around the wait. Outside the mutex, and so
actions of their own, are `Notify` (the `notify_one` after `lk.unlock()`),
`NotifyAllNotEmpty` and `NotifyAllNotFull` (the two calls at the end of
`close()`), `DeadlinePasses` and `TimeOut` for the timed calls, and
`SpuriousWake`. `Call` and `Return` are the caller's side; a returned thread has
no trace left in the state.

`closed()` and `size()` take the mutex and read; they change nothing and are not
actions. An exception (`bad_alloc`, or the interruption point in
`boost::condition_variable::wait`) and the destruction of a queue that is in use
are not modelled: nothing in the repository does either.

**The condition variables** are modelled from their contract. `notify_one` wakes
one blocked thread, any one, or nobody; `notify_all` wakes all; a blocked thread
may wake without a cause. What a timeout does to a signal that is under way is
where implementations differ, and the constant `TimeoutTakesSignal` says which
one is meant: `FALSE`, a thread that a `notify_one` has picked comes back from
`timed_wait` with `true`; `TRUE`, it may come back with `false`, as POSIX allows
("may consume a condition signal directed concurrently at the condition
variable") and as any `timed_wait` does that compares the clock with the deadline
after it has been woken.

**Fairness** (`FairSpec`): a thread inside the queue that can go on does go on
(`WF` of its steps: the scheduler runs it and the mutex is handed on); the clock
passes every deadline; a `timed_wait` that is beyond its deadline over and over
reports the timeout at some point (`SF` of `TimeOut`: without it a thread could
be sent a wake-up in the very moment between queueing and looking at the clock,
each time, forever). Calls and spurious wake-ups are never assumed to happen.

Operators whose comment begins with "Variant" are plausible mistakes in the
definition that follows (a dropped re-check, a notification to the wrong side).
No specification uses them; each shows that some property would notice.

### AtomicQueue and the refinement

In `AtomicQueue` each call is pending, then takes effect in one step, then
returns; a full or empty queue only means that the step is not enabled. The
mapping `phase` makes a thread pending while it is entering, waiting or woken and
done from its last critical section on. `Linearizable` says that every behaviour
of the code is one of `AtomicQueue`: each result is right at one instant between
call and return, FIFO order included. Fairness is not part of it; progress is
stated directly on the code.

### QueuePipeline

The program of the test `producer_consumer_multithreaded`
(`tests/src/test_bounded_blocking_queue.cpp:193`): a producer pushes `0 .. N-1`
and closes, consumers loop on `pop`. It is an instance of `BoundedBlockingQueue`
whose `Call` and `Return` steps carry the threads' own code. The test has one
consumer; the module takes a set.

### Settings and Startup

A JSON value is a record tagged with its kind; an object's fields are a function
from keys. Each `value_to` conversion is a pair: `XReads(j)`, it does not throw,
and `XFrom(j)`, its result. `XTo` is `value_from`: empty strings of `commons` are
left out, an optional without a value is written as `null`, which `XReads`
refuses. `XResolved` is `resolve_relative_path`, which all structures have and
which changes none of them; `read_input_file` calls it all the same.

`Startup` is one process. `pc` is its place in the code, `exc` the exception in
flight, `exit` what `main` has returned; `path`, `settings` and `logged` are
`options::input_file_path_`, `options::input_file_` and the JSON of the debug line.
`cand` is the place (`"given"` or `"beside_exe"`) that `parse_args` probes and then
returns. `disk` says what the path leads to at each place: nothing, a directory,
something unreachable, a regular file that cannot be read, or contents.

`SetCodePages` is the first thing `main` does: it switches the console (`codePage`)
to UTF-8 and leaves a guard behind, whose destructor is in `Return`, the way out of
`main` on every path. `Hello` and `Run` are the two calls of `student_council`.

Each look at the file system is an action, since others may change it in between
(`DiskChange`): `Exists` and `Status` are the two halves of
`is_regular_input_file`, `ReadInputFile` opens, parses and converts. What follows
without another look is part of the same action: `NotFound` is the code after a
probe that failed. A throw moves `pc` to the first handler that sees the exception:
`ParseCatch` is the `catch` of `parse_args`, `MainCatch` the handlers of `main`
(`ExitCode`). `fs::absolute` and `create_directories` may fail outside of the
former and reach `main` as a plain `std::exception`, hence exit code 2. No
exception that is unknown, code 3, can occur, nor is the handler for `show_help`
ever reached; `ExitCode` lists it all the same.

A `my_error` is reported before its handler returns. `boost::diagnostic_information`
begins with `what()`, and `my_error::what()` is made of
`boost::diagnostic_information`: `DiagnosticInformation` and `What` call each other,
one frame of the stack each, until `MaxFrames` is used up and the process ends with
`Crash`, without unwinding. Exit code 1 is therefore never returned.

Abstracted: the JSON syntax (a text is a document, or `Broken`; comments only count
as allowed in a `.jsonc` file; a byte order mark and trailing commas make no
difference), the formatting of messages. A file that is
overwritten while `read_input_file` reads it counts as its old or its new contents.
The two places are two files: starting the program in its own directory, where they
are one, is not modelled.

### TcpServer

One `io_context`, run by one thread; `ready` is its queue of handlers. Each loop
`l` is one `co_spawn` of `start_accepting` with the server's slot, as the comment of
`start_accepting` has it. A coroutine runs from one `co_await` to the next without a
break, so that `Start`, `Resolved` and `Accepted` are one action each: the code
between two `co_await`s. `at[l]` is the operation a loop waits for, `"ready"` when
that has completed and its handler is queued, `"over"` and `"failed"` when the
coroutine has ended (`"failed"`: nothing resolved, or the port is taken; `detached`
drops the exception in either case). `ResolveCompletes` and `AcceptCompletes` are the
operating system.

`cancel()` may be called from the thread of the `io_context` or from another one: the
emission runs at once or is queued (`Deliver`). An emission is recorded in the
coroutine's cancellation state (`cancelled`) and aborts an accept that is
outstanding; one that has completed keeps its result, and it is the next `co_await`
that throws `operation_aborted` (`Await`). This is what Asio does for a coroutine of
`co_spawn`; the definitions are marked external. `asked[l]` is a history variable:
`cancel()` was called while the handler of `l` was in the slot. A second `Spawn`
replaces the handler in the slot, and a `cancel()` before the first one does nothing.

`AddSession` is `session_manager::add_session`: `sessions` are the keys of the map,
and the use of the pointer that was moved into it ends the process. That makes
`remove_session`, `on_error` and `emit_error` unreachable, and they are not modelled.
The string `service` is a reference; that its owner keeps it until the coroutine has
read it is assumed (nothing in the repository calls `start_accepting`).

**Fairness** (`FairSpec`): somebody runs the `io_context`, and name resolution ends
with a result or an error. That peers connect or that anybody calls `cancel()` is not
assumed. `CancelStops` allows for a crash, since a connection that was accepted
before the cancellation still reaches `add_session`.

### SessionId

`id()` as it runs: `Ask` is `remote_endpoint` with its early return of `unknown_id`,
`Escape` one turn of the loop over the `%` of an IPv6 zone (`host` and `pos` are its
variables, `pos` counted from 1), `Answer` the rest. The sequential loop is kept step
by step since its hazard is its own progress: `TypeOK` is its loop invariant, what
lies before `pos` is escaped and what lies behind is untouched. Peers leave at any
time (`Leave`). Texts are sequences of one-character strings. That different
hosts give different texts is a fact about the standard's `to_string`, so endpoints
are given by their text, and `EndpointsAssumption` says what is used of it: there is no
`:` in the digits of a port and no `[` in an IPv4 address. `Chars` are the characters of
texts, of which only those that the code writes or looks for are fixed. `unknown_id` is
one symbol of its own, since no property looks into it. `named` is a history variable.

### MessageHeader

`type`, `length` and `version` are the members of each header, `data` is `data_` in
its three parts (the offsets in the header file lay them out side by side). A call
that throws leaves what it threw in `thrown`. Numbers have the code's widths and
bytes are computed (`Big4`, `Big2`, `Native4`, `Native2`). `data_` is not initialised:
it begins with any `Garbage`. `Receive` is what callers do with `data()`: copy the
bytes of another header, or bytes from elsewhere. The history variable `sent` says
which message a buffer was encoded from, through copies. `TypeSize` is 26 in the
code.

### MessageFactory

`Register` is the constructor of one static `message_register<T>`: it runs once per
variable, in any order, and `CreateMessage` may come in between, as an initialiser
of another translation unit may ask for a message. `creators` is the map, a name to
the class whose creator is kept. `built` records the order of initialisation. All static variables
are initialised in the end (`WF` of `Register`): `AllRegistered` is about the program
once it runs.

## Runs

| run | instance | shows |
|---|---|---|
| `queue_wakeups` | 2 producers, 2 consumers, 1 closer, capacity 2, one element | `TypeOK`, `CapacityBound`, `NotEmptySignalled`, `NotFullSignalled`, `NoGridlock`, `CloseCoverage` |
| `queue_order` | 2 producers, 1 consumer, 1 closer, capacity 2, two elements, `TimeoutTakesSignal` | `Linearizable` |
| `queue_progress` | 3 threads with overlapping roles, capacity 1, `FairSpec` | `CloseReleasesAll`, `TimedCallsReturn`, `PopProgress`, `PushProgress` |
| `pipeline` | 1 producer, 2 consumers, 4 elements, capacity 2 | `TypeOK`, `ExactlyOnceInOrder`, `DrainedAtEnd`, `AllJoin` |
| `startup` | all command lines; every kind of entry at both places, eight kinds of contents; two changes of the file system | `TypeOK`, `FindsInput`, `RacesEndCleanly`, `ConsoleRestored`, `OptionsBelongTogether`, `LoggedReadsBack` |
| `server` | 2 loops, 2 ids, at most 4 handlers queued when another `cancel()` comes | `TypeOK`, `NoAcceptAfterCancel`, `EndsForAReason`, `CancelStops` |
| `session_id` | 2 sessions, 16 peers | `TypeOK`, `NamesPeer`, `IdsDiffer` |
| `header_codec` | 2 headers, 5 types, type field of 3 bytes | `TypeOK`, `DataIsWhole`, `ReceivedAsSent` |
| `factory` | 5 static variables, 4 classes, 3 names in use and one that is not | `TypeOK`, `LastOneCounts`, `CreatesNamed`, `AllRegistered` |
| `queue_signal` | as `queue_progress` with `TimeoutTakesSignal` | `PopProgress` fails: a finding |
| `startup_failure` | as `startup`, no changes | `FailureReturnsOne` fails: a finding |
| `server_crash` | 1 loop | `SurvivesConnection` fails: a finding |

Why the bounds are enough:

- *Queue.* Two threads on each side let a wake-up go to the wrong one and let a
  third party take the element or the slot a woken thread came for; capacity 2 makes
  a second notification necessary while the first is under way, and gives the order
  of elements a meaning; two elements tell FIFO from everything else. Nothing in the
  code depends on the identity of threads or elements, so the safety runs use
  symmetry; the temporal ones do not. Calls are unbounded: every thread calls again
  forever. The only bounds are the sizes of the constant sets, `Capacity` and, in
  the pipeline, `N`.
- *Start-up.* A start takes at most two probes of two looks each and one read; two
  changes (`MaxChanges`) let a file appear at one place and disappear at the other
  between any two of them. Of the documents, two are complete (one of them with two
  clients), three leave an optional without a value, one only because the server has
  no service, and two cannot be read. `MaxFrames` is the size of the stack; the two functions
  call each other whatever it is, and the theorems hold for any number of both.
- *Server.* Two loops are what it takes to replace the handler in the slot. A loop has
  at most one handler of its own in the queue; `MaxReady` lets two cancellations
  overtake, meet or follow it. The theorems need no bound.
- *Session ids.* The zones have a `%` at the beginning, two in a row, one at the end,
  and one that is followed by the digits of its own code.
- *Header.* Three bytes leave room for types of no, one and two characters, for one
  that is too long and for a NUL inside; all bytes of the numbers differ.
- *Factory.* Two variables with one class, and two classes with one name, in every
  order.

TLC's deadlock check is on everywhere (a start that has ended stutters in `Exited`, a
crashed server in `Crashed`, so nothing else may stop); it says little about the
queue, where a blocked thread may always wake spuriously, which is why `NoGridlock`
states the absence of deadlock itself.

## Findings

- `queue_signal`: `pop_for` and `push_for` give up without testing the queue
  again when `timed_wait` reports a timeout. If that timeout has consumed a
  signal, a thread blocked in `pop` sleeps on beside an element: the trace has a
  `pop_for` and a `pop` waiting and one `push`. On condition variables that never
  do so, `queue_progress` and the theorems show that nothing is lost.
- `startup_failure`: a start whose input file cannot be read crashes instead of
  returning 1. `my_error::what()` calls `boost::diagnostic_information`, which calls
  `what()`; any report of a `my_error` exhausts the stack. The console is not given
  back either, as `ConsoleRestored` has it.
- `server_crash`: the first accepted connection ends the process: `add_session`
  dereferences the pointer that it has moved into the map in the line before.

Other places where the code and what is said about it differ, read off the source
and with no run of their own:

- `--help` does not end the program normally (`main.cpp:175`): `parse_args` throws
  `show_help` inside its own `try`, whose handler wraps it in a `my_error`, and the
  report of that one crashes.
- The shipped `etc/app.jsonc:16` and a test (`test_main.cpp:136`) call a client's host
  `address`; the code reads `host` (`communications.cpp:86`), so the client has none.
- A service that is not given is `std::nullopt` (`communications.cpp:48`); a test
  (`test_settings.cpp:90`) and a comment expect the empty string. Written, it is
  `null`, which cannot be read again: `LoggedReadsBack` says that this is the only
  reason why the line in the log could be refused.
- The comment of `close()` (`bounded_blocking_queue.hpp:35`) says that push and pop
  both return false afterwards; `pop` first drains the queue, as its own comment and a
  test have it.
- A type that is too long for the header throws `std::logic_error`
  (`message_header.cpp:12`); its declaration announces `std::runtime_error`
  (`message_header.hpp:52`).

Met on the way and not a matter for a model: outside of Windows `src/main.cpp` opens
a second `main` inside the first (lines 179 and 197), so the application builds on
Windows only. `Startup` models what it does there.

## Proofs

`BoundedBlockingQueue_proofs` proves, for any finite set of threads in any roles,
any elements and any capacity in `Nat` (0 included):

- `TypeCorrect`, `CapacityCorrect`, `CloseCorrect`: `TypeOK`, `CapacityBound` and
  `CloseCoverage` are invariants. `TypeOK` ties `pc`, `op` and `ret` together and
  is what the others are inductive relative to.
- `ZeroCapacityBlocks`: what the runs do not cover, since their capacities are 1 and 2. With
  `Capacity = 0`, which the constructor accepts, no push or pop succeeds, and the untimed
  ones stay inside until `close()`. `BlocksUntilClose` is inductive given `CapacityBound`.
- `NotEmptyCorrect`, `NotFullCorrect`: no lost wake-ups, assuming
  `~TimeoutTakesSignal` (with it, the finding above is a counterexample). That a
  blocked consumer and an element imply some wake-up under way is not inductive;
  the strengthening counts: there are at least as many wake-ups under way
  (producers about to notify plus consumers woken) as elements. Each action then
  changes both sides by at most one, and the lemmas `CardPlusOne`,
  `CardMinusOne` and `CardSwap` do the counting. `NotFull...` is the same
  argument with free slots.
- `GridlockFree`: both sides asleep with nobody on the way would mean no elements
  and no free slots, so capacity 0. A consequence of the two counts.
- `Refinement`: `Spec => Linearizable`. Each critical section that finishes a call
  is the abstract operation; all other steps leave `phase` as it is
  (`WakeKeepsPhase`, `PhaseChange`).

`Startup_proofs` proves, for any contents of files and any number of changes:

- `SettingsBack`: what is written of settings that were read from any document is
  read as the same settings, if they are complete. One lemma per structure
  (`ServerBack`, `ClientBack`, `CommonsBack`, `CommunicationsBack`), and
  `DefaultsAreRead` for those that are absent. `OnlyCompleteReads` is the converse: settings
  with any optional left without a value are written as a file that is refused.
- `StartupTypeCorrect`, `RacesCorrect`, `ConsoleCorrect`, `OptionsCorrect`, `LogCorrect`: from the inductive invariant
  `IInv`, which adds to `TypeOK` what the process has done when it is at a place
  (`Progress`: above all, an exception that leaves the search is a `my_error`) and
  that what was logged had been read and that nothing else has touched the settings
  (`WasRead`).
- `SearchCorrect`: `FindsInput` alone speaks of the end only; `Searched` says for
  each place in the code what the probes behind it have seen, as long as the file
  system is as it was.

`TcpServer_proofs` proves, for any number of loops, ids and cancellations:

- `CancelCorrect`, `EndCorrect`: `NoAcceptAfterCancel` and `EndsForAReason`, from one
  inductive invariant (`IInv`). A loop ends in `"over"` because it has no service,
  because an abort was queued for it, or because its cancellation state has recorded
  an emission; the invariant follows an emission back to the call of `cancel()`: a
  queued cancellation, a queued abort and a set `cancelled` each belong to a loop that
  was asked (`Asked`), and a place that needs a service is reached with one only
  (`Grounded`).
- `ResumedOnce`: `TypeOK`, whose last conjuncts say that a coroutine is never resumed
  twice for one wait. Cardinalities of positions in a queue are awkward to prove about;
  `Once` says the same with quantifiers (`One`: one handler for `l`, `None`: no handler), and
  the lemmas `AppendOther`, `AppendOne`, `TailOther` and `TailOne` say what appending a
  handler and taking one do to it.

`MessageHeader_proofs` proves, for any size of the type field, any strings and any
numbers of the code's widths:

- `HeaderTypeCorrect`, `BufferCorrect`: `TypeOK` and `DataIsWhole`, which are inductive together.
- `CodecCorrect`: `ReceivedAsSent`. The lemmas `Big4Native` and `Big2Native` are the round
  trip of the numbers (by division and remainder, byte by byte), `TextIs` the round
  trip of the type: the first NUL of a padded type is the one behind its end.

`MessageFactory_proofs` proves, for any variables, classes and names:

- `FactoryTypeCorrect`, `RegistryCorrect`: `TypeOK` and `LastOneCounts`, which are inductive
  together.
- `CreationCorrect`: `CreatesNamed`, from `LastOneCounts`: the names in the map are those of
  the variables initialised so far.

`QueuePipeline_proofs` proves, for any finite set of consumers, any number of elements
and any capacity above 0:

- `QueueInUse`: `Spec => Q!Spec`, where `Q` is the queue with the program's threads. Each
  step of the program is a step of the queue or leaves the queue alone. Its hypothesis is
  that the threads' own code keeps to the interface, which is part of the invariant, so
  the invariance comes first.
- `NobodyLeftAsleep`: `CapacityBound`, `NotEmptySignalled`, `NotFullSignalled`, `CloseCoverage` and
  `NoGridlock` of the queue with these threads, for any number of consumers, from the
  lemmas about its steps and `QueueInUse`'s argument. `TimeoutTakesSignal` does not matter
  here: nobody makes a timed call.
- `TypeCorrect`, `OrderCorrect`, `DrainCorrect`: `TypeOK`, `ExactlyOnceInOrder` and
  `DrainedAtEnd`, from `IInv`. It has three parts: `Q!TypeOK`, whose proof for the queue is
  reused by `INSTANCE BoundedBlockingQueue_proofs`; `Program`, what the threads' counters
  say of the calls they are in; and `Flow`, where the elements are: the newest are in the
  queue in order, and the older ones are shared out among the consumers, increasing,
  complete and disjoint (`Shared`). `Flow` counts an element as pushed from its critical
  section on (`Accepted`) and as got from there on as well (`got`), not from the return of
  the call; the property alone is not inductive between the two.

`SessionId_proofs` proves, for any sessions and any texts of addresses:

- `TypeCorrect`: the loop invariant. `Between` says it without positions: the address
  is `d \o r`, the text `Escaped(d) \o r`, and `pos` the place in between; `OneTurn` moves a part
  without `%` and one `%` from `r` to `d`, and `LastTurn` is the end of the loop.
- `NamesPeerCorrect`, `IdsDifferCorrect`: `NamesPeer` and `IdsDiffer`. Each text handed out
  is `Name(e)` of a peer `e`, and the lemma `NamesDiffer` says that `Name` is injective:
  the last `:` is the one before the port (`PortIsLast`), the first character tells IPv6
  from IPv4, and two addresses are never escaped to one text (`EscapedInjective`), because
  no two characters have codes that begin alike.

`Escaped` is made of the library's `FlattenSeq`, which is recursive. What it returns is
obtained without the induction theorems (they take an operator): `NatInSet` and
`TextInSet` are induction with a set in place of a predicate, proved from the
well-foundedness of `<`; `FlatExists` and `FlatUnique` show that the recursive function
exists and is one; `EscapedAppend` is the recursion for texts, and `EscapedConcat` its form
for two texts joined.

Each inductive invariant was checked by TLC on the instance of its run before it was
proved; `Between`, which quantifies over all texts, with the parts of the address in
their place.

Assumptions: those named in the modules (`ThreadsAssumption`, `ItemsAssumption`,
`CapacityAssumption`, `SignalAssumption`; `ChangesAssumption`, `FramesAssumption`,
`ExitAssumption`; `LoopsAssumption`, `IdsAssumption`, `ReadyAssumption`; `SizeAssumption`,
`StringsAssumption`, `NumbersAssumption`, `GarbageAssumption`, `NoMessageAssumption`;
`ClassAssumption`, `TypeAssumption`, `NullAssumption`; `PipelineAssumption`;
`SessionsAssumption`, `CharsAssumption`, `EndpointsAssumption`), all of which TLC evaluates in the
runs, and `~TimeoutTakesSignal` and `Capacity = 0` where stated.

Only model-checked: liveness (`CloseReleasesAll`, `TimedCallsReturn`, `PopProgress`,
`PushProgress`, `AllJoin`, `CancelStops`, `AllRegistered`), since the prover handles
neither `ENABLED` nor fairness. Every invariant of the passing runs, and every property
among theirs that is not liveness, is stated by a theorem.

## What could come next

1. The refinement of `AtomicQueue` stated for the pipeline, and `AllJoin` brought down to
   steps that the prover can check (what decreases with each step of the test).
2. `closed()` and `size()` as observers of the queue and of `AtomicQueue`.
3. The life of a session in the registry (`remove_session` under the id of a peer that
   has left) once `add_session` no longer crashes: today no execution gets there.

## Not modelled

- `session_manager::remove_session`, `session::on_error` and `emit_error`: see `TcpServer`.
- The officers, which only write to the log, and `async_tcp_client`: no state.
- `core::communications`: constructors that store references and one coroutine that
  forwards to the resolver. Nobody creates or calls them.
- `show_help::what()`, which nobody calls, and the formatting of messages.
- Boost.Log and the build: configuration, I/O and tooling.
