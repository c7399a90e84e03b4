------------------------------ MODULE Startup ------------------------------
(***************************************************************************)
(* The start of the program: main, init_logging and parse_args of          *)
(* src/main.cpp, and options::read_input_file.  One process runs them      *)
(* while others change the file system between any two of its steps.       *)
(*                                                                         *)
(* A throw is a jump: exc is the exception in flight, and pc moves to the  *)
(* handler that sees it first.                                             *)
(***************************************************************************)
EXTENDS Settings

CONSTANTS
  Contents,    \* what a readable file may hold: [comments |-> BOOLEAN, doc |-> JSON]
  MaxChanges,  \* how often the file system changes during one start
  MaxFrames,   \* how many nested calls of what() the stack has room for
  Crash        \* the exit of a process that the system has killed

ASSUME ChangesAssumption == MaxChanges \in Nat
ASSUME FramesAssumption == MaxFrames \in Nat

\* No exit code stands for "none yet", nor for a crash.
ASSUME ExitAssumption ==
  NoValue \notin 0 .. 3 /\ Crash \notin 0 .. 3 /\ Crash # NoValue

\* A document that is no JSON text.
Broken == [kind |-> "broken"]

(* What a path leads to.  "denied": a directory on the way may not be       *)
(* searched.  "locked": a regular file that may not be read.                *)
Entries ==
  [type : {"missing", "directory", "denied", "locked"}]
    \cup [type : {"file"}, content : Contents]

IsRegular(e) == e.type \in {"file", "locked"}

(* The two places the input file is looked for: the path as it was given,   *)
(* and the same path beside the executable.                                 *)
Places == {"given", "beside_exe"}

\* The extensions that matter, and what to_lower_copy makes of them.
LowerCase == [json |-> "json", jsonc |-> "jsonc", JSONC |-> "jsonc"]
Extensions == DOMAIN LowerCase

\* The command line: an input file (app.jsonc if there is none), --help, or
\* something that boost::program_options refuses.
CommandLines ==
  [option : {"input"}, absolute : BOOLEAN, extension : Extensions]
    \cup [option : {"help", "bad"}, absolute : {FALSE}, extension : {"jsonc"}]

VARIABLES
  pc,        \* the next step of the process
  exc,       \* the exception in flight
  exit,      \* what main has returned, if it has
  frames,    \* calls of my_error::what() on the stack
  codePage,  \* the code pages of the console: as found ("user"), or "utf8"
  argv,      \* the command line
  disk,      \* disk[p]: what the path at place p leads to
  changes,   \* how often the file system has changed
  cand,      \* parse_args: the place that is probed, then the result
  path,      \* options::input_file_path_
  settings,  \* options::input_file_
  logged     \* the JSON that read_input_file has written to the log

mainVars    == <<pc, exc, exit, frames, codePage>>
optionsVars == <<path, settings, logged>>
vars == <<pc, exc, exit, frames, codePage, argv, disk, changes, cand, path, settings, logged>>

Init ==
  /\ pc = "main" /\ exc = "none" /\ exit = NoValue /\ frames = 0 /\ codePage = "user"
  /\ argv \in CommandLines
  /\ disk \in [Places -> Entries]
  /\ changes = 0
  /\ cand = "none"
  /\ path = "none" /\ settings = DefaultInputFile /\ logged = Null

Goto(label) == pc' = label /\ UNCHANGED <<exc, exit, frames, codePage>>

\* Variant: the handler is reached without the exception.
Throw_Lost(e, handler) == pc' = handler /\ UNCHANGED <<exc, exit, frames, codePage>>

\* Variant: the guard of the code pages is inside the try of main.
Throw_Unguarded(e, handler) ==
  /\ pc' = handler /\ exc' = e
  /\ codePage' = IF handler = "main_catch" THEN "user" ELSE codePage
  /\ UNCHANGED <<exit, frames>>

Throw(e, handler) ==
  pc' = handler /\ exc' = e /\ UNCHANGED <<exit, frames, codePage>>

\* The console is switched to UTF-8, and a guard in main's own scope will
\* switch it back.
SetCodePages ==
  /\ pc = "main"
  /\ pc' = "init_logging" /\ codePage' = "utf8"
  /\ UNCHANGED <<exc, exit, frames, argv, disk, changes, cand, optionsVars>>

-----------------------------------------------------------------------------
(* init_logging and the beginning of parse_args.  fs::absolute and          *)
(* create_directories may throw a filesystem_error, which is no             *)
(* boost::exception; neither call is inside the try of parse_args.          *)

InitLogging ==
  /\ pc = "init_logging"
  /\ Goto("hello") \/ Throw("std", "main_catch")
  /\ UNCHANGED <<argv, disk, changes, cand, optionsVars>>

\* student_council::hello: the officers say what they have to say to the log.
Hello ==
  /\ pc = "hello"
  /\ Goto("parse_args")
  /\ UNCHANGED <<argv, disk, changes, cand, optionsVars>>

ParseArgs ==
  /\ pc = "parse_args"
  /\ \/ argv.option = "input" /\ Goto("exists") /\ cand' = "given"
     \/ argv.option = "help" /\ Throw("show_help", "parse_catch") /\ UNCHANGED cand
     \/ argv.option = "bad" /\ Throw("std", "parse_catch") /\ UNCHANGED cand
     \/ Throw("std", "main_catch") /\ UNCHANGED cand
  /\ UNCHANGED <<argv, disk, changes, optionsVars>>

(* is_regular_input_file: fs::exists and then fs::status, two looks at the  *)
(* file system.                                                             *)

\* The candidate is no regular file.  An absolute path is returned anyway.
NotFound ==
  \/ argv.absolute /\ Goto("read") /\ UNCHANGED cand
  \/ ~argv.absolute /\ cand = "given" /\ Goto("exists") /\ cand' = "beside_exe"
  \/ ~argv.absolute /\ cand = "beside_exe" /\ Throw("my_error", "parse_catch")
       /\ UNCHANGED cand

Exists ==
  /\ pc = "exists"
  /\ \/ disk[cand].type = "denied" /\ Throw("std", "parse_catch") /\ UNCHANGED cand
     \/ disk[cand].type = "missing" /\ NotFound
     \/ disk[cand].type \notin {"denied", "missing"} /\ Goto("status")
          /\ UNCHANGED cand
  /\ UNCHANGED <<argv, disk, changes, optionsVars>>

\* Variant: a directory will do.
Status_AnyKind ==
  /\ pc = "status"
  /\ \/ disk[cand].type \in {"denied", "missing"} /\ Throw("std", "parse_catch")
     \/ disk[cand].type \notin {"denied", "missing"} /\ Goto("read")
  /\ UNCHANGED <<argv, disk, changes, cand, optionsVars>>

\* fs::status reports a file that is gone by now as an error.
Status ==
  /\ pc = "status"
  /\ \/ disk[cand].type \in {"denied", "missing"} /\ Throw("std", "parse_catch")
          /\ UNCHANGED cand
     \/ disk[cand].type = "directory" /\ NotFound
     \/ IsRegular(disk[cand]) /\ Goto("read") /\ UNCHANGED cand
  /\ UNCHANGED <<argv, disk, changes, optionsVars>>

\* Variant: what was thrown is passed on as it is.
ParseCatch_Rethrow ==
  /\ pc = "parse_catch"
  /\ Throw(exc, "main_catch")
  /\ UNCHANGED <<argv, disk, changes, cand, optionsVars>>

\* catch (const std::exception &) of parse_args: every exception of its try
\* block is wrapped in a my_error.
ParseCatch ==
  /\ pc = "parse_catch"
  /\ Throw("my_error", "main_catch")
  /\ UNCHANGED <<argv, disk, changes, cand, optionsVars>>

-----------------------------------------------------------------------------
(* options::read_input_file                                                 *)

is_jsonc_path == LowerCase[argv.extension] = "jsonc"

\* The file can be opened, parsed (comments only in a .jsonc file) and
\* converted.
Loads(e) ==
  /\ e.type = "file"
  /\ e.content.comments => is_jsonc_path
  /\ e.content.doc # Broken
  /\ InputFileReads(e.content.doc)

\* Variant: the common settings are stored before the others are converted.
ReadInputFile_Piecewise ==
  /\ pc = "read"
  /\ path' = cand
  /\ LET e == disk[cand]
     IN  \/ /\ Loads(e)
            /\ settings' = InputFileFrom(e.content.doc)
            /\ logged' = InputFileTo(settings')
            /\ Goto("run")
         \/ /\ ~Loads(e)
            /\ settings' = IF e.type = "file" /\ e.content.doc # Broken
                             /\ (e.content.comments => is_jsonc_path)
                             /\ Contains(e.content.doc, "commons")
                           THEN [settings EXCEPT !.commons =
                                   CommonsFrom(e.content.doc.fields["commons"])]
                           ELSE settings
            /\ Throw("my_error", "main_catch") /\ UNCHANGED logged
  /\ UNCHANGED <<argv, disk, changes, cand>>

\* The path is stored before anything else can fail.
ReadInputFile ==
  /\ pc = "read"
  /\ path' = cand
  /\ \/ /\ Loads(disk[cand])
        /\ settings' = InputFileResolved(InputFileFrom(disk[cand].content.doc), cand)
        /\ logged' = InputFileTo(settings')
        /\ Goto("run")
     \/ /\ ~Loads(disk[cand])
        /\ Throw("my_error", "main_catch")
        /\ UNCHANGED <<settings, logged>>
  /\ UNCHANGED <<argv, disk, changes, cand>>

-----------------------------------------------------------------------------
(* main                                                                     *)

\* The destructor of the guard runs on the way out.
Return(code) ==
  pc' = "exited" /\ exit' = code /\ codePage' = "user" /\ UNCHANGED <<exc, frames>>

\* student_council::run does nothing.
Run ==
  /\ pc = "run"
  /\ Return(0)
  /\ UNCHANGED <<argv, disk, changes, cand, optionsVars>>

\* What the handlers of main return, by the exception.
ExitCode == [show_help |-> 0, my_error |-> 1, std |-> 2]

\* The handler of boost::exception asks for the diagnostic information before
\* it returns; the others return at once.
MainCatch ==
  /\ pc = "main_catch"
  /\ IF exc = "my_error" THEN Goto("diagnose") ELSE Return(ExitCode[exc])
  /\ UNCHANGED <<argv, disk, changes, cand, optionsVars>>

\* Another call on the stack, as long as there is room for it.
Enter(function) ==
  /\ IF frames < MaxFrames
     THEN pc' = function /\ frames' = frames + 1 /\ UNCHANGED exit
     ELSE pc' = "exited" /\ exit' = Crash /\ UNCHANGED frames
  /\ UNCHANGED <<exc, codePage>>

\* boost::diagnostic_information(e) begins with e.what().
DiagnosticInformation ==
  /\ pc = "diagnose"
  /\ Enter("what")
  /\ UNCHANGED <<argv, disk, changes, cand, optionsVars>>

\* my_error::what() is built from boost::diagnostic_information(*this): the two
\* call each other, and what follows their calls is never reached.
What ==
  /\ pc = "what"
  /\ Enter("diagnose")
  /\ UNCHANGED <<argv, disk, changes, cand, optionsVars>>

Exited == pc = "exited" /\ UNCHANGED vars

\* Another process creates, deletes or replaces something.
DiskChange ==
  /\ pc # "exited" /\ changes < MaxChanges
  /\ \E p \in Places, e \in Entries : e # disk[p] /\ disk' = [disk EXCEPT ![p] = e]
  /\ changes' = changes + 1
  /\ UNCHANGED <<mainVars, argv, cand, optionsVars>>

Step ==
  \/ SetCodePages \/ InitLogging \/ Hello \/ ParseArgs \/ Exists \/ Status \/ ParseCatch
  \/ ReadInputFile \/ Run \/ MainCatch \/ DiagnosticInformation \/ What

Next == Step \/ DiskChange \/ Exited

Spec == Init /\ [][Next]_vars

-----------------------------------------------------------------------------

\* A place in the code, an exception and an exit code that belong together.
TypeOK ==
  /\ pc \in {"main", "init_logging", "hello", "parse_args", "exists", "status",
             "parse_catch", "read", "run", "main_catch", "diagnose", "what", "exited"}
  /\ exc \in {"none"} \cup DOMAIN ExitCode
  /\ exit \in {NoValue, Crash} \cup 0 .. 2
  /\ frames \in 0 .. MaxFrames
  /\ pc \in {"parse_catch", "main_catch", "diagnose", "what"} => exc # "none"
  /\ codePage \in {"user", "utf8"}
  /\ pc \in {"main", "init_logging", "hello", "parse_args", "exists", "status", "read",
             "run"} => exc = "none"
  /\ pc \in {"exists", "status", "read", "run"} => cand # "none"
  /\ (pc = "exited") <=> (exit # NoValue)
  /\ argv \in CommandLines
  /\ disk \in [Places -> Entries]
  /\ changes \in 0 .. MaxChanges
  /\ cand \in Places \cup {"none"}
  /\ path \in {"none", cand}

\* The file that is meant: the path as given if it is absolute or leads to a
\* regular file, else the one beside the executable.
Meant == IF argv.absolute \/ IsRegular(disk["given"]) THEN "given" ELSE "beside_exe"

Usable == disk["given"].type # "denied" /\ Loads(disk[Meant])

\* While nobody touches the file system, the outcome is that of the search
\* order alone: the program runs on the settings of the file that is meant,
\* or it fails and keeps the defaults.  It fails by a crash, where main means
\* to return 1 (see What).
FindsInput ==
  pc = "exited" /\ changes = 0 /\ argv.option = "input" /\ exit # 2 =>
    /\ exit = (IF Usable THEN 0 ELSE Crash)
    /\ settings = (IF Usable THEN InputFileFrom(disk[Meant].content.doc)
                             ELSE DefaultInputFile)

\* However the file system changes between two steps: once the search has
\* begun the exception that ends it is a my_error, never one of the others
\* (exit code 2), and main returns 0 only with settings that were read from
\* the file it reports.
RacesEndCleanly ==
  pc = "exited" /\ cand # "none" =>
    /\ exit \in {0, Crash}
    /\ (exit = 0) <=> (logged # Null)
    /\ (exit = 0) => path = cand /\ logged = InputFileTo(settings)

\* Whatever is thrown, and wherever: all messages, those of main's handlers
\* included, are written while the console expects UTF-8, and every way out of
\* main gives it back as it was found, except a crash.
ConsoleRestored ==
  /\ pc \notin {"main", "exited"} => codePage = "utf8"
  /\ pc = "exited" => (codePage = "user" <=> exit # Crash)

\* A read that fails leaves the options with the new path and, all of them, the
\* old settings: read_input_file stores the path first and the settings as one.
\* Only the handlers of main ever see the two apart; the program never goes on
\* with them, nor ends well, however the file system changed on the way.
OptionsBelongTogether ==
  /\ logged = Null => settings = DefaultInputFile
  /\ path # "none" /\ logged = Null =>
       pc \in {"main_catch", "diagnose", "what", "exited"} /\ exit # 0

\* The line in the log can be used as an input file again, and gives the same
\* settings, if and only if no optional was left without a value: the null that
\* value_from writes for it is refused by value_to.
LoggedReadsBack ==
  logged # Null =>
    /\ InputFileReads(logged) <=> Complete(settings)
    /\ Complete(settings) => InputFileFrom(logged) = settings
=============================================================================
