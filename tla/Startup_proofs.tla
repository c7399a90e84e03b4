--------------------------- MODULE Startup_proofs ---------------------------
(***************************************************************************)
(* Proofs about the start of the program: settings survive being written   *)
(* and read for every document that leaves none without a value, and no    *)
(* change of the file system leads to an outcome that is not documented.   *)
(***************************************************************************)
EXTENDS Startup, TLAPS

-----------------------------------------------------------------------------
(* Reading what has been written.                                           *)

\* The server's settings survive if they have a service.
LEMMA ServerBack ==
  ASSUME NEW j, ServerFrom(j).service # NoValue
  PROVE  /\ ServerReads(ServerTo(ServerFrom(j)))
         /\ ServerFrom(ServerTo(ServerFrom(j))) = ServerFrom(j)
<1> DEFINE s == ServerFrom(j)
           w == ServerTo(s)
<1>1. /\ w.kind = "object"
      /\ DOMAIN w.fields = {"enable", "name", "service"}
      /\ w.fields["enable"] = Bool(s.enable)
      /\ w.fields["name"] = Str(s.name)
      /\ w.fields["service"] = Str(s.service)
  BY DEF ServerTo, ServerFrom, DefaultServer, Obj, OptionalTo
<1>2. ServerReads(w)
  BY <1>1 DEF ServerReads, IsObject, Fits, Contains, Bool, Str
<1>3. ServerFrom(w) = s
  <2>1. BoolOr(w, "enable", FALSE) = s.enable
    BY <1>1 DEF BoolOr, Contains, Bool
  <2>2. StringOr(w, "name", "") = s.name
    BY <1>1 DEF StringOr, Contains, Str
  <2>3. StringOr(w, "service", NoValue) = s.service
    BY <1>1 DEF StringOr, Contains, Str
  <2>4. s = [enable |-> s.enable, name |-> s.name, service |-> s.service]
    BY DEF ServerFrom
  <2> HIDE DEF s, w
  <2> QED BY <2>1, <2>2, <2>3, <2>4 DEF ServerFrom, DefaultServer
<1> QED BY <1>2, <1>3

\* So do a client's, if it has a host and a service.
LEMMA ClientBack ==
  ASSUME NEW j, ClientFrom(j).host # NoValue, ClientFrom(j).service # NoValue
  PROVE  /\ ClientReads(ClientTo(ClientFrom(j)))
         /\ ClientFrom(ClientTo(ClientFrom(j))) = ClientFrom(j)
<1> DEFINE c == ClientFrom(j)
           w == ClientTo(c)
<1>1. /\ w.kind = "object"
      /\ DOMAIN w.fields = {"enable", "name", "host", "service"}
      /\ w.fields["enable"] = Bool(c.enable)
      /\ w.fields["name"] = Str(c.name)
      /\ w.fields["host"] = Str(c.host)
      /\ w.fields["service"] = Str(c.service)
  BY DEF ClientTo, ClientFrom, DefaultClient, Obj, OptionalTo
<1>2. ClientReads(w)
  BY <1>1 DEF ClientReads, ServerReads, IsObject, Fits, Contains, Bool, Str
<1>3. ClientFrom(w) = c
  <2>1. BoolOr(w, "enable", FALSE) = c.enable
    BY <1>1 DEF BoolOr, Contains, Bool
  <2>2. StringOr(w, "name", "") = c.name
    BY <1>1 DEF StringOr, Contains, Str
  <2>3. StringOr(w, "host", NoValue) = c.host
    BY <1>1 DEF StringOr, Contains, Str
  <2>4. StringOr(w, "service", NoValue) = c.service
    BY <1>1 DEF StringOr, Contains, Str
  <2>5. c = [enable |-> c.enable, name |-> c.name, host |-> c.host,
             service |-> c.service]
    BY DEF ClientFrom
  <2> HIDE DEF c, w
  <2> QED BY <2>1, <2>2, <2>3, <2>4, <2>5 DEF ClientFrom, DefaultClient
<1> QED BY <1>2, <1>3

\* The common settings always survive: a string that is not written is empty,
\* and an absent one is read as empty.
LEMMA CommonsBack ==
  ASSUME NEW j
  PROVE  /\ CommonsReads(CommonsTo(CommonsFrom(j)))
         /\ CommonsFrom(CommonsTo(CommonsFrom(j))) = CommonsFrom(j)
<1> DEFINE c == CommonsFrom(j)
           w == CommonsTo(c)
<1>1. /\ w.kind = "object"
      /\ Contains(w, "appName") => w.fields["appName"] = Str(c.app_name)
      /\ Contains(w, "version") => w.fields["version"] = Str(c.version)
      /\ ~Contains(w, "appName") => c.app_name = ""
      /\ ~Contains(w, "version") => c.version = ""
  BY DEF CommonsTo, CommonsFrom, Obj, Contains
<1>2. c = [app_name |-> c.app_name, version |-> c.version]
  BY DEF CommonsFrom
<1>3. \A x : Str(x).kind = "string" /\ Str(x).s = x
  BY DEF Str
<1> HIDE DEF c, w
<1>4. CommonsReads(w)
  BY <1>1, <1>3 DEF CommonsReads, IsObject, Fits
<1>5. CommonsFrom(w) = c
  <2>1. StringOr(w, "appName", "") = c.app_name
    BY <1>1, <1>3 DEF StringOr
  <2>2. StringOr(w, "version", "") = c.version
    BY <1>1, <1>3 DEF StringOr
  <2> QED BY <2>1, <2>2, <1>2 DEF CommonsFrom
<1> QED BY <1>4, <1>5 DEF c, w

\* Settings that are absent are what an empty object is read as.
LEMMA DefaultsAreRead ==
  /\ \E j : DefaultServer = ServerFrom(j)
  /\ \E j : DefaultCommons = CommonsFrom(j)
  /\ \E j : DefaultCommunications = CommunicationsFrom(j)
<1> DEFINE none == Obj([k \in {} |-> Null])
<1>1. DefaultServer = ServerFrom(none)
  BY DEF DefaultServer, ServerFrom, BoolOr, StringOr, Contains, Obj
<1>2. DefaultCommons = CommonsFrom(none)
  BY DEF DefaultCommons, CommonsFrom, StringOr, Contains, Obj
<1>3. DefaultCommunications = CommunicationsFrom(none)
  BY DEF DefaultCommunications, CommunicationsFrom, Contains, Obj
<1> QED BY <1>1, <1>2, <1>3

\* The clients are a function, and each was read.
LEMMA ClientsAreFunction ==
  ASSUME NEW j, NEW c, c = CommunicationsFrom(j)
  PROVE  /\ c.clients = [i \in DOMAIN c.clients |-> c.clients[i]]
         /\ \A i \in DOMAIN c.clients : \E jc : c.clients[i] = ClientFrom(jc)
<1> DEFINE read == j.fields["clients"].elems
<1>1. \/ c.clients = [i \in DOMAIN read |-> ClientFrom(read[i])]
      \/ c.clients = <<>>
  BY DEF CommunicationsFrom
<1>2. CASE c.clients = [i \in DOMAIN read |-> ClientFrom(read[i])]
  <2> HIDE DEF read
  <2> QED BY <1>2
<1>3. CASE c.clients = <<>>
  <2>1. <<>> = [i \in DOMAIN <<>> |-> <<>>[i]] /\ DOMAIN <<>> = {}
    OBVIOUS
  <2> QED BY <1>3, <2>1
<1> QED BY <1>1, <1>2, <1>3

\* The server and all clients, however many there are.
LEMMA CommunicationsBack ==
  ASSUME NEW j, NEW c, c = CommunicationsFrom(j),
         c.server.service # NoValue,
         \A i \in DOMAIN c.clients :
           c.clients[i].host # NoValue /\ c.clients[i].service # NoValue
  PROVE  /\ CommunicationsReads(CommunicationsTo(c))
         /\ CommunicationsFrom(CommunicationsTo(c)) = c
<1> DEFINE w == CommunicationsTo(c)
           a == [i \in DOMAIN c.clients |-> ClientTo(c.clients[i])]
<1>1. c = [server |-> c.server, clients |-> c.clients]
  BY DEF CommunicationsFrom
<1>2. PICK js : c.server = ServerFrom(js)
  <2>1. \/ c.server = ServerFrom(j.fields["server"])
        \/ c.server = DefaultServer
    BY DEF CommunicationsFrom
  <2> QED BY <2>1, DefaultsAreRead
<1>3. /\ c.clients = [i \in DOMAIN c.clients |-> c.clients[i]]
      /\ \A i \in DOMAIN c.clients : \E jc : c.clients[i] = ClientFrom(jc)
  BY ClientsAreFunction
<1>4. /\ w.kind = "object"
      /\ Contains(w, "server") /\ w.fields["server"] = ServerTo(c.server)
      /\ Contains(w, "clients") /\ w.fields["clients"] = Arr(a)
  BY DEF CommunicationsTo, Obj, Contains
<1>5. Arr(a).kind = "array" /\ Arr(a).elems = a
  BY DEF Arr
<1>6. ServerReads(ServerTo(c.server)) /\ ServerFrom(ServerTo(c.server)) = c.server
  BY <1>2, ServerBack
<1>7. \A i \in DOMAIN a : ClientReads(a[i]) /\ ClientFrom(a[i]) = c.clients[i]
  BY <1>3, ClientBack
<1> HIDE DEF w
<1>8. CommunicationsReads(w)
  BY <1>4, <1>5, <1>6, <1>7 DEF CommunicationsReads, IsObject
<1>9. CommunicationsFrom(w) = c
  <2>1. CommunicationsFrom(w) =
          [server |-> c.server, clients |-> [i \in DOMAIN a |-> ClientFrom(a[i])]]
    BY <1>4, <1>5, <1>6 DEF CommunicationsFrom
  <2>2. [i \in DOMAIN a |-> ClientFrom(a[i])] = c.clients
    BY <1>3, <1>7
  <2> QED BY <2>1, <2>2, <1>1
<1> QED BY <1>8, <1>9 DEF w

\* No setting is changed when relative paths are resolved.
LEMMA ResolvedIsSame ==
  ASSUME NEW j, NEW dir
  PROVE  InputFileResolved(InputFileFrom(j), dir) = InputFileFrom(j)
<1> DEFINE f == InputFileFrom(j)
           c == f.communications
<1>1. /\ c = [server |-> c.server, clients |-> c.clients]
      /\ c.clients = [i \in DOMAIN c.clients |-> c.clients[i]]
  <2>1. PICK jm : c = CommunicationsFrom(jm)
    <3>1. \/ c = CommunicationsFrom(j.fields["communications"])
          \/ c = DefaultCommunications
      BY DEF InputFileFrom
    <3> QED BY <3>1, DefaultsAreRead
  <2> HIDE DEF c
  <2>2. c = [server |-> c.server, clients |-> c.clients]
    BY <2>1 DEF CommunicationsFrom
  <2> QED BY <2>1, <2>2, ClientsAreFunction
<1>2. f = [commons |-> f.commons, communications |-> c]
  BY DEF InputFileFrom
<1> HIDE DEF f, c
<1>3. CommunicationsResolved(c, dir) = c
  BY <1>1 DEF CommunicationsResolved, ServerResolved, ClientResolved
<1>4. InputFileResolved(f, dir) =
        [commons |-> f.commons, communications |-> CommunicationsResolved(c, dir)]
  BY DEF InputFileResolved, CommonsResolved, c
<1>5. InputFileResolved(f, dir) = f
  BY <1>2, <1>3, <1>4
<1> QED BY <1>5 DEF f

\* The whole file: whatever document was read, what is written of it is read as
\* the same settings, if no optional is left without a value.
THEOREM SettingsBack ==
  ASSUME NEW j, NEW f, f = InputFileFrom(j), Complete(f)
  PROVE  /\ InputFileReads(InputFileTo(f))
         /\ InputFileFrom(InputFileTo(f)) = f
<1> DEFINE w == InputFileTo(f)
<1>1. f = [commons |-> f.commons, communications |-> f.communications]
  BY DEF InputFileFrom
<1>2. PICK jc : f.commons = CommonsFrom(jc)
  <2>1. \/ f.commons = CommonsFrom(j.fields["commons"])
        \/ f.commons = DefaultCommons
    BY DEF InputFileFrom
  <2> QED BY <2>1, DefaultsAreRead
<1>3. PICK jm : f.communications = CommunicationsFrom(jm)
  <2>1. \/ f.communications = CommunicationsFrom(j.fields["communications"])
        \/ f.communications = DefaultCommunications
    BY DEF InputFileFrom
  <2> QED BY <2>1, DefaultsAreRead
<1>4. /\ w.kind = "object"
      /\ w.fields["commons"] = CommonsTo(f.commons)
      /\ w.fields["communications"] = CommunicationsTo(f.communications)
      /\ Contains(w, "commons") /\ Contains(w, "communications")
  BY DEF InputFileTo, Obj, Contains
<1>5. /\ CommonsReads(CommonsTo(f.commons))
      /\ CommonsFrom(CommonsTo(f.commons)) = f.commons
  BY <1>2, CommonsBack
<1>6. /\ CommunicationsReads(CommunicationsTo(f.communications))
      /\ CommunicationsFrom(CommunicationsTo(f.communications)) = f.communications
  BY <1>3, CommunicationsBack DEF Complete
<1> HIDE DEF w
<1>7. InputFileReads(w)
  BY <1>4, <1>5, <1>6 DEF InputFileReads, IsObject
<1>8. InputFileFrom(w) = f
  BY <1>1, <1>4, <1>5, <1>6 DEF InputFileFrom
<1> QED BY <1>7, <1>8 DEF w

\* An optional without a value is written as something else than a string ...
LEMMA OptionalReads ==
  ASSUME NEW s PROVE OptionalTo(s).kind = "string" => s # NoValue
<1>1. Null.kind # "string"
  BY DEF Null
<1> QED BY <1>1 DEF OptionalTo

\* ... which the reader of the server's settings refuses,
LEMMA ServerNeedsService ==
  ASSUME NEW s, ServerReads(ServerTo(s))
  PROVE  s.service # NoValue
<1>1. Contains(ServerTo(s), "service") /\ ServerTo(s).fields["service"] = OptionalTo(s.service)
  BY DEF ServerTo, Obj, Contains
<1> QED BY <1>1, OptionalReads DEF ServerReads, Fits

\* and so does the reader of a client's.
LEMMA ClientNeedsBoth ==
  ASSUME NEW c, ClientReads(ClientTo(c))
  PROVE  c.host # NoValue /\ c.service # NoValue
<1> DEFINE w == ClientTo(c)
<1>1. /\ Contains(w, "service") /\ w.fields["service"] = OptionalTo(c.service)
      /\ Contains(w, "host") /\ w.fields["host"] = OptionalTo(c.host)
  BY DEF ClientTo, Obj, Contains
<1> QED BY <1>1, OptionalReads DEF ClientReads, ServerReads, Fits

\* Settings can be read back only if they are complete: one service or host
\* that is missing spoils the whole file.
THEOREM OnlyCompleteReads ==
  ASSUME NEW f, InputFileReads(InputFileTo(f))
  PROVE  Complete(f)
<1> DEFINE c == f.communications
           w == CommunicationsTo(c)
           a == [i \in DOMAIN c.clients |-> ClientTo(c.clients[i])]
<1>1. CommunicationsReads(w)
  <2>1. /\ Contains(InputFileTo(f), "communications")
        /\ InputFileTo(f).fields["communications"] = w
    BY DEF InputFileTo, Obj, Contains
  <2> QED BY <2>1 DEF InputFileReads
<1>2. /\ Contains(w, "server") /\ w.fields["server"] = ServerTo(c.server)
      /\ Contains(w, "clients") /\ w.fields["clients"].elems = a
  BY DEF CommunicationsTo, Obj, Contains, Arr
<1> HIDE DEF w
<1>3. c.server.service # NoValue
  BY <1>1, <1>2, ServerNeedsService DEF CommunicationsReads
<1>4. \A i \in DOMAIN c.clients : ClientReads(ClientTo(c.clients[i]))
  BY <1>1, <1>2 DEF CommunicationsReads
<1>5. \A i \in DOMAIN c.clients :
        c.clients[i].host # NoValue /\ c.clients[i].service # NoValue
  BY <1>4, ClientNeedsBoth
<1> QED BY <1>3, <1>5 DEF Complete

-----------------------------------------------------------------------------
(* The invariant of the start.                                              *)

\* read_input_file has succeeded.
Loaded == path = cand /\ logged # Null /\ logged = InputFileTo(settings)

\* What the process has done when it is at a place in the code: nothing has
\* been searched before the first probe and nothing been read before the end
\* of read_input_file; an exception that leaves the search is a my_error.
Progress ==
  /\ pc \in {"main", "init_logging", "hello", "parse_args"} => cand = "none"
  /\ pc \in {"main", "init_logging", "hello", "parse_args", "exists", "status",
             "parse_catch", "read"} => path = "none"
  /\ pc \notin {"run", "exited"} => logged = Null
  /\ pc = "main_catch" /\ cand # "none" => exc = "my_error"
  /\ pc \in {"diagnose", "what"} => exc = "my_error"
  /\ pc = "run" => Loaded
  /\ pc = "exited" /\ cand # "none" =>
       (exit = 0 /\ Loaded) \/ (exit = Crash /\ logged = Null)

\* What is in the log was written of settings that had been read; while there
\* is nothing in the log, no setting has been touched.
WasRead ==
  /\ logged # Null => \E j : settings = InputFileFrom(j) /\ logged = InputFileTo(settings)
  /\ logged = Null => settings = DefaultInputFile

IInv == TypeOK /\ Progress /\ WasRead /\ ConsoleRestored

LEMMA ExitCodes ==
  /\ DOMAIN ExitCode = {"show_help", "my_error", "std"}
  /\ \A e \in DOMAIN ExitCode : ExitCode[e] \in 0 .. 2
BY DEF ExitCode

LEMMA WrittenIsNoNull ==
  ASSUME NEW f PROVE InputFileTo(f) # Null
<1>1. InputFileTo(f).kind = "object" /\ Null.kind = "null"
  BY DEF InputFileTo, Obj, Null
<1> QED BY <1>1

LEMMA IInvInit == Init => IInv
BY ChangesAssumption, FramesAssumption, ExitAssumption, ExitCodes
   DEF Init, IInv, TypeOK, Progress, WasRead, Loaded, Places, ConsoleRestored

\* The steps up to the end of parse_args, which all leave the options alone.
LEMMA IInvSearch ==
  ASSUME IInv, SetCodePages \/ InitLogging \/ Hello \/ ParseArgs \/ Exists \/ Status \/ ParseCatch
  PROVE  IInv'
<1> USE ExitCodes DEF IInv, TypeOK, Progress, Goto, Throw
<1>1. WasRead' /\ ConsoleRestored'
  <2>1. UNCHANGED optionsVars
    BY DEF SetCodePages, InitLogging, Hello, ParseArgs, Exists, Status, ParseCatch, optionsVars
  <2>2. pc' # "exited" /\ codePage' = "utf8"
    BY DEF ConsoleRestored, SetCodePages, InitLogging, Hello, ParseArgs, Exists, Status, NotFound,
           ParseCatch
  <2> QED BY <2>1, <2>2 DEF WasRead, ConsoleRestored, optionsVars
<1>2. CASE InitLogging
  BY <1>1, <1>2 DEF InitLogging, optionsVars
<1>3. CASE ParseArgs
  <2>1. \/ pc' = "exists" /\ exc' = exc /\ cand' = "given"
        \/ pc' = "parse_catch" /\ exc' \in {"show_help", "std"} /\ cand' = cand
        \/ pc' = "main_catch" /\ exc' = "std" /\ cand' = cand
    BY <1>3 DEF ParseArgs
  <2>2. /\ pc = "parse_args"
        /\ UNCHANGED <<exit, frames, codePage, argv, disk, changes, path, settings, logged>>
    BY <1>3 DEF ParseArgs, optionsVars
  <2> QED BY <1>1, <2>1, <2>2 DEF Places
<1>4. CASE Exists
  BY <1>1, <1>4 DEF Exists, NotFound, Places, optionsVars
<1>5. CASE Status
  BY <1>1, <1>5 DEF Status, NotFound, Places, optionsVars
<1>6. CASE ParseCatch
  BY <1>1, <1>6 DEF ParseCatch, optionsVars
<1>7. CASE SetCodePages \/ Hello
  BY <1>1, <1>7 DEF SetCodePages, Hello, optionsVars
<1> QED BY <1>2, <1>3, <1>4, <1>5, <1>6, <1>7

LEMMA IInvStep ==
  ASSUME IInv, [Next]_vars
  PROVE  IInv'
<1>1. CASE SetCodePages \/ InitLogging \/ Hello \/ ParseArgs \/ Exists \/ Status \/ ParseCatch
  BY <1>1, IInvSearch
<1>2. CASE ReadInputFile
  <2>1. WasRead' /\ ConsoleRestored'
    BY <1>2, ResolvedIsSame, WrittenIsNoNull
       DEF IInv, WasRead, ConsoleRestored, ReadInputFile, Goto, Throw
  <2>2. (TypeOK /\ Progress)'
    BY <1>2, ExitCodes, WrittenIsNoNull
       DEF IInv, TypeOK, Progress, Loaded, ReadInputFile, Goto, Throw
  <2> QED BY <2>1, <2>2 DEF IInv
<1>3. CASE Run
  <2>1. (TypeOK /\ Progress)'
    BY <1>3, ExitAssumption
       DEF IInv, TypeOK, Progress, Loaded, Run, Return, optionsVars
  <2>2. WasRead' /\ ConsoleRestored'
    BY <1>3, ExitAssumption DEF IInv, WasRead, ConsoleRestored, Run, Return, optionsVars
  <2> QED BY <2>1, <2>2 DEF IInv
<1>4. CASE MainCatch
  <2>1. CASE exc = "my_error"
    BY <1>4, <2>1 
       DEF IInv, TypeOK, Progress, WasRead, Loaded, ConsoleRestored, MainCatch, Goto,
           optionsVars
  <2>2. CASE exc # "my_error"
    <3>1. exc \in DOMAIN ExitCode /\ exit' \in 0 .. 2
      BY <1>4, <2>2, ExitCodes DEF IInv, TypeOK, MainCatch, Return
    <3>2. TypeOK'
      BY <1>4, <2>2, <3>1, ExitAssumption
         DEF IInv, TypeOK, MainCatch, Return, optionsVars
    <3>3. Progress' /\ WasRead' /\ ConsoleRestored'
      BY <1>4, <2>2, <3>1, ExitAssumption
         DEF IInv, TypeOK, Progress, WasRead, Loaded, ConsoleRestored, MainCatch, Return,
             optionsVars
    <3> QED BY <3>2, <3>3 DEF IInv
  <2> QED BY <2>1, <2>2
<1>5. CASE DiagnosticInformation \/ What
  <2>1. TypeOK'
    BY <1>5, ExitAssumption, FramesAssumption
       DEF IInv, TypeOK, Progress, DiagnosticInformation, What, Enter, optionsVars
  <2>2. Progress' /\ WasRead' /\ ConsoleRestored'
    BY <1>5
       DEF IInv, TypeOK, Progress, WasRead, Loaded, ConsoleRestored,
           DiagnosticInformation, What, Enter, optionsVars
  <2> QED BY <2>1, <2>2 DEF IInv
<1>6. CASE DiskChange
  <2>1. disk' \in [Places -> Entries] /\ changes' \in 0 .. MaxChanges
    BY <1>6, ChangesAssumption DEF IInv, TypeOK, DiskChange
  <2> QED
    BY <1>6, <2>1
       DEF IInv, TypeOK, Progress, WasRead, Loaded, ConsoleRestored, DiskChange, mainVars,
           optionsVars
<1>7. CASE UNCHANGED vars
  BY <1>7 DEF IInv, TypeOK, Progress, WasRead, Loaded, ConsoleRestored, vars
<1> QED BY <1>1, <1>2, <1>3, <1>4, <1>5, <1>6, <1>7 DEF Next, Step, Exited

\* The inductive invariant holds from main to the end of the program: what the
\* process has done fits its place in the code.
THEOREM Invariance == Spec => []IInv
BY IInvInit, IInvStep, PTL DEF Spec

-----------------------------------------------------------------------------

\* A place in the code, the exception in flight and the exit code always
\* belong together.
THEOREM StartupTypeCorrect == Spec => []TypeOK
<1>1. IInv => TypeOK
  BY DEF IInv
<1> QED BY <1>1, Invariance, PTL

\* However often and whenever the file system changes: once the search has
\* begun, main returns 0 with the settings it reports, or the my_error that ends
\* it has left none.
THEOREM RacesCorrect == Spec => []RacesEndCleanly
<1>1. IInv => RacesEndCleanly
  BY WrittenIsNoNull, ExitAssumption DEF IInv, Progress, Loaded, RacesEndCleanly
<1> QED BY <1>1, Invariance, PTL

\* The console is in UTF-8 while main and its handlers write to it, and is given
\* back on every way out but a crash.
THEOREM ConsoleCorrect == Spec => []ConsoleRestored
<1>1. IInv => ConsoleRestored
  BY DEF IInv
<1> QED BY <1>1, Invariance, PTL

\* A read that fails, at whatever point and for whatever document, leaves the
\* settings alone, and nothing goes on with the path it has stored.
THEOREM OptionsCorrect == Spec => []OptionsBelongTogether
<1>1. IInv => OptionsBelongTogether
  BY ExitAssumption DEF IInv, TypeOK, Progress, WasRead, Loaded, OptionsBelongTogether
<1> QED BY <1>1, Invariance, PTL

\* For all documents: the line in the log gives the same settings when it is
\* read as an input file, or is refused for an optional without a value.
THEOREM LogCorrect == Spec => []LoggedReadsBack
<1>1. IInv => LoggedReadsBack
  <2> SUFFICES ASSUME WasRead, logged # Null
               PROVE  /\ InputFileReads(logged) <=> Complete(settings)
                      /\ Complete(settings) => InputFileFrom(logged) = settings
    BY DEF IInv, LoggedReadsBack
  <2>1. PICK j : settings = InputFileFrom(j) /\ logged = InputFileTo(settings)
    BY DEF WasRead
  <2>2. CASE Complete(settings)
    BY <2>1, <2>2, SettingsBack
  <2>3. CASE ~Complete(settings)
    BY <2>1, <2>3, OnlyCompleteReads
  <2> QED BY <2>2, <2>3
<1> QED BY <1>1, Invariance, PTL

-----------------------------------------------------------------------------
(* The search order.                                                        *)

\* Where the search of an undisturbed start stands: what the probes that lie
\* behind it have seen.
Searched ==
  changes = 0 /\ argv.option = "input" =>
    /\ pc \in {"exists", "status"} /\ cand = "beside_exe" =>
         /\ ~argv.absolute
         /\ ~IsRegular(disk["given"]) /\ disk["given"].type # "denied"
    /\ pc = "status" => disk[cand].type \notin {"denied", "missing"}
    /\ pc = "read" => cand = Meant /\ disk["given"].type # "denied"
    /\ pc = "parse_catch" => cand # "none"
    /\ pc \in {"parse_catch", "main_catch"} /\ cand # "none" => ~Usable
    /\ pc \in {"diagnose", "what"} => ~Usable
    /\ pc = "main_catch" /\ cand = "none" => exc = "std"
    /\ pc \notin {"run", "exited"} => settings = DefaultInputFile
    /\ pc = "run" => Usable /\ settings = InputFileFrom(disk[Meant].content.doc)
    /\ FindsInput

SInv == IInv /\ Searched

LEMMA SInvInit == Init => SInv
BY IInvInit DEF SInv, Searched, Init, FindsInput

LEMMA SInvStep ==
  ASSUME SInv, [Next]_vars
  PROVE  SInv'
<1> USE DEF SInv, IInv, TypeOK, Searched, Goto, Throw, optionsVars
<1>1. IInv'
  BY IInvStep
<1>2. UNCHANGED <<argv, disk>> => Meant' = Meant /\ (Usable' <=> Usable)
  BY DEF Meant, Usable, Loads, is_jsonc_path
<1>3. CASE SetCodePages \/ InitLogging \/ Hello
  BY <1>1, <1>3 DEF SetCodePages, InitLogging, Hello, Progress, FindsInput
<1>4. CASE ParseArgs
  BY <1>1, <1>4 DEF ParseArgs, Progress, FindsInput
<1>5. CASE Exists
  BY <1>1, <1>5
     DEF Exists, NotFound, FindsInput, Usable, Meant, Loads, IsRegular, Places
<1>6. CASE Status
  BY <1>1, <1>6
     DEF Status, NotFound, FindsInput, Usable, Meant, Loads, IsRegular, Places
<1>7. CASE ParseCatch
  BY <1>1, <1>2, <1>7 DEF ParseCatch, FindsInput
<1>8. CASE ReadInputFile
  <2>1. CASE Loads(disk[cand])
    BY <1>1, <1>2, <1>8, <2>1, ResolvedIsSame DEF ReadInputFile, FindsInput, Usable
  <2>2. CASE ~Loads(disk[cand])
    BY <1>1, <1>2, <1>8, <2>2 DEF ReadInputFile, FindsInput, Usable
  <2> QED BY <2>1, <2>2
<1>9. CASE Run
  BY <1>1, <1>2, <1>9 DEF Run, Return, FindsInput
<1>10. CASE MainCatch
  <2>1. CASE cand = "none"
    BY <1>1, <1>2, <1>10, <2>1 DEF MainCatch, Return, ExitCode, FindsInput
  <2>2. CASE cand # "none"
    <3>1. exc = "my_error"
      BY <1>10, <2>2 DEF MainCatch, Progress
    <3> QED BY <1>1, <1>2, <1>10, <2>2, <3>1 DEF MainCatch, FindsInput
  <2> QED BY <2>1, <2>2
<1>11. CASE DiagnosticInformation \/ What
  BY <1>1, <1>2, <1>11 DEF DiagnosticInformation, What, Enter, FindsInput
<1>12. CASE DiskChange
  <2>1. changes' # 0
    BY <1>12 DEF DiskChange
  <2> QED BY <1>1, <2>1 DEF FindsInput
<1>13. CASE UNCHANGED vars
  BY <1>1, <1>2, <1>13 DEF vars, FindsInput
<1> QED
  BY <1>3, <1>4, <1>5, <1>6, <1>7, <1>8, <1>9, <1>10, <1>11, <1>12, <1>13
     DEF Next, Step, Exited

\* While nobody touches the file system, the program runs on the file that the
\* search order means, and keeps the defaults if that one cannot be used.
THEOREM SearchCorrect == Spec => []FindsInput
<1>1. SInv => FindsInput
  BY DEF SInv, Searched, FindsInput
<1> QED BY <1>1, SInvInit, SInvStep, PTL DEF Spec
=============================================================================
