----------------------------- MODULE MCStartup -----------------------------
(***************************************************************************)
(* An instance of Startup for TLC: the contents of files, and what a       *)
(* comment of main says of the exit code.                                  *)
(***************************************************************************)
EXTENDS Startup

Server == Obj([enable |-> Bool(TRUE), name |-> Str("Server A"), service |-> Str("8080")])

Commons == Obj([appName |-> Str("My App"), version |-> Str("1.0.0")])

InputDoc(client) ==
  Obj([commons |-> Commons,
       communications |-> Obj([server |-> Server, clients |-> Arr(<<client>>)])])

\* Every setting has a value.
FullDoc ==
  InputDoc(Obj([enable |-> Bool(TRUE), name |-> Str("Client A"),
                host |-> Str("127.0.0.1"), service |-> Str("8080")]))

\* etc/app.jsonc, and the file of a test: the client has an address, no host.
SampleDoc ==
  InputDoc(Obj([enable |-> Bool(TRUE), name |-> Str("Client A"),
                address |-> Str("127.0.0.1"), service |-> Str("8080")]))

\* What the log says after SampleDoc has been read.
NullDoc ==
  InputDoc(Obj([enable |-> Bool(TRUE), name |-> Str("Client A"),
                host |-> Null, service |-> Str("8080")]))

\* Two clients, one of them without a name, and no common settings.
ClientsDoc ==
  Obj([communications |->
         Obj([server |-> Server,
              clients |-> Arr(<<Obj([host |-> Str("::1"), service |-> Str("80")]),
                                Obj([name |-> Str("Client B"), host |-> Str("127.0.0.1"),
                                     service |-> Str("8080")])>>)])])

\* Everything is given but the service of the server, which is optional.
NoServiceDoc ==
  Obj([commons |-> Commons,
       communications |->
         Obj([server |-> Obj([enable |-> Bool(TRUE), name |-> Str("Server A")])])])

EmptyDoc == Obj([k \in {} |-> Null])

Plain(doc) == [comments |-> FALSE, doc |-> doc]

MCContents ==
  {Plain(FullDoc), [comments |-> TRUE, doc |-> FullDoc], Plain(SampleDoc),
   Plain(ClientsDoc), Plain(NoServiceDoc), Plain(EmptyDoc), Plain(NullDoc), Plain(Broken)}

\* "1 when reading the input file has failed" (main.cpp:176).
FailureReturnsOne ==
  pc = "exited" /\ path # "none" /\ logged = Null => exit = 1
=============================================================================
