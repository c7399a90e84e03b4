------------------------------ MODULE Settings ------------------------------
(***************************************************************************)
(* core::settings: the structures commons, server_settings,                *)
(* client_settings, communications and input_file, and their conversions   *)
(* from JSON (value_to) and to JSON (value_from).                          *)
(*                                                                         *)
(* value_to throws when a value is of another kind than the code asks for. *)
(* Each conversion is therefore a pair: XReads(j), it does not throw, and  *)
(* XFrom(j), what it returns then.                                         *)
(***************************************************************************)
EXTENDS Naturals, Sequences

CONSTANT
  NoValue     \* no value; in an std::optional<std::string>, std::nullopt

(* JSON values, as boost::json::value distinguishes them.                   *)

Null   == [kind |-> "null"]
Bool(b) == [kind |-> "bool", b |-> b]
Str(s) == [kind |-> "string", s |-> s]
Obj(f) == [kind |-> "object", fields |-> f]   \* a function from keys to values
Arr(a) == [kind |-> "array", elems |-> a]     \* a sequence of values

IsObject(j) == j.kind = "object"
Contains(j, k) == k \in DOMAIN j.fields

\* The value under k, if there is one, is of the kind asked for.
Fits(j, k, kind) == Contains(j, k) => j.fields[k].kind = kind

StringOr(j, k, default) == IF Contains(j, k) THEN j.fields[k].s ELSE default
BoolOr(j, k, default)   == IF Contains(j, k) THEN j.fields[k].b ELSE default

-----------------------------------------------------------------------------
(* commons                                                                  *)

DefaultCommons == [app_name |-> "", version |-> ""]

CommonsReads(j) ==
  IsObject(j) /\ Fits(j, "appName", "string") /\ Fits(j, "version", "string")

CommonsFrom(j) ==
  [app_name |-> StringOr(j, "appName", ""), version |-> StringOr(j, "version", "")]

\* Empty strings are not written.
CommonsTo(c) ==
  LET all == [appName |-> c.app_name, version |-> c.version]
  IN  Obj([k \in {k \in DOMAIN all : all[k] # ""} |-> Str(all[k])])

-----------------------------------------------------------------------------
(* server_settings and client_settings                                      *)

\* An optional without a value is written as null.
OptionalTo(s) == IF s = NoValue THEN Null ELSE Str(s)

DefaultServer == [enable |-> FALSE, name |-> "", service |-> NoValue]

ServerReads(j) ==
  /\ IsObject(j)
  /\ Fits(j, "enable", "bool") /\ Fits(j, "name", "string")
  /\ Fits(j, "service", "string")

ServerFrom(j) ==
  [enable  |-> BoolOr(j, "enable", DefaultServer.enable),
   name    |-> StringOr(j, "name", DefaultServer.name),
   service |-> StringOr(j, "service", DefaultServer.service)]

ServerTo(s) ==
  Obj([enable |-> Bool(s.enable), name |-> Str(s.name),
       service |-> OptionalTo(s.service)])

DefaultClient == [enable |-> FALSE, name |-> "", host |-> NoValue, service |-> NoValue]

ClientReads(j) == ServerReads(j) /\ Fits(j, "host", "string")

ClientFrom(j) ==
  [enable  |-> BoolOr(j, "enable", DefaultClient.enable),
   name    |-> StringOr(j, "name", DefaultClient.name),
   host    |-> StringOr(j, "host", DefaultClient.host),
   service |-> StringOr(j, "service", DefaultClient.service)]

\* Variant: the host is not written.
ClientTo_NoHost(c) ==
  Obj([enable |-> Bool(c.enable), name |-> Str(c.name),
       service |-> OptionalTo(c.service)])

ClientTo(c) ==
  Obj([enable |-> Bool(c.enable), name |-> Str(c.name),
       host |-> OptionalTo(c.host), service |-> OptionalTo(c.service)])

-----------------------------------------------------------------------------
(* communications and input_file                                            *)

DefaultCommunications == [server |-> DefaultServer, clients |-> <<>>]

CommunicationsReads(j) ==
  /\ IsObject(j)
  /\ Contains(j, "server")  => ServerReads(j.fields["server"])
  /\ Contains(j, "clients") =>
       LET a == j.fields["clients"]
       IN  a.kind = "array" /\ \A i \in DOMAIN a.elems : ClientReads(a.elems[i])

CommunicationsFrom(j) ==
  [server  |-> IF Contains(j, "server") THEN ServerFrom(j.fields["server"])
                                        ELSE DefaultServer,
   clients |-> IF Contains(j, "clients")
               THEN LET a == j.fields["clients"].elems
                    IN  [i \in DOMAIN a |-> ClientFrom(a[i])]
               ELSE <<>>]

CommunicationsTo(c) ==
  Obj([server  |-> ServerTo(c.server),
       clients |-> Arr([i \in DOMAIN c.clients |-> ClientTo(c.clients[i])])])

DefaultInputFile ==
  [commons |-> DefaultCommons, communications |-> DefaultCommunications]

InputFileReads(j) ==
  /\ IsObject(j)
  /\ Contains(j, "commons") => CommonsReads(j.fields["commons"])
  /\ Contains(j, "communications") => CommunicationsReads(j.fields["communications"])

InputFileFrom(j) ==
  [commons |-> IF Contains(j, "commons") THEN CommonsFrom(j.fields["commons"])
                                         ELSE DefaultCommons,
   communications |-> IF Contains(j, "communications")
                      THEN CommunicationsFrom(j.fields["communications"])
                      ELSE DefaultCommunications]

InputFileTo(f) ==
  Obj([commons |-> CommonsTo(f.commons),
       communications |-> CommunicationsTo(f.communications)])

-----------------------------------------------------------------------------
(* resolve_relative_path, with the directory of the input file.  No setting *)
(* is a path so far.                                                        *)

CommonsResolved(c, dir) == c
ServerResolved(s, dir)  == s
ClientResolved(c, dir)  == c

CommunicationsResolved(c, dir) ==
  [server  |-> ServerResolved(c.server, dir),
   clients |-> [i \in DOMAIN c.clients |-> ClientResolved(c.clients[i], dir)]]

InputFileResolved(f, dir) ==
  [commons |-> CommonsResolved(f.commons, dir),
   communications |-> CommunicationsResolved(f.communications, dir)]

-----------------------------------------------------------------------------

\* Every optional of the settings has a value.
Complete(f) ==
  /\ f.communications.server.service # NoValue
  /\ \A i \in DOMAIN f.communications.clients :
       f.communications.clients[i].host # NoValue
         /\ f.communications.clients[i].service # NoValue
=============================================================================
