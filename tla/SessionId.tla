----------------------------- MODULE SessionId -----------------------------
(***************************************************************************)
(* comm::session::id(), by which session_manager keeps its sessions: the   *)
(* address of the peer as text, with the zone of an IPv6 address escaped,  *)
(* or unknown_id when the socket has no peer.  The calls of all sessions   *)
(* are made by one thread, one after the other; peers go at any time.      *)
(***************************************************************************)
EXTENDS SequencesExt

CONSTANTS
  Sessions,
  NoSession,  \* nobody is in id()
  Chars,      \* the characters of a text
  Endpoints,  \* [host : text, v6 : BOOLEAN, port : text]
  Gone        \* remote_endpoint fails

ASSUME SessionsAssumption == NoSession \notin Sessions /\ Gone \notin Endpoints
ASSUME CharsAssumption == {"%", "2", "5", "[", "]", ":"} \subseteq Chars

\* A port is written in digits, an IPv4 address in digits and dots.
ASSUME EndpointsAssumption ==
  /\ Endpoints \subseteq [host : Seq(Chars), v6 : BOOLEAN, port : Seq(Chars)]
  /\ \A e \in Endpoints :
       /\ \A i \in DOMAIN e.port : e.port[i] # ":"
       /\ ~e.v6 => \A i \in DOMAIN e.host : e.host[i] # "["

unknown_id == <<"unknown">>

VARIABLES
  peer,   \* peer[s]: the other end of socket_, or Gone
  call,   \* the session whose id() runs
  asked,  \* remote_endpoint, as id() has read it
  host,   \* remote_host
  pos,    \* pos, counted from 1
  named   \* named[s]: the peer and the text of the last id() of s, if any

vars == <<peer, call, asked, host, pos, named>>

\* A session is made of a socket that is connected.
Init ==
  /\ peer \in [Sessions -> Endpoints]
  /\ call = NoSession /\ asked = Gone /\ host = <<>> /\ pos = 1
  /\ named = [s \in Sessions |-> <<>>]

\* id() returns text.
Return(s, e, text) ==
  /\ call' = NoSession /\ asked' = Gone /\ host' = <<>> /\ pos' = 1
  /\ named' = [named EXCEPT ![s] = [peer |-> e, id |-> text]]

\* remote_endpoint(ec), and what happens if there is none.
Ask(s) ==
  /\ call = NoSession
  /\ IF peer[s] = Gone
     THEN Return(s, Gone, unknown_id)
     ELSE /\ call' = s /\ asked' = peer[s] /\ host' = peer[s].host /\ pos' = 1
          /\ UNCHANGED named
  /\ UNCHANGED peer

\* Where find('%', pos) can stop.
Percents == {i \in pos .. Len(host) : host[i] = "%"}

\* One turn of the loop: the '%' at i becomes "%25", and pos is moved on.
EscapeAs(text, step) ==
  /\ call # NoSession /\ asked.v6 /\ Percents # {}
  /\ LET i == Min(Percents) IN
       host' = ReplaceSubSeqAt(i, text, <<"%">>, host) /\ pos' = i + step
  /\ UNCHANGED <<peer, call, asked, named>>

\* Variants: the replacement is searched again; the '%' is lost; a character
\* too many is skipped.
Escape_Again == EscapeAs(<<"%", "2", "5">>, 0)
Escape_Lossy == EscapeAs(<<"2", "5">>, 2)
Escape_Skips == EscapeAs(<<"%", "2", "5">>, 4)

Escape == EscapeAs(<<"%", "2", "5">>, 3)

\* The rest of id(), once there is no '%' left.
Answer ==
  /\ call # NoSession /\ (asked.v6 => Percents = {})
  /\ LET name == IF asked.v6 THEN <<"[">> \o host \o <<"]">> ELSE host IN
       Return(call, asked, name \o <<":">> \o asked.port)
  /\ UNCHANGED peer

\* The peer closes the connection, or it is lost.
Leave(s) ==
  /\ peer[s] # Gone
  /\ peer' = [peer EXCEPT ![s] = Gone]
  /\ UNCHANGED <<call, asked, host, pos, named>>

Id == Escape \/ Answer

Next == Id \/ \E s \in Sessions : Ask(s) \/ Leave(s)

Spec == Init /\ [][Next]_vars

-----------------------------------------------------------------------------

\* The address as a URI has it: every '%' followed by its code.
Escaped(text) ==
  FlattenSeq([i \in DOMAIN text |->
                IF text[i] = "%" THEN <<"%", "2", "5">> ELSE <<text[i]>>])

\* Between two turns of the loop: what lies before pos is escaped and what lies
\* behind is as it was, so that the loop neither escapes its own '%' again nor
\* goes on for ever.
TypeOK ==
  /\ peer \in [Sessions -> Endpoints \cup {Gone}]
  /\ call \in Sessions \cup {NoSession}
  /\ asked \in Endpoints \cup {Gone} /\ (asked = Gone <=> call = NoSession)
  /\ \A s \in Sessions : named[s] # <<>> => named[s].peer \in Endpoints \cup {Gone}
  /\ call # NoSession => \E n \in 0 .. Len(asked.host) :
       /\ SubSeq(host, 1, pos - 1) = Escaped(SubSeq(asked.host, 1, n))
       /\ SubSeq(host, pos, Len(host)) = SubSeq(asked.host, n + 1, Len(asked.host))

\* The text is that of the peer that id() has found at its beginning, with the
\* zone of an IPv6 address escaped, also if the peer leaves meanwhile.
NamesPeer == \A s \in Sessions : named[s] # <<>> /\ named[s].peer # Gone =>
  LET e == named[s].peer
      name == IF e.v6 THEN <<"[">> \o Escaped(e.host) \o <<"]">> ELSE e.host
  IN named[s].id = name \o <<":">> \o e.port

\* Two sessions have the same id only if they have the same peer, or none: under
\* their ids no session takes the place of another one in session_manager.
IdsDiffer == \A s, t \in Sessions :
  named[s] # <<>> /\ named[t] # <<>> /\ named[s].id = named[t].id =>
    named[s].peer = named[t].peer
=============================================================================
