--------------------------- MODULE MessageFactory ---------------------------
(***************************************************************************)
(* comm::messages::message_factory and message_register: classes of        *)
(* messages are put into one map by the constructors of static variables,  *)
(* in whatever order the translation units are initialised, and messages   *)
(* are created by name, in initialisers of other static variables too.     *)
(***************************************************************************)
EXTENDS Naturals, Sequences, Functions

CONSTANTS
  Registers,  \* the static variables of type message_register<T>
  Classes,    \* the classes T that are derived from message
  Class,      \* Class[r]: the T of variable r
  Types,      \* strings that somebody may ask the factory for
  TypeOf,     \* TypeOf[c]: what c::type() returns
  Null        \* no message

ASSUME ClassAssumption == Class \in [Registers -> Classes]
ASSUME TypeAssumption == TypeOf \in [Classes -> Types]
ASSUME NullAssumption == Null \notin Classes

VARIABLES
  creators,   \* creators_: the class whose creator is kept under a type
  built,      \* the variables whose constructor has run, in that order
  created,    \* the class of the message that the last call has created
  thrown      \* what the last call has thrown, or "none"

vars == <<creators, built, created, thrown>>

Init ==
  /\ creators = [t \in {} |-> Null]
  /\ built = <<>>
  /\ created = Null /\ thrown = "none"

\* Variant: emplace, which keeps what is there.
RegisterMessage_Emplace(type, class) ==
  creators' = [t \in DOMAIN creators \cup {type} |->
                 IF t \in DOMAIN creators THEN creators[t] ELSE class]

\* creators_[type] = creator
RegisterMessage(type, class) ==
  creators' = [t \in DOMAIN creators \cup {type} |->
                 IF t = type THEN class ELSE creators[t]]

\* The constructor of a message_register.
Register(r) ==
  /\ r \notin Range(built)
  /\ RegisterMessage(TypeOf[Class[r]], Class[r])
  /\ built' = Append(built, r)
  /\ UNCHANGED <<created, thrown>>

\* Variant: creators_[type](), which leaves an empty function behind.
CreateMessage_Inserts(type) ==
  /\ IF type \in DOMAIN creators /\ creators[type] # Null
     THEN created' = creators[type] /\ thrown' = "none" /\ UNCHANGED creators
     ELSE /\ created' = Null /\ thrown' = "runtime_error"
          /\ creators' = [t \in DOMAIN creators \cup {type} |->
                             IF t = type THEN Null ELSE creators[t]]
  /\ UNCHANGED built

\* Variant: the creator is moved out of the map.
CreateMessage_Moves(type) ==
  /\ IF type \in DOMAIN creators
     THEN /\ created' = creators[type] /\ thrown' = "none"
          /\ creators' = [t \in DOMAIN creators \ {type} |-> creators[t]]
     ELSE created' = Null /\ thrown' = "runtime_error" /\ UNCHANGED creators
  /\ UNCHANGED built

\* create_message(type): find, and call what is found.
CreateMessage(type) ==
  /\ IF type \in DOMAIN creators
     THEN created' = creators[type] /\ thrown' = "none"
     ELSE created' = Null /\ thrown' = "runtime_error"
  /\ UNCHANGED <<creators, built>>

Next ==
  \/ \E r \in Registers : Register(r)
  \/ \E t \in Types : CreateMessage(t)

(* All static variables of the program are initialised.                     *)
Spec == Init /\ [][Next]_vars /\ \A r \in Registers : WF_vars(Register(r))

-----------------------------------------------------------------------------

TypeName(r) == TypeOf[Class[r]]

\* The map holds creators of classes only, under the names they give themselves:
\* asking for a name that nobody has registered leaves no trace.
TypeOK ==
  /\ DOMAIN creators \subseteq Types
  /\ \A t \in DOMAIN creators : creators[t] \in Classes /\ TypeOf[creators[t]] = t
  /\ built \in Seq(Registers) /\ IsInjective(built)
  /\ created \in Classes \cup {Null}
  /\ thrown \in {"none", "runtime_error"}

\* The class a name stands for is that of the variable with this name that was
\* initialised last, in every order of initialisation and whatever was created
\* or refused in between; a name is known exactly if there is such a variable.
LastOneCounts ==
  /\ DOMAIN creators = {TypeName(r) : r \in Range(built)}
  /\ \A i \in DOMAIN built :
       (\A j \in DOMAIN built : j > i => TypeName(built[j]) # TypeName(built[i])) =>
         creators[TypeName(built[i])] = Class[built[i]]

\* A message is of the class its name stood for at the call; and a name that
\* could be created once can be created ever after.
CreatesNamed ==
  [][\A t \in Types : CreateMessage(t) =>
       IF \E r \in Range(built) : TypeName(r) = t
       THEN thrown' = "none" /\ TypeOf[created'] = t
       ELSE thrown' = "runtime_error" /\ created' = Null]_vars

\* Once all static variables are initialised, every class whose name is its own
\* is the one that is created under it, for good.
AllRegistered ==
  \A r \in Registers :
    (\A q \in Registers : TypeName(q) = TypeName(r) => Class[q] = Class[r]) =>
      <>[](TypeName(r) \in DOMAIN creators /\ creators[TypeName(r)] = Class[r])
=============================================================================
