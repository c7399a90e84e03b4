----------------------- MODULE MessageFactory_proofs -----------------------
(***************************************************************************)
(* Proofs about the factory of messages: for any classes and names, in     *)
(* every order of initialisation.                                          *)
(***************************************************************************)
EXTENDS MessageFactory, TLAPS

\* A type checks, and the last registration counts: inductive together.
IInv == TypeOK /\ LastOneCounts

LEMMA InitIInv == Init => IInv
<1> SUFFICES ASSUME Init PROVE IInv
  OBVIOUS
<1>1. built = <<>> /\ DOMAIN creators = {} /\ DOMAIN built = {} /\ Range(built) = {}
  BY DEF Init, Range
<1>2. TypeOK
  BY <1>1 DEF Init, TypeOK, IsInjective
<1>3. LastOneCounts
  BY <1>1 DEF LastOneCounts
<1> QED BY <1>2, <1>3 DEF IInv

\* The constructor of one more static variable.
LEMMA RegisterIInv ==
  ASSUME IInv, NEW r \in Registers, Register(r)
  PROVE  IInv'
<1> USE DEF IInv
<1> DEFINE n == Len(built) + 1
<1>1. /\ built \in Seq(Registers) /\ built' \in Seq(Registers)
      /\ Len(built) \in Nat
      /\ DOMAIN built = 1 .. n - 1 /\ DOMAIN built' = 1 .. n /\ built'[n] = r
      /\ \A i \in 1 .. n - 1 : built'[i] = built[i]
  BY DEF TypeOK, Register
<1>2. Class[r] \in Classes /\ TypeName(r) \in Types
      /\ TypeName(r) = TypeOf[Class[r]]
  BY ClassAssumption, TypeAssumption DEF TypeName
<1>3. /\ DOMAIN creators' = DOMAIN creators \cup {TypeName(r)}
      /\ creators'[TypeName(r)] = Class[r]
      /\ \A t \in DOMAIN creators \ {TypeName(r)} : creators'[t] = creators[t]
  BY DEF Register, RegisterMessage, TypeName
<1>4. Range(built') = Range(built) \cup {r}
  BY <1>1 DEF Range
<1>5. TypeOK'
  <2>1. \A i \in 1 .. n - 1 : built[i] # r
    BY <1>1 DEF Register, Range
  <2>2. IsInjective(built')
    BY <1>1, <2>1 DEF TypeOK, IsInjective
  <2> QED BY <1>1, <1>2, <1>3, <2>2 DEF TypeOK, Register
<1>6. LastOneCounts'
  <2>1. DOMAIN creators' = {TypeName(q) : q \in Range(built')}
    BY <1>3, <1>4 DEF LastOneCounts
  <2>2. ASSUME NEW i \in 1 .. n,
               \A j \in 1 .. n : j > i => TypeName(built'[j]) # TypeName(built'[i])
        PROVE  creators'[TypeName(built'[i])] = Class[built'[i]]
    <3>1. CASE i = n
      BY <1>1, <1>3, <3>1
    <3>2. CASE i # n
      <4>1. i \in 1 .. n - 1 /\ TypeName(built[i]) # TypeName(r)
        BY <1>1, <2>2, <3>2
      <4>2. \A j \in 1 .. n - 1 : j > i => TypeName(built[j]) # TypeName(built[i])
        BY <1>1, <2>2, <4>1
      <4>3. creators[TypeName(built[i])] = Class[built[i]]
        BY <1>1, <4>1, <4>2 DEF LastOneCounts
      <4>4. TypeName(built[i]) \in DOMAIN creators
        BY <1>1, <4>1 DEF LastOneCounts, Range
      <4> QED BY <1>1, <1>3, <4>1, <4>3, <4>4
    <3> QED BY <3>1, <3>2
  <2> QED BY <1>1, <2>1, <2>2 DEF LastOneCounts, TypeName
<1> QED BY <1>5, <1>6

\* A call of create_message leaves the map alone.
LEMMA CreateIInv ==
  ASSUME IInv, NEW t \in Types, CreateMessage(t)
  PROVE  IInv'
BY DEF IInv, TypeOK, LastOneCounts, CreateMessage, TypeName

LEMMA NextIInv == IInv /\ [Next]_vars => IInv'
<1>1. ASSUME IInv, UNCHANGED vars PROVE IInv'
  BY <1>1 DEF IInv, TypeOK, LastOneCounts, vars, TypeName
<1> QED BY <1>1, RegisterIInv, CreateIInv DEF Next

LEMMA Invariance == Spec => []IInv
BY InitIInv, NextIInv, PTL DEF Spec

\* The map never holds anything but creators of registered classes under their
\* own names: a name that create_message has refused leaves no trace.
THEOREM FactoryTypeCorrect == Spec => []TypeOK
BY Invariance, PTL DEF IInv

\* In every order of initialisation a name stands for the class that was
\* registered under it last.
THEOREM RegistryCorrect == Spec => []LastOneCounts
BY Invariance, PTL DEF IInv

\* create_message creates a message of the class that its name stands for, or
\* throws if no static variable initialised so far has this name.
THEOREM CreationCorrect == Spec => CreatesNamed
<1> DEFINE Created == \A t \in Types : CreateMessage(t) =>
       IF \E r \in Range(built) : TypeName(r) = t
       THEN thrown' = "none" /\ TypeOf[created'] = t
       ELSE thrown' = "runtime_error" /\ created' = Null
<1>1. IInv => Created
  <2> SUFFICES ASSUME IInv, NEW t \in Types, CreateMessage(t)
               PROVE  IF \E r \in Range(built) : TypeName(r) = t
                      THEN thrown' = "none" /\ TypeOf[created'] = t
                      ELSE thrown' = "runtime_error" /\ created' = Null
    OBVIOUS
  <2>1. t \in DOMAIN creators <=> \E r \in Range(built) : TypeName(r) = t
    BY DEF IInv, LastOneCounts
  <2> QED BY <2>1 DEF IInv, TypeOK, CreateMessage
<1>2. Spec => [][Created]_vars
  BY <1>1, Invariance, PTL
<1> QED BY <1>2 DEF CreatesNamed
=============================================================================
