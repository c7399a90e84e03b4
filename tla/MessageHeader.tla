--------------------------- MODULE MessageHeader ---------------------------
(***************************************************************************)
(* comm::messages::message_header: objects that are filled, encoded into   *)
(* their buffer, handed on as bytes, decoded, and used again.  The buffer  *)
(* of 32 bytes is kept as its three parts.  How bytes get from one object  *)
(* to another is the callers' affair: they read and write data().          *)
(***************************************************************************)
EXTENDS Naturals, Sequences

CONSTANTS
  Headers,     \* message_header objects
  Chars, NUL,  \* the characters of strings, and the character '\0'
  TypeSize,    \* type_size_: the bytes for the type, 26 in the code
  Types,       \* strings that callers use as a type
  Lengths, Versions,
  Garbage,     \* other contents of a buffer: uninitialised, or from elsewhere
  NoMessage    \* not the encoding of a message

\* Numbers of two and of four bytes, uint16_t and uint32_t.
UInt16 == {n \in Nat : n \div 256 < 256}
UInt32 == {n \in Nat : ((n \div 256) \div 256) \div 256 < 256}

\* The types that leave room for their end, and the messages that have one.
Strings == Seq(Chars \cup {NUL})
Fitting == {t \in Strings : Len(t) < TypeSize}
Messages == [type : Fitting, length : UInt32, version : UInt16]

\* data_, as the parts at length_offset_, version_offset_ and type_offset_.
Buffers ==
  [length : [1 .. 4 -> 0 .. 255], version : [1 .. 2 -> 0 .. 255],
   type : [1 .. TypeSize -> Chars \cup {NUL}]]

ASSUME SizeAssumption == TypeSize \in Nat \ {0}
ASSUME StringsAssumption == NUL \notin Chars /\ Types \subseteq Strings
ASSUME NumbersAssumption ==
  Lengths \subseteq UInt32 /\ 0 \in Lengths /\ Versions \subseteq UInt16 /\ 1 \in Versions
ASSUME GarbageAssumption == Garbage \subseteq Buffers
ASSUME NoMessageAssumption == NoMessage \notin Messages

VARIABLES
  type, length, version,  \* message_type_, message_length_, message_version_
  data,                   \* data_
  thrown,                 \* what the last call has thrown, or "none"
  sent                    \* sent[h]: the message whose encoding is in data[h]

fields == <<type, length, version>>
vars == <<type, length, version, data, thrown, sent>>

\* data_ has no initializer.
Init ==
  /\ type = [h \in Headers |-> <<>>]
  /\ length = [h \in Headers |-> 0] /\ version = [h \in Headers |-> 1]
  /\ data \in [Headers -> Garbage]
  /\ thrown = "none"
  /\ sent = [h \in Headers |-> NoMessage]

Message(h) == [type |-> type[h], length |-> length[h], version |-> version[h]]

-----------------------------------------------------------------------------
(* The setters.                                                             *)

\* Variant: the terminator is forgotten.
SetType_OffByOne(h, t) ==
  /\ IF Len(t) > TypeSize
     THEN thrown' = "logic_error" /\ UNCHANGED type
     ELSE thrown' = "none" /\ type' = [type EXCEPT ![h] = t]
  /\ UNCHANGED <<length, version, data, sent>>

\* message_type(t)
SetType(h, t) ==
  /\ IF Len(t) >= TypeSize
     THEN thrown' = "logic_error" /\ UNCHANGED type
     ELSE thrown' = "none" /\ type' = [type EXCEPT ![h] = t]
  /\ UNCHANGED <<length, version, data, sent>>

SetLength(h, l) ==
  /\ length' = [length EXCEPT ![h] = l]
  /\ thrown' = "none" /\ UNCHANGED <<type, version, data, sent>>

SetVersion(h, v) ==
  /\ version' = [version EXCEPT ![h] = v]
  /\ thrown' = "none" /\ UNCHANGED <<type, length, data, sent>>

-----------------------------------------------------------------------------
(* The codec.                                                               *)

\* native_to_big and back.
Big4(n) ==
  <<((n \div 256) \div 256) \div 256, ((n \div 256) \div 256) % 256,
    (n \div 256) % 256, n % 256>>
Big2(n) == <<n \div 256, n % 256>>
Shift(n, b) == 256 * n + b
Native4(b) == Shift(Shift(Shift(b[1], b[2]), b[3]), b[4])
Native2(b) == Shift(b[1], b[2])

\* std::fill with '\0', and the characters of t on top.
Padded(t) == [i \in 1 .. TypeSize |-> IF i <= Len(t) THEN t[i] ELSE NUL]

Encoded(m) ==
  [length |-> Big4(m.length), version |-> Big2(m.version), type |-> Padded(m.type)]

\* Variant: the rest of the type field is left as it is.
Encode_NoFill(h) ==
  /\ IF type[h] = <<>>
     THEN thrown' = "logic_error" /\ UNCHANGED <<data, sent>>
     ELSE /\ thrown' = "none"
          /\ sent' = [sent EXCEPT ![h] = Message(h)]
          /\ data' = [data EXCEPT ![h] = [Encoded(Message(h)) EXCEPT
               !.type = [i \in 1 .. TypeSize |->
                           IF i <= Len(type[h]) THEN type[h][i] ELSE data[h].type[i]]]]
  /\ UNCHANGED fields

\* Variant: the type is looked at when its turn comes.
Encode_LateCheck(h) ==
  /\ IF type[h] = <<>>
     THEN /\ thrown' = "logic_error" /\ UNCHANGED sent
          /\ data' = [data EXCEPT ![h] = [Encoded(Message(h)) EXCEPT !.type = data[h].type]]
     ELSE /\ thrown' = "none"
          /\ sent' = [sent EXCEPT ![h] = Message(h)]
          /\ data' = [data EXCEPT ![h] = Encoded(Message(h))]
  /\ UNCHANGED fields

\* encode_header()
Encode(h) ==
  /\ IF type[h] = <<>>
     THEN thrown' = "logic_error" /\ UNCHANGED <<data, sent>>
     ELSE /\ thrown' = "none"
          /\ sent' = [sent EXCEPT ![h] = Message(h)]
          /\ data' = [data EXCEPT ![h] = Encoded(Message(h))]
  /\ UNCHANGED fields

\* The characters up to the first NUL, where there is one.
Terminated(f) == \E i \in 1 .. TypeSize : f[i] = NUL
FirstNul(f) ==
  CHOOSE i \in 1 .. TypeSize : f[i] = NUL /\ \A j \in 1 .. i - 1 : f[j] # NUL
Text(f) == [i \in 1 .. FirstNul(f) - 1 |-> f[i]]

\* decode_header(): length and version are replaced before the type is found
\* to have no end.
Decode(h) ==
  /\ length' = [length EXCEPT ![h] = Native4(data[h].length)]
  /\ version' = [version EXCEPT ![h] = Native2(data[h].version)]
  /\ IF Terminated(data[h].type)
     THEN thrown' = "none" /\ type' = [type EXCEPT ![h] = Text(data[h].type)]
     ELSE thrown' = "runtime_error" /\ UNCHANGED type
  /\ UNCHANGED <<data, sent>>

\* A caller overwrites data() with what it has received: the data() of another
\* object, or bytes from elsewhere.
Receive(h) ==
  /\ \/ \E g \in Headers \ {h} :
          /\ data' = [data EXCEPT ![h] = data[g]]
          /\ sent' = [sent EXCEPT ![h] = sent[g]]
     \/ \E b \in Garbage :
          /\ data' = [data EXCEPT ![h] = b]
          /\ sent' = [sent EXCEPT ![h] = NoMessage]
  /\ UNCHANGED <<type, length, version, thrown>>

Next == \E h \in Headers :
  \/ \E t \in Types : SetType(h, t)
  \/ \E l \in Lengths : SetLength(h, l)
  \/ \E v \in Versions : SetVersion(h, v)
  \/ Encode(h) \/ Decode(h) \/ Receive(h)

Spec == Init /\ [][Next]_vars

-----------------------------------------------------------------------------

\* The fields of a header are always such that they can be encoded: a type that
\* leaves room for its end, also after decoding bytes from elsewhere.
TypeOK ==
  /\ type \in [Headers -> Fitting]
  /\ length \in [Headers -> UInt32] /\ version \in [Headers -> UInt16]
  /\ data \in [Headers -> Buffers]
  /\ thrown \in {"none", "logic_error", "runtime_error"}
  /\ sent \in [Headers -> {NoMessage} \cup Messages]

\* data_ holds one whole message, that of the last call of encode_header that
\* did not throw (or of the object it was copied from): the failing calls leave
\* it as it was.
DataIsWhole == \A h \in Headers : sent[h] # NoMessage => data[h] = Encoded(sent[h])

\* What was encoded is what is decoded, whatever the two headers were used for
\* before, a failed decode included; only a type with a NUL in it is cut.
ReceivedAsSent ==
  [][\A h \in Headers : Decode(h) /\ sent[h] # NoMessage =>
       /\ thrown' = "none"
       /\ length'[h] = sent[h].length /\ version'[h] = sent[h].version
       /\ sent[h].type \in Seq(Chars) => type'[h] = sent[h].type]_vars
=============================================================================
