------------------------ MODULE MessageHeader_proofs ------------------------
(***************************************************************************)
(* Proofs about the codec of message headers: for every length, version,   *)
(* size of the type field and alphabet.                                    *)
(***************************************************************************)
EXTENDS MessageHeader, WellFoundedInduction, TLAPS

-----------------------------------------------------------------------------
(* The numbers.                                                             *)

\* Division by 256, as the prover needs it.
LEMMA DivMod ==
  ASSUME NEW n \in Nat
  PROVE  n \div 256 \in Nat /\ n % 256 \in 0 .. 255 /\ n = Shift(n \div 256, n % 256)
<1> DEFINE q == n \div 256
           r == n % 256
<1>1. q \in Nat /\ r \in 0 .. 255
  OBVIOUS
<1>2. r = n - 256 * q
  OBVIOUS
<1> HIDE DEF q, r
<1>3. n = Shift(q, r)
  BY <1>1, <1>2 DEF Shift
<1> USE DEF q, r
<1>4. n \div 256 \in Nat
  OBVIOUS
<1>5. n % 256 \in 0 .. 255
  OBVIOUS
<1>6. n = Shift(n \div 256, n % 256)
  BY <1>3, Zenon
<1> QED BY <1>4, <1>5, <1>6, Zenon

\* A byte more.
LEMMA ShiftDiv ==
  ASSUME NEW n \in Nat, NEW b \in 0 .. 255
  PROVE  Shift(n, b) \in Nat /\ Shift(n, b) \div 256 = n
BY DEF Shift

\* Four bytes in the order of the network, and back.
LEMMA Big4Native ==
  ASSUME NEW n \in UInt32
  PROVE  Big4(n) \in [1 .. 4 -> 0 .. 255] /\ Native4(Big4(n)) = n
<1>1. n \in Nat /\ ((n \div 256) \div 256) \div 256 < 256
  BY DEF UInt32
<1> DEFINE q1 == n \div 256
           q2 == q1 \div 256
           q3 == q2 \div 256
           r0 == n % 256
           r1 == q1 % 256
           r2 == q2 % 256
           b  == <<q3, r2, r1, r0>>
<1>2. q1 \in Nat /\ r0 \in 0 .. 255 /\ n = Shift(q1, r0)
  BY <1>1, DivMod, Zenon
<1>3. q2 \in Nat /\ r1 \in 0 .. 255 /\ q1 = Shift(q2, r1)
  <2> HIDE DEF q1
  <2> QED BY <1>2, DivMod, Zenon
<1>4. q3 \in Nat /\ r2 \in 0 .. 255 /\ q2 = Shift(q3, r2)
  <2> HIDE DEF q1, q2
  <2> QED BY <1>3, DivMod, Zenon
<1>5. q3 \in 0 .. 255
  <2>1. q3 < 256
    BY <1>1
  <2> HIDE DEF q3
  <2> QED BY <1>4, <2>1
<1>6. Big4(n) = b
  BY DEF Big4
<1> HIDE DEF q1, q2, q3, r0, r1, r2
<1>7. b \in [1 .. 4 -> 0 .. 255] /\ b[1] = q3 /\ b[2] = r2 /\ b[3] = r1 /\ b[4] = r0
  BY <1>2, <1>3, <1>4, <1>5, SMTT(60)
<1> HIDE DEF b
<1>8. Native4(b) = n
  BY <1>2, <1>3, <1>4, <1>7, Zenon DEF Native4
<1> QED BY <1>6, <1>7, <1>8

\* Two bytes likewise.
LEMMA Big2Native ==
  ASSUME NEW n \in UInt16
  PROVE  Big2(n) \in [1 .. 2 -> 0 .. 255] /\ Native2(Big2(n)) = n
<1>1. n \in Nat /\ n \div 256 < 256
  BY DEF UInt16
<1> DEFINE q == n \div 256
           r == n % 256
           b == <<q, r>>
<1>2. q \in Nat /\ r \in 0 .. 255 /\ n = Shift(q, r)
  BY <1>1, DivMod, Zenon
<1>3. Big2(n) = b
  BY DEF Big2
<1>4. q < 256
  BY <1>1
<1> HIDE DEF q, r
<1>5. q \in 0 .. 255 /\ r \in 0 .. 255
  BY <1>2, <1>4
<1>6. b \in [1 .. 2 -> 0 .. 255] /\ b[1] = q /\ b[2] = r
  BY <1>5, SMTT(60)
<1> HIDE DEF b
<1>7. Native2(b) = n
  BY <1>2, <1>6, Zenon DEF Native2
<1> QED BY <1>3, <1>6, <1>7, Zenon

\* Bytes from anywhere are numbers of the right width.
LEMMA NativeRange ==
  /\ \A b \in [1 .. 4 -> 0 .. 255] : Native4(b) \in UInt32
  /\ \A b \in [1 .. 2 -> 0 .. 255] : Native2(b) \in UInt16
<1>1. ASSUME NEW b \in [1 .. 4 -> 0 .. 255]
      PROVE  Native4(b) \in UInt32
  <2> DEFINE m1 == Shift(b[1], b[2])
             m2 == Shift(m1, b[3])
             m3 == Shift(m2, b[4])
  <2>1. b[1] \in 0 .. 255 /\ b[2] \in 0 .. 255 /\ b[3] \in 0 .. 255 /\ b[4] \in 0 .. 255
        /\ b[1] \in Nat
    OBVIOUS
  <2>2. m1 \in Nat /\ m1 \div 256 = b[1]
    BY <2>1, ShiftDiv, Zenon
  <2>3. m2 \in Nat /\ m2 \div 256 = m1
    BY <2>1, <2>2, ShiftDiv
  <2>4. m3 \in Nat /\ m3 \div 256 = m2
    BY <2>1, <2>3, ShiftDiv
  <2>5. Native4(b) = m3
    BY DEF Native4
  <2> HIDE DEF m1, m2, m3
  <2> QED BY <2>1, <2>2, <2>3, <2>4, <2>5 DEF UInt32
<1>2. ASSUME NEW b \in [1 .. 2 -> 0 .. 255]
      PROVE  Native2(b) \in UInt16
  <2>1. b[1] \in 0 .. 255 /\ b[2] \in 0 .. 255 /\ b[1] \in Nat
    OBVIOUS
  <2>2. Shift(b[1], b[2]) \in Nat /\ Shift(b[1], b[2]) \div 256 = b[1]
    BY <2>1, ShiftDiv, Zenon
  <2> QED BY <2>1, <2>2 DEF Native2, UInt16
<1> QED BY <1>1, <1>2

-----------------------------------------------------------------------------
(* The type field.                                                          *)

\* A field with an end has a first one, and the text before it has no NUL.
LEMMA FirstNulIs ==
  ASSUME NEW f \in [1 .. TypeSize -> Chars \cup {NUL}], NEW i \in 1 .. TypeSize,
         f[i] = NUL, \A j \in 1 .. i - 1 : f[j] # NUL
  PROVE  FirstNul(f) = i
<1> DEFINE P(k) == f[k] = NUL /\ \A j \in 1 .. k - 1 : f[j] # NUL
<1>1. P(i)
  OBVIOUS
<1>2. \A k \in 1 .. TypeSize : P(k) => k = i
  BY SizeAssumption
<1>3. FirstNul(f) = CHOOSE k \in 1 .. TypeSize : P(k)
  BY DEF FirstNul
<1> HIDE DEF P
<1> QED BY <1>1, <1>2, <1>3

\* A type without a NUL comes back from its field.
LEMMA TextPadded ==
  ASSUME NEW t \in Seq(Chars), Len(t) < TypeSize
  PROVE  Terminated(Padded(t)) /\ Text(Padded(t)) = t
<1> DEFINE f == Padded(t)
           n == Len(t) + 1
<1>1. f \in [1 .. TypeSize -> Chars \cup {NUL}]
  BY SizeAssumption DEF Padded
<1>2. n \in 1 .. TypeSize /\ f[n] = NUL
  BY SizeAssumption DEF Padded
<1>3. \A j \in 1 .. n - 1 : f[j] = t[j] /\ f[j] # NUL
  BY SizeAssumption, StringsAssumption DEF Padded
<1>4. FirstNul(f) = n
  BY <1>1, <1>2, <1>3, FirstNulIs
<1>5. Text(f) = [j \in 1 .. Len(t) |-> t[j]]
  BY <1>3, <1>4 DEF Text
<1> QED BY <1>2, <1>5 DEF Terminated

\* The text of a field with an end is a string that leaves room for the end.
LEMMA TextIs ==
  ASSUME NEW f \in [1 .. TypeSize -> Chars \cup {NUL}], Terminated(f)
  PROVE  Text(f) \in Strings /\ Len(Text(f)) < TypeSize
<1> DEFINE Ends == {i \in 1 .. TypeSize : f[i] = NUL}
           Below == {p \in Nat \X Nat : p[1] < p[2]}
<1>1. Ends # {} /\ Ends \subseteq Nat
  BY SizeAssumption DEF Terminated
<1>2. IsWellFoundedOn(Below, Nat)
  BY NatLessThanWellFounded DEF OpToRel
<1>3. PICK i \in Ends : \A j \in Ends : ~ (<<j, i>> \in Below)
  <2> HIDE DEF Ends, Below
  <2> QED BY <1>1, <1>2, WFMin
<1>4. \A j \in Ends : ~ (j < i)
  BY <1>1, <1>3
<1>5. i \in 1 .. TypeSize /\ f[i] = NUL /\ \A j \in 1 .. i - 1 : f[j] # NUL
  BY <1>3, <1>4, SizeAssumption
<1>6. FirstNul(f) = i
  BY <1>5, FirstNulIs
<1>7. Text(f) = [j \in 1 .. i - 1 |-> f[j]]
  BY <1>6 DEF Text
<1>8. i - 1 \in Nat /\ i - 1 < TypeSize /\ \A j \in 1 .. i - 1 : f[j] \in Chars \cup {NUL}
  BY <1>5, SizeAssumption
<1> QED BY <1>7, <1>8 DEF Strings
-----------------------------------------------------------------------------
(* The steps.                                                               *)

\* What encode_header writes fits the buffer, and decode_header reads it back.
LEMMA RoundTrip ==
  ASSUME NEW m \in Messages
  PROVE  /\ Encoded(m) \in Buffers
         /\ Native4(Encoded(m).length) = m.length
         /\ Native2(Encoded(m).version) = m.version
         /\ Terminated(Encoded(m).type)
         /\ m.type \in Seq(Chars) => Text(Encoded(m).type) = m.type
<1>1. m.length \in UInt32 /\ m.version \in UInt16 /\ m.type \in Strings
      /\ Len(m.type) < TypeSize
  BY DEF Messages, Fitting
<1>2. Padded(m.type) \in [1 .. TypeSize -> Chars \cup {NUL}]
  BY <1>1, SizeAssumption DEF Padded, Strings
<1>3. Terminated(Padded(m.type))
  BY <1>1, SizeAssumption DEF Padded, Strings, Terminated
<1> QED BY <1>1, <1>2, <1>3, Big4Native, Big2Native, TextPadded DEF Encoded, Buffers

\* What every object holds at all times: together, the induction hypothesis.
IInv == TypeOK /\ DataIsWhole

LEMMA InitIInv ==
  Init => IInv
<1> SUFFICES ASSUME Init PROVE IInv
  OBVIOUS
<1>1. <<>> \in Fitting
  BY SizeAssumption DEF Fitting, Strings
<1>2. \A n \in {0, 1} : n \in UInt32 /\ n \in UInt16
  BY NumbersAssumption DEF UInt32, UInt16
<1>3. TypeOK
  BY <1>1, <1>2, GarbageAssumption DEF Init, TypeOK
<1>4. DataIsWhole
  BY DEF Init, DataIsWhole
<1> QED BY <1>3, <1>4 DEF IInv

\* The messages of objects whose fields have their types.
LEMMA MessageOf ==
  ASSUME TypeOK, NEW h \in Headers
  PROVE  Message(h) \in Messages
BY DEF TypeOK, Message, Messages

LEMMA NextIInv ==
  IInv /\ [Next]_vars => IInv'
<1> SUFFICES ASSUME IInv, [Next]_vars PROVE IInv'
  OBVIOUS
<1> USE DEF IInv
<1>1. ASSUME NEW h \in Headers, NEW t \in Types, SetType(h, t)
      PROVE  IInv'
  <2>1. Len(t) < TypeSize => t \in Fitting
    BY StringsAssumption DEF Fitting
  <2>2. Len(t) \in Nat
    BY StringsAssumption DEF Strings
  <2> QED BY <1>1, <2>1, <2>2, SizeAssumption DEF SetType, TypeOK, DataIsWhole
<1>2. ASSUME NEW h \in Headers, NEW l \in Lengths, SetLength(h, l)
      PROVE  IInv'
  BY <1>2, NumbersAssumption DEF SetLength, TypeOK, DataIsWhole
<1>3. ASSUME NEW h \in Headers, NEW v \in Versions, SetVersion(h, v)
      PROVE  IInv'
  BY <1>3, NumbersAssumption DEF SetVersion, TypeOK, DataIsWhole
<1>4. ASSUME NEW h \in Headers, Encode(h)
      PROVE  IInv'
  <2>1. Message(h) \in Messages /\ Encoded(Message(h)) \in Buffers
    BY MessageOf, RoundTrip
  <2>2. TypeOK'
    BY <1>4, <2>1 DEF Encode, fields, TypeOK
  <2>3. DataIsWhole'
    BY <1>4 DEF Encode, TypeOK, DataIsWhole
  <2> QED BY <2>2, <2>3
<1>5. ASSUME NEW h \in Headers, Decode(h)
      PROVE  IInv'
  <2>1. data[h] \in Buffers
    BY DEF TypeOK
  <2>2. Native4(data[h].length) \in UInt32 /\ Native2(data[h].version) \in UInt16
    BY <2>1, NativeRange DEF Buffers
  <2>3. Terminated(data[h].type) => Text(data[h].type) \in Fitting
    BY <2>1, TextIs DEF Buffers, Fitting
  <2>4. TypeOK'
    BY <1>5, <2>2, <2>3 DEF Decode, TypeOK
  <2>5. DataIsWhole'
    BY <1>5 DEF Decode, DataIsWhole
  <2> QED BY <2>4, <2>5
<1>6. ASSUME NEW h \in Headers, Receive(h)
      PROVE  IInv'
  <2>1. TypeOK'
    BY <1>6, GarbageAssumption DEF Receive, TypeOK
  <2>2. DataIsWhole'
    BY <1>6 DEF Receive, TypeOK, DataIsWhole
  <2> QED BY <2>1, <2>2
<1>7. CASE UNCHANGED vars
  BY <1>7 DEF vars, TypeOK, DataIsWhole
<1> QED BY <1>1, <1>2, <1>3, <1>4, <1>5, <1>6, <1>7 DEF Next

LEMMA Invariance == Spec => []IInv
BY InitIInv, NextIInv, PTL DEF Spec

\* Every header can be encoded without cutting its type, also one whose fields
\* come from a decode_header of bytes from elsewhere that succeeded, or failed
\* half way (message_header.cpp:36).
THEOREM HeaderTypeCorrect == Spec => []TypeOK
BY Invariance, PTL DEF IInv

\* A buffer holds one whole message: the failing calls of encode_header
\* (message_header.cpp:18) write nothing.
THEOREM BufferCorrect == Spec => []DataIsWhole
BY Invariance, PTL DEF IInv

\* decode_header reads what encode_header has written, whatever the two objects
\* were used for before: all lengths and versions, all types without a NUL.
THEOREM CodecCorrect ==
  Spec => ReceivedAsSent
<1>1. ASSUME IInv, NEW h \in Headers, Decode(h), sent[h] # NoMessage
      PROVE  /\ thrown' = "none"
             /\ length'[h] = sent[h].length /\ version'[h] = sent[h].version
             /\ sent[h].type \in Seq(Chars) => type'[h] = sent[h].type
  <2>1. sent[h] \in Messages /\ data[h] = Encoded(sent[h])
    BY <1>1 DEF IInv, TypeOK, DataIsWhole
  <2> QED BY <1>1, <2>1, RoundTrip DEF Decode, IInv, TypeOK
<1> DEFINE Received == \A h \in Headers : Decode(h) /\ sent[h] # NoMessage =>
       /\ thrown' = "none"
       /\ length'[h] = sent[h].length /\ version'[h] = sent[h].version
       /\ sent[h].type \in Seq(Chars) => type'[h] = sent[h].type
<1>2. IInv => Received
  BY <1>1
<1>3. Spec => [][Received]_vars
  BY <1>2, Invariance, PTL
<1> QED BY <1>3 DEF ReceivedAsSent
=============================================================================
