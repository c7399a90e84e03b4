-------------------------- MODULE SessionId_proofs --------------------------
(***************************************************************************)
(* Proofs about session::id(), for any sessions and any texts of           *)
(* addresses.                                                              *)
(***************************************************************************)
EXTENDS SessionId, SequenceTheorems, WellFoundedInduction, TLAPS

-----------------------------------------------------------------------------
(* Induction, over numbers and over texts, with a set for what is proved.   *)

\* Induction over numbers: the least number outside X has a predecessor in X.
LEMMA NatInSet ==
  ASSUME NEW X, 0 \in X, \A n \in Nat : n \in X => n + 1 \in X
  PROVE  Nat \subseteq X
<1> DEFINE Rest  == {n \in Nat : n \notin X}
           Below == {p \in Nat \X Nat : p[1] < p[2]}
<1> SUFFICES ASSUME Rest # {} PROVE FALSE
  OBVIOUS
<1>1. IsWellFoundedOn(Below, Nat)
  BY NatLessThanWellFounded DEF OpToRel
<1>2. PICK n \in Rest : \A m \in Rest : ~ (<<m, n>> \in Below)
  <2>1. Rest \subseteq Nat
    OBVIOUS
  <2> HIDE DEF Rest, Below
  <2> QED BY <1>1, <2>1, WFMin
<1>3. n \in Nat /\ n # 0
  OBVIOUS
<1>4. n - 1 \in Nat /\ <<n - 1, n>> \in Below
  BY <1>3
<1>5. n - 1 \in X
  BY <1>2, <1>4
<1>6. (n - 1) + 1 \in X
  BY <1>4, <1>5
<1> QED BY <1>3, <1>6

Text == Seq(Chars)

\* Induction over texts, by their length.
LEMMA TextInSet ==
  ASSUME NEW X, <<>> \in X,
         \A s \in Text : \A c \in Chars : s \in X => Append(s, c) \in X
  PROVE  Text \subseteq X
<1> DEFINE L == {n \in Nat : \A t \in Text : Len(t) = n => t \in X}
<1>1. 0 \in L
  <2>1. \A t \in Text : Len(t) = 0 => t = <<>>
    BY EmptySeq DEF Text
  <2> QED BY <2>1
<1>2. ASSUME NEW n \in Nat, n \in L PROVE n + 1 \in L
  <2> SUFFICES ASSUME NEW t \in Text, Len(t) = n + 1 PROVE t \in X
    OBVIOUS
  <2>1. t # <<>>
    BY EmptySeq DEF Text
  <2>2. PICK s \in Text, c \in Chars : t = Append(s, c)
    BY <2>1, SequenceEmptyOrAppend DEF Text
  <2>3. Len(s) \in Nat /\ Len(t) = Len(s) + 1
    BY <2>2, AppendProperties, LenProperties DEF Text
  <2>4. s \in X
    BY <1>2, <2>3
  <2> QED BY <2>2, <2>4
<1>3. Nat \subseteq L
  <2> HIDE DEF L
  <2> QED BY <1>1, <1>2, NatInSet
<1> SUFFICES ASSUME NEW t \in Text PROVE t \in X
  OBVIOUS
<1>4. Len(t) \in Nat
  BY LenProperties DEF Text
<1> QED BY <1>3, <1>4

\* Sequences that are short, and sequences with one element more.
LEMMA ShortSeq ==
  ASSUME NEW S, NEW a \in S, NEW b \in S, NEW c \in S
  PROVE  <<a>> \in Seq(S) /\ <<a, b, c>> \in Seq(S)
OBVIOUS

\* The length, the domain and the elements of a sequence with one element more.
LEMMA AppendFacts ==
  ASSUME NEW S, NEW s \in Seq(S), NEW c \in S
  PROVE  /\ Len(s) \in Nat /\ DOMAIN s = 1 .. Len(s)
         /\ \A i \in 1 .. Len(s) : s[i] \in S
         /\ Append(s, c) \in Seq(S) /\ Len(Append(s, c)) = Len(s) + 1
         /\ DOMAIN Append(s, c) = 1 .. Len(s) + 1
         /\ Append(s, c) \in [1 .. Len(s) + 1 -> S]
         /\ \A i \in 1 .. Len(s) : Append(s, c)[i] = s[i]
         /\ Append(s, c)[Len(s) + 1] = c
<1>1. Len(s) \in Nat /\ DOMAIN s = 1 .. Len(s) /\ s \in [1 .. Len(s) -> S]
  BY LenProperties
<1>2. /\ Append(s, c) \in Seq(S) /\ Len(Append(s, c)) = Len(s) + 1
      /\ \A i \in 1 .. Len(s) : Append(s, c)[i] = s[i]
      /\ Append(s, c)[Len(s) + 1] = c
  BY <1>1, AppendProperties
<1>3. DOMAIN Append(s, c) = 1 .. Len(s) + 1 /\ Append(s, c) \in [1 .. Len(s) + 1 -> S]
  BY <1>2, LenProperties
<1> QED BY <1>1, <1>2, <1>3

-----------------------------------------------------------------------------
(* FlattenSeq: what its recursive function computes.                        *)

IsFlat(f, s) == f = [i \in 1 .. Len(s) |-> IF i = 1 THEN s[i] ELSE f[i-1] \o s[i]]

\* The function agrees with itself on sequences that begin alike.
LEMMA FlatUnique ==
  ASSUME NEW s \in Seq(Text), NEW t \in Seq(Text), Len(s) <= Len(t),
         \A i \in 1 .. Len(s) : s[i] = t[i],
         NEW f, IsFlat(f, s), NEW g, IsFlat(g, t)
  PROVE  \A i \in 1 .. Len(s) : f[i] = g[i] /\ f[i] \in Text
<1> DEFINE X == {n \in Nat : n \in 1 .. Len(s) => f[n] = g[n] /\ f[n] \in Text}
<1>1. Len(s) \in Nat /\ Len(t) \in Nat /\ \A i \in 1 .. Len(s) : s[i] \in Text
  BY LenProperties, ElementOfSeq
<1>2. 0 \in X
  BY <1>1
<1>3. ASSUME NEW n \in Nat, n \in X PROVE n + 1 \in X
  <2> SUFFICES ASSUME n + 1 \in 1 .. Len(s)
               PROVE  f[n+1] = g[n+1] /\ f[n+1] \in Text
    OBVIOUS
  <2>1. /\ f[n+1] = IF n + 1 = 1 THEN s[n+1] ELSE f[n] \o s[n+1]
        /\ g[n+1] = IF n + 1 = 1 THEN t[n+1] ELSE g[n] \o t[n+1]
    <3>1. (n + 1) - 1 = n /\ n + 1 \in 1 .. Len(t)
      BY <1>1
    <3> QED BY <3>1 DEF IsFlat
  <2>2. s[n+1] = t[n+1] /\ s[n+1] \in Text
    BY <1>1
  <2>3. CASE n = 0
    BY <2>1, <2>2, <2>3
  <2>4. CASE n # 0
    <3>1. f[n] = g[n] /\ f[n] \in Text
      BY <1>1, <1>3, <2>4
    <3>2. f[n] \o s[n+1] \in Text
      BY <2>2, <3>1, ConcatProperties DEF Text
    <3> QED BY <2>1, <2>2, <2>4, <3>1, <3>2
  <2> QED BY <2>3, <2>4
<1>4. Nat \subseteq X
  <2> HIDE DEF X
  <2> QED BY <1>2, <1>3, NatInSet
<1> QED BY <1>1, <1>4

\* There is a function as FlattenSeq defines it, for every sequence of texts.
LEMMA FlatExists ==
  ASSUME NEW s \in Seq(Text)
  PROVE  \E f : IsFlat(f, s)
<1> DEFINE Upto(f, n) ==
             f = [i \in 1 .. n |-> IF i = 1 THEN s[i] ELSE f[i-1] \o s[i]]
           X == {n \in Nat : \E f : Upto(f, n)}
<1>1. 0 \in X
  <2>1. Upto([i \in 1 .. 0 |-> i], 0)
    OBVIOUS
  <2> QED BY <2>1
<1>2. ASSUME NEW n \in Nat, n \in X PROVE n + 1 \in X
  <2>1. PICK f : Upto(f, n)
    BY <1>2
  <2> DEFINE e == IF n = 0 THEN s[1] ELSE f[n] \o s[n+1]
             g == [i \in 1 .. n + 1 |-> IF i = n + 1 THEN e ELSE f[i]]
  <2>2. ASSUME NEW i \in 1 .. n + 1
        PROVE  g[i] = IF i = 1 THEN s[i] ELSE g[i-1] \o s[i]
    <3>1. CASE i = n + 1 /\ n = 0
      BY <3>1
    <3>2. CASE i = n + 1 /\ n # 0
      <4>1. n \in 1 .. n + 1 /\ i - 1 = n /\ n # n + 1 /\ i # 1
        BY <3>2
      <4>2. g[n] = f[n] /\ g[i] = f[n] \o s[n+1]
        BY <3>2, <4>1
      <4> QED BY <3>2, <4>1, <4>2
    <3>3. CASE i # n + 1
      <4>1. i \in 1 .. n /\ g[i] = f[i]
        BY <3>3
      <4>2. f[i] = IF i = 1 THEN s[i] ELSE f[i-1] \o s[i]
        BY <2>1, <4>1
      <4>3. i # 1 => i - 1 \in 1 .. n /\ i - 1 \in 1 .. n + 1 /\ i - 1 # n + 1
        BY <4>1
      <4>4. i # 1 => g[i-1] = f[i-1]
        BY <4>3
      <4> QED BY <4>1, <4>2, <4>4
    <3> QED BY <3>1, <3>2, <3>3
  <2>3. g = [i \in 1 .. n + 1 |-> g[i]]
    OBVIOUS
  <2>4. Upto(g, n + 1)
    <3> HIDE DEF g
    <3> QED BY <2>2, <2>3
  <2>5. \E h : Upto(h, n + 1)
    <3> HIDE DEF g, Upto
    <3> QED BY <2>4
  <2> QED
    <3> HIDE DEF Upto
    <3> QED BY <2>5
<1>3. Nat \subseteq X
  <2> HIDE DEF X
  <2> QED BY <1>1, <1>2, NatInSet
<1>4. Len(s) \in Nat
  BY LenProperties
<1>5. \E f : Upto(f, Len(s))
  BY <1>3, <1>4
<1> QED BY <1>5 DEF IsFlat

Flatten(s) == CHOOSE f : f = [i \in 1 .. Len(s) |-> IF i = 1 THEN s[i] ELSE f[i-1] \o s[i]]

\* FlattenSeq is the last value of that function.
LEMMA FlattenSeqIs ==
  ASSUME NEW s \in Seq(Text), s # <<>>
  PROVE  FlattenSeq(s) = Flatten(s)[Len(s)] /\ IsFlat(Flatten(s), s)
<1>1. Len(s) # 0
  BY EmptySeq
<1>2. FlattenSeq(s) = Flatten(s)[Len(s)]
  BY <1>1 DEF FlattenSeq, Flatten
<1>3. IsFlat(Flatten(s), s)
  BY FlatExists DEF IsFlat, Flatten
<1> QED BY <1>2, <1>3

\* FlattenSeq, one sequence at a time.
LEMMA FlattenAppend ==
  ASSUME NEW s \in Seq(Text), NEW x \in Text
  PROVE  /\ FlattenSeq(<<>>) = <<>>
         /\ FlattenSeq(s) \in Text
         /\ FlattenSeq(Append(s, x)) = FlattenSeq(s) \o x
<1> DEFINE t == Append(s, x)
<1>1. /\ t \in Seq(Text) /\ t # <<>> /\ Len(s) \in Nat /\ Len(t) = Len(s) + 1
      /\ \A i \in 1 .. Len(s) : s[i] = t[i]
      /\ t[Len(s) + 1] = x
  BY AppendProperties, LenProperties
<1>2. FlattenSeq(<<>>) = <<>>
  BY DEF FlattenSeq
<1>3. FlattenSeq(t) = Flatten(t)[Len(s) + 1] /\ IsFlat(Flatten(t), t)
  <2> HIDE DEF t
  <2> QED BY <1>1, FlattenSeqIs
<1>4. Flatten(t)[Len(s) + 1] = IF Len(s) + 1 = 1 THEN x ELSE Flatten(t)[Len(s)] \o x
  <2>1. Len(s) + 1 \in 1 .. Len(t) /\ (Len(s) + 1) - 1 = Len(s)
    BY <1>1
  <2> HIDE DEF t
  <2> QED BY <1>1, <1>3, <2>1 DEF IsFlat
<1>5. CASE s = <<>>
  <2>1. Len(s) = 0
    BY <1>5
  <2>2. <<>> \o x = x /\ <<>> \in Text
    BY ConcatEmptySeq, EmptySeq DEF Text
  <2>3. FlattenSeq(t) = x
    <3> HIDE DEF t
    <3> QED BY <1>3, <1>4, <2>1
  <2>4. FlattenSeq(s) \o x = x
    BY <1>2, <1>5, <2>2
  <2> QED BY <1>2, <1>5, <2>2, <2>3, <2>4
<1>6. CASE s # <<>>
  <2>1. FlattenSeq(s) = Flatten(s)[Len(s)] /\ IsFlat(Flatten(s), s)
    BY <1>6, FlattenSeqIs
  <2>2. Len(s) \in 1 .. Len(s) /\ Len(s) + 1 # 1
    BY <1>1, <1>6, EmptySeq
  <2>3. Flatten(s)[Len(s)] = Flatten(t)[Len(s)] /\ Flatten(s)[Len(s)] \in Text
    <3> HIDE DEF t
    <3> QED BY <1>1, <1>3, <2>1, <2>2, FlatUnique
  <2> QED BY <1>2, <1>3, <1>4, <2>1, <2>2, <2>3
<1> QED BY <1>5, <1>6

-----------------------------------------------------------------------------
(* Escaped texts.                                                           *)

Code(c) == IF c = "%" THEN <<"%", "2", "5">> ELSE <<c>>
Codes(text) == [i \in DOMAIN text |->
                  IF text[i] = "%" THEN <<"%", "2", "5">> ELSE <<text[i]>>]

\* What a character becomes is a text, and not the empty one.
LEMMA CodeType == \A c \in Chars : Code(c) \in Text /\ Code(c) # <<>>
<1> SUFFICES ASSUME NEW c \in Chars PROVE Code(c) \in Text /\ Code(c) # <<>>
  OBVIOUS
<1>1. "%" \in Chars /\ "2" \in Chars /\ "5" \in Chars
  BY CharsAssumption
<1>2. <<"%", "2", "5">> \in Text /\ <<c>> \in Text
  BY <1>1, ShortSeq DEF Text
<1> QED BY <1>2 DEF Code

\* One character more is one code more.
LEMMA CodesAppend ==
  ASSUME NEW s \in Text, NEW c \in Chars
  PROVE  /\ Codes(s) \in Seq(Text)
         /\ Codes(Append(s, c)) = Append(Codes(s), Code(c))
<1>1. /\ Len(s) \in Nat /\ DOMAIN s = 1 .. Len(s) /\ \A i \in 1 .. Len(s) : s[i] \in Chars
      /\ Append(s, c) \in Text
      /\ DOMAIN Append(s, c) = 1 .. Len(s) + 1
      /\ \A i \in 1 .. Len(s) : Append(s, c)[i] = s[i]
      /\ Append(s, c)[Len(s) + 1] = c
  BY AppendFacts DEF Text
<1>2. \A i \in 1 .. Len(s) : Codes(s)[i] = Code(s[i]) /\ Codes(s)[i] \in Text
  BY <1>1, CodeType DEF Codes, Code
<1>3. Codes(s) \in Seq(Text) /\ Len(Codes(s)) = Len(s)
  <2>1. Codes(s) \in [1 .. Len(s) -> Text]
    BY <1>1, <1>2 DEF Codes
  <2> QED BY <1>1, <2>1
<1>4. Code(c) \in Text
  BY CodeType
<1>5. /\ Append(Codes(s), Code(c)) \in [1 .. Len(s) + 1 -> Text]
      /\ \A i \in 1 .. Len(s) : Append(Codes(s), Code(c))[i] = Codes(s)[i]
      /\ Append(Codes(s), Code(c))[Len(s) + 1] = Code(c)
  <2> HIDE DEF Codes
  <2> QED BY <1>3, <1>4, AppendFacts
<1>6. Codes(Append(s, c)) = [i \in 1 .. Len(s) + 1 |-> Code(Append(s, c)[i])]
  BY <1>1 DEF Codes, Code
<1>7. ASSUME NEW i \in 1 .. Len(s) + 1
      PROVE  Code(Append(s, c)[i]) = Append(Codes(s), Code(c))[i]
  <2>1. CASE i \in 1 .. Len(s)
    BY <1>1, <1>2, <1>5, <2>1
  <2>2. CASE i = Len(s) + 1
    BY <1>1, <1>5, <2>2
  <2>3. i \in 1 .. Len(s) \/ i = Len(s) + 1
    BY <1>1
  <2> HIDE DEF Code, Codes
  <2> QED BY <2>1, <2>2, <2>3, Zenon
<1>8. Codes(Append(s, c)) = Append(Codes(s), Code(c))
  BY <1>5, <1>6, <1>7
<1> QED BY <1>3, <1>8

\* The recursion that Escaped stands for.
LEMMA EscapedAppend ==
  /\ Escaped(<<>>) = <<>>
  /\ \A s \in Text : Escaped(s) \in Text
  /\ \A s \in Text : \A c \in Chars : Escaped(Append(s, c)) = Escaped(s) \o Code(c)
<1>1. \A s : Escaped(s) = FlattenSeq(Codes(s))
  BY DEF Escaped, Codes
<1>2. Codes(<<>>) = <<>>
  BY DEF Codes
<1>3. <<>> \in Text /\ <<>> \in Seq(Text)
  BY EmptySeq DEF Text
<1>4. Escaped(<<>>) = <<>>
  BY <1>1, <1>2, <1>3, FlattenAppend
<1>5. ASSUME NEW s \in Text PROVE Escaped(s) \in Text
  <2>1. "%" \in Chars
    BY CharsAssumption
  <2>2. Codes(s) \in Seq(Text)
    BY <2>1, CodesAppend
  <2> QED BY <1>1, <1>3, <2>2, FlattenAppend
<1>6. ASSUME NEW s \in Text, NEW c \in Chars
      PROVE  Escaped(Append(s, c)) = Escaped(s) \o Code(c)
  <2>1. Codes(s) \in Seq(Text) /\ Code(c) \in Text
    BY CodesAppend, CodeType
  <2>2. FlattenSeq(Append(Codes(s), Code(c))) = FlattenSeq(Codes(s)) \o Code(c)
    BY <2>1, FlattenAppend
  <2> QED BY <1>1, <2>2, CodesAppend
<1> QED BY <1>4, <1>5, <1>6

\* Texts one after the other.
LEMMA TextConcat ==
  /\ \A s, t \in Text : s \o t \in Text
  /\ \A s, t, u \in Text : (s \o t) \o u = s \o (t \o u)
BY ConcatProperties, ConcatAssociative DEF Text

\* A common beginning, or a common end, can be taken away.
LEMMA TextCancel ==
  /\ \A s, t, v \in Text : v \o s = v \o t => s = t
  /\ \A s, t, v \in Text : s \o v = t \o v => s = t
BY ConcatSimplifications DEF Text

\* What two texts become one after the other is what they become together.
LEMMA EscapedConcat ==
  \A s, t \in Text : Escaped(s \o t) = Escaped(s) \o Escaped(t)
<1> SUFFICES ASSUME NEW s \in Text
             PROVE  \A t \in Text : Escaped(s \o t) = Escaped(s) \o Escaped(t)
  OBVIOUS
<1> DEFINE X == {t \in Text : Escaped(s \o t) = Escaped(s) \o Escaped(t)}
<1>1. <<>> \in X
  <2>1. <<>> \in Text /\ s \o <<>> = s /\ Escaped(s) \o <<>> = Escaped(s)
    BY EmptySeq, ConcatEmptySeq, EscapedAppend DEF Text
  <2> QED BY <2>1, EscapedAppend
<1>2. ASSUME NEW t \in Text, NEW c \in Chars, t \in X PROVE Append(t, c) \in X
  <2>1. /\ Append(t, c) \in Text /\ s \o t \in Text
        /\ s \o Append(t, c) = Append(s \o t, c)
    <3>1. Append(t, c) = t \o <<c>> /\ Append(s \o t, c) = (s \o t) \o <<c>>
      BY AppendIsConcat, ConcatProperties DEF Text
    <3>2. <<c>> \in Text /\ s \o t \in Text /\ Append(t, c) \in Text
      BY ShortSeq, ConcatProperties, AppendProperties DEF Text
    <3> QED BY <3>1, <3>2, ConcatAssociative DEF Text
  <2>2. Escaped(Append(s \o t, c)) = (Escaped(s) \o Escaped(t)) \o Code(c)
    BY <1>2, <2>1, EscapedAppend
  <2>3. Escaped(s) \in Text /\ Escaped(t) \in Text /\ Code(c) \in Text
    BY EscapedAppend, CodeType
  <2>4. Escaped(Append(t, c)) = Escaped(t) \o Code(c)
    BY EscapedAppend
  <2>5. (Escaped(s) \o Escaped(t)) \o Code(c) = Escaped(s) \o (Escaped(t) \o Code(c))
    BY <2>3, TextConcat
  <2> QED BY <2>1, <2>2, <2>4, <2>5
<1>3. Text \subseteq X
  <2> HIDE DEF X
  <2> QED BY <1>1, <1>2, TextInSet
<1> QED BY <1>3

\* A text without '%' stays as it is.
Plain(text) == \A i \in DOMAIN text : text[i] # "%"

LEMMA EscapedPlain ==
  \A t \in Text : Plain(t) => Escaped(t) = t
<1> DEFINE X == {t \in Text : Plain(t) => Escaped(t) = t}
<1>1. <<>> \in X
  BY EmptySeq, EscapedAppend DEF Text
<1>2. ASSUME NEW t \in Text, NEW c \in Chars, t \in X PROVE Append(t, c) \in X
  <2>1. Append(t, c) \in Text /\ Append(t, c) = t \o <<c>>
    BY AppendProperties, AppendIsConcat DEF Text
  <2>2. ASSUME Plain(Append(t, c)) PROVE Escaped(Append(t, c)) = Append(t, c)
    <3>1. /\ Len(t) \in Nat /\ DOMAIN t = 1 .. Len(t)
          /\ DOMAIN Append(t, c) = 1 .. Len(t) + 1
          /\ \A i \in 1 .. Len(t) : Append(t, c)[i] = t[i]
          /\ Append(t, c)[Len(t) + 1] = c
      BY AppendFacts DEF Text
    <3>2. Plain(t)
      BY <2>2, <3>1 DEF Plain
    <3>3. c # "%"
      BY <2>2, <3>1 DEF Plain
    <3>4. Code(c) = <<c>> /\ Escaped(t) = t
      BY <1>2, <3>2, <3>3 DEF Code
    <3> QED BY <2>1, <3>4, EscapedAppend
  <2> QED BY <2>1, <2>2
<1>3. Text \subseteq X
  <2> HIDE DEF X
  <2> QED BY <1>1, <1>2, TextInSet
<1> QED BY <1>3

\* The first character of a text and the rest of it.
LEMMA FirstAndRest ==
  ASSUME NEW t \in Text, t # <<>>
  PROVE  \E c \in Chars, r \in Text :
           t = <<c>> \o r /\ Len(r) \in Nat /\ Len(t) = Len(r) + 1
<1> DEFINE r == SubSeq(t, 2, Len(t))
<1>1. Len(t) \in Nat \ {0} /\ \A i \in 1 .. Len(t) : t[i] \in Chars
  BY EmptySeq, ElementOfSeq DEF Text
<1>2. \A i \in 2 .. Len(t) : t[i] \in Chars
  BY <1>1
<1>3. r \in Text /\ Len(r) = IF 2 <= Len(t) THEN Len(t) - 2 + 1 ELSE 0
  BY <1>1, <1>2, SubSeqProperties DEF Text
<1>4. t = <<t[1]>> \o r
  <2>1. 1 \in 1 .. Len(t) /\ Len(t) \in 1 .. Len(t)
    BY <1>1
  <2>2. SubSeq(t, 1, Len(t)) = <<t[1]>> \o SubSeq(t, 1 + 1, Len(t))
    BY <2>1, SubSeqRecursiveFirst DEF Text
  <2>3. SubSeq(t, 1, Len(t)) = t
    BY SubSeqFull DEF Text
  <2> QED BY <2>2, <2>3
<1>5. t[1] \in Chars /\ Len(r) \in Nat /\ Len(t) = Len(r) + 1
  <2> HIDE DEF r
  <2>1. t[1] \in Chars
    BY <1>1
  <2>2. Len(t) \in Nat /\ Len(t) >= 1
    BY <1>1
  <2>3. CASE Len(t) = 1
    BY <1>3, <2>1, <2>3
  <2>4. CASE Len(t) >= 2
    <3>1. Len(r) = Len(t) - 2 + 1
      BY <1>3, <2>2, <2>4
    <3> QED BY <2>1, <2>2, <2>4, <3>1
  <2> QED BY <2>2, <2>3, <2>4
<1> HIDE DEF r
<1> QED BY <1>3, <1>4, <1>5

\* Escaped texts can be told apart: no two characters have codes that begin alike.
LEMMA EscapedFirst ==
  ASSUME NEW c \in Chars, NEW r \in Text
  PROVE  /\ Escaped(<<c>> \o r) = Code(c) \o Escaped(r)
         /\ Escaped(<<c>> \o r)[1] = c
         /\ Escaped(<<c>> \o r) # <<>>
<1>1. <<>> \in Text /\ <<c>> \in Text /\ Append(<<>>, c) = <<c>>
  BY EmptySeq, ShortSeq DEF Text
<1>2. Code(c) \in Text /\ <<>> \o Code(c) = Code(c)
  BY CodeType, ConcatEmptySeq DEF Text
<1>3. Escaped(<<c>>) = Code(c)
  BY <1>1, <1>2, EscapedAppend
<1>4. Escaped(<<c>> \o r) = Code(c) \o Escaped(r)
  BY <1>1, <1>3, EscapedConcat
<1>5. Len(Code(c)) \in Nat \ {0} /\ Code(c)[1] = c
  BY DEF Code
<1>6. Escaped(r) \in Text /\ Len(Escaped(r)) \in Nat
  BY EscapedAppend, LenProperties DEF Text
<1>7. /\ Len(Code(c) \o Escaped(r)) = Len(Code(c)) + Len(Escaped(r))
      /\ \A i \in 1 .. Len(Code(c)) + Len(Escaped(r)) :
           (Code(c) \o Escaped(r))[i] =
             IF i <= Len(Code(c)) THEN Code(c)[i] ELSE Escaped(r)[i - Len(Code(c))]
  BY <1>2, <1>6, ConcatProperties DEF Text
<1>8. 1 \in 1 .. Len(Code(c)) + Len(Escaped(r)) /\ 1 <= Len(Code(c))
  BY <1>5, <1>6
<1>9. (Code(c) \o Escaped(r))[1] = c
  BY <1>5, <1>7, <1>8
<1>10. Code(c) \o Escaped(r) # <<>>
  BY <1>5, <1>6, <1>7
<1> QED BY <1>4, <1>9, <1>10

\* Two addresses are never escaped to one text: by the length of the first.
LEMMA EscapedInjective ==
  \A s, t \in Text : Escaped(s) = Escaped(t) => s = t
<1> DEFINE Told(n) == \A s, t \in Text : Len(s) = n /\ Escaped(s) = Escaped(t) => s = t
           X == {n \in Nat : Told(n)}
<1>0. Escaped(<<>>) = <<>> /\ <<>> \in Text
  BY EmptySeq, EscapedAppend DEF Text
<1>1. 0 \in X
  <2> SUFFICES ASSUME NEW s \in Text, NEW t \in Text, Len(s) = 0, Escaped(s) = Escaped(t)
               PROVE  s = t
    OBVIOUS
  <2>1. s = <<>>
    BY EmptySeq DEF Text
  <2>2. CASE t # <<>>
    <3>1. PICK c \in Chars, r \in Text : t = <<c>> \o r
      BY <2>2, FirstAndRest
    <3> QED BY <1>0, <2>1, <3>1, EscapedFirst
  <2> QED BY <2>1, <2>2
<1>2. ASSUME NEW n \in Nat, n \in X PROVE n + 1 \in X
  <2> SUFFICES ASSUME NEW s \in Text, NEW t \in Text, Len(s) = n + 1, Escaped(s) = Escaped(t)
               PROVE  s = t
    OBVIOUS
  <2>1. s # <<>>
    BY EmptySeq DEF Text
  <2>2. PICK c \in Chars, r \in Text :
          s = <<c>> \o r /\ Len(r) \in Nat /\ Len(s) = Len(r) + 1
    BY <2>1, FirstAndRest
  <2>3. t # <<>>
    BY <1>0, <2>2, EscapedFirst
  <2>4. PICK d \in Chars, u \in Text : t = <<d>> \o u
    BY <2>3, FirstAndRest
  <2>5. Escaped(s)[1] = c /\ Escaped(s) = Code(c) \o Escaped(r)
    BY <2>2, EscapedFirst
  <2>6. Escaped(t)[1] = d /\ Escaped(t) = Code(d) \o Escaped(u)
    BY <2>4, EscapedFirst
  <2>7. Code(c) \in Text /\ Escaped(r) \in Text /\ Escaped(u) \in Text
    BY CodeType, EscapedAppend
  <2>8. Escaped(r) = Escaped(u)
    <3>1. c = d /\ Code(c) \o Escaped(r) = Code(c) \o Escaped(u)
      BY <2>5, <2>6
    <3> QED BY <2>7, <3>1, TextCancel
  <2>9. Len(r) = n
    BY <2>2
  <2>10. r = u
    BY <1>2, <2>8, <2>9
  <2>11. c = d
    BY <2>5, <2>6
  <2> QED BY <2>2, <2>4, <2>10, <2>11
<1>3. Nat \subseteq X
  <2> HIDE DEF X
  <2> QED BY <1>1, <1>2, NatInSet
<1> SUFFICES ASSUME NEW s \in Text, NEW t \in Text, Escaped(s) = Escaped(t) PROVE s = t
  OBVIOUS
<1>4. Len(s) \in Nat
  BY LenProperties DEF Text
<1> QED BY <1>3, <1>4

-----------------------------------------------------------------------------
(* The names.                                                               *)

\* The text that id() makes of a peer.
Name(e) ==
  (IF e.v6 THEN <<"[">> \o Escaped(e.host) \o <<"]">> ELSE e.host) \o <<":">> \o e.port

\* No other ':' comes behind the one before the port.
Without(t, c) == \A i \in DOMAIN t : t[i] # c

LEMMA PortIsLast ==
  \A a, b, p, r \in Text :
    Without(p, ":") /\ Without(r, ":") /\ (a \o <<":">>) \o p = (b \o <<":">>) \o r =>
      a = b /\ p = r
<1> SUFFICES
      ASSUME NEW a \in Text, NEW b \in Text, NEW p \in Text, NEW r \in Text,
             Without(p, ":"), Without(r, ":"), (a \o <<":">>) \o p = (b \o <<":">>) \o r
      PROVE  a = b /\ p = r
  OBVIOUS
<1>0. (\A i \in DOMAIN p : p[i] # ":") /\ \A i \in DOMAIN r : r[i] # ":"
  BY DEF Without
<1> DEFINE s == (a \o <<":">>) \o p
<1>1. /\ Len(a) \in Nat /\ Len(b) \in Nat /\ Len(p) \in Nat /\ Len(r) \in Nat
      /\ DOMAIN p = 1 .. Len(p) /\ DOMAIN r = 1 .. Len(r)
  BY LenProperties DEF Text
<1>2. ASSUME NEW x \in Text, NEW y \in Text
      PROVE  /\ Len((x \o <<":">>) \o y) = Len(x) + 1 + Len(y)
             /\ \A i \in 1 .. Len(x) : ((x \o <<":">>) \o y)[i] = x[i]
             /\ ((x \o <<":">>) \o y)[Len(x) + 1] = ":"
             /\ \A i \in 1 .. Len(y) : ((x \o <<":">>) \o y)[Len(x) + 1 + i] = y[i]
  <2>1. ":" \in Chars /\ Len(x) \in Nat /\ Len(y) \in Nat
    BY CharsAssumption, LenProperties DEF Text
  <2> DEFINE z == Append(x, ":")
  <2>2. /\ x \o <<":">> = z /\ z \in Text /\ Len(z) = Len(x) + 1
        /\ \A i \in 1 .. Len(x) : z[i] = x[i]
        /\ z[Len(x) + 1] = ":"
    BY <2>1, AppendIsConcat, AppendFacts DEF Text
  <2> HIDE DEF z
  <2>3. /\ Len(z \o y) = Len(z) + Len(y)
        /\ \A i \in 1 .. Len(z) + Len(y) :
             (z \o y)[i] = IF i <= Len(z) THEN z[i] ELSE y[i - Len(z)]
    <3>1. z \in Seq(Chars) /\ y \in Seq(Chars)
      BY <2>2 DEF Text
    <3> QED BY <3>1, ConcatProperties
  <2>4. \A i \in 1 .. Len(x) : (z \o y)[i] = x[i]
    BY <2>1, <2>2, <2>3
  <2>5. (z \o y)[Len(x) + 1] = ":"
    BY <2>1, <2>2, <2>3
  <2>6. ASSUME NEW i \in 1 .. Len(y) PROVE (z \o y)[Len(x) + 1 + i] = y[i]
    <3>1. /\ Len(x) + 1 + i \in 1 .. Len(z) + Len(y) /\ ~(Len(x) + 1 + i <= Len(z))
          /\ (Len(x) + 1 + i) - Len(z) = i
      BY <2>1, <2>2
    <3> QED BY <2>3, <3>1
  <2> QED BY <2>1, <2>2, <2>3, <2>4, <2>5, <2>6
<1> DEFINE t == (b \o <<":">>) \o r
<1>3. /\ Len(s) = Len(a) + 1 + Len(p) /\ s[Len(a) + 1] = ":"
      /\ \A i \in 1 .. Len(a) : s[i] = a[i]
      /\ \A i \in 1 .. Len(p) : s[Len(a) + 1 + i] = p[i]
  BY <1>2
<1>4. /\ Len(t) = Len(b) + 1 + Len(r) /\ t[Len(b) + 1] = ":"
      /\ \A i \in 1 .. Len(b) : t[i] = b[i]
      /\ \A i \in 1 .. Len(r) : t[Len(b) + 1 + i] = r[i]
  BY <1>2
<1>5. s = t
  OBVIOUS
<1> HIDE DEF s, t
<1>6. ~(Len(p) < Len(r))
  <2> SUFFICES ASSUME Len(p) < Len(r) PROVE FALSE
    OBVIOUS
  <2>1. Len(a) - Len(b) \in 1 .. Len(r) /\ Len(b) + 1 + (Len(a) - Len(b)) = Len(a) + 1
    BY <1>1, <1>3, <1>4, <1>5
  <2>2. r[Len(a) - Len(b)] = ":"
    BY <1>3, <1>4, <1>5, <2>1
  <2> QED BY <1>0, <1>1, <2>1, <2>2
<1>7. ~(Len(r) < Len(p))
  <2> SUFFICES ASSUME Len(r) < Len(p) PROVE FALSE
    OBVIOUS
  <2>1. Len(b) - Len(a) \in 1 .. Len(p) /\ Len(a) + 1 + (Len(b) - Len(a)) = Len(b) + 1
    BY <1>1, <1>3, <1>4, <1>5
  <2>2. p[Len(b) - Len(a)] = ":"
    BY <1>3, <1>4, <1>5, <2>1
  <2> QED BY <1>0, <1>1, <2>1, <2>2
<1>8. Len(p) = Len(r) /\ Len(a) = Len(b)
  <2>1. Len(p) = Len(r)
    <3>1. \A m, n \in Nat : ~(m < n) /\ ~(n < m) => m = n
      OBVIOUS
    <3> QED BY <1>1, <1>6, <1>7, <3>1
  <2>2. Len(a) + 1 + Len(p) = Len(b) + 1 + Len(r)
    BY <1>3, <1>4, <1>5
  <2> QED BY <1>1, <2>1, <2>2
<1>9. \A i \in 1 .. Len(a) : a[i] = b[i]
  BY <1>3, <1>4, <1>5, <1>8
<1>10. \A i \in 1 .. Len(p) : p[i] = r[i]
  BY <1>3, <1>4, <1>5, <1>8
<1> QED BY <1>8, <1>9, <1>10, SeqEqual DEF Text

\* The parts of a name are texts.
LEMMA NameType ==
  ASSUME NEW e \in Endpoints
  PROVE  /\ e.host \in Text /\ e.port \in Text /\ e.v6 \in BOOLEAN
         /\ <<"[">> \in Text /\ <<"]">> \in Text /\ <<":">> \in Text
         /\ Escaped(e.host) \in Text
         /\ <<"[">> \o Escaped(e.host) \o <<"]">> \in Text
<1>1. e.host \in Text /\ e.port \in Text /\ e.v6 \in BOOLEAN
  BY EndpointsAssumption DEF Text
<1>2. <<"[">> \in Text /\ <<"]">> \in Text /\ <<":">> \in Text
  BY CharsAssumption, ShortSeq DEF Text
<1>3. Escaped(e.host) \in Text
  BY <1>1, EscapedAppend
<1> QED BY <1>1, <1>2, <1>3, TextConcat

\* The first character of a text in brackets.
LEMMA InBrackets ==
  ASSUME NEW t \in Text
  PROVE  LET u == <<"[">> \o t \o <<"]">> IN 1 \in DOMAIN u /\ u[1] = "["
<1>1. <<"[">> \in Seq(Chars) /\ <<"]">> \in Seq(Chars) /\ t \in Seq(Chars)
  BY CharsAssumption, ShortSeq DEF Text
<1> DEFINE v == <<"[">> \o t
           u == v \o <<"]">>
<1>2. /\ v \in Seq(Chars) /\ Len(v) = Len(<<"[">>) + Len(t)
      /\ \A i \in 1 .. Len(<<"[">>) + Len(t) :
           v[i] = IF i <= Len(<<"[">>) THEN <<"[">>[i] ELSE t[i - Len(<<"[">>)]
  BY <1>1, ConcatProperties
<1>3. Len(<<"[">>) = 1 /\ <<"[">>[1] = "[" /\ Len(t) \in Nat /\ Len(<<"]">>) = 1
  BY <1>1, LenProperties
<1>4. Len(v) \in Nat \ {0} /\ v[1] = "["
  BY <1>2, <1>3
<1> HIDE DEF v
<1>5. /\ u \in Seq(Chars) /\ Len(u) = Len(v) + Len(<<"]">>)
      /\ \A i \in 1 .. Len(v) + Len(<<"]">>) :
           u[i] = IF i <= Len(v) THEN v[i] ELSE <<"]">>[i - Len(v)]
  BY <1>1, <1>2, ConcatProperties
<1>6. 1 \in 1 .. Len(v) + Len(<<"]">>) /\ 1 <= Len(v)
  BY <1>3, <1>4
<1>7. u[1] = "["
  BY <1>4, <1>5, <1>6
<1>8. 1 \in DOMAIN u
  BY <1>5, <1>6, LenProperties
<1> QED BY <1>7, <1>8 DEF v

\* Two peers never have the same name.
LEMMA NamesDiffer ==
  ASSUME NEW e \in Endpoints, NEW f \in Endpoints, Name(e) = Name(f)
  PROVE  e = f
<1> DEFINE H(x) == IF x.v6 THEN <<"[">> \o Escaped(x.host) \o <<"]">> ELSE x.host
<1>1. H(e) \in Text /\ H(f) \in Text
  BY NameType
<1>2. (H(e) \o <<":">>) \o e.port = (H(f) \o <<":">>) \o f.port
  BY DEF Name
<1>3. H(e) = H(f) /\ e.port = f.port
  <2>1. /\ Without(e.port, ":") /\ Without(f.port, ":")
        /\ e.port \in Text /\ f.port \in Text
    BY EndpointsAssumption, NameType DEF Without
  <2> HIDE DEF H
  <2> QED BY <1>1, <1>2, <2>1, PortIsLast
<1>4. e.v6 = f.v6
  <2>1. ASSUME NEW x \in Endpoints, NEW y \in Endpoints, H(x) = H(y), x.v6, ~y.v6
        PROVE  FALSE
    <3>1. 1 \in DOMAIN H(x) /\ H(x)[1] = "["
      BY <2>1, NameType, InBrackets
    <3>2. H(y) = y.host /\ \A i \in DOMAIN y.host : y.host[i] # "["
      BY <2>1, EndpointsAssumption
    <3> HIDE DEF H
    <3> QED BY <2>1, <3>1, <3>2
  <2>2. e.v6 \in BOOLEAN /\ f.v6 \in BOOLEAN
    BY NameType
  <2> HIDE DEF H
  <2> QED BY <1>3, <2>1, <2>2
<1>5. e.host = f.host
  <2>1. CASE e.v6
    <3>1. <<"[">> \o Escaped(e.host) \o <<"]">> = <<"[">> \o Escaped(f.host) \o <<"]">>
      BY <1>3, <1>4, <2>1
    <3>2. <<"[">> \o Escaped(e.host) = <<"[">> \o Escaped(f.host)
      <4> DEFINE x == <<"[">> \o Escaped(e.host)
                 y == <<"[">> \o Escaped(f.host)
                 z == <<"]">>
      <4>1. x \in Text /\ y \in Text /\ z \in Text
        BY NameType, TextConcat
      <4>2. x \o z = y \o z
        BY <3>1
      <4> HIDE DEF x, y, z
      <4>3. x = y
        BY <4>1, <4>2, TextCancel
      <4> QED BY <4>3 DEF x, y
    <3>3. Escaped(e.host) = Escaped(f.host)
      BY <3>2, NameType, TextCancel
    <3> QED BY <3>3, NameType, EscapedInjective
  <2>2. CASE ~e.v6
    BY <1>3, <1>4, <2>2
  <2> QED BY <2>1, <2>2
<1> HIDE DEF H
<1>6. e \in [host : Seq(Chars), v6 : BOOLEAN, port : Seq(Chars)]
  BY EndpointsAssumption
<1>7. f \in [host : Seq(Chars), v6 : BOOLEAN, port : Seq(Chars)]
  BY EndpointsAssumption
<1> QED BY <1>3, <1>4, <1>5, <1>6, <1>7

\* Nor is one called unknown.
LEMMA NameKnown == ASSUME NEW e \in Endpoints PROVE Name(e) # unknown_id
<1> DEFINE h == IF e.v6 THEN <<"[">> \o Escaped(e.host) \o <<"]">> ELSE e.host
           v == Append(h, ":")
<1>1. h \in Text /\ ":" \in Chars /\ e.port \in Text
  BY NameType, CharsAssumption
<1>2. /\ v \in Text /\ v = h \o <<":">> /\ Len(h) \in Nat
      /\ Len(v) = Len(h) + 1 /\ v[Len(h) + 1] = ":"
  <2> HIDE DEF h
  <2> QED BY <1>1, AppendFacts, AppendIsConcat DEF Text
<1>3. Name(e) = v \o e.port
  BY <1>2 DEF Name
<1> HIDE DEF h, v
<1>4. /\ Len(v \o e.port) = Len(v) + Len(e.port) /\ Len(e.port) \in Nat
      /\ \A i \in 1 .. Len(v) + Len(e.port) :
           (v \o e.port)[i] = IF i <= Len(v) THEN v[i] ELSE e.port[i - Len(v)]
  <2>1. v \in Seq(Chars) /\ e.port \in Seq(Chars)
    BY <1>1, <1>2 DEF Text
  <2> QED BY <2>1, ConcatProperties, LenProperties
<1> SUFFICES ASSUME v \o e.port = <<"unknown">> PROVE FALSE
  BY <1>3 DEF unknown_id
<1>5. Len(v \o e.port) = 1 /\ (v \o e.port)[1] = "unknown"
  OBVIOUS
<1>6. Len(h) = 0 /\ Len(v) = 1
  <2>1. \A m, n \in Nat : (m + 1) + n = 1 => m = 0
    OBVIOUS
  <2>2. (Len(h) + 1) + Len(e.port) = 1
    BY <1>2, <1>4, <1>5
  <2>3. Len(h) = 0
    BY <1>2, <1>4, <2>1, <2>2
  <2> QED BY <1>2, <2>3
<1>7. 1 \in 1 .. Len(v) + Len(e.port) /\ 1 <= Len(v)
  BY <1>4, <1>6
<1>8. (v \o e.port)[1] = ":"
  BY <1>2, <1>4, <1>6, <1>7
<1> QED BY <1>5, <1>8

-----------------------------------------------------------------------------
(* The turns of the loop, as facts about texts.                             *)

\* A set of numbers has a least element, and Min is it.
LEMMA MinIs ==
  ASSUME NEW S, S \subseteq Nat, S # {}
  PROVE  Min(S) \in S /\ \A j \in S : Min(S) <= j
<1> DEFINE Below == {p \in Nat \X Nat : p[1] < p[2]}
<1>1. IsWellFoundedOn(Below, Nat)
  BY NatLessThanWellFounded DEF OpToRel
<1>2. PICK x \in S : \A y \in S : ~ (<<y, x>> \in Below)
  <2> HIDE DEF Below
  <2> QED BY <1>1, WFMin
<1>3. ASSUME NEW y \in S PROVE x <= y
  <2>1. x \in Nat /\ y \in Nat /\ ~(y < x)
    BY <1>2
  <2> QED BY <2>1
<1> QED BY <1>3 DEF Min

\* A text in two parts.
LEMMA Cut ==
  ASSUME NEW t \in Text, NEW n \in 0 .. Len(t)
  PROVE  /\ SubSeq(t, 1, n) \in Text /\ SubSeq(t, n + 1, Len(t)) \in Text
         /\ Len(SubSeq(t, 1, n)) = n
         /\ \A i \in 1 .. n : SubSeq(t, 1, n)[i] = t[i]
         /\ t = SubSeq(t, 1, n) \o SubSeq(t, n + 1, Len(t))
<1>1. Len(t) \in Nat /\ \A i \in 1 .. Len(t) : t[i] \in Chars
  BY ElementOfSeq, LenProperties DEF Text
<1>2. /\ SubSeq(t, 1, n) \in Seq(Chars)
      /\ Len(SubSeq(t, 1, n)) = IF 1 <= n THEN n - 1 + 1 ELSE 0
      /\ \A i \in 1 .. n - 1 + 1 : SubSeq(t, 1, n)[i] = t[1 + i - 1]
  <2>1. 1 \in Int /\ n \in Int /\ \A i \in 1 .. n : t[i] \in Chars
    BY <1>1
  <2> QED BY <2>1, SubSeqProperties
<1>3. SubSeq(t, n + 1, Len(t)) \in Seq(Chars)
  <2>1. n + 1 \in Int /\ Len(t) \in Int /\ \A i \in n + 1 .. Len(t) : t[i] \in Chars
    BY <1>1
  <2> QED BY <2>1, SubSeqProperties
<1>4. SubSeq(t, 1, n) \o SubSeq(t, n + 1, Len(t)) = SubSeq(t, 1, Len(t))
  <2>1. t \in Seq(Chars) /\ 1 \in 1 .. Len(t) + 1 /\ n \in 1 - 1 .. Len(t) /\ Len(t) \in n .. Len(t)
    BY <1>1 DEF Text
  <2> QED BY <2>1, ConcatAdjacentSubSeq
<1>5. SubSeq(t, 1, Len(t)) = t
  BY SubSeqFull DEF Text
<1>6. Len(SubSeq(t, 1, n)) = n
  BY <1>2
<1>7. ASSUME NEW i \in 1 .. n PROVE SubSeq(t, 1, n)[i] = t[i]
  <2>1. i \in 1 .. n - 1 + 1 /\ 1 + i - 1 = i
    OBVIOUS
  <2> QED BY <1>2, <2>1
<1> QED BY <1>2, <1>3, <1>4, <1>5, <1>6, <1>7 DEF Text

\* Where the characters of two joined texts are.
LEMMA ConcatFacts ==
  ASSUME NEW s \in Text, NEW t \in Text
  PROVE  /\ Len(s) \in Nat /\ Len(t) \in Nat /\ Len(s \o t) = Len(s) + Len(t)
         /\ DOMAIN s = 1 .. Len(s) /\ DOMAIN t = 1 .. Len(t)
         /\ \A i \in 1 .. Len(s) : (s \o t)[i] = s[i]
         /\ \A i \in 1 .. Len(t) : (s \o t)[Len(s) + i] = t[i]
<1>1. /\ Len(s) \in Nat /\ Len(t) \in Nat
      /\ DOMAIN s = 1 .. Len(s) /\ DOMAIN t = 1 .. Len(t)
  BY LenProperties DEF Text
<1>2. /\ Len(s \o t) = Len(s) + Len(t)
      /\ \A i \in 1 .. Len(s) + Len(t) :
           (s \o t)[i] = IF i <= Len(s) THEN s[i] ELSE t[i - Len(s)]
  BY ConcatProperties DEF Text
<1>3. ASSUME NEW i \in 1 .. Len(s) PROVE (s \o t)[i] = s[i]
  <2>1. i \in 1 .. Len(s) + Len(t) /\ i <= Len(s)
    BY <1>1
  <2> QED BY <1>2, <2>1
<1>4. ASSUME NEW i \in 1 .. Len(t) PROVE (s \o t)[Len(s) + i] = t[i]
  <2>1. /\ Len(s) + i \in 1 .. Len(s) + Len(t) /\ ~(Len(s) + i <= Len(s))
        /\ (Len(s) + i) - Len(s) = i
    BY <1>1
  <2> QED BY <1>2, <2>1
<1> QED BY <1>1, <1>2, <1>3, <1>4

\* And two parts cut again.
LEMMA Parts ==
  ASSUME NEW s \in Text, NEW t \in Text
  PROVE  /\ SubSeq(s \o t, 1, Len(s)) = s
         /\ SubSeq(s \o t, Len(s) + 1, Len(s \o t)) = t
<1> DEFINE u == s \o t
           x == SubSeq(u, 1, Len(s))
           y == SubSeq(u, Len(s) + 1, Len(u))
<1>1. u \in Text /\ Len(s) \in 0 .. Len(u) /\ \A i \in 1 .. Len(s) : u[i] = s[i]
  BY TextConcat, ConcatFacts
<1>2. /\ x \in Text /\ y \in Text /\ Len(x) = Len(s) /\ u = x \o y
      /\ \A i \in 1 .. Len(s) : x[i] = u[i]
  <2> HIDE DEF u
  <2> QED BY <1>1, Cut
<1>3. u = s \o t
  OBVIOUS
<1> HIDE DEF u, x, y
<1>4. \A i \in 1 .. Len(s) : x[i] = s[i]
  BY <1>1, <1>2
<1>5. x = s
  BY <1>2, <1>4, SeqEqual DEF Text
<1>6. y = t
  BY <1>2, <1>3, <1>5, TextCancel
<1> QED BY <1>5, <1>6 DEF u, x, y

\* How long two joined texts are.
LEMMA Lengths ==
  \A s, t \in Text : Len(s) \in Nat /\ Len(t) \in Nat /\ Len(s \o t) = Len(s) + Len(t)
BY ConcatFacts

\* Three texts one after the other.
LEMMA Regroup == \A s, t, u \in Text : (s \o t) \o u = s \o (t \o u)
BY TextConcat

\* Two texts joined are a text.
LEMMA Joined == \A s, t \in Text : s \o t \in Text
BY TextConcat

Percent == <<"%">>
PercentCode == <<"%", "2", "5">>

\* The '%' and its code: what the one is escaped to is the other.
LEMMA PercentType ==
  /\ Percent \in Text /\ PercentCode \in Text
  /\ Len(Percent) = 1 /\ Len(PercentCode) = 3
  /\ Escaped(Percent) = PercentCode
<1>1. "%" \in Chars /\ "2" \in Chars /\ "5" \in Chars
  BY CharsAssumption
<1>2. Percent \in Text /\ PercentCode \in Text
  BY <1>1, ShortSeq DEF Text, Percent, PercentCode
<1>3. Len(Percent) = 1 /\ Len(PercentCode) = 3
  BY DEF Percent, PercentCode
<1>4. <<>> \in Text /\ Escaped(<<>>) = <<>>
  BY EmptySeq, EscapedAppend DEF Text
<1>5. Escaped(Append(<<>>, "%")) = Escaped(<<>>) \o Code("%")
  BY <1>1, <1>4, EscapedAppend
<1>6. Append(<<>>, "%") = Percent /\ Code("%") = PercentCode
  BY DEF Code, Percent, PercentCode
<1>7. <<>> \o PercentCode = PercentCode
  BY <1>2, ConcatEmptySeq DEF Text
<1>8. Escaped(Percent) = PercentCode
  BY <1>4, <1>5, <1>6, <1>7
<1> QED BY <1>2, <1>3, <1>8

\* A text, a '%' in the middle of what follows, and another grouping.
LEMMA Regroup4 ==
  \A s, t, u \in Text : s \o ((t \o Percent) \o u) = ((s \o t) \o Percent) \o u
<1> SUFFICES ASSUME NEW s \in Text, NEW t \in Text, NEW u \in Text
             PROVE  s \o ((t \o Percent) \o u) = ((s \o t) \o Percent) \o u
  OBVIOUS
<1>0. Percent \in Text
  BY PercentType
<1>1. t \o Percent \in Text
  BY <1>0, Joined
<1>2. s \o (t \o Percent) = (s \o t) \o Percent
  BY <1>0, Regroup
<1>3. s \o ((t \o Percent) \o u) = (s \o (t \o Percent)) \o u
  BY <1>1, Regroup
<1> QED BY <1>2, <1>3

\* Where there is a '%' from a position on.
PercentsOf(h, p) == {i \in p .. Len(h) : h[i] = "%"}

\* A text in which there is a '%', cut at the first one.
LEMMA FirstPercent ==
  ASSUME NEW r \in Text, ~Plain(r)
  PROVE  \E m, u \in Text : Plain(m) /\ r = (m \o Percent) \o u
<1> DEFINE I == {i \in 1 .. Len(r) : r[i] = "%"}
<1>1. Len(r) \in Nat /\ DOMAIN r = 1 .. Len(r)
  BY LenProperties DEF Text
<1>2. I # {} /\ I \subseteq Nat
  BY <1>1 DEF Plain
<1>3. PICK k \in I : \A j \in I : k <= j
  <2> HIDE DEF I
  <2> QED BY <1>2, MinIs
<1>4. k \in 1 .. Len(r) /\ r[k] = "%" /\ k - 1 \in 0 .. Len(r) /\ (k - 1) + 1 = k /\ k \in 0 .. Len(r)
  BY <1>1
<1> DEFINE m == SubSeq(r, 1, k - 1)
           u == SubSeq(r, k + 1, Len(r))
<1>5. /\ m \in Text /\ Len(m) = k - 1 /\ \A i \in 1 .. k - 1 : m[i] = r[i]
      /\ r = m \o SubSeq(r, (k - 1) + 1, Len(r))
  BY <1>4, Cut
<1>6. u \in Text
  BY <1>4, Cut
<1>7. SubSeq(r, k, Len(r)) = Percent \o u
  <2>1. Len(r) \in k .. Len(r) /\ r \in Seq(Chars)
    BY <1>1, <1>4 DEF Text
  <2>2. SubSeq(r, k, Len(r)) = <<r[k]>> \o u
    BY <1>4, <2>1, SubSeqRecursiveFirst
  <2> QED BY <1>4, <2>2 DEF Percent
<1> HIDE DEF m, u
<1>8. r = m \o (Percent \o u)
  BY <1>4, <1>5, <1>7
<1>9. r = (m \o Percent) \o u
  <2>1. m \in Text /\ Percent \in Text
    BY <1>5, PercentType
  <2>2. m \o (Percent \o u) = (m \o Percent) \o u
    BY <1>6, <2>1, Regroup
  <2> QED BY <1>8, <2>2
<1>10. Plain(m)
  <2> SUFFICES ASSUME NEW i \in DOMAIN m, m[i] = "%" PROVE FALSE
    BY DEF Plain
  <2>1. DOMAIN m = 1 .. k - 1
    BY <1>5, LenProperties DEF Text
  <2>2. i \in 1 .. k - 1 /\ r[i] = "%" /\ i \in 1 .. Len(r) /\ ~(k <= i)
    BY <1>1, <1>4, <1>5, <2>1
  <2>3. i \in I
    BY <2>2
  <2> QED BY <1>3, <2>2, <2>3
<1> QED BY <1>5, <1>6, <1>9, <1>10

\* Behind a text x, the '%' that a search from the end of x on finds, and the
\* two parts that a replacement of this '%' leaves.
Shape(x, m, u, h) == Plain(m) /\ h = ((x \o m) \o Percent) \o u

FoundAt(x, m, u, h, i) ==
  /\ i = Len(x \o m) + 1
  /\ SubSeq(h, 1, i - 1) = x \o m
  /\ SubSeq(h, i + 1, Len(h)) = u

LEMMA Found ==
  \A x, m, u \in Text : \A h :
    Shape(x, m, u, h) => FoundAt(x, m, u, h, Min(PercentsOf(h, Len(x) + 1)))
<1> SUFFICES ASSUME NEW x \in Text, NEW m \in Text, NEW u \in Text, NEW h, Shape(x, m, u, h)
             PROVE  FoundAt(x, m, u, h, Min(PercentsOf(h, Len(x) + 1)))
  OBVIOUS
<1>0. Plain(m) /\ h = ((x \o m) \o Percent) \o u
  BY DEF Shape
<1> DEFINE S == PercentsOf(h, Len(x) + 1)
<1> DEFINE w == x \o m
           v == w \o Percent
<1>1. w \in Text /\ v \in Text /\ Percent \o u \in Text /\ h = w \o (Percent \o u) /\ h = v \o u
  <2>1. Percent \in Text
    BY PercentType
  <2>2. w \in Text /\ h = (w \o Percent) \o u
    BY <1>0, Joined
  <2> HIDE DEF w
  <2>3. (w \o Percent) \o u = w \o (Percent \o u)
    BY <2>1, <2>2, Regroup
  <2>4. w \o Percent \in Text /\ Percent \o u \in Text
    BY <2>1, <2>2, Joined
  <2> QED BY <2>2, <2>3, <2>4
<1>2. /\ Len(x) \in Nat /\ Len(m) \in Nat /\ Len(w) = Len(x) + Len(m)
      /\ DOMAIN m = 1 .. Len(m)
      /\ \A i \in 1 .. Len(m) : w[Len(x) + i] = m[i]
  BY ConcatFacts
<1> HIDE DEF w
<1>3. /\ Len(w) \in Nat /\ Len(v) = Len(w) + 1
      /\ v[Len(w) + 1] = "%" /\ \A i \in 1 .. Len(w) : v[i] = w[i]
  <2>1. /\ Len(w) \in Nat /\ Len(v) = Len(w) + Len(Percent)
        /\ \A i \in 1 .. Len(w) : v[i] = w[i]
        /\ \A i \in 1 .. Len(Percent) : v[Len(w) + i] = Percent[i]
    BY <1>1, PercentType, ConcatFacts
  <2>2. 1 \in 1 .. Len(Percent) /\ Percent[1] = "%"
    BY PercentType DEF Percent
  <2> QED BY <2>1, <2>2, PercentType
<1> HIDE DEF v
<1>4. /\ Len(h) = Len(v) + Len(u) /\ Len(u) \in Nat
      /\ \A i \in 1 .. Len(v) : h[i] = v[i]
  BY <1>1, ConcatFacts
<1> DEFINE k == Len(w) + 1
<1>5. k \in Len(x) + 1 .. Len(h) /\ k \in 1 .. Len(v)
  <2>1. \A a, b, c \in Nat : /\ (a + b) + 1 \in a + 1 .. ((a + b) + 1) + c
                             /\ (a + b) + 1 \in 1 .. (a + b) + 1
    OBVIOUS
  <2> QED BY <1>2, <1>3, <1>4, <2>1
<1>6. h[k] = "%"
  BY <1>3, <1>4, <1>5
<1>7. k \in S
  BY <1>5, <1>6 DEF PercentsOf
<1>8. ASSUME NEW j \in S, j < k PROVE FALSE
  <2> DEFINE i == j - Len(x)
  <2>1. j \in Len(x) + 1 .. Len(h) /\ h[j] = "%"
    BY DEF PercentsOf
  <2>2. /\ i \in 1 .. Len(m) /\ Len(x) + i = j /\ j \in 1 .. Len(w) /\ j \in 1 .. Len(v)
    <3>1. \A a, b, c \in Nat : \A n \in a + 1 .. c :
            n < (a + b) + 1 => /\ n - a \in 1 .. b /\ a + (n - a) = n
                               /\ n \in 1 .. a + b /\ n \in 1 .. (a + b) + 1
      OBVIOUS
    <3>2. Len(h) \in Nat
      BY <1>3, <1>4
    <3> QED BY <1>2, <1>3, <1>8, <2>1, <3>1, <3>2
  <2>3. h[j] = w[j]
    BY <1>3, <1>4, <2>2
  <2> HIDE DEF i
  <2>4. w[j] = m[i]
    BY <1>2, <2>2
  <2> QED BY <1>0, <1>2, <2>1, <2>2, <2>3, <2>4 DEF Plain
<1>9. Min(S) = k
  <2>1. S \subseteq Nat /\ k \in Nat
    BY <1>2, <1>3, <1>4 DEF PercentsOf
  <2>2. Min(S) \in S /\ \A j \in S : Min(S) <= j
    BY <1>7, <2>1, MinIs
  <2>3. Min(S) \in Nat /\ Min(S) <= k /\ ~(Min(S) < k)
    BY <1>7, <1>8, <2>1, <2>2
  <2>4. \A a, b \in Nat : a <= b /\ ~(a < b) => a = b
    OBVIOUS
  <2> HIDE DEF k
  <2> QED BY <2>1, <2>3, <2>4
<1>10. Min(S) - 1 = Len(w) /\ Min(S) = Len(v)
  <2>1. \A n \in Nat : (n + 1) - 1 = n
    OBVIOUS
  <2> QED BY <1>3, <1>9, <2>1
<1>11. SubSeq(w \o (Percent \o u), 1, Len(w)) = w
  BY <1>1, Parts
<1>12. SubSeq(v \o u, Len(v) + 1, Len(v \o u)) = u
  BY <1>1, Parts
<1> HIDE DEF S
<1>13. FoundAt(x, m, u, h, Min(S))
  BY <1>1, <1>9, <1>10, <1>11, <1>12 DEF w, FoundAt
<1> QED BY <1>13 DEF S

\* The invariant of the loop: a part d of the address is done, the rest r is
\* as it was, and pos lies between the two.
Between(address, text, p) ==
  \E d, r \in Text :
    /\ address = d \o r
    /\ text = Escaped(d) \o r
    /\ p = Len(Escaped(d)) + 1

\* A turn moves a part without '%' and one '%' from the rest to what is done.
LEMMA OneTurn ==
  ASSUME NEW a \in Text, NEW h, NEW p, Between(a, h, p),
         NEW S, S = PercentsOf(h, p), S # {}
  PROVE  Between(a, ReplaceSubSeqAt(Min(S), <<"%", "2", "5">>, <<"%">>, h), Min(S) + 3)
<1>1. PICK d \in Text, r \in Text :
        a = d \o r /\ h = Escaped(d) \o r /\ p = Len(Escaped(d)) + 1
  BY DEF Between
<1> DEFINE x == Escaped(d)
<1>2. x \in Text /\ h = x \o r /\ S = PercentsOf(h, Len(x) + 1)
  BY <1>1, EscapedAppend
<1> HIDE DEF x
<1>3. ~Plain(r)
  <2>1. PICK j \in S : TRUE
    OBVIOUS
  <2>2. j \in Len(x) + 1 .. Len(h) /\ h[j] = "%"
    BY <1>2 DEF PercentsOf
  <2>3. /\ Len(x) \in Nat /\ Len(r) \in Nat /\ DOMAIN r = 1 .. Len(r)
        /\ Len(h) = Len(x) + Len(r) /\ \A i \in 1 .. Len(r) : h[Len(x) + i] = r[i]
    BY <1>2, ConcatFacts
  <2>4. j - Len(x) \in 1 .. Len(r) /\ Len(x) + (j - Len(x)) = j
    <3>1. \A b, c \in Nat : \A n \in b + 1 .. b + c : n - b \in 1 .. c /\ b + (n - b) = n
      OBVIOUS
    <3> QED BY <2>2, <2>3, <3>1
  <2>5. r[j - Len(x)] = "%"
    BY <2>2, <2>3, <2>4
  <2> QED BY <2>3, <2>4, <2>5 DEF Plain
<1>4. PICK m \in Text, u \in Text : Plain(m) /\ r = (m \o Percent) \o u
  BY <1>3, FirstPercent
<1>5. h = ((x \o m) \o Percent) \o u
  BY <1>2, <1>4, Regroup4
<1>6. /\ Min(S) = Len(x \o m) + 1
      /\ SubSeq(h, 1, Min(S) - 1) = x \o m
      /\ SubSeq(h, Min(S) + 1, Len(h)) = u
  <2>1. Shape(x, m, u, h)
    BY <1>4, <1>5 DEF Shape
  <2>2. x \in Text /\ S = PercentsOf(h, Len(x) + 1)
    BY <1>2
  <2>3. FoundAt(x, m, u, h, Min(S))
    BY <2>1, <2>2, Found
  <2> QED BY <2>3 DEF FoundAt
<1> DEFINE dd == (d \o m) \o Percent
<1>7. dd \in Text /\ d \o m \in Text /\ x \o m \in Text
  BY <1>2, PercentType, TextConcat
<1>8. Escaped(dd) = (x \o m) \o PercentCode
  <2>1. Escaped(dd) = Escaped(d \o m) \o PercentCode
    BY <1>7, PercentType, EscapedConcat
  <2>2. Escaped(d \o m) = Escaped(d) \o Escaped(m) /\ Escaped(m) = m
    BY <1>4, EscapedConcat, EscapedPlain
  <2> QED BY <2>1, <2>2 DEF x
<1>9. Len(Escaped(dd)) + 1 = Min(S) + 3
  <2>1. Len(x \o m) \in Nat /\ Len((x \o m) \o PercentCode) = Len(x \o m) + 3
    <3>1. PercentCode \in Text /\ Len(PercentCode) = 3
      BY PercentType
    <3> QED BY <1>7, <3>1, Lengths
  <2>2. \A n \in Nat : (n + 3) + 1 = (n + 1) + 3
    OBVIOUS
  <2> QED BY <1>6, <1>8, <2>1, <2>2
<1>10. a = dd \o u
  <2>1. d \o ((m \o Percent) \o u) = dd \o u
    BY Regroup4
  <2> QED BY <1>1, <1>4, <2>1
<1>11. ReplaceSubSeqAt(Min(S), PercentCode, Percent, h) = Escaped(dd) \o u
  BY <1>6, <1>8, PercentType DEF ReplaceSubSeqAt
<1> HIDE DEF dd
<1>12. Between(a, ReplaceSubSeqAt(Min(S), PercentCode, Percent, h), Min(S) + 3)
  BY <1>7, <1>9, <1>10, <1>11 DEF Between
<1> QED BY <1>12 DEF Percent, PercentCode

\* No '%' left: the text is the address escaped.
LEMMA LastTurn ==
  ASSUME NEW a \in Text, NEW h, NEW p, Between(a, h, p),
         PercentsOf(h, p) = {}
  PROVE  h = Escaped(a)
<1>1. PICK d \in Text, r \in Text :
        a = d \o r /\ h = Escaped(d) \o r /\ p = Len(Escaped(d)) + 1
  BY DEF Between
<1> DEFINE x == Escaped(d)
<1>2. x \in Text
  BY EscapedAppend
<1>3. /\ Len(x) \in Nat /\ Len(r) \in Nat /\ DOMAIN r = 1 .. Len(r)
      /\ Len(h) = Len(x) + Len(r) /\ \A i \in 1 .. Len(r) : h[Len(x) + i] = r[i]
  BY <1>1, <1>2, ConcatFacts
<1>4. p = Len(x) + 1
  BY <1>1
<1> HIDE DEF x
<1>5. Plain(r)
  <2> SUFFICES ASSUME NEW i \in DOMAIN r, r[i] = "%" PROVE FALSE
    BY DEF Plain
  <2>1. Len(x) + i \in p .. Len(h)
    BY <1>3, <1>4
  <2>2. h[Len(x) + i] = "%"
    BY <1>3
  <2> QED BY <2>1, <2>2 DEF PercentsOf
<1>6. Escaped(r) = r
  BY <1>5, EscapedPlain
<1>7. Escaped(d \o r) = Escaped(d) \o Escaped(r)
  BY EscapedConcat
<1> QED BY <1>1, <1>6, <1>7

\* Before the first turn.
LEMMA FirstTurn == ASSUME NEW a \in Text PROVE Between(a, a, 1)
<1> DEFINE e == <<>>
<1>1. e \in Text /\ Escaped(e) = e /\ e \o a = a /\ Len(e) = 0
  BY EmptySeq, EscapedAppend, ConcatEmptySeq DEF Text
<1> HIDE DEF e
<1>2. a = e \o a /\ a = Escaped(e) \o a /\ 1 = Len(Escaped(e)) + 1
  BY <1>1
<1> QED BY <1>1, <1>2 DEF Between

-----------------------------------------------------------------------------
(* The invariant: who has been named has the name of the peer that id()     *)
(* has found, and the loop is between two of its turns.                     *)

Names == {[peer |-> Gone, id |-> unknown_id]} \cup
         {[peer |-> e, id |-> Name(e)] : e \in Endpoints}

Loop == call # NoSession =>
  Between(asked.host, host, pos) /\ (~asked.v6 => host = asked.host)

IInv ==
  /\ peer \in [Sessions -> Endpoints \cup {Gone}]
  /\ call \in Sessions \cup {NoSession}
  /\ asked \in Endpoints \cup {Gone} /\ (asked = Gone <=> call = NoSession)
  /\ named \in [Sessions -> {<<>>} \cup Names]
  /\ Loop

\* What id() returns is entered under the session it was called for.
LEMMA ReturnKeeps ==
  ASSUME IInv, NEW s \in Sessions, NEW e, NEW text, [peer |-> e, id |-> text] \in Names,
         Return(s, e, text), peer' = peer
  PROVE  IInv'
<1>1. call' = NoSession /\ asked' = Gone
  BY DEF Return
<1>2. named' = [named EXCEPT ![s] = [peer |-> e, id |-> text]]
  BY DEF Return
<1>3. named \in [Sessions -> {<<>>} \cup Names]
  BY DEF IInv
<1>4. named' \in [Sessions -> {<<>>} \cup Names]
  <2> HIDE DEF Names
  <2> QED BY <1>2, <1>3
<1>5. Loop'
  BY <1>1 DEF Loop
<1> QED BY <1>1, <1>4, <1>5 DEF IInv, Names

\* id() begins: nothing is escaped yet, or unknown_id is returned.
LEMMA AskKeeps == ASSUME IInv, NEW s \in Sessions, Ask(s) PROVE IInv'
<1>1. peer' = peer /\ call = NoSession
  BY DEF Ask
<1>2. CASE peer[s] = Gone
  <2>1. Return(s, Gone, unknown_id)
    BY <1>2 DEF Ask
  <2>2. [peer |-> Gone, id |-> unknown_id] \in Names
    BY DEF Names
  <2> QED BY <1>1, <2>1, <2>2, ReturnKeeps
<1>3. CASE peer[s] # Gone
  <2>1. /\ call' = s /\ asked' = peer[s] /\ host' = peer[s].host /\ pos' = 1
        /\ named' = named
    BY <1>3 DEF Ask
  <2>2. peer[s] \in Endpoints
    BY <1>3 DEF IInv
  <2>3. s # NoSession /\ peer[s] # Gone
    BY <2>2, SessionsAssumption
  <2>4. Between(peer[s].host, peer[s].host, 1)
    BY <2>2, NameType, FirstTurn
  <2>5. Loop'
    BY <2>1, <2>4 DEF Loop
  <2>6. asked' \in Endpoints \cup {Gone} /\ (asked' = Gone <=> call' = NoSession)
    BY <2>1, <2>2, <2>3
  <2>7. /\ peer' \in [Sessions -> Endpoints \cup {Gone}]
        /\ named' \in [Sessions -> {<<>>} \cup Names]
    BY <1>1, <2>1 DEF IInv, Names
  <2>8. call' \in Sessions \cup {NoSession}
    BY <2>1
  <2> QED BY <2>5, <2>6, <2>7, <2>8 DEF IInv, Names
<1> QED BY <1>2, <1>3

\* A turn of the loop ends between two turns.
LEMMA EscapeKeeps == ASSUME IInv, Escape PROVE IInv'
<1>1. /\ call # NoSession /\ asked.v6 /\ Percents # {}
      /\ host' = ReplaceSubSeqAt(Min(Percents), <<"%", "2", "5">>, <<"%">>, host)
      /\ pos' = Min(Percents) + 3
      /\ UNCHANGED <<peer, call, asked, named>>
  BY DEF Escape, EscapeAs
<1>2. asked \in Endpoints /\ Between(asked.host, host, pos)
  BY <1>1 DEF IInv, Loop
<1>3. Percents = PercentsOf(host, pos)
  BY DEF Percents, PercentsOf
<1> DEFINE S == Percents
<1>4. asked.host \in Text /\ S = PercentsOf(host, pos) /\ S # {}
  BY <1>1, <1>2, <1>3, NameType
<1> HIDE DEF S
<1>5. Between(asked.host, ReplaceSubSeqAt(Min(S), <<"%", "2", "5">>, <<"%">>, host), Min(S) + 3)
  BY <1>2, <1>4, OneTurn
<1>6. Between(asked.host, host', pos')
  BY <1>1, <1>5 DEF S
<1>7. Loop'
  BY <1>1, <1>6 DEF Loop
<1> QED BY <1>1, <1>7 DEF IInv, Names

\* The loop is over, and the text is the name of the peer asked.
LEMMA AnswerKeeps == ASSUME IInv, Answer PROVE IInv'
<1> DEFINE name == IF asked.v6 THEN <<"[">> \o host \o <<"]">> ELSE host
<1>1. /\ call # NoSession /\ (asked.v6 => Percents = {}) /\ peer' = peer
      /\ Return(call, asked, name \o <<":">> \o asked.port)
  BY DEF Answer
<1>2. /\ asked \in Endpoints /\ call \in Sessions
      /\ Between(asked.host, host, pos) /\ (~asked.v6 => host = asked.host)
  BY <1>1 DEF IInv, Loop
<1>3. asked.v6 => host = Escaped(asked.host)
  <2> SUFFICES ASSUME asked.v6 PROVE host = Escaped(asked.host)
    OBVIOUS
  <2>1. PercentsOf(host, pos) = {}
    BY <1>1 DEF Percents, PercentsOf
  <2> QED BY <1>2, <2>1, NameType, LastTurn
<1>4. name \o <<":">> \o asked.port = Name(asked)
  BY <1>2, <1>3 DEF Name
<1>5. [peer |-> asked, id |-> name \o <<":">> \o asked.port] \in Names
  BY <1>2, <1>4 DEF Names
<1> HIDE DEF name
<1> QED BY <1>1, <1>2, <1>5, ReturnKeeps

\* A peer that leaves changes nothing that id() has read.
LEMMA LeaveKeeps == ASSUME IInv, NEW s \in Sessions, Leave(s) PROVE IInv'
<1>1. /\ peer' = [peer EXCEPT ![s] = Gone] /\ UNCHANGED <<call, asked, host, pos, named>>
  BY DEF Leave
<1>2. peer' \in [Sessions -> Endpoints \cup {Gone}]
  BY <1>1 DEF IInv
<1>3. Loop'
  BY <1>1 DEF IInv, Loop
<1> QED BY <1>1, <1>2, <1>3 DEF IInv, Names

\* IInv holds whatever the sessions, the addresses and the disconnections are.
THEOREM Invariance == Spec => []IInv
<1>1. Init => IInv
  <2> SUFFICES ASSUME Init PROVE IInv
    OBVIOUS
  <2>1. /\ peer \in [Sessions -> Endpoints \cup {Gone}]
        /\ call = NoSession /\ asked = Gone
        /\ named \in [Sessions -> {<<>>} \cup Names]
    BY DEF Init
  <2> QED BY <2>1 DEF IInv, Loop
<1>2. IInv /\ [Next]_vars => IInv'
  <2> SUFFICES ASSUME IInv, [Next]_vars PROVE IInv'
    OBVIOUS
  <2>1. CASE Escape
    BY <2>1, EscapeKeeps
  <2>2. CASE Answer
    BY <2>2, AnswerKeeps
  <2>3. ASSUME NEW s \in Sessions, Ask(s) PROVE IInv'
    BY <2>3, AskKeeps
  <2>4. ASSUME NEW s \in Sessions, Leave(s) PROVE IInv'
    BY <2>4, LeaveKeeps
  <2>5. CASE UNCHANGED vars
    BY <2>5 DEF vars, IInv, Loop, Names
  <2> QED BY <2>1, <2>2, <2>3, <2>4, <2>5 DEF Next, Id
<1> QED BY <1>1, <1>2, PTL DEF Spec

-----------------------------------------------------------------------------
(* What follows from it.                                                    *)

\* Between two turns, by positions: the text up to pos is what a part of the
\* address becomes, and behind it is the rest.
ByPosition(a, h, p) == \E n \in 0 .. Len(a) :
  /\ SubSeq(h, 1, p - 1) = Escaped(SubSeq(a, 1, n))
  /\ SubSeq(h, p, Len(h)) = SubSeq(a, n + 1, Len(a))

LEMMA LoopByPosition ==
  \A a \in Text : \A h, p : Between(a, h, p) => ByPosition(a, h, p)
<1> SUFFICES ASSUME NEW a \in Text, NEW h, NEW p, Between(a, h, p)
             PROVE  ByPosition(a, h, p)
  OBVIOUS
<1>1. PICK d \in Text, r \in Text :
        a = d \o r /\ h = Escaped(d) \o r /\ p = Len(Escaped(d)) + 1
  BY DEF Between
<1> DEFINE x == Escaped(d)
<1>2. x \in Text
  BY EscapedAppend
<1>3. Len(d) \in Nat /\ Len(r) \in Nat /\ Len(a) = Len(d) + Len(r) /\ Len(x) \in Nat
  BY <1>1, <1>2, ConcatFacts
<1>4. SubSeq(a, 1, Len(d)) = d /\ SubSeq(a, Len(d) + 1, Len(a)) = r
  BY <1>1, Parts
<1>5. SubSeq(h, 1, Len(x)) = x /\ SubSeq(h, Len(x) + 1, Len(h)) = r
  BY <1>1, <1>2, Parts
<1>6. p - 1 = Len(x) /\ p = Len(x) + 1
  <2>1. \A n \in Nat : (n + 1) - 1 = n
    OBVIOUS
  <2> QED BY <1>1, <1>3, <2>1
<1>7. Len(d) \in 0 .. Len(a)
  BY <1>3
<1>8. /\ SubSeq(h, 1, p - 1) = Escaped(SubSeq(a, 1, Len(d)))
      /\ SubSeq(h, p, Len(h)) = SubSeq(a, Len(d) + 1, Len(a))
  BY <1>4, <1>5, <1>6
<1> QED BY <1>7, <1>8 DEF ByPosition

\* What has a name has it by its peer.
LEMMA NamedByPeer ==
  ASSUME IInv, NEW s \in Sessions, named[s] # <<>>
  PROVE  \/ named[s].peer = Gone /\ named[s].id = unknown_id
         \/ named[s].peer \in Endpoints /\ named[s].id = Name(named[s].peer)
<1>1. named[s] \in Names
  BY DEF IInv
<1>2. CASE named[s] = [peer |-> Gone, id |-> unknown_id]
  BY <1>2
<1>3. CASE \E e \in Endpoints : named[s] = [peer |-> e, id |-> Name(e)]
  BY <1>3
<1> QED BY <1>1, <1>2, <1>3 DEF Names

\* Between two turns of the loop of session::id() the text up to pos is
\* escaped and the rest is untouched, for all addresses.
THEOREM TypeCorrect == Spec => []TypeOK
<1>1. IInv => TypeOK
  <2> SUFFICES ASSUME IInv PROVE TypeOK
    OBVIOUS
  <2>1. \A s \in Sessions : named[s] # <<>> => named[s].peer \in Endpoints \cup {Gone}
    BY NamedByPeer
  <2>2. ASSUME call # NoSession
        PROVE  \E n \in 0 .. Len(asked.host) :
                 /\ SubSeq(host, 1, pos - 1) = Escaped(SubSeq(asked.host, 1, n))
                 /\ SubSeq(host, pos, Len(host)) = SubSeq(asked.host, n + 1, Len(asked.host))
    <3>1. asked \in Endpoints /\ Between(asked.host, host, pos)
      BY <2>2 DEF IInv, Loop
    <3>2. asked.host \in Text
      BY <3>1, NameType
    <3>3. ByPosition(asked.host, host, pos)
      BY <3>1, <3>2, LoopByPosition
    <3> QED BY <3>3 DEF ByPosition
  <2> QED BY <2>1, <2>2 DEF IInv, TypeOK
<1> QED BY <1>1, Invariance, PTL

\* session::id() returns the text of the peer that it has found at its
\* beginning, with the zone of an IPv6 address escaped.
THEOREM NamesPeerCorrect == Spec => []NamesPeer
<1>1. IInv => NamesPeer
  <2> SUFFICES ASSUME IInv, NEW s \in Sessions, named[s] # <<>>, named[s].peer # Gone
               PROVE  named[s].id = Name(named[s].peer)
    BY DEF NamesPeer, Name
  <2> QED BY NamedByPeer
<1> QED BY <1>1, Invariance, PTL

\* Two sessions of session_manager have one id only if their peers are one, or
\* if neither has a peer: no name of a peer is that of another one, or unknown.
THEOREM IdsDifferCorrect == Spec => []IdsDiffer
<1>1. IInv => IdsDiffer
  <2> SUFFICES ASSUME IInv, NEW s \in Sessions, NEW t \in Sessions,
                      named[s] # <<>>, named[t] # <<>>, named[s].id = named[t].id
               PROVE  named[s].peer = named[t].peer
    BY DEF IdsDiffer
  <2>1. \/ named[s].peer = Gone /\ named[s].id = unknown_id
        \/ named[s].peer \in Endpoints /\ named[s].id = Name(named[s].peer)
    BY NamedByPeer
  <2>2. \/ named[t].peer = Gone /\ named[t].id = unknown_id
        \/ named[t].peer \in Endpoints /\ named[t].id = Name(named[t].peer)
    BY NamedByPeer
  <2>3. \A e, f \in Endpoints : Name(e) = Name(f) => e = f
    BY NamesDiffer
  <2>4. \A e \in Endpoints : Name(e) # unknown_id
    BY NameKnown
  <2> QED BY <2>1, <2>2, <2>3, <2>4
<1> QED BY <1>1, Invariance, PTL
=============================================================================
