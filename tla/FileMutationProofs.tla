-------------------------- MODULE FileMutationProofs --------------------------
(***************************************************************************)
(* What a mutation step makes of the text of its file, for every text,     *)
(* every list of edits and both line endings.  The lemmas say what reading *)
(* and writing do to a text and what a search for matches finds; both are  *)
(* defined by recursion, which is unfolded here by looking for the         *)
(* smallest case that could go wrong.                                      *)
(***************************************************************************)
EXTENDS FileMutation, SequenceTheorems, FiniteSetTheorems, TLAPS

Text == Seq(Char)

\* A set of numbers that is not empty has a smallest one.
LEMMA LeastNumber ==
  ASSUME NEW S, S \subseteq Nat, S # {}
  PROVE  \E i \in S : \A j \in S : i <= j
<1> DEFINE R == OpToRel(<, Nat)
<1>1. IsWellFoundedOn(R, Nat)
  BY NatLessThanWellFounded, Zenon
<1>2. R = {ss \in Nat \X Nat : ss[1] < ss[2]}
  BY Zenon DEF OpToRel
<1> HIDE DEF R
<1>3. PICK i \in S : \A j \in S : <<j, i>> \notin R
  BY <1>1, WFMin, Zenon
<1>4. ASSUME NEW j \in S, j < i PROVE FALSE
  <2>1. <<j, i>> \in Nat \X Nat /\ <<j, i>>[1] = j /\ <<j, i>>[2] = i
    OBVIOUS
  <2> QED
    BY <1>2, <1>3, <1>4, <2>1
<1> QED
  BY <1>4

\* What holds of the empty sequence and goes on to hold when one element is
\* appended holds of every sequence.
LEMMA GrowingSequences ==
  ASSUME NEW S, NEW Good, <<>> \in Good,
         \A s \in Seq(S), x \in S : s \in Good => Append(s, x) \in Good
  PROVE  Seq(S) \subseteq Good
<1> SUFFICES ASSUME NEW w \in Seq(S), w \notin Good PROVE FALSE
  OBVIOUS
<1> DEFINE Bad == {n \in Nat : \E s \in Seq(S) : s \notin Good /\ Len(s) = n}
<1>1. Len(w) \in Bad
  BY LenProperties
<1>2. PICK n \in Bad : \A m \in Bad : n <= m
  <2>1. Bad \subseteq Nat /\ Bad # {}
    BY <1>1
  <2> HIDE DEF Bad
  <2> QED BY <2>1, LeastNumber
<1>3. PICK s \in Seq(S) : s \notin Good /\ Len(s) = n
  BY <1>2
<1>4. s # <<>>
  BY <1>3
<1>5. PICK t \in Seq(S), x \in S : s = Append(t, x)
  BY <1>4, SequenceEmptyOrAppend
<1>6. Len(s) = Len(t) + 1 /\ Len(t) \in Nat
  BY <1>5, AppendProperties, LenProperties
<1>7. t \in Good
  <2>1. Len(t) \notin Bad
    BY <1>2, <1>3, <1>6
  <2> QED BY <1>6, <2>1
<1> QED
  BY <1>3, <1>5, <1>7
-----------------------------------------------------------------------------
(* FlattenSeq: the recursion that reading and writing are made of.         *)

IsFlat(g, seqs, n) ==
    g = [i \in 1 .. n |-> IF i = 1 THEN seqs[i] ELSE g[i - 1] \o seqs[i]]

LEMMA FlatExists ==
  ASSUME NEW seqs, NEW n \in Nat
  PROVE  \E g : IsFlat(g, seqs, n)
<1> SUFFICES ASSUME ~ \E g : IsFlat(g, seqs, n) PROVE FALSE
  OBVIOUS
<1> DEFINE Bad == {k \in Nat : ~ \E g : IsFlat(g, seqs, k)}
<1>1. Bad \subseteq Nat /\ Bad # {}
  OBVIOUS
<1>2. PICK k \in Bad : \A m \in Bad : k <= m
  <2> HIDE DEF Bad
  <2> QED BY <1>1, LeastNumber
<1>3. CASE k = 0
  <2> DEFINE g == [i \in 1 .. 0 |-> seqs[i]]
  <2>1. IsFlat(g, seqs, 0)
    BY DEF IsFlat
  <2> QED BY <1>2, <1>3, <2>1
<1>4. CASE k # 0
  <2>1. k - 1 \in Nat /\ k - 1 \notin Bad
    BY <1>2, <1>4
  <2>2. PICK g : IsFlat(g, seqs, k - 1)
    BY <2>1
  <2> DEFINE h == [i \in 1 .. k |-> IF i = 1 THEN seqs[i] ELSE g[i - 1] \o seqs[i]]
  <2>3. \A i \in 1 .. (k - 1) : g[i] = IF i = 1 THEN seqs[i] ELSE g[i - 1] \o seqs[i]
    BY <2>2 DEF IsFlat
  <2>4. \A i \in 1 .. (k - 1) : h[i] = g[i]
    BY <2>1, <2>3
  <2>5. \A i \in 1 .. k : i # 1 => h[i - 1] = g[i - 1]
    <3>1. \A i \in 1 .. k : i # 1 => i - 1 \in 1 .. (k - 1)
      BY <2>1
    <3> HIDE DEF h
    <3> QED BY <2>4, <3>1
  <2>6. h = [i \in 1 .. k |-> IF i = 1 THEN seqs[i] ELSE h[i - 1] \o seqs[i]]
    <3> HIDE DEF h
    <3>1. h = [i \in 1 .. k |-> IF i = 1 THEN seqs[i] ELSE g[i - 1] \o seqs[i]]
      BY DEF h
    <3> QED BY <2>5, <3>1
  <2>7. IsFlat(h, seqs, k)
    BY <2>6 DEF IsFlat
  <2> QED BY <1>2, <2>7
<1> QED
  BY <1>3, <1>4

LEMMA FlatAgrees ==
  ASSUME NEW s, NEW t, NEW g, NEW h, NEW m \in Nat, NEW n \in Nat, m <= n,
         IsFlat(g, s, m), IsFlat(h, t, n), \A i \in 1 .. m : s[i] = t[i]
  PROVE  \A i \in 1 .. m : g[i] = h[i]
<1> DEFINE Bad == {i \in 1 .. m : g[i] # h[i]}
<1> SUFFICES ASSUME Bad # {} PROVE FALSE
  OBVIOUS
<1>1. PICK i \in Bad : \A j \in Bad : i <= j
  <2>1. Bad \subseteq Nat
    OBVIOUS
  <2> HIDE DEF Bad
  <2> QED BY <2>1, LeastNumber
<1>a. i \in 1 .. m /\ i \in 1 .. n
  OBVIOUS
<1>2. g[i] = IF i = 1 THEN s[i] ELSE g[i - 1] \o s[i]
  BY <1>a DEF IsFlat
<1>3. h[i] = IF i = 1 THEN t[i] ELSE h[i - 1] \o t[i]
  <2> HIDE DEF Bad
  <2> QED BY <1>a DEF IsFlat
<1>4. i # 1 => g[i - 1] = h[i - 1]
  <2>1. i # 1 => i - 1 \in 1 .. m /\ i - 1 \notin Bad
    BY <1>1
  <2> QED BY <2>1
<1> QED
  BY <1>2, <1>3, <1>4

LEMMA FlattenIsFlat ==
  ASSUME NEW T, NEW seqs \in Seq(T), seqs # <<>>
  PROVE  \E g : IsFlat(g, seqs, Len(seqs)) /\ FlattenSeq(seqs) = g[Len(seqs)]
<1>1. Len(seqs) \in Nat /\ Len(seqs) # 0
  BY EmptySeq
<1> DEFINE flatten == CHOOSE g : g = [i \in 1 .. Len(seqs) |-> IF i = 1 THEN seqs[i] ELSE g[i - 1] \o seqs[i]]
<1>2. FlattenSeq(seqs) = flatten[Len(seqs)]
  BY <1>1, Zenon DEF FlattenSeq
<1>3. \E g : g = [i \in 1 .. Len(seqs) |-> IF i = 1 THEN seqs[i] ELSE g[i - 1] \o seqs[i]]
  BY <1>1, FlatExists DEF IsFlat
<1>4. flatten = [i \in 1 .. Len(seqs) |-> IF i = 1 THEN seqs[i] ELSE flatten[i - 1] \o seqs[i]]
  BY <1>3, Zenon
<1> HIDE DEF flatten
<1>5. IsFlat(flatten, seqs, Len(seqs))
  BY <1>4 DEF IsFlat
<1> QED
  BY <1>2, <1>5

\* One more sequence is put at the end.
LEMMA FlattenAppend ==
  ASSUME NEW T, NEW seqs \in Seq(Seq(T)), NEW e \in Seq(T)
  PROVE  FlattenSeq(Append(seqs, e)) = FlattenSeq(seqs) \o e
<1> DEFINE longer == Append(seqs, e)
           n == Len(seqs)
<1>1. /\ longer \in Seq(Seq(T)) /\ longer # <<>> /\ Len(longer) = n + 1 /\ n \in Nat
      /\ \A i \in 1 .. n : longer[i] = seqs[i]
      /\ longer[n + 1] = e
  BY AppendProperties, LenProperties
<1>2. PICK h : IsFlat(h, longer, n + 1) /\ FlattenSeq(longer) = h[n + 1]
  <2> HIDE DEF longer
  <2> QED BY <1>1, FlattenIsFlat
<1> HIDE DEF longer
<1>3. h[n + 1] = IF n + 1 = 1 THEN longer[n + 1] ELSE h[n + 1 - 1] \o longer[n + 1]
  <2>1. n + 1 \in 1 .. (n + 1)
    BY <1>1
  <2> HIDE DEF n
  <2>2. \A i \in 1 .. (n + 1) : h[i] = IF i = 1 THEN longer[i] ELSE h[i - 1] \o longer[i]
    BY <1>2 DEF IsFlat
  <2> QED BY <1>1, <2>1, <2>2
<1>4. CASE seqs = <<>>
  <2>1. n = 0 /\ FlattenSeq(seqs) = <<>>
    BY <1>4 DEF FlattenSeq
  <2>2. <<>> \o e = e
    BY ConcatEmptySeq
  <2>3. FlattenSeq(longer) = e
    BY <1>1, <1>2, <1>3, <2>1
  <2> QED BY <2>1, <2>2, <2>3 DEF longer
<1>5. CASE seqs # <<>>
  <2>1. n \in Nat /\ n # 0
    BY <1>5, EmptySeq
  <2>2. PICK g : IsFlat(g, seqs, n) /\ FlattenSeq(seqs) = g[n]
    BY <1>5, FlattenIsFlat
  <2>3. \A i \in 1 .. n : g[i] = h[i]
    <3>1. n + 1 \in Nat /\ n <= n + 1
      BY <2>1
    <3>2. \A i \in 1 .. n : seqs[i] = longer[i]
      BY <1>1
    <3> HIDE DEF n
    <3> QED BY <1>2, <2>1, <2>2, <3>1, <3>2, FlatAgrees
  <2>4. FlattenSeq(longer) = h[n] \o e
    BY <1>1, <1>2, <1>3, <2>1
  <2>5. g[n] = h[n]
    BY <2>1, <2>3
  <2> QED BY <2>2, <2>4, <2>5 DEF longer
<1> QED
  BY <1>4, <1>5
-----------------------------------------------------------------------------
(* Reading and writing a file, one character at a time.                    *)

\* A sequence that goes on with e after s is s with e appended.
LEMMA GoesOnWith ==
  ASSUME NEW S, NEW s \in Seq(S), NEW e \in S, NEW n \in Nat, n = Len(s),
         NEW t \in [1 .. (n + 1) -> S],
         \A i \in 1 .. n : t[i] = s[i],
         t[n + 1] = e
  PROVE  t = Append(s, e)
<1>1. /\ Append(s, e) \in Seq(S) /\ Len(Append(s, e)) = n + 1 /\ n \in Nat
      /\ \A i \in 1 .. n : Append(s, e)[i] = s[i]
      /\ Append(s, e)[n + 1] = e
  BY AppendProperties, LenProperties
<1>2. Append(s, e) \in [1 .. (n + 1) -> S]
  BY <1>1, LenProperties
<1>3. ASSUME NEW i \in 1 .. (n + 1) PROVE t[i] = Append(s, e)[i]
  BY <1>1
<1> QED
  BY <1>2, <1>3

\* What write_text makes of a character.
Written(c) == IF c = LF THEN LineSep ELSE <<c>>

LEMMA Characters == LineSep \in Text /\ CR \in Char /\ LF \in Char /\ CR # LF
<1>1. CR # LF
  BY Zenon DEF CR, LF
<1>2. CR \in Char /\ LF \in Char
  BY PlatformEndsLines
<1>3. <<LF>> \in Seq(Char) /\ <<CR, LF>> \in Seq(Char)
  BY <1>2
<1>4. LineSep = <<LF>> \/ LineSep = <<CR, LF>>
  BY PlatformEndsLines
<1> QED
  BY <1>1, <1>2, <1>3, <1>4 DEF Text

LEMMA WrittenIsText == \A c \in Char : Written(c) \in Text
BY Characters DEF Written, Text

LEMMA ReadCharIsText ==
  ASSUME NEW bytes \in Text, NEW i \in 1 .. Len(bytes)
  PROVE  ReadChar(bytes, i) \in Text
<1>1. bytes[i] \in Char
  BY ElementOfSeq DEF Text
<1>2. <<LF>> \in Text /\ <<>> \in Text /\ <<bytes[i]>> \in Text
  BY <1>1, Characters DEF Text
<1> QED
  BY <1>2 DEF ReadChar

LEMMA EmptyText ==
  /\ <<>> \in Text /\ Decode(<<>>) = <<>> /\ Encode(<<>>) = <<>>
<1>1. [i \in DOMAIN <<>> |-> ReadChar(<<>>, i)] = <<>>
  OBVIOUS
<1>2. [i \in DOMAIN <<>> |-> IF <<>>[i] = LF THEN LineSep ELSE << <<>>[i] >>] = <<>>
  OBVIOUS
<1>3. FlattenSeq(<<>>) = <<>>
  BY DEF FlattenSeq
<1> QED
  BY <1>1, <1>2, <1>3 DEF Decode, Encode, Text

LEMMA AppendedText ==
  ASSUME NEW text \in Text, NEW c \in Char
  PROVE  /\ Append(text, c) \in Text /\ Len(Append(text, c)) = Len(text) + 1 /\ Len(text) \in Nat
         /\ \A i \in 1 .. Len(text) : Append(text, c)[i] = text[i] /\ text[i] \in Char
         /\ Append(text, c)[Len(text) + 1] = c
         /\ DOMAIN text = 1 .. Len(text) /\ DOMAIN Append(text, c) = 1 .. (Len(text) + 1)
<1>1. text \in Seq(Char)
  BY DEF Text
<1>2. /\ Append(text, c) \in Seq(Char) /\ Len(Append(text, c)) = Len(text) + 1 /\ Len(text) \in Nat
      /\ \A i \in 1 .. Len(text) : Append(text, c)[i] = text[i]
      /\ Append(text, c)[Len(text) + 1] = c
  BY <1>1, AppendProperties, LenProperties
<1>3. DOMAIN text = 1 .. Len(text) /\ DOMAIN Append(text, c) = 1 .. (Len(text) + 1)
  BY <1>1, <1>2, LenProperties
<1>4. \A i \in 1 .. Len(text) : text[i] \in Char
  BY <1>1, ElementOfSeq
<1> QED
  BY <1>2, <1>3, <1>4 DEF Text

LEMMA EncodeAppend ==
  ASSUME NEW text \in Text, NEW c \in Char
  PROVE  Encode(Append(text, c)) = Encode(text) \o Written(c)
<1>1. PICK longer : longer = Append(text, c)
  OBVIOUS
<1>2. PICK n : n = Len(text)
  OBVIOUS
<1>3. /\ n \in Nat /\ DOMAIN text = 1 .. n /\ DOMAIN longer = 1 .. (n + 1)
      /\ \A i \in 1 .. n : longer[i] = text[i] /\ text[i] \in Char
      /\ longer[n + 1] = c
  BY <1>1, <1>2, AppendedText
<1>4. PICK old : old = [i \in DOMAIN text |-> IF text[i] = LF THEN LineSep ELSE <<text[i]>>]
  OBVIOUS
<1>5. PICK new : new = [i \in DOMAIN longer |-> IF longer[i] = LF THEN LineSep ELSE <<longer[i]>>]
  OBVIOUS
<1>6. old \in [1 .. n -> Text]
  BY <1>3, <1>4, WrittenIsText DEF Written
<1>7. old \in Seq(Text) /\ Len(old) = n
  BY <1>3, <1>6, SeqDef, LenProperties
<1>8. new = Append(old, Written(c))
  <2>1. \A i \in 1 .. n : new[i] = old[i]
    BY <1>3, <1>4, <1>5
  <2>2. n + 1 \in 1 .. (n + 1)
    BY <1>3
  <2>3. new[n + 1] = Written(c)
    BY <1>3, <1>5, <2>2 DEF Written
  <2>4. new \in [1 .. (n + 1) -> Text]
    <3>1. \A i \in 1 .. (n + 1) : longer[i] \in Char
      BY <1>3
    <3> QED BY <1>3, <1>5, <3>1, WrittenIsText DEF Written
  <2>5. Written(c) \in Text
    BY WrittenIsText
  <2> QED BY <1>3, <1>7, <2>1, <2>3, <2>4, <2>5, GoesOnWith
<1>9. FlattenSeq(new) = FlattenSeq(old) \o Written(c)
  BY <1>7, <1>8, WrittenIsText, FlattenAppend DEF Text
<1> QED
  BY <1>1, <1>4, <1>5, <1>9 DEF Encode

\* What read_text makes of a character that comes after others.
ReadAfter(bytes, c) ==
    CASE c = CR -> <<LF>>
      [] c = LF /\ Len(bytes) > 0 /\ bytes[Len(bytes)] = CR -> <<>>
      [] OTHER -> <<c>>

LEMMA DecodeAppend ==
  ASSUME NEW bytes \in Text, NEW c \in Char
  PROVE  Decode(Append(bytes, c)) = Decode(bytes) \o ReadAfter(bytes, c)
<1>1. PICK longer : longer = Append(bytes, c)
  OBVIOUS
<1>2. PICK n : n = Len(bytes)
  OBVIOUS
<1>3. /\ n \in Nat /\ DOMAIN bytes = 1 .. n /\ DOMAIN longer = 1 .. (n + 1)
      /\ longer \in Text /\ Len(longer) = n + 1
      /\ \A i \in 1 .. n : longer[i] = bytes[i]
      /\ longer[n + 1] = c
  BY <1>1, <1>2, AppendedText
<1>4. PICK old : old = [i \in DOMAIN bytes |-> ReadChar(bytes, i)]
  OBVIOUS
<1>5. PICK new : new = [i \in DOMAIN longer |-> ReadChar(longer, i)]
  OBVIOUS
<1>6. ReadChar(longer, n + 1) = ReadAfter(bytes, c)
  <2>1. (n + 1 > 1 <=> n > 0) /\ n + 1 - 1 = n /\ (n > 0 => longer[n] = bytes[n])
    BY <1>3
  <2> QED BY <1>2, <1>3, <2>1 DEF ReadChar, ReadAfter
<1>7. ASSUME NEW i \in 1 .. n PROVE ReadChar(longer, i) = ReadChar(bytes, i)
  <2>1. longer[i] = bytes[i] /\ (i > 1 => longer[i - 1] = bytes[i - 1])
    BY <1>3
  <2> QED BY <2>1 DEF ReadChar
<1>8. old \in [1 .. n -> Text]
  BY <1>2, <1>3, <1>4, ReadCharIsText
<1>9. old \in Seq(Text) /\ Len(old) = n
  BY <1>3, <1>8, SeqDef, LenProperties
<1>10. n + 1 \in 1 .. (n + 1)
  BY <1>3
<1>11. ReadAfter(bytes, c) \in Text
  BY <1>3, <1>6, <1>10, ReadCharIsText
<1>12. new = Append(old, ReadAfter(bytes, c))
  <2>1. \A i \in 1 .. n : new[i] = old[i]
    BY <1>3, <1>4, <1>5, <1>7
  <2>2. new[n + 1] = ReadAfter(bytes, c)
    BY <1>3, <1>5, <1>6, <1>10
  <2>3. new \in [1 .. (n + 1) -> Text]
    BY <1>3, <1>5, ReadCharIsText
  <2> QED BY <1>3, <1>9, <1>11, <2>1, <2>2, <2>3, GoesOnWith
<1>13. FlattenSeq(new) = FlattenSeq(old) \o ReadAfter(bytes, c)
  BY <1>9, <1>11, <1>12, FlattenAppend DEF Text
<1> QED
  BY <1>1, <1>4, <1>5, <1>13 DEF Decode

\* A text as read_text returns it has no CR.
NoCR(text) == \A i \in 1 .. Len(text) : text[i] # CR

\* The last character of a text is no CR.
OpenEnd(text) == Len(text) > 0 => text[Len(text)] # CR

LEMMA AppendOne ==
  ASSUME NEW text \in Text, NEW c \in Char
  PROVE  text \o <<c>> = Append(text, c) /\ text \o <<>> = text
BY AppendIsConcat, ConcatEmptySeq DEF Text

LEMMA NoCRAppend ==
  ASSUME NEW text \in Text, NEW c \in Char
  PROVE  NoCR(Append(text, c)) <=> NoCR(text) /\ c # CR
<1>1. PICK n : n = Len(text)
  OBVIOUS
<1>2. PICK longer : longer = Append(text, c)
  OBVIOUS
<1>3. n \in Nat /\ Len(longer) = n + 1 /\ longer[n + 1] = c /\ \A i \in 1 .. n : longer[i] = text[i]
  BY <1>1, <1>2, AppendedText
<1>4. 1 .. (n + 1) = (1 .. n) \cup {n + 1}
  BY <1>3
<1>5. NoCR(longer) <=> NoCR(text) /\ c # CR
  BY <1>1, <1>3, <1>4 DEF NoCR
<1> QED
  BY <1>2, <1>5

\* What read_text returns is a text without CR.
LEMMA DecodeIsText ==
  ASSUME NEW bytes \in Text
  PROVE  Decode(bytes) \in Text /\ NoCR(Decode(bytes))
<1> DEFINE Good == {b \in Text : Decode(b) \in Text /\ NoCR(Decode(b))}
<1>1. <<>> \in Good
  BY EmptyText DEF NoCR
<1>2. ASSUME NEW b \in Text, NEW c \in Char, b \in Good PROVE Append(b, c) \in Good
  <2>1. Append(b, c) \in Text /\ Decode(Append(b, c)) = Decode(b) \o ReadAfter(b, c)
    BY AppendedText, DecodeAppend
  <2>2. Decode(b) \in Text /\ NoCR(Decode(b))
    BY <1>2
  <2>3. ReadAfter(b, c) = <<LF>> \/ ReadAfter(b, c) = <<>> \/ (ReadAfter(b, c) = <<c>> /\ c # CR)
    BY DEF ReadAfter
  <2>4. ASSUME NEW d \in Char, d # CR
        PROVE  Decode(b) \o <<d>> \in Text /\ NoCR(Decode(b) \o <<d>>)
    <3>1. Decode(b) \o <<d>> = Append(Decode(b), d)
      BY <2>2, AppendOne
    <3>2. Append(Decode(b), d) \in Text
      BY <2>2, AppendedText
    <3>3. NoCR(Append(Decode(b), d)) <=> NoCR(Decode(b)) /\ d # CR
      BY <2>2, NoCRAppend
    <3> QED BY <2>2, <2>4, <3>1, <3>2, <3>3
  <2>5. Decode(b) \o <<>> = Decode(b)
    BY <2>2, AppendOne, Characters
  <2> QED
    BY <2>1, <2>2, <2>3, <2>4, <2>5, Characters
<1> HIDE DEF Good
<1>3. Text \subseteq Good
  BY <1>1, <1>2, GrowingSequences DEF Text
<1> QED
  BY <1>3 DEF Good

\* A text without CR is read as it is.
LEMMA DecodeOfText ==
  ASSUME NEW text \in Text, NoCR(text)
  PROVE  Decode(text) = text
<1> DEFINE Good == {t \in Text : NoCR(t) => Decode(t) = t}
<1>1. <<>> \in Good
  BY EmptyText
<1>2. ASSUME NEW t \in Text, NEW c \in Char, t \in Good PROVE Append(t, c) \in Good
  <2>1. Append(t, c) \in Text /\ Decode(Append(t, c)) = Decode(t) \o ReadAfter(t, c)
    BY AppendedText, DecodeAppend
  <2>2. SUFFICES ASSUME NoCR(Append(t, c)) PROVE Decode(Append(t, c)) = Append(t, c)
    BY <2>1
  <2>3. NoCR(t) /\ c # CR /\ Decode(t) = t
    BY <1>2, <2>2, NoCRAppend
  <2>4. ReadAfter(t, c) = <<c>>
    <3>1. Len(t) > 0 => t[Len(t)] # CR
      BY <2>3, LenProperties DEF NoCR, Text
    <3> QED BY <2>3, <3>1 DEF ReadAfter
  <2> QED
    BY <2>1, <2>3, <2>4, AppendOne
<1> HIDE DEF Good
<1>3. Text \subseteq Good
  BY <1>1, <1>2, GrowingSequences DEF Text
<1> QED
  BY <1>3 DEF Good

\* On a platform with the line ending LF a text is written as it is.
LEMMA EncodeOnUnix ==
  ASSUME LineSep = <<LF>>, NEW text \in Text
  PROVE  Encode(text) = text
<1> DEFINE Good == {t \in Text : Encode(t) = t}
<1>1. <<>> \in Good
  BY EmptyText
<1>2. ASSUME NEW t \in Text, NEW c \in Char, t \in Good PROVE Append(t, c) \in Good
  <2>1. Written(c) = <<c>>
    BY DEF Written
  <2>2. Encode(Append(t, c)) = t \o <<c>>
    BY <1>2, <2>1, EncodeAppend
  <2> QED
    BY <2>2, AppendedText, AppendOne
<1> HIDE DEF Good
<1>3. Text \subseteq Good
  BY <1>1, <1>2, GrowingSequences DEF Text
<1> QED
  BY <1>3 DEF Good

LEMMA EncodeIsText ==
  ASSUME NEW text \in Text
  PROVE  Encode(text) \in Text
<1> DEFINE Good == {t \in Text : Encode(t) \in Text}
<1>1. <<>> \in Good
  BY EmptyText
<1>2. ASSUME NEW t \in Text, NEW c \in Char, t \in Good PROVE Append(t, c) \in Good
  <2>1. \A u, v \in Text : u \o v \in Text
    BY ConcatProperties DEF Text
  <2> QED
    BY <1>2, <2>1, AppendedText, EncodeAppend, WrittenIsText
<1> HIDE DEF Good
<1>3. Text \subseteq Good
  BY <1>1, <1>2, GrowingSequences DEF Text
<1> QED
  BY <1>3 DEF Good

\* What was read and is written is read again as it was, on every platform.
LEMMA RoundTrip ==
  ASSUME NEW text \in Text, NoCR(text)
  PROVE  Decode(Encode(text)) = text
<1> DEFINE Good == {t \in Text : NoCR(t) => Decode(Encode(t)) = t /\ OpenEnd(Encode(t))}
<1>1. <<>> \in Good
  BY EmptyText DEF OpenEnd
<1>2. ASSUME NEW t \in Text, NEW c \in Char, t \in Good PROVE Append(t, c) \in Good
  <2>1. SUFFICES ASSUME NoCR(Append(t, c))
                 PROVE  /\ Decode(Encode(Append(t, c))) = Append(t, c)
                        /\ OpenEnd(Encode(Append(t, c)))
    BY AppendedText
  <2>2. NoCR(t) /\ c # CR /\ Decode(Encode(t)) = t /\ OpenEnd(Encode(t))
    BY <1>2, <2>1, NoCRAppend
  <2>3. PICK e \in Text : e = Encode(t)
    BY EncodeIsText
  <2>4. Decode(e) = t /\ OpenEnd(e) /\ Encode(Append(t, c)) = e \o Written(c)
    BY <2>2, <2>3, EncodeAppend
  <2>5. ASSUME Written(c) = <<c>> PROVE Decode(e \o <<c>>) = Append(t, c) /\ OpenEnd(e \o <<c>>)
    <3>1. e \o <<c>> = Append(e, c)
      BY AppendOne
    <3>2. ReadAfter(e, c) = <<c>>
      BY <2>2, <2>4 DEF ReadAfter, OpenEnd
    <3>3. Decode(Append(e, c)) = t \o <<c>>
      BY <2>4, <3>2, DecodeAppend
    <3>4. OpenEnd(Append(e, c))
      BY <2>2, AppendedText DEF OpenEnd
    <3> QED BY <3>1, <3>3, <3>4, AppendOne
  <2>6. ASSUME Written(c) = <<CR, LF>>, c = LF
        PROVE  Decode(e \o <<CR, LF>>) = Append(t, c) /\ OpenEnd(e \o <<CR, LF>>)
    <3>1. PICK f \in Text : f = Append(e, CR)
      BY Characters, AppendedText
    <3>2. e \o <<CR, LF>> = Append(f, LF)
      BY <3>1, Characters DEF Text
    <3>3. Len(f) > 0 /\ f[Len(f)] = CR
      <4>1. Len(f) = Len(e) + 1 /\ Len(e) \in Nat /\ f[Len(e) + 1] = CR
        BY <3>1, Characters, AppendedText
      <4> QED BY <4>1
    <3>4. Decode(f) = t \o <<LF>>
      BY <2>4, <3>1, Characters, DecodeAppend DEF ReadAfter
    <3>5. ReadAfter(f, LF) = <<>>
      BY <3>3, Characters DEF ReadAfter
    <3>6. Decode(f) = Append(t, LF) /\ Append(t, LF) \in Text
      BY <3>4, Characters, AppendOne, AppendedText
    <3>7. Decode(Append(f, LF)) = Append(t, LF) \o <<>>
      BY <3>5, <3>6, Characters, DecodeAppend
    <3>8. OpenEnd(Append(f, LF))
      BY Characters, AppendedText DEF OpenEnd
    <3> QED BY <2>6, <3>2, <3>6, <3>7, <3>8, AppendOne
  <2>7. Written(c) = <<c>> \/ (Written(c) = <<CR, LF>> /\ c = LF)
    BY PlatformEndsLines DEF Written
  <2> QED
    BY <2>4, <2>5, <2>6, <2>7
<1> HIDE DEF Good
<1>3. Text \subseteq Good
  BY <1>1, <1>2, GrowingSequences DEF Text
<1> QED
  BY <1>3 DEF Good
-----------------------------------------------------------------------------
(* The search for matches of one edit.                                     *)

\* found lists matches from left to right, all of them ended before from, and
\* each occurrence before passed is one of them or overlaps one.
Greedy(text, old, found, from, passed) ==
    /\ \A n \in DOMAIN found : OccursAt(text, old, found[n]) /\ found[n] + Len(old) <= from
    /\ \A n, m \in DOMAIN found : n < m => found[n] + Len(old) <= found[m]
    /\ \A i \in 1 .. Len(text) : i < passed /\ OccursAt(text, old, i) =>
          \E n \in DOMAIN found : found[n] <= i /\ i < found[n] + Len(old)

LEMMA GreedyScan ==
  ScanIsGreedy <=>
     (pc \in {"scan", "choose"} =>
        Greedy(content, ThisEdit.old, positions, start,
               IF At("choose") THEN Len(content) + 1 ELSE start))
BY DEF ScanIsGreedy, Greedy

\* An occurrence lies inside the text.
LEMMA OccurrenceFits ==
  ASSUME NEW text \in Text, NEW old \in Text, NEW i, OccursAt(text, old, i)
  PROVE  i \in Nat /\ i >= 1 /\ i + Len(old) <= Len(text) + 1
<1>1. Len(text) \in Nat /\ Len(old) \in Nat
  BY LenProperties DEF Text
<1> QED
  BY <1>1 DEF OccursAt

\* Nothing found: the search starts at the first character.
LEMMA GreedyStart ==
  ASSUME NEW text, NEW old
  PROVE  Greedy(text, old, <<>>, 1, 1)
BY DEF Greedy

\* One more match, the first one from where the search goes on.
LEMMA GreedyFinds ==
  ASSUME NEW text \in Text, NEW old \in Text, NEW found \in Seq(Nat), NEW from \in Nat,
         Greedy(text, old, found, from, from),
         NEW i \in 1 .. Len(text), i >= from, OccursAt(text, old, i),
         \A j \in from .. (i - 1) : ~OccursAt(text, old, j)
  PROVE  Greedy(text, old, Append(found, i), i + Len(old), i + Len(old))
<1>1. PICK n : n = Len(found)
  OBVIOUS
<1>2. PICK more : more = Append(found, i)
  OBVIOUS
<1>3. /\ n \in Nat /\ DOMAIN found = 1 .. n /\ DOMAIN more = 1 .. (n + 1)
      /\ \A k \in 1 .. n : more[k] = found[k] /\ found[k] \in Nat
      /\ more[n + 1] = i /\ more \in Seq(Nat)
  <2>1. i \in Nat
    OBVIOUS
  <2> QED BY <1>1, <1>2, <2>1, AppendProperties, LenProperties, ElementOfSeq
<1>4. PICK l \in Nat : l = Len(old)
  BY LenProperties DEF Text
<1>5. PICK t \in Nat : t = Len(text)
  BY LenProperties DEF Text
<1>6. \A k \in 1 .. (n + 1) : k \in 1 .. n \/ k = n + 1
  BY <1>3
<1>7. \A k \in 1 .. n : OccursAt(text, old, found[k]) /\ found[k] + l <= from
  BY <1>3, <1>4 DEF Greedy
<1>8. \A k \in DOMAIN more : OccursAt(text, old, more[k]) /\ more[k] + l <= i + l
  <2>1. ASSUME NEW k \in 1 .. n PROVE OccursAt(text, old, more[k]) /\ more[k] + l <= i + l
    <3>1. more[k] = found[k] /\ found[k] \in Nat /\ found[k] + l <= from
      BY <1>3, <1>7
    <3> QED BY <1>4, <1>7, <3>1
  <2>2. OccursAt(text, old, more[n + 1]) /\ more[n + 1] + l <= i + l
    BY <1>3, <1>4
  <2> QED BY <1>3, <1>6, <2>1, <2>2
<1>9. ASSUME NEW k \in DOMAIN more, NEW m \in DOMAIN more, k < m
      PROVE  more[k] + l <= more[m]
  <2>1. CASE m \in 1 .. n
    <3>1. k \in 1 .. n
      BY <1>3, <1>9, <2>1
    <3> QED BY <1>3, <1>4, <1>9, <2>1, <3>1 DEF Greedy
  <2>2. CASE m = n + 1
    <3>1. k \in 1 .. n
      BY <1>3, <1>9, <2>2
    <3>2. more[k] + l <= from /\ more[k] \in Nat
      BY <1>3, <1>7, <3>1
    <3> QED BY <1>3, <1>4, <2>2, <3>2
  <2> QED BY <1>3, <1>6, <2>1, <2>2
<1>10. ASSUME NEW j \in 1 .. Len(text), j < i + l, OccursAt(text, old, j)
       PROVE  \E k \in DOMAIN more : more[k] <= j /\ j < more[k] + l
  <2>1. CASE j < from
    <3>1. PICK k \in 1 .. n : found[k] <= j /\ j < found[k] + l
      BY <1>3, <1>4, <1>10, <2>1 DEF Greedy
    <3>2. k \in DOMAIN more /\ more[k] = found[k]
      BY <1>3
    <3> QED BY <3>1, <3>2
  <2>2. CASE j >= from
    <3>1. ~(j < i)
      BY <1>5, <1>10, <2>2
    <3>2. n + 1 \in DOMAIN more /\ more[n + 1] = i
      BY <1>3
    <3> QED BY <1>4, <1>5, <1>10, <3>1, <3>2
  <2> QED BY <1>5, <2>1, <2>2
<1> QED
  BY <1>2, <1>4, <1>8, <1>9, <1>10 DEF Greedy

\* No further match: every occurrence has been passed.
LEMMA GreedyEnds ==
  ASSUME NEW text \in Text, NEW old \in Text, NEW found, NEW from \in Nat,
         Greedy(text, old, found, from, from),
         \A i \in 1 .. Len(text) :
            ~(i >= from /\ OccursAt(text, old, i) /\ \A j \in from .. (i - 1) : ~OccursAt(text, old, j))
  PROVE  Greedy(text, old, found, from, Len(text) + 1)
<1> DEFINE Left == {i \in 1 .. Len(text) : i >= from /\ OccursAt(text, old, i)}
<1>1. Left = {}
  <2> SUFFICES ASSUME Left # {} PROVE FALSE
    OBVIOUS
  <2>1. Left \subseteq Nat
    OBVIOUS
  <2>2. PICK i \in Left : \A j \in Left : i <= j
    <3> HIDE DEF Left
    <3> QED BY <2>1, LeastNumber
  <2>3. ASSUME NEW j \in from .. (i - 1), OccursAt(text, old, j) PROVE FALSE
    <3>1. j \in Nat /\ j >= 1 /\ j >= from /\ j < i
      BY <2>3, OccurrenceFits
    <3>2. j \in Left
      BY <2>3, <3>1
    <3> QED BY <2>2, <3>1, <3>2
  <2> QED BY <2>2, <2>3
<1>2. ASSUME NEW i \in 1 .. Len(text), OccursAt(text, old, i) PROVE i < from
  BY <1>1, <1>2
<1> QED
  BY <1>2 DEF Greedy
-----------------------------------------------------------------------------
(* Types, and what the search keeps.                                       *)

Edit == [old : Text, new : Text, occurrence : (Nat \ {0}) \cup {Absent}]

\* The search is for a text that is not empty and is to be changed.
Searching == pc \in {"scan", "choose"} => ThisEdit.old # <<>> /\ ThisEdit.old # ThisEdit.new

\* The inductive invariant of types and search.
StepInv == TypeOK /\ request \in Requests /\ Searching /\ ScanIsGreedy

LEMMA RequestTypes ==
  ASSUME NEW r \in Requests
  PROVE  /\ r.edits \in Seq(Edit) /\ Len(r.edits) \in Nat
         /\ r.text \in Text /\ r.guard \in Text \cup {Absent} /\ r.tool \in Tools
         /\ \A k \in 1 .. Len(r.edits) : r.edits[k] \in Edit
<1>1. r.edits \in Seq(Edit) /\ r.text \in Text /\ r.guard \in Text \cup {Absent} /\ r.tool \in Tools
  BY RequestsAreValid DEF Edit, Text
<1> QED
  BY <1>1, LenProperties, ElementOfSeq

LEMMA EditTypes ==
  ASSUME NEW e \in Edit
  PROVE  /\ e.old \in Text /\ e.new \in Text /\ e.occurrence \in (Nat \ {0}) \cup {Absent}
         /\ Len(e.old) \in Nat /\ (e.old # <<>> => Len(e.old) > 0)
<1>1. e.old \in Text /\ e.new \in Text /\ e.occurrence \in (Nat \ {0}) \cup {Absent}
  BY DEF Edit
<1>2. e.old \in Seq(Char)
  BY <1>1 DEF Text
<1>3. Len(e.old) \in Nat /\ (e.old # <<>> => Len(e.old) \in Nat \ {0})
  BY <1>2, EmptySeq, LenProperties
<1> QED
  BY <1>1, <1>3

LEMMA SplicedIsText ==
  ASSUME NEW text \in Text, NEW i \in Nat, NEW n \in Nat, NEW new \in Text, i >= 1, i <= Len(text) + 1
  PROVE  Spliced(text, i, n, new) \in Text
<1>1. text \in Seq(Char) /\ new \in Seq(Char) /\ Len(text) \in Nat
  BY LenProperties DEF Text
<1>2. ASSUME NEW a \in Nat, NEW b \in Int, a >= 1, b <= Len(text)
      PROVE  SubSeq(text, a, b) \in Seq(Char)
  <2>1. \A k \in a .. b : text[k] \in Char
    BY <1>1, <1>2, ElementOfSeq
  <2> QED BY <1>2, <2>1, SubSeqProperties
<1>3. SubSeq(text, i + n, Len(text)) \in Seq(Char)
  BY <1>1, <1>2
<1>4. SubSeq(text, 1, i - 1) \in Seq(Char)
  BY <1>1, <1>2
<1> QED
  BY <1>1, <1>3, <1>4, ConcatProperties DEF Spliced, Text

LEMMA ThisEditTypes ==
  ASSUME StepInv, applied < Len(request.edits)
  PROVE  ThisEdit \in Edit
<1>1. applied \in Nat /\ applied + 1 \in 1 .. Len(request.edits)
  BY RequestTypes DEF StepInv, TypeOK
<1> QED
  BY <1>1, RequestTypes DEF StepInv, ThisEdit

LEMMA StepTypes ==
  ASSUME StepInv
  PROVE  /\ file \in Text \cup {Absent} /\ base \in Text \cup {Absent} /\ snapshot \in Text \cup {Absent}
         /\ content \in Text /\ Len(content) \in Nat
         /\ positions \in Seq(Nat) /\ DOMAIN positions = 1 .. Len(positions) /\ Len(positions) \in Nat
         /\ \A n \in 1 .. Len(positions) : positions[n] \in Nat
         /\ applied \in Nat /\ applied <= Len(request.edits) /\ Len(request.edits) \in Nat
         /\ start \in Nat
<1>1. /\ file \in Text \cup {Absent} /\ base \in Text \cup {Absent} /\ snapshot \in Text \cup {Absent}
      /\ content \in Text /\ positions \in Seq(Nat) /\ start \in Nat
      /\ applied \in 0 .. Len(request.edits)
  BY DEF StepInv, TypeOK, Text
<1>2. Len(request.edits) \in Nat
  BY RequestTypes DEF StepInv
<1>3. Len(content) \in Nat
  BY <1>1, LenProperties DEF Text
<1>4. DOMAIN positions = 1 .. Len(positions) /\ Len(positions) \in Nat
      /\ \A n \in 1 .. Len(positions) : positions[n] \in Nat
  BY <1>1, LenProperties, ElementOfSeq
<1> QED
  BY <1>1, <1>2, <1>3, <1>4

LEMMA TextOfTypes ==
  ASSUME NEW f \in Text \cup {Absent}
  PROVE  TextOf(f) \in Text \cup {Absent} /\ (f # Absent => TextOf(f) = Decode(f) /\ NoCR(Decode(f)))
BY DecodeIsText DEF TextOf

\* A step without a search leaves nothing to show about the search.
LEMMA NotSearching ==
  ASSUME pc' \notin {"scan", "choose"}
  PROVE  Searching' /\ ScanIsGreedy'
BY DEF Searching, ScanIsGreedy

LEMMA InitStep == Init => StepInv
<1> SUFFICES ASSUME Init PROVE StepInv
  OBVIOUS
<1>1. request \in Requests /\ file \in Text \cup {Absent}
  BY RequestsAreValid DEF Init, Text
<1>2. TypeOK
  <2>1. <<>> \in Seq(Char) /\ <<>> \in Seq(Nat)
    OBVIOUS
  <2>2. 0 \in 0 .. Len(request.edits) /\ 0 \in 0 .. MaxFaults
    BY <1>1, RequestTypes, RequestsAreValid
  <2> QED
    BY <1>1, <2>1, <2>2 DEF Init, TypeOK, Text, Points, BeforeWrite, Reasons
<1> QED
  BY <1>1, <1>2 DEF Init, StepInv, Searching, ScanIsGreedy

LEMMA ReadStep == StepInv /\ Read => StepInv'
<1> SUFFICES ASSUME StepInv, Read PROVE StepInv'
  OBVIOUS
<1>1. pc' \notin {"scan", "choose"}
  BY DEF Read, Goto, Fail
<1>2. content' \in Text
  <2>1. CASE file # Absent /\ GuardFits
    BY <2>1, StepTypes, DecodeIsText DEF Read
  <2>2. CASE ~(file # Absent /\ GuardFits)
    BY <2>2, StepTypes DEF Read, edit
  <2> QED BY <2>1, <2>2
<1>3. applied' = applied /\ positions' = positions /\ start' = start /\ UNCHANGED <<file, request, snapshot, base, faults>>
  BY DEF Read, edit, scan
<1>4. pc' \in Points /\ reason' \in Reasons
  BY DEF Read, Goto, Fail, StepInv, TypeOK, Points, BeforeWrite, Reasons
<1>5. TypeOK'
  BY <1>1, <1>2, <1>3, <1>4 DEF StepInv, TypeOK, Text
<1> QED
  BY <1>1, <1>3, <1>5, NotSearching DEF StepInv

LEMMA NextEditStep == StepInv /\ NextEdit => StepInv'
<1> SUFFICES ASSUME StepInv, NextEdit PROVE StepInv'
  OBVIOUS
<1>1. UNCHANGED <<file, request, snapshot, base, faults>> /\ content' = content
  BY DEF NextEdit, edit, scan
<1>2. applied' \in 0 .. Len(request.edits)
  <2>1. CASE UNCHANGED applied
    BY <2>1 DEF StepInv, TypeOK
  <2>2. CASE applied < Len(request.edits) /\ applied' = applied + 1
    BY <2>2, StepTypes
  <2> QED BY <2>1, <2>2 DEF NextEdit, edit
<1>3. pc' \in Points /\ reason' \in Reasons
  BY DEF NextEdit, Goto, Fail, StepInv, TypeOK, Points, BeforeWrite, Reasons
<1>4. positions' \in Seq(Nat) /\ start' \in Nat
  <2>1. <<>> \in Seq(Nat) /\ 1 \in Nat
    OBVIOUS
  <2> QED BY <2>1, StepTypes DEF NextEdit, edit, scan
<1>5. CASE pc' = "scan"
  <2>1. /\ applied < Len(request.edits) /\ applied' = applied
        /\ ThisEdit.old # ThisEdit.new /\ ThisEdit.old # <<>>
        /\ positions' = <<>> /\ start' = 1
    BY <1>5 DEF NextEdit, Goto, Fail
  <2>2. ThisEdit' = ThisEdit
    BY <1>1, <2>1 DEF ThisEdit
  <2>3. TypeOK'
    <3>1. start' <= Len(content') + 1
      BY <1>1, <2>1, StepTypes
    <3> QED
      BY <1>1, <1>2, <1>3, <1>4, <2>1, <3>1 DEF StepInv, TypeOK
  <2>4. Searching'
    BY <2>1, <2>2 DEF Searching
  <2>5. ScanIsGreedy'
    BY <1>5, <2>1, GreedyStart DEF ScanIsGreedy, Greedy, At
  <2> QED
    BY <1>1, <2>3, <2>4, <2>5 DEF StepInv
<1>6. CASE pc' # "scan"
  <2>1. pc' \notin {"scan", "choose"}
    BY <1>6 DEF NextEdit, Goto, Fail
  <2>2. TypeOK'
    BY <1>1, <1>2, <1>3, <1>4, <2>1 DEF StepInv, TypeOK
  <2> QED
    BY <1>1, <2>1, <2>2, NotSearching DEF StepInv
<1> QED
  BY <1>5, <1>6

LEMMA FindStep == StepInv /\ Find => StepInv'
<1> SUFFICES ASSUME StepInv, Find PROVE StepInv'
  OBVIOUS
<1>1. UNCHANGED <<file, request, snapshot, content, applied, base, faults>> /\ pc = "scan"
  BY DEF Find, At
<1>2. ThisEdit' = ThisEdit
  BY <1>1 DEF ThisEdit
<1>3. applied < Len(request.edits) /\ ThisEdit.old # ThisEdit.new /\ ThisEdit.old # <<>>
  BY <1>1 DEF StepInv, TypeOK, Searching
<1>4. PICK old \in Text : old = ThisEdit.old /\ Len(old) \in Nat /\ Len(old) > 0
  BY <1>3, ThisEditTypes, EditTypes
<1>5. Greedy(content, old, positions, start, start)
  BY <1>1, <1>4, GreedyScan DEF StepInv, At
<1>6. pc' \in {"scan", "choose"} /\ pc' \in Points /\ reason' \in Reasons
  BY DEF Find, Goto, StepInv, TypeOK, Points, BeforeWrite
<1>7. Searching'
  BY <1>2, <1>3 DEF Searching
<1>8. CASE pc' = "scan"
  <2>1. PICK i \in 1 .. Len(content) :
           FoundAt(i) /\ positions' = Append(positions, i) /\ start' = Resume(i)
    BY <1>8 DEF Find, Goto
  <2>2. /\ i >= start /\ OccursAt(content, old, i)
        /\ \A j \in start .. (i - 1) : ~OccursAt(content, old, j)
        /\ start' = i + Len(old)
    BY <1>4, <2>1 DEF FoundAt, Resume
  <2>3. i \in Nat /\ i + Len(old) <= Len(content) + 1
    BY <1>4, <2>2, StepTypes, OccurrenceFits
  <2>4. Greedy(content, old, positions', start', start')
    <3>1. content \in Text /\ positions \in Seq(Nat) /\ start \in Nat
      BY StepTypes
    <3>2. Greedy(content, old, Append(positions, i), i + Len(old), i + Len(old))
      BY <1>5, <2>2, <3>1, GreedyFinds
    <3> QED BY <2>1, <2>2, <3>2
  <2>5. ScanIsGreedy'
    BY <1>1, <1>2, <1>4, <1>8, <2>4 DEF ScanIsGreedy, Greedy, At
  <2>6. positions' \in Seq(Nat) /\ start' \in Nat /\ start' <= Len(content) + 1
    BY <1>4, <2>1, <2>2, <2>3, StepTypes, AppendProperties
  <2>7. TypeOK'
    BY <1>1, <1>3, <1>6, <2>6 DEF StepInv, TypeOK
  <2> QED
    BY <1>1, <1>7, <2>5, <2>7 DEF StepInv
<1>9. CASE pc' = "choose"
  <2>1. (\A i \in 1 .. Len(content) : ~FoundAt(i)) /\ UNCHANGED <<positions, start>>
    BY <1>9 DEF Find, Goto, scan
  <2>2. \A i \in 1 .. Len(content) :
           ~(i >= start /\ OccursAt(content, old, i) /\ \A j \in start .. (i - 1) : ~OccursAt(content, old, j))
    BY <1>4, <2>1 DEF FoundAt
  <2>3. Greedy(content, old, positions, start, Len(content) + 1)
    <3>1. content \in Text /\ start \in Nat
      BY StepTypes
    <3> QED BY <1>5, <2>2, <3>1, GreedyEnds
  <2>4. ScanIsGreedy'
    BY <1>1, <1>2, <1>4, <1>9, <2>1, <2>3 DEF ScanIsGreedy, Greedy, At
  <2>5. TypeOK'
    BY <1>1, <1>3, <1>6, <2>1 DEF StepInv, TypeOK
  <2> QED
    BY <1>1, <1>7, <2>4, <2>5 DEF StepInv
<1> QED
  BY <1>6, <1>8, <1>9

LEMMA ChooseStep == StepInv /\ Choose => StepInv'
<1> SUFFICES ASSUME StepInv, Choose PROVE StepInv'
  OBVIOUS
<1>1. UNCHANGED <<file, request, snapshot, positions, start, base, faults>> /\ pc = "choose"
  BY DEF Choose, At, scan
<1>2. pc' \in Points /\ reason' \in Reasons /\ pc' \notin {"scan", "choose"}
  BY DEF Choose, Goto, Fail, StepInv, TypeOK, Points, BeforeWrite, Reasons
<1>3. content' \in Text /\ applied' \in 0 .. Len(request.edits)
  <2>1. CASE Chosen \in DOMAIN positions
    <3>1. PICK e \in Edit : e = ThisEdit /\ applied < Len(request.edits)
      BY <1>1, ThisEditTypes DEF StepInv, TypeOK
    <3>2. PICK i \in Nat : i = positions[Chosen]
      BY <2>1, StepTypes
    <3>3. OccursAt(content, e.old, i)
      BY <1>1, <2>1, <3>1, <3>2 DEF StepInv, ScanIsGreedy
    <3>4. i >= 1 /\ i + Len(e.old) <= Len(content) + 1 /\ Len(e.old) \in Nat
      BY <3>3, StepTypes, EditTypes, OccurrenceFits
    <3>5. Spliced(content, i, Len(e.old), e.new) \in Text
      BY <3>4, StepTypes, EditTypes, SplicedIsText
    <3>6. content' = Spliced(content, i, Len(e.old), e.new) /\ applied' = applied + 1
      BY <2>1, <3>1, <3>2 DEF Choose
    <3> QED
      BY <3>1, <3>5, <3>6, StepTypes
  <2>2. CASE Chosen \notin DOMAIN positions
    BY <2>2, StepTypes DEF Choose, StepInv, TypeOK
  <2> QED BY <2>1, <2>2
<1>4. TypeOK'
  BY <1>1, <1>2, <1>3 DEF StepInv, TypeOK, Text
<1> QED
  BY <1>1, <1>2, <1>4, NotSearching DEF StepInv

\* The steps around the edits: they leave the text in memory alone.
LEMMA OutsideStep ==
  ASSUME StepInv, UNCHANGED <<request, edit, base>>,
         pc' \in Points \ {"scan", "choose"}, reason' \in Reasons,
         file' \in Text \cup {Absent}, snapshot' \in Text \cup {Absent}, faults' \in 0 .. MaxFaults
  PROVE  StepInv'
<1>1. content' = content /\ applied' = applied /\ positions' = positions /\ start' = start
  BY DEF edit, scan
<1>2. TypeOK'
  BY <1>1 DEF StepInv, TypeOK, Text
<1> QED
  BY <1>2, NotSearching DEF StepInv

LEMMA StepStep == StepInv /\ [Next]_vars => StepInv'
<1> SUFFICES ASSUME StepInv, [Next]_vars PROVE StepInv'
  OBVIOUS
<1> USE DEF At, Goto, Fail, Points, BeforeWrite, Reasons
<1>t. /\ pc \in Points /\ reason \in Reasons /\ faults \in 0 .. MaxFaults /\ MaxFaults \in Nat
      /\ request.text \in Text /\ Encode(request.text) \in Text /\ Encode(content) \in Text
  BY RequestTypes, RequestsAreValid, StepTypes, EncodeIsText DEF StepInv, TypeOK
<1>1. ASSUME TakeSnapshot PROVE StepInv'
  <2>1. TextOf(file) \in Text \cup {Absent}
    BY StepTypes, TextOfTypes
  <2> QED BY <1>t, <1>1, <2>1, StepTypes, OutsideStep DEF TakeSnapshot
<1>2. ASSUME Gate PROVE StepInv'
  <2>1. pc' \in Points \ {"scan", "choose"} /\ reason' \in Reasons
    BY <1>t, <1>2 DEF Gate
  <2> QED BY <1>t, <1>2, <2>1, StepTypes, OutsideStep DEF Gate
<1>3. ASSUME Write PROVE StepInv'
  BY <1>t, <1>3, StepTypes, OutsideStep DEF Write
<1>4. ASSUME ApplyPatch PROVE StepInv'
  BY <1>t, <1>4, StepTypes, OutsideStep DEF ApplyPatch
<1>5. ASSUME CreateFile PROVE StepInv'
  BY <1>t, <1>5, StepTypes, OutsideStep DEF CreateFile
<1>6. ASSUME WriteFails PROVE StepInv'
  <2>1. PICK text \in Text : text = Encode(IF At("write") THEN content ELSE request.text)
    BY <1>t
  <2>2. ASSUME NEW n \in 0 .. Len(text) PROVE SubSeq(text, 1, n) \in Text
    <3>1. text \in Seq(Char) /\ Len(text) \in Nat
      BY LenProperties DEF Text
    <3>2. \A k \in 1 .. n : text[k] \in Char
      BY <3>1, ElementOfSeq
    <3> QED BY <3>1, <3>2, SubSeqProperties DEF Text
  <2>3. file' \in {file} \cup {SubSeq(text, 1, n) : n \in 0 .. Len(text)}
    BY <1>6, <2>1 DEF WriteFails
  <2>4. file' \in Text \cup {Absent}
    BY <2>2, <2>3, StepTypes
  <2>5. faults' \in 0 .. MaxFaults
    BY <1>t, <1>6 DEF WriteFails
  <2> QED BY <1>t, <1>6, <2>4, <2>5, StepTypes, OutsideStep DEF WriteFails
<1>7. ASSUME Return PROVE StepInv'
  BY <1>t, <1>7, StepTypes, OutsideStep DEF Return
<1>8. ASSUME Undo PROVE StepInv'
  <2>1. file' \in Text \cup {Absent}
    BY <1>8, StepTypes, EncodeIsText DEF Undo
  <2> QED BY <1>t, <1>8, <2>1, StepTypes, OutsideStep DEF Undo
<1>9. CASE UNCHANGED vars
  BY <1>9 DEF vars, edit, scan, StepInv, TypeOK, Searching, ScanIsGreedy, ThisEdit
<1> QED
  BY <1>1, <1>2, <1>3, <1>4, <1>5, <1>6, <1>7, <1>8, <1>9,
     ReadStep, NextEditStep, FindStep, ChooseStep DEF Next, Step

\* Every text in a file and in memory is a sequence of characters, and the
\* search never leaves the text nor looks for an edit beyond the last one.
THEOREM MutationTypes == Spec => []TypeOK
<1>1. StepInv => TypeOK
  BY DEF StepInv
<1> QED
  BY <1>1, InitStep, StepStep, PTL DEF Spec

\* In every text, for every text looked for, the loop of _apply_single_edit
\* finds the matches that do not overlap, from left to right, and no others.
THEOREM SearchIsGreedy == Spec => []ScanIsGreedy
<1>1. StepInv => ScanIsGreedy
  BY DEF StepInv
<1> QED
  BY <1>1, InitStep, StepStep, PTL DEF Spec
-----------------------------------------------------------------------------
(* What a failed step leaves behind.                                       *)

\* The inductive invariant: the snapshot holds the text of the file at the
\* start, and until something is written the file is what it was.
UndoInv ==
    /\ pc # "start" => snapshot = TextOf(base)
    /\ pc \in BeforeWrite => file = base
    /\ pc \in BeforeWrite \cup {"done"} => reason = "none"
    /\ DeniedWritesNothing
    /\ FailureRestoresText

LEMMA InitUndo == Init => UndoInv
BY DEF Init, UndoInv, BeforeWrite, DeniedWritesNothing, FailureRestoresText, At

\* The snapshot, written to the file, is read as the text at the start.
LEMMA UndoRestores ==
  ASSUME StepInv, UndoInv, Undo
  PROVE  TextOf(file') = TextOf(base)
<1>1. base \in Text \cup {Absent} /\ snapshot = TextOf(base)
  BY StepTypes DEF UndoInv, Undo, At
<1>2. CASE base = Absent
  BY <1>1, <1>2 DEF Undo, TextOf
<1>3. CASE base # Absent
  <2>1. snapshot = Decode(base) /\ snapshot \in Text /\ NoCR(snapshot)
    BY <1>1, <1>3, DecodeIsText DEF TextOf
  <2>2. snapshot # Absent /\ Encode(snapshot) \in Text /\ Encode(snapshot) # Absent
    BY <2>1, EncodeIsText, PlatformEndsLines DEF Text
  <2>3. file' = Encode(snapshot)
    BY <2>2 DEF Undo
  <2> QED
    BY <1>3, <2>1, <2>2, <2>3, RoundTrip DEF TextOf
<1> QED
  BY <1>2, <1>3

\* A step that goes on before the write, or fails there, writes nothing.
LEMMA NothingWritten ==
  ASSUME UndoInv, pc \in BeforeWrite, UNCHANGED <<file, base>>,
         pc = "start" => snapshot' = TextOf(base), pc # "start" => snapshot' = snapshot,
         \/ pc' \in BeforeWrite \cup {"done"} /\ reason' = reason
         \/ pc' = "undo"
  PROVE  UndoInv'
BY DEF UndoInv, BeforeWrite, DeniedWritesNothing, FailureRestoresText, At

LEMMA UndoStep == StepInv /\ UndoInv /\ [Next]_vars => UndoInv'
<1> SUFFICES ASSUME StepInv, UndoInv, [Next]_vars PROVE UndoInv'
  OBVIOUS
<1> USE DEF At, Goto, Fail, BeforeWrite
<1>1. ASSUME TakeSnapshot PROVE UndoInv'
  <2>1. file = base
    BY <1>1 DEF TakeSnapshot, UndoInv
  <2> QED BY <1>1, <2>1, NothingWritten DEF TakeSnapshot
<1>2. ASSUME Gate PROVE UndoInv'
  BY <1>2, NothingWritten DEF Gate
<1>3. ASSUME Read PROVE UndoInv'
  BY <1>3, NothingWritten DEF Read
<1>4. ASSUME NextEdit PROVE UndoInv'
  BY <1>4, NothingWritten DEF NextEdit
<1>5. ASSUME Find PROVE UndoInv'
  BY <1>5, NothingWritten DEF Find
<1>6. ASSUME Choose PROVE UndoInv'
  BY <1>6, NothingWritten DEF Choose
<1>7. ASSUME Write PROVE UndoInv'
  BY <1>7 DEF Write, UndoInv, DeniedWritesNothing, FailureRestoresText
<1>8. ASSUME ApplyPatch PROVE UndoInv'
  <2>1. file = Absent => TextOf(file) = Absent
    BY DEF TextOf
  <2> QED BY <1>8, <2>1 DEF ApplyPatch, UndoInv, DeniedWritesNothing, FailureRestoresText
<1>9. ASSUME CreateFile PROVE UndoInv'
  BY <1>9 DEF CreateFile, UndoInv, DeniedWritesNothing, FailureRestoresText
<1>10. ASSUME WriteFails PROVE UndoInv'
  BY <1>10 DEF WriteFails, UndoInv, DeniedWritesNothing, FailureRestoresText
<1>11. ASSUME Return PROVE UndoInv'
  BY <1>11 DEF Return, UndoInv, DeniedWritesNothing, FailureRestoresText
<1>12. ASSUME Undo PROVE UndoInv'
  <2>1. TextOf(file)' = TextOf(base)'
    BY <1>12, UndoRestores DEF Undo, TextOf
  <2> QED BY <1>12, <2>1 DEF Undo, UndoInv, DeniedWritesNothing, FailureRestoresText, TextOf
<1>13. CASE UNCHANGED vars
  BY <1>13 DEF vars, UndoInv, DeniedWritesNothing, FailureRestoresText, TextOf
<1> QED
  BY <1>1, <1>2, <1>3, <1>4, <1>5, <1>6, <1>7, <1>8, <1>9, <1>10, <1>11, <1>12, <1>13 DEF Next, Step

\* A step that is still at work, or that was denied, has written nothing: the
\* edits of patch_edit reach the file all at once or not at all.
THEOREM DenialsWriteNothing == Spec => []DeniedWritesNothing
<1>1. UndoInv => DeniedWritesNothing
  BY DEF UndoInv
<1> QED
  BY <1>1, InitStep, StepStep, InitUndo, UndoStep, PTL DEF Spec

\* After a failure, a write that broke off in the middle included, the file
\* has the text that it had before the step, for every text and both line
\* endings (_capture_mutation_snapshot, _rollback_mutations).
THEOREM FailuresRestoreText == Spec => []FailureRestoresText
<1>1. UndoInv => FailureRestoresText
  BY DEF UndoInv
<1> QED
  BY <1>1, InitStep, StepStep, InitUndo, UndoStep, PTL DEF Spec
-----------------------------------------------------------------------------
(* What the edits are meant to do: Edited, unfolded one edit at a time.    *)

OneMore(sofar, e) == IF sofar = Absent THEN Absent ELSE EditedOrSkipped(sofar, e)

IsFold(g, text, edits, n) ==
    g = [s \in SUBSET (1 .. n) |->
            IF s = {} THEN text ELSE OneMore(g[s \ {Max(s)}], edits[Max(s)])]

LEMMA MaxIsLast ==
  ASSUME NEW n \in Nat, NEW s \in SUBSET (1 .. n), n \in s
  PROVE  Max(s) = n
<1>1. \A y \in s : n >= y
  OBVIOUS
<1>2. \A x \in s : (\A y \in s : x >= y) => x = n
  OBVIOUS
<1> QED
  BY <1>1, <1>2 DEF Max

LEMMA FoldExists ==
  ASSUME NEW text, NEW edits, NEW n \in Nat
  PROVE  \E g : IsFold(g, text, edits, n)
<1> SUFFICES ASSUME ~ \E g : IsFold(g, text, edits, n) PROVE FALSE
  OBVIOUS
<1> DEFINE Bad == {k \in Nat : ~ \E g : IsFold(g, text, edits, k)}
<1>1. Bad \subseteq Nat /\ Bad # {}
  OBVIOUS
<1>2. PICK k \in Bad : \A m \in Bad : k <= m
  <2> HIDE DEF Bad
  <2> QED BY <1>1, LeastNumber
<1>3. k \in Nat /\ ~ \E g : IsFold(g, text, edits, k)
  BY <1>2
<1>4. CASE k = 0
  <2> DEFINE g == [s \in SUBSET (1 .. 0) |-> text]
  <2>1. \A s \in SUBSET (1 .. 0) : s = {}
    OBVIOUS
  <2>2. IsFold(g, text, edits, 0)
    BY <2>1 DEF IsFold
  <2> QED BY <1>3, <1>4, <2>2
<1>5. CASE k # 0
  <2>1. k - 1 \in Nat /\ k - 1 \notin Bad
    BY <1>2, <1>5
  <2>2. PICK g : IsFold(g, text, edits, k - 1)
    BY <2>1
  <2>3. \A s \in SUBSET (1 .. (k - 1)) :
           g[s] = IF s = {} THEN text ELSE OneMore(g[s \ {Max(s)}], edits[Max(s)])
    BY <2>2 DEF IsFold
  <2> HIDE DEF Bad
  <2>4. PICK h : h = [s \in SUBSET (1 .. k) |-> IF k \in s THEN OneMore(g[s \ {k}], edits[k]) ELSE g[s]]
    OBVIOUS
  <2>5. \A s \in SUBSET (1 .. k) : k \notin s => s \in SUBSET (1 .. (k - 1)) /\ h[s] = g[s]
    BY <1>3, <2>4
  <2>6. ASSUME NEW s \in SUBSET (1 .. k), s # {}
        PROVE  h[s] = OneMore(h[s \ {Max(s)}], edits[Max(s)])
    <3>1. CASE k \in s
      <4>1. Max(s) = k
        BY <1>3, <3>1, MaxIsLast
      <4>2. s \ {k} \in SUBSET (1 .. k) /\ k \notin s \ {k}
        OBVIOUS
      <4>3. h[s] = OneMore(g[s \ {k}], edits[k])
        BY <2>4, <3>1
      <4> QED BY <2>5, <4>1, <4>2, <4>3
    <3>2. CASE k \notin s
      <4>1. s \in SUBSET (1 .. (k - 1)) /\ h[s] = g[s]
        BY <2>5, <3>2
      <4>2. g[s] = OneMore(g[s \ {Max(s)}], edits[Max(s)])
        BY <2>3, <2>6, <4>1
      <4>3. h[s \ {Max(s)}] = g[s \ {Max(s)}]
        <5>1. s \ {Max(s)} \in SUBSET (1 .. k) /\ k \notin s \ {Max(s)}
          BY <3>2
        <5> QED BY <2>5, <5>1
      <4> QED BY <4>1, <4>2, <4>3
    <3> QED BY <3>1, <3>2
  <2>7. h[{}] = text
    <3>1. {} \in SUBSET (1 .. k) /\ {} \in SUBSET (1 .. (k - 1)) /\ k \notin {}
      OBVIOUS
    <3> QED BY <2>3, <2>5, <3>1
  <2>8. \A s \in SUBSET (1 .. k) :
           h[s] = IF s = {} THEN text ELSE OneMore(h[s \ {Max(s)}], edits[Max(s)])
    BY <2>6, <2>7
  <2>9. h = [s \in SUBSET (1 .. k) |-> h[s]]
    BY <2>4
  <2>10. IsFold(h, text, edits, k)
    BY <2>8, <2>9 DEF IsFold
  <2> QED BY <1>3, <2>10
<1> QED
  BY <1>4, <1>5

\* The texts that the edits are meant to leave one after the other.
IsProgress(g, text, edits) ==
    /\ g[0] = text
    /\ \A k \in 0 .. (Len(edits) - 1) : g[k + 1] = OneMore(g[k], edits[k + 1])
    /\ Edited(text, edits) = g[Len(edits)]

Progress(text, edits) == CHOOSE g : IsProgress(g, text, edits)

LEMMA EditedIsFold ==
  ASSUME NEW T, NEW text, NEW edits \in Seq(T)
  PROVE  \E g : IsFold(g, text, edits, Len(edits)) /\ Edited(text, edits) = g[1 .. Len(edits)]
<1>1. Len(edits) \in Nat /\ DOMAIN edits = 1 .. Len(edits)
  BY LenProperties
<1> DEFINE iter == CHOOSE g : g = [s \in SUBSET (DOMAIN edits) |->
                       IF s = {} THEN text ELSE OneMore(g[s \ {Max(s)}], edits[Max(s)])]
<1>2. Edited(text, edits) = iter[DOMAIN edits]
  BY Zenon DEF Edited, FoldLeft, MapThenFoldSet, OneMore
<1>3. \E g : g = [s \in SUBSET (DOMAIN edits) |->
                    IF s = {} THEN text ELSE OneMore(g[s \ {Max(s)}], edits[Max(s)])]
  <2>1. PICK g : IsFold(g, text, edits, Len(edits))
    BY <1>1, FoldExists
  <2>2. g = [s \in SUBSET (DOMAIN edits) |->
                IF s = {} THEN text ELSE OneMore(g[s \ {Max(s)}], edits[Max(s)])]
    BY <1>1, <2>1 DEF IsFold
  <2> QED BY <2>2
<1>4. iter = [s \in SUBSET (DOMAIN edits) |->
                    IF s = {} THEN text ELSE OneMore(iter[s \ {Max(s)}], edits[Max(s)])]
  BY <1>3, Zenon
<1> HIDE DEF iter
<1>5. IsFold(iter, text, edits, Len(edits))
  BY <1>1, <1>4 DEF IsFold
<1> QED
  BY <1>1, <1>2, <1>5

LEMMA EditedUnfolds ==
  ASSUME NEW T, NEW text, NEW edits \in Seq(T)
  PROVE  IsProgress(Progress(text, edits), text, edits)
<1>1. PICK n : n = Len(edits) /\ n \in Nat
  BY LenProperties
<1>2. PICK g : IsFold(g, text, edits, n) /\ Edited(text, edits) = g[1 .. n]
  BY <1>1, EditedIsFold
<1>3. \A s \in SUBSET (1 .. n) : g[s] = IF s = {} THEN text ELSE OneMore(g[s \ {Max(s)}], edits[Max(s)])
  BY <1>2 DEF IsFold
<1>4. PICK p : p = [k \in 0 .. n |-> g[1 .. k]]
  OBVIOUS
<1>5. p[0] = text
  <2>1. 1 .. 0 = {} /\ {} \in SUBSET (1 .. n) /\ 0 \in 0 .. n
    BY <1>1
  <2> QED BY <1>3, <1>4, <2>1
<1>6. ASSUME NEW k \in 0 .. (n - 1) PROVE p[k + 1] = OneMore(p[k], edits[k + 1])
  <2>1. k \in 0 .. n /\ k + 1 \in 0 .. n /\ k + 1 \in Nat
    BY <1>1
  <2>2. 1 .. (k + 1) \in SUBSET (1 .. n) /\ k + 1 \in 1 .. (k + 1)
    BY <1>1
  <2>3. (1 .. (k + 1)) \ {k + 1} = 1 .. k
    BY <1>1
  <2>4. PICK j \in Nat : j = k + 1
    BY <2>1
  <2>5. Max(1 .. j) = j
    <3>1. 1 .. j \in SUBSET (1 .. j) /\ j \in 1 .. j
      BY <2>2, <2>4
    <3> QED BY <3>1, MaxIsLast
  <2>6. g[1 .. j] = OneMore(g[(1 .. j) \ {j}], edits[j])
    BY <1>3, <2>2, <2>4, <2>5
  <2> QED BY <1>4, <2>1, <2>3, <2>4, <2>6
<1>7. Edited(text, edits) = p[n]
  BY <1>1, <1>2, <1>4
<1>8. IsProgress(p, text, edits)
  BY <1>1, <1>5, <1>6, <1>7 DEF IsProgress
<1> QED
  BY <1>8, Zenon DEF Progress

\* Once an edit has to be denied, the whole list has.
LEMMA DeniedForGood ==
  ASSUME NEW T, NEW text, NEW edits \in Seq(T), NEW k \in 0 .. Len(edits),
         Progress(text, edits)[k] = Absent
  PROVE  Edited(text, edits) = Absent
<1>1. PICK n \in Nat : n = Len(edits)
  BY LenProperties
<1>2. PICK g : g = Progress(text, edits)
  OBVIOUS
<1>3. IsProgress(g, text, edits)
  BY <1>2, EditedUnfolds
<1> DEFINE Bad == {j \in k .. n : g[j] # Absent}
<1>4. Bad = {}
  <2> SUFFICES ASSUME Bad # {} PROVE FALSE
    OBVIOUS
  <2>1. PICK j \in Bad : \A i \in Bad : j <= i
    <3>1. Bad \subseteq Nat
      BY <1>1
    <3> HIDE DEF Bad
    <3> QED BY <3>1, LeastNumber
  <2>2. j # k
    BY <1>2, <2>1
  <2>3. j - 1 \in k .. n /\ j - 1 \notin Bad /\ j - 1 \in 0 .. (n - 1)
    BY <1>1, <2>1, <2>2
  <2>4. g[j - 1] = Absent
    BY <2>3
  <2>5. g[j - 1 + 1] = OneMore(g[j - 1], edits[j - 1 + 1])
    BY <1>1, <1>3, <2>3 DEF IsProgress
  <2>6. j - 1 + 1 = j
    BY <1>1, <2>1
  <2> QED BY <2>1, <2>4, <2>5, <2>6 DEF OneMore
<1>5. g[n] = Absent
  BY <1>1, <1>4
<1> QED
  BY <1>1, <1>3, <1>5 DEF IsProgress
-----------------------------------------------------------------------------
(* The matches that the search finds are the matches that are meant.       *)

Occurrences(text, old) == {i \in 1 .. Len(text) : OccursAt(text, old, i)}

\* matches holds the occurrences that no earlier match overlaps.
AreMatches(matches, text, old) ==
    \A i \in Occurrences(text, old) :
        i \in matches <=> \A j \in matches : j < i => j + Len(old) <= i

LEMMA MatchesAreUnique ==
  ASSUME NEW text \in Text, NEW old \in Text,
         NEW A \in SUBSET Occurrences(text, old), NEW B \in SUBSET Occurrences(text, old),
         AreMatches(A, text, old), AreMatches(B, text, old)
  PROVE  A = B
<1> DEFINE Bad == (A \ B) \cup (B \ A)
<1> SUFFICES ASSUME Bad # {} PROVE FALSE
  OBVIOUS
<1>1. Occurrences(text, old) \subseteq Nat
  BY DEF Occurrences
<1>2. PICK i \in Bad : \A j \in Bad : i <= j
  <2>1. Bad \subseteq Nat
    BY <1>1
  <2> HIDE DEF Bad
  <2> QED BY <2>1, LeastNumber
<1>3. i \in Occurrences(text, old)
  OBVIOUS
<1>4. \A j \in Nat : j < i => (j \in A <=> j \in B)
  <2>1. ASSUME NEW j \in Nat, j < i PROVE j \notin Bad
    BY <1>1, <1>2, <1>3, <2>1
  <2> QED BY <2>1
<1>5. i \in A <=> i \in B
  BY <1>1, <1>3, <1>4 DEF AreMatches
<1> QED
  BY <1>5

LEMMA MatchesAreFound ==
  ASSUME NEW text \in Text, NEW old \in Text, Len(old) > 0,
         NEW found \in Seq(Nat), NEW from,
         Greedy(text, old, found, from, Len(text) + 1)
  PROVE  Matches(text, old) = {found[n] : n \in DOMAIN found}
<1> DEFINE M == {found[n] : n \in DOMAIN found}
<1>1. /\ Len(found) \in Nat /\ DOMAIN found = 1 .. Len(found)
      /\ \A n \in DOMAIN found : found[n] \in Nat
  BY LenProperties, ElementOfSeq
<1>2. PICK l \in Nat : l = Len(old) /\ l > 0
  BY LenProperties DEF Text
<1>3. PICK t \in Nat : t = Len(text)
  BY LenProperties DEF Text
<1>4. \A n \in DOMAIN found : found[n] \in Occurrences(text, old)
  <2>1. ASSUME NEW n \in DOMAIN found PROVE found[n] \in Occurrences(text, old)
    <3>1. OccursAt(text, old, found[n])
      BY DEF Greedy
    <3>2. found[n] \in Nat /\ found[n] >= 1 /\ found[n] + l <= t + 1
      BY <1>2, <1>3, <3>1, OccurrenceFits
    <3> QED BY <1>2, <1>3, <3>1, <3>2 DEF Occurrences
  <2> QED BY <2>1
<1>5. M \in SUBSET Occurrences(text, old)
  BY <1>4
<1>6. AreMatches(M, text, old)
  <2> SUFFICES ASSUME NEW i \in Occurrences(text, old)
               PROVE  i \in M <=> \A j \in M : j < i => j + l <= i
    BY <1>2 DEF AreMatches
  <2>1. i \in Nat /\ i \in 1 .. Len(text) /\ i < Len(text) + 1 /\ OccursAt(text, old, i)
    BY <1>3 DEF Occurrences
  <2>2. ASSUME NEW n \in DOMAIN found, NEW m \in DOMAIN found, found[m] < found[n]
        PROVE  found[m] + l <= found[n]
    <3>1. CASE m < n
      BY <1>2, <3>1 DEF Greedy
    <3>2. CASE n <= m
      <4>1. n < m => found[n] + l <= found[m]
        BY <1>2 DEF Greedy
      <4> QED BY <1>1, <1>2, <2>2, <3>2, <4>1
    <3> QED BY <1>1, <3>1, <3>2
  <2>3. ASSUME i \in M, NEW j \in M, j < i PROVE j + l <= i
    BY <2>2, <2>3
  <2>4. ASSUME \A j \in M : j < i => j + l <= i PROVE i \in M
    <3>1. PICK n \in DOMAIN found : found[n] <= i /\ i < found[n] + l
      BY <1>2, <2>1 DEF Greedy
    <3>2. ~(found[n] < i)
      <4>1. found[n] \in Nat /\ found[n] \in M
        BY <1>1, <1>2, <3>1
      <4>2. found[n] < i => found[n] + l <= i
        BY <2>4, <4>1, Zenon
      <4> QED
        BY <1>1, <2>1, <3>1, <4>1, <4>2
    <3> QED BY <1>1, <2>1, <3>1, <3>2
  <2> QED BY <2>3, <2>4
<1> HIDE DEF M
<1>7. Matches(text, old) = CHOOSE matches \in SUBSET Occurrences(text, old) : AreMatches(matches, text, old)
  BY Zenon DEF Matches, Occurrences, AreMatches
<1>8. /\ Matches(text, old) \in SUBSET Occurrences(text, old)
      /\ AreMatches(Matches(text, old), text, old)
  BY <1>5, <1>6, <1>7, Zenon
<1>9. Matches(text, old) = M
  BY <1>5, <1>6, <1>8, MatchesAreUnique
<1> QED
  BY <1>9 DEF M

\* The n-th match that the search finds has n matches up to it, itself included.
LEMMA RankOfMatch ==
  ASSUME NEW text \in Text, NEW old \in Text, Len(old) > 0,
         NEW found \in Seq(Nat), NEW from,
         Greedy(text, old, found, from, Len(text) + 1)
  PROVE  /\ Cardinality(Matches(text, old)) = Len(found)
         /\ \A n \in DOMAIN found :
               Cardinality({j \in Matches(text, old) : j <= found[n]}) = n
<1>1. /\ Len(found) \in Nat /\ DOMAIN found = 1 .. Len(found)
      /\ \A n \in DOMAIN found : found[n] \in Nat
  BY LenProperties, ElementOfSeq
<1>2. PICK l \in Nat : l = Len(old) /\ l > 0
  BY LenProperties DEF Text
<1>3. ASSUME NEW n \in DOMAIN found, NEW m \in DOMAIN found, n < m
      PROVE  found[n] < found[m]
  <2>1. found[n] + l <= found[m]
    BY <1>2, <1>3 DEF Greedy
  <2> QED BY <1>1, <1>2, <2>1
<1>4. ASSUME NEW k \in 0 .. Len(found)
      PROVE  Cardinality({found[i] : i \in 1 .. k}) = k
  <2> DEFINE f == [i \in 1 .. k |-> found[i]]
             M == {found[i] : i \in 1 .. k}
  <2>1. k \in Nat /\ 1 .. k \subseteq DOMAIN found
    BY <1>1
  <2>2. f \in [1 .. k -> M] /\ \A y \in M : \E i \in 1 .. k : f[i] = y
    OBVIOUS
  <2>3. ASSUME NEW i \in 1 .. k, NEW j \in 1 .. k, f[i] = f[j] PROVE i = j
    <3>1. i \in DOMAIN found /\ j \in DOMAIN found /\ found[i] = found[j]
      BY <2>1, <2>3
    <3>2. found[i] \in Nat /\ found[j] \in Nat
      BY <1>1, <3>1
    <3>3. i < j => found[i] < found[j]
      BY <1>3, <3>1
    <3>4. j < i => found[j] < found[i]
      BY <1>3, <3>1
    <3> QED BY <3>1, <3>2, <3>3, <3>4
  <2> HIDE DEF f, M
  <2>4. f \in Bijection(1 .. k, M)
    BY <2>2, <2>3 DEF Bijection, Injection, Surjection, IsInjective
  <2>5. ExistsBijection(1 .. k, M)
    BY <2>4 DEF ExistsBijection
  <2>6. Cardinality(M) = k
    BY <2>1, <2>5, FS_CountingElements
  <2> QED BY <2>6 DEF M
<1>5. Matches(text, old) = {found[i] : i \in DOMAIN found}
  BY MatchesAreFound
<1>6. Cardinality(Matches(text, old)) = Len(found)
  <2>1. Len(found) \in 0 .. Len(found)
    BY <1>1
  <2>2. Matches(text, old) = {found[i] : i \in 1 .. Len(found)}
    BY <1>1, <1>5
  <2> QED BY <1>4, <2>1, <2>2
<1>7. ASSUME NEW n \in DOMAIN found
      PROVE  Cardinality({j \in Matches(text, old) : j <= found[n]}) = n
  <2>1. n \in 0 .. Len(found) /\ n \in Nat
    BY <1>1
  <2>2. \A i \in DOMAIN found : found[i] <= found[n] <=> i \in 1 .. n
    <3>1. ASSUME NEW i \in DOMAIN found PROVE found[i] <= found[n] <=> i \in 1 .. n
      <4>1. (i < n => found[i] < found[n]) /\ (n < i => found[n] < found[i])
        BY <1>3
      <4>2. i \in Nat /\ i >= 1 /\ n \in Nat /\ found[i] \in Nat /\ found[n] \in Nat
        BY <1>1
      <4>3. CASE i < n
        BY <4>1, <4>2, <4>3
      <4>4. CASE i = n
        BY <4>2, <4>4
      <4>5. CASE n < i
        BY <4>1, <4>2, <4>5
      <4> QED BY <4>2, <4>3, <4>4, <4>5
    <3> QED BY <3>1
  <2>3. 1 .. n \subseteq DOMAIN found
    BY <1>1
  <2>4. {j \in Matches(text, old) : j <= found[n]} = {found[i] : i \in 1 .. n}
    BY <1>5, <2>2, <2>3
  <2> QED BY <1>4, <2>1, <2>4
<1> QED
  BY <1>6, <1>7

\* The number of the match that an edit is about, when count matches are found.
Number(e, count) ==
    IF e.occurrence # Absent THEN e.occurrence ELSE IF count = 1 THEN 1 ELSE 0

\* The edit that the loop makes is the edit that is meant.
LEMMA EditIsMeant ==
  ASSUME NEW text \in Text, NEW e \in Edit, e.old # e.new, e.old # <<>>,
         NEW found \in Seq(Nat), NEW from,
         Greedy(text, e.old, found, from, Len(text) + 1)
  PROVE  /\ Number(e, Len(found)) \in DOMAIN found =>
              EditedOrSkipped(text, e) =
                Spliced(text, found[Number(e, Len(found))], Len(e.old), e.new)
         /\ Number(e, Len(found)) \notin DOMAIN found => EditedOrSkipped(text, e) = Absent
<1>1. /\ Len(found) \in Nat /\ DOMAIN found = 1 .. Len(found)
      /\ \A n \in DOMAIN found : found[n] \in Nat
  BY LenProperties, ElementOfSeq
<1>2. e.old \in Text /\ Len(e.old) > 0 /\ e.occurrence \in (Nat \ {0}) \cup {Absent}
  BY EditTypes
<1>3. PICK M : M = Matches(text, e.old)
  OBVIOUS
<1>4. /\ M = {found[n] : n \in DOMAIN found} /\ Cardinality(M) = Len(found)
      /\ \A n \in DOMAIN found : Cardinality({j \in M : j <= found[n]}) = n
  BY <1>2, <1>3, MatchesAreFound, RankOfMatch
<1>5. PICK meant : meant = IF e.occurrence # Absent
                           THEN {i \in M : Cardinality({j \in M : j <= i}) = e.occurrence}
                           ELSE IF Cardinality(M) = 1 THEN M ELSE {}
  OBVIOUS
<1>6. EditedOrSkipped(text, e) =
        IF e.old = <<>> \/ meant = {} THEN Absent
        ELSE Spliced(text, CHOOSE i \in meant : TRUE, Len(e.old), e.new)
  <2>1. EditedOnce(text, e) =
          IF e.old = <<>> \/ meant = {} THEN Absent
          ELSE Spliced(text, CHOOSE i \in meant : TRUE, Len(e.old), e.new)
    BY <1>3, <1>5 DEF EditedOnce
  <2> QED
    BY <2>1 DEF EditedOrSkipped
<1>7. meant = {} => EditedOrSkipped(text, e) = Absent
  BY <1>6
<1>8. meant # {} => EditedOrSkipped(text, e) = Spliced(text, CHOOSE i \in meant : TRUE, Len(e.old), e.new)
  BY <1>6
<1>9. PICK number : number = Number(e, Len(found))
  OBVIOUS
<1>10. ASSUME number \in DOMAIN found PROVE meant = {found[number]}
  <2>1. CASE e.occurrence # Absent
    <3>1. number = e.occurrence
      BY <1>9, <2>1 DEF Number
    <3>2. \A n \in DOMAIN found : Cardinality({j \in M : j <= found[n]}) = number <=> n = number
      BY <1>4
    <3>3. meant = {i \in M : Cardinality({j \in M : j <= i}) = number}
      BY <1>5, <2>1, <3>1
    <3>4. \A i \in M : Cardinality({j \in M : j <= i}) = number => i = found[number]
      BY <1>4, <3>2
    <3>5. found[number] \in M /\ Cardinality({j \in M : j <= found[number]}) = number
      BY <1>4, <1>10
    <3> QED BY <3>3, <3>4, <3>5
  <2>2. CASE e.occurrence = Absent
    <3>1. Len(found) = 1 /\ number = 1
      BY <1>1, <1>9, <1>10, <2>2 DEF Number
    <3>2. meant = M /\ DOMAIN found = {1}
      BY <1>1, <1>4, <1>5, <2>2, <3>1
    <3> QED BY <1>4, <3>1, <3>2
  <2> QED BY <2>1, <2>2
<1>11. ASSUME number \notin DOMAIN found PROVE meant = {}
  <2>1. CASE e.occurrence # Absent
    <3>1. number = e.occurrence
      BY <1>9, <2>1 DEF Number
    <3>2. \A n \in DOMAIN found : Cardinality({j \in M : j <= found[n]}) # number
      BY <1>4, <1>11
    <3>3. meant = {i \in M : Cardinality({j \in M : j <= i}) = number}
      BY <1>5, <2>1, <3>1
    <3> QED BY <1>4, <3>2, <3>3
  <2>2. CASE e.occurrence = Absent
    <3>1. Len(found) # 1
      BY <1>1, <1>9, <1>11, <2>2 DEF Number
    <3> QED BY <1>4, <1>5, <2>2, <3>1
  <2> QED BY <2>1, <2>2
<1>12. \A x : (CHOOSE i \in {x} : TRUE) = x
  BY Zenon
<1> QED
  BY <1>7, <1>8, <1>9, <1>10, <1>11, <1>12
-----------------------------------------------------------------------------
(* The effect of a step.                                                   *)

\* The platform ends lines with LF, or no step brings in a CR: what a step
\* writes has the line endings of the platform.
PlainTexts ==
    \/ LineSep = <<LF>>
    \/ \A r \in Requests :
          NoCR(r.text) /\ \A k \in 1 .. Len(r.edits) : NoCR(r.edits[k].new)

Editing == {"edit", "scan", "choose", "write"}

\* The inductive invariant: the text in memory is what the edits made so far
\* are meant to make of the text of the file at the start.
EffectInv ==
    /\ pc \in {"read"} \cup Editing => request.tool = "PATCH_EDIT"
    /\ pc = "apply" => request.tool = "PATCH_APPLY"
    /\ pc = "create" => request.tool = "FILE_CREATE"
    /\ pc \in {"start", "gate", "read"} => applied = 0
    /\ pc \in Editing =>
          /\ base # Absent /\ request.guard \in {Absent, Decode(base)}
          /\ content = Progress(Decode(base), request.edits)[applied]
    /\ pc = "write" => applied = Len(request.edits)
    /\ LineSep = <<LF>> \/ NoCR(content)
    /\ EffectIsWanted

\* What is written is read back as it was meant.
LEMMA ReadBack ==
  ASSUME NEW text \in Text, LineSep = <<LF>> \/ NoCR(text)
  PROVE  /\ Encode(text) # Absent /\ TextOf(Encode(text)) = Decode(text)
         /\ text # Absent
<1>1. Encode(text) # Absent /\ text # Absent
  BY EncodeIsText, PlatformEndsLines DEF Text
<1>2. CASE LineSep = <<LF>>
  BY <1>1, <1>2, EncodeOnUnix DEF TextOf
<1>3. CASE NoCR(text)
  BY <1>1, <1>3, RoundTrip, DecodeOfText DEF TextOf
<1> QED
  BY <1>2, <1>3

LEMMA SplicedNoCR ==
  ASSUME NEW text \in Text, NEW i \in Nat, NEW n \in Nat, NEW new \in Text,
         i >= 1, i <= Len(text) + 1, NoCR(text), NoCR(new)
  PROVE  NoCR(Spliced(text, i, n, new))
<1>1. text \in Seq(Char) /\ new \in Seq(Char) /\ Len(text) \in Nat
  BY LenProperties DEF Text
<1> DEFINE Other == Char \ {CR}
<1>2. ASSUME NEW t \in Seq(Char) PROVE NoCR(t) <=> t \in Seq(Other)
  <2>1. Len(t) \in Nat /\ t \in [1 .. Len(t) -> Char]
    BY LenProperties
  <2>2. NoCR(t) => t \in [1 .. Len(t) -> Other]
    BY <2>1 DEF NoCR
  <2>3. [1 .. Len(t) -> Other] \subseteq Seq(Other)
    BY <2>1, SeqDef
  <2>4. t \in Seq(Other) => \A k \in 1 .. Len(t) : t[k] \in Other
    <3> HIDE DEF Other
    <3> QED BY ElementOfSeq
  <2> QED BY <2>2, <2>3, <2>4 DEF NoCR
<1>3. text \in Seq(Other) /\ new \in Seq(Other)
  BY <1>1, <1>2
<1> HIDE DEF Other
<1>4. ASSUME NEW a \in Nat, NEW b \in Int, a >= 1, b <= Len(text)
      PROVE  SubSeq(text, a, b) \in Seq(Other)
  <2>1. \A k \in a .. b : text[k] \in Other
    BY <1>1, <1>3, <1>4, ElementOfSeq
  <2> QED BY <1>4, <2>1, SubSeqProperties
<1>5. SubSeq(text, 1, i - 1) \in Seq(Other) /\ SubSeq(text, i + n, Len(text)) \in Seq(Other)
  <2>1. /\ 1 \in Nat /\ 1 >= 1 /\ i - 1 \in Int /\ i - 1 <= Len(text)
        /\ i + n \in Nat /\ i + n >= 1 /\ Len(text) \in Int /\ Len(text) <= Len(text)
    BY <1>1
  <2>2. SubSeq(text, 1, i - 1) \in Seq(Other)
    BY <1>4, <2>1, Zenon
  <2>3. SubSeq(text, i + n, Len(text)) \in Seq(Other)
    BY <1>4, <2>1, Zenon
  <2> QED
    BY <2>2, <2>3
<1>6. Spliced(text, i, n, new) \in Seq(Other)
  BY <1>3, <1>5, ConcatProperties DEF Spliced
<1>7. Spliced(text, i, n, new) \in Seq(Char)
  BY SplicedIsText DEF Text
<1> QED
  BY <1>2, <1>6, <1>7

LEMMA InitEffect == Init => EffectInv
BY DEF Init, EffectInv, Editing, EffectIsWanted, NoCR, At

\* What is wanted does not change while the step runs.
LEMMA SameWanted ==
  ASSUME UNCHANGED <<request, base>>
  PROVE  Wanted' = Wanted
BY DEF Wanted

\* What has been made of the text goes on with the next edit.
LEMMA ProgressGoesOn ==
  ASSUME StepInv, EffectInv, pc \in Editing, applied < Len(request.edits)
  PROVE  /\ Progress(Decode(base), request.edits)[applied + 1] = EditedOrSkipped(content, ThisEdit)
         /\ EditedOrSkipped(content, ThisEdit) = Absent => Wanted = Absent
<1>1. PICK edits \in Seq(Edit) : edits = request.edits
  BY RequestTypes DEF StepInv
<1>2. PICK g : g = Progress(Decode(base), edits)
  OBVIOUS
<1>3. IsProgress(g, Decode(base), edits)
  BY <1>2, EditedUnfolds
<1>4. content = g[applied] /\ content # Absent
  BY <1>1, <1>2, StepTypes, PlatformEndsLines DEF EffectInv, Text
<1>5. applied \in 0 .. (Len(edits) - 1) /\ applied + 1 \in 0 .. Len(edits)
  BY <1>1, StepTypes
<1>6. g[applied + 1] = EditedOrSkipped(content, ThisEdit)
  BY <1>1, <1>3, <1>4, <1>5 DEF IsProgress, OneMore, ThisEdit
<1>7. ASSUME g[applied + 1] = Absent PROVE Wanted = Absent
  <2>1. Edited(Decode(base), edits) = Absent
    BY <1>2, <1>5, <1>7, DeniedForGood
  <2> QED
    BY <1>1, <2>1 DEF EffectInv, Editing, Wanted
<1> QED
  BY <1>1, <1>2, <1>6, <1>7

LEMMA ReadEffect == StepInv /\ UndoInv /\ EffectInv /\ Read => EffectInv'
<1> SUFFICES ASSUME StepInv, UndoInv, EffectInv, Read PROVE EffectInv'
  OBVIOUS
<1>1. /\ UNCHANGED <<request, base>> /\ applied' = applied /\ pc = "read" /\ Wanted' = Wanted
      /\ request.tool = "PATCH_EDIT" /\ applied = 0 /\ file = base /\ reason = "none"
  BY SameWanted DEF Read, edit, scan, At, EffectInv, UndoInv, BeforeWrite
<1>2. file \in Text \cup {Absent}
  BY StepTypes
<1>3. CASE file # Absent /\ GuardFits
  <2>1. pc' = "edit" /\ reason' = reason /\ content' = Decode(base)
    BY <1>1, <1>3 DEF Read, Goto
  <2>2. request.guard \in {Absent, Decode(base)} /\ base # Absent
    BY <1>1, <1>3 DEF GuardFits, TextOf
  <2>3. NoCR(content')
    BY <1>1, <1>2, <1>3, <2>1, DecodeIsText
  <2>4. Progress(Decode(base), request.edits)[0] = Decode(base)
    <3>1. request.edits \in Seq(Edit)
      BY RequestTypes DEF StepInv
    <3> QED BY <3>1, EditedUnfolds DEF IsProgress
  <2> QED
    BY <1>1, <2>1, <2>2, <2>3, <2>4 DEF EffectInv, Editing, EffectIsWanted, At
<1>4. CASE ~(file # Absent /\ GuardFits)
  <2>1. pc' = "undo" /\ reason' = "tool" /\ content' = content
    BY <1>4 DEF Read, Fail, edit
  <2>2. Wanted = Absent
    BY <1>1, <1>4 DEF Wanted, GuardFits, TextOf
  <2> QED
    BY <1>1, <2>1, <2>2 DEF EffectInv, Editing, EffectIsWanted, At
<1> QED
  BY <1>3, <1>4

LEMMA NextEditEffect == StepInv /\ UndoInv /\ EffectInv /\ NextEdit => EffectInv'
<1> SUFFICES ASSUME StepInv, UndoInv, EffectInv, NextEdit PROVE EffectInv'
  OBVIOUS
<1>1. /\ UNCHANGED <<request, base>> /\ pc = "edit" /\ Wanted' = Wanted
      /\ content' = content /\ reason = "none" /\ request.tool = "PATCH_EDIT"
      /\ pc \in Editing
  BY SameWanted DEF NextEdit, edit, scan, At, EffectInv, UndoInv, BeforeWrite, Editing
<1>2. content \in Text
  BY StepTypes
<1>3. CASE applied = Len(request.edits)
  <2>1. pc' = "write" /\ reason' = reason /\ applied' = applied
    BY <1>3 DEF NextEdit, Goto, edit
  <2> QED
    BY <1>1, <1>3, <2>1 DEF EffectInv, Editing, EffectIsWanted, At
<1>4. CASE applied < Len(request.edits) /\ ThisEdit.old = ThisEdit.new
  <2>1. pc' = "edit" /\ reason' = reason /\ applied' = applied + 1
    BY <1>4, StepTypes DEF NextEdit, Goto
  <2>2. EditedOrSkipped(content, ThisEdit) = content
    BY <1>4 DEF EditedOrSkipped
  <2>3. Progress(Decode(base), request.edits)[applied + 1] = content
    BY <1>1, <1>4, <2>2, ProgressGoesOn
  <2> QED
    BY <1>1, <2>1, <2>3 DEF EffectInv, Editing, EffectIsWanted, At
<1>5. CASE applied < Len(request.edits) /\ ThisEdit.old # ThisEdit.new
  <2>1. CASE ThisEdit.old = <<>>
    <3>1. pc' = "undo" /\ reason' = "tool"
      BY <1>5, <2>1, StepTypes DEF NextEdit, Fail
    <3>2. EditedOrSkipped(content, ThisEdit) = Absent
      BY <1>5, <2>1 DEF EditedOnce, EditedOrSkipped
    <3>3. Wanted = Absent
      BY <1>1, <1>5, <3>2, ProgressGoesOn
    <3> QED
      BY <1>1, <3>1, <3>3 DEF EffectInv, Editing, EffectIsWanted, At
  <2>2. CASE ThisEdit.old # <<>>
    <3>1. pc' = "scan" /\ reason' = reason /\ applied' = applied
      BY <1>5, <2>2, StepTypes DEF NextEdit, Goto
    <3> QED
      BY <1>1, <3>1 DEF EffectInv, Editing, EffectIsWanted, At
  <2> QED BY <2>1, <2>2
<1> QED
  BY <1>3, <1>4, <1>5 DEF NextEdit

LEMMA ChooseEffect ==
  ASSUME PlainTexts
  PROVE  StepInv /\ UndoInv /\ EffectInv /\ Choose => EffectInv'
<1> SUFFICES ASSUME StepInv, UndoInv, EffectInv, Choose PROVE EffectInv'
  OBVIOUS
<1>1. /\ UNCHANGED <<request, base>> /\ pc = "choose" /\ Wanted' = Wanted
      /\ reason = "none" /\ request.tool = "PATCH_EDIT" /\ pc \in Editing
  BY SameWanted DEF Choose, At, EffectInv, UndoInv, BeforeWrite, Editing
<1>2. applied < Len(request.edits)
  BY <1>1 DEF StepInv, TypeOK
<1>3. PICK e \in Edit : e = ThisEdit
  BY <1>2, ThisEditTypes
<1>4. e.old # e.new /\ e.old # <<>>
  BY <1>1, <1>3 DEF StepInv, Searching
<1>5. content \in Text /\ positions \in Seq(Nat)
  BY StepTypes
<1>6. Greedy(content, e.old, positions, start, Len(content) + 1)
  BY <1>1, <1>3, GreedyScan DEF StepInv, At
<1>7. Chosen = Number(e, Len(positions))
  BY <1>3 DEF Chosen, Number
<1>8. CASE Chosen \in DOMAIN positions
  <2>1. PICK i : i = positions[Chosen]
    OBVIOUS
  <2>2. /\ pc' = "edit" /\ reason' = reason /\ applied' = applied + 1
        /\ content' = Spliced(content, i, Len(e.old), e.new)
    BY <1>3, <1>8, <2>1 DEF Choose, Goto
  <2>3. EditedOrSkipped(content, e) = Spliced(content, i, Len(e.old), e.new)
    BY <1>4, <1>5, <1>6, <1>7, <1>8, <2>1, EditIsMeant
  <2>4. Progress(Decode(base), request.edits)[applied + 1] = content'
    BY <1>1, <1>2, <1>3, <2>2, <2>3, ProgressGoesOn
  <2>5. LineSep = <<LF>> \/ NoCR(content')
    <3>1. CASE LineSep = <<LF>>
      BY <3>1
    <3>2. CASE LineSep # <<LF>>
      <4>1. NoCR(content)
        BY <3>2 DEF EffectInv
      <4>2. applied + 1 \in 1 .. Len(request.edits) /\ request \in Requests
        BY <1>2, StepTypes DEF StepInv
      <4>3. NoCR(e.new)
        BY <1>3, <3>2, <4>2 DEF PlainTexts, ThisEdit
      <4>4. OccursAt(content, e.old, i)
        BY <1>6, <1>8, <2>1 DEF Greedy
      <4>5. i \in Nat /\ i >= 1 /\ i <= Len(content) + 1
        BY <1>3, <1>5, <4>4, EditTypes, OccurrenceFits, StepTypes
      <4>6. e.new \in Text /\ Len(e.old) \in Nat
        BY EditTypes
      <4> QED BY <1>5, <2>2, <4>1, <4>3, <4>5, <4>6, SplicedNoCR
    <3> QED BY <3>1, <3>2
  <2> QED
    BY <1>1, <2>2, <2>4, <2>5 DEF EffectInv, Editing, EffectIsWanted, At
<1>9. CASE Chosen \notin DOMAIN positions
  <2>1. pc' = "undo" /\ reason' = "tool" /\ content' = content
    BY <1>9 DEF Choose, Fail
  <2>2. EditedOrSkipped(content, e) = Absent
    BY <1>4, <1>5, <1>6, <1>7, <1>9, EditIsMeant
  <2>3. Wanted = Absent
    BY <1>1, <1>2, <1>3, <2>2, ProgressGoesOn
  <2> QED
    BY <1>1, <2>1, <2>3 DEF EffectInv, Editing, EffectIsWanted, At
<1> QED
  BY <1>8, <1>9

LEMMA WriteEffect == StepInv /\ UndoInv /\ EffectInv /\ Write => EffectInv'
<1> SUFFICES ASSUME StepInv, UndoInv, EffectInv, Write PROVE EffectInv'
  OBVIOUS
<1>1. /\ UNCHANGED <<request, base, content, applied>> /\ pc = "write" /\ pc' = "done"
      /\ Wanted' = Wanted /\ reason' = "none" /\ file' = Encode(content)
  BY SameWanted DEF Write, Goto, edit, At, UndoInv, BeforeWrite
<1>2. content \in Text /\ (LineSep = <<LF>> \/ NoCR(content))
  BY StepTypes DEF EffectInv
<1>3. PICK edits \in Seq(Edit) : edits = request.edits
  BY RequestTypes DEF StepInv
<1>4. Edited(Decode(base), edits) = Progress(Decode(base), edits)[Len(edits)]
  BY EditedUnfolds DEF IsProgress
<1>5. Wanted = content
  BY <1>1, <1>3, <1>4 DEF EffectInv, Editing, Wanted
<1>6. TextOf(file') = Decode(content) /\ content # Absent
  BY <1>1, <1>2, ReadBack
<1>7. EffectIsWanted'
  <2>1. TextOf(file)' = TextOf(file')
    BY DEF TextOf
  <2> QED BY <1>1, <1>5, <1>6, <2>1 DEF EffectIsWanted, At
<1> QED
  BY <1>1, <1>7 DEF EffectInv, Editing

LEMMA WholeFileEffect ==
  ASSUME PlainTexts
  PROVE  StepInv /\ UndoInv /\ EffectInv /\ (ApplyPatch \/ CreateFile) => EffectInv'
<1> SUFFICES ASSUME StepInv, UndoInv, EffectInv, ApplyPatch \/ CreateFile PROVE EffectInv'
  OBVIOUS
<1>1. /\ UNCHANGED <<request, base, content, applied>> /\ pc \in {"apply", "create"}
      /\ pc' \in {"done", "undo"} /\ Wanted' = Wanted /\ reason = "none" /\ file = base
  BY SameWanted DEF ApplyPatch, CreateFile, Goto, Fail, edit, At, UndoInv, BeforeWrite
<1>2. PICK text \in Text : text = request.text /\ (LineSep = <<LF>> \/ NoCR(text))
  BY RequestTypes DEF StepInv, PlainTexts
<1>3. Encode(text) # Absent /\ TextOf(Encode(text)) = Decode(text) /\ text # Absent
  BY <1>2, ReadBack
<1>4. TextOf(file)' = TextOf(file')
  BY DEF TextOf
<1>5. CASE ApplyPatch
  <2>1. Wanted = IF base # Absent THEN text ELSE Absent
    BY <1>2, <1>5 DEF ApplyPatch, At, EffectInv, Wanted
  <2>2. CASE file = Absent
    BY <1>1, <1>5, <2>1, <2>2 DEF ApplyPatch, Fail, EffectInv, Editing, EffectIsWanted, At
  <2>3. CASE file # Absent
    <3>1. pc' = "done" /\ reason' = "none" /\ Wanted = text
      BY <1>1, <1>5, <2>1, <2>3 DEF ApplyPatch, Goto
    <3>2. TextOf(file) # Absent /\ NoCR(TextOf(file)) /\ TextOf(file) \in Text
      BY <2>3, StepTypes, DecodeIsText, PlatformEndsLines DEF TextOf, Text
    <3>3. TextOf(file') = Decode(text)
      <4>1. CASE TextOf(file) = text
        <5>1. file' = file
          BY <1>2, <1>5, <4>1 DEF ApplyPatch
        <5>2. Decode(text) = text
          BY <3>2, <4>1, DecodeOfText
        <5> QED BY <4>1, <5>1, <5>2
      <4>2. CASE TextOf(file) # text
        BY <1>2, <1>3, <1>5, <3>2, <4>2 DEF ApplyPatch
      <4> QED BY <4>1, <4>2
    <3> QED
      BY <1>1, <1>3, <1>4, <3>1, <3>3 DEF EffectInv, Editing, EffectIsWanted, At
  <2> QED BY <2>2, <2>3
<1>6. CASE CreateFile
  <2>1. Wanted = IF base = Absent THEN text ELSE Absent
    BY <1>2, <1>6 DEF CreateFile, At, EffectInv, Wanted
  <2>2. CASE file = Absent
    <3>1. pc' = "done" /\ reason' = "none" /\ Wanted = text /\ file' = Encode(text)
      BY <1>1, <1>2, <1>6, <2>1, <2>2 DEF CreateFile, Goto
    <3> QED
      BY <1>1, <1>3, <1>4, <3>1 DEF EffectInv, Editing, EffectIsWanted, At
  <2>3. CASE file # Absent
    BY <1>1, <1>6, <2>1, <2>3 DEF CreateFile, Fail, EffectInv, Editing, EffectIsWanted, At
  <2> QED BY <2>2, <2>3
<1> QED
  BY <1>5, <1>6

LEMMA EffectStep ==
  ASSUME PlainTexts
  PROVE  StepInv /\ UndoInv /\ EffectInv /\ [Next]_vars => EffectInv'
<1> SUFFICES ASSUME StepInv, UndoInv, EffectInv, [Next]_vars PROVE EffectInv'
  OBVIOUS
<1>w. UNCHANGED <<request, base>> => Wanted' = Wanted
  BY SameWanted
<1>t. request.tool \in Tools
  BY RequestTypes DEF StepInv
<1> USE DEF At, Goto, Fail, Editing, EffectIsWanted
<1>1. ASSUME TakeSnapshot PROVE EffectInv'
  BY <1>w, <1>1 DEF TakeSnapshot, edit, EffectInv
<1>2. ASSUME Gate PROVE EffectInv'
  BY <1>w, <1>t, <1>2 DEF Gate, edit, EffectInv, Tools
<1>3. ASSUME Find PROVE EffectInv'
  BY <1>w, <1>3 DEF Find, edit, EffectInv
<1>4. ASSUME WriteFails PROVE EffectInv'
  BY <1>w, <1>4 DEF WriteFails, edit, EffectInv
<1>5. ASSUME Return PROVE EffectInv'
  BY <1>w, <1>5 DEF Return, edit, EffectInv
<1>6. ASSUME Undo PROVE EffectInv'
  BY <1>w, <1>6 DEF Undo, edit, EffectInv
<1>7. CASE UNCHANGED vars
  BY <1>w, <1>7 DEF vars, edit, EffectInv, TextOf
<1> QED
  BY <1>1, <1>2, <1>3, <1>4, <1>5, <1>6, <1>7,
     ReadEffect, NextEditEffect, ChooseEffect, WriteEffect, WholeFileEffect DEF Next, Step

\* On every text and every list of edits, a step that brings in no line ending
\* but the platform's succeeds exactly when it can be done, and then leaves
\* the text that all its edits, in their order, are meant to leave
\* (patch_edit, apply_patch and create_file).
THEOREM EffectsAreWanted ==
  ASSUME PlainTexts
  PROVE  Spec => []EffectIsWanted
<1>1. EffectInv => EffectIsWanted
  BY DEF EffectInv
<1>2. StepInv /\ UndoInv /\ EffectInv /\ [Next]_vars => EffectInv'
  BY EffectStep
<1> QED
  BY <1>1, <1>2, InitStep, StepStep, InitUndo, UndoStep, InitEffect, PTL DEF Spec
=============================================================================
