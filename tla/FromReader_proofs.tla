-------------------------- MODULE FromReader_proofs --------------------------
(***************************************************************************)
(* Nothing is lost on the way from a reader to the builder, and what is    *)
(* returned is right: for every stream and however it is cut into reads.   *)
(***************************************************************************)
EXTENDS FromReader, NodeEdits_proofs

-----------------------------------------------------------------------------
(* Texts put together *)

\* f puts the first m pieces of s together, one after the other.
Flattens(f, s, m) == f = [i \in 1..m |-> IF i = 1 THEN s[i] ELSE f[i - 1] \o s[i]]

\* What it then is, piece by piece.
PieceByPiece(f, s, m) ==
  /\ f[1] = s[1]
  /\ \A i \in 1..m : i # 1 => f[i] = f[i - 1] \o s[i]
  /\ \A i \in 1..m : f[i] \in Text

LEMMA FlattensExist ==
  ASSUME NEW s, NEW m \in Nat
  PROVE  \E f : Flattens(f, s, m)
  <1>. DEFINE T == {k \in Nat : \E f : Flattens(f, s, k)}
  <1>1. 0 \in T
    <2>. DEFINE f == [i \in 1..0 |-> s[i]]
    <2>1. f = [i \in 1..0 |-> IF i = 1 THEN s[i] ELSE f[i - 1] \o s[i]]
      OBVIOUS
    <2>2. Flattens(f, s, 0)
      BY <2>1 DEF Flattens
    <2>. QED  BY <2>2
  <1>2. ASSUME NEW k \in Nat, k \in T PROVE k + 1 \in T
    <2>1. PICK f : Flattens(f, s, k)
      BY <1>2
    <2>0. \A i \in 1..k : f[i] = IF i = 1 THEN s[i] ELSE f[i - 1] \o s[i]
      BY <2>1 DEF Flattens
    <2>. DEFINE y == IF k = 0 THEN s[1] ELSE f[k] \o s[k + 1]
                g == [i \in 1..(k + 1) |-> IF i = k + 1 THEN y ELSE f[i]]
    <2>2. ASSUME NEW i \in 1..(k + 1) PROVE g[i] = IF i = 1 THEN s[i] ELSE g[i - 1] \o s[i]
      <3>1. CASE i = k + 1 /\ k = 0
        BY <3>1
      <3>2. CASE i = k + 1 /\ k # 0
        <4>1. i - 1 = k /\ k \in 1..(k + 1) /\ k # k + 1 /\ i # 1
          BY <3>2
        <4>2. g[k] = f[k] /\ g[i] = y
          BY <3>2, <4>1
        <4>. QED  BY <3>2, <4>1, <4>2
      <3>3. CASE i # k + 1
        <4>1. i \in 1..k /\ g[i] = f[i]
          BY <3>3
        <4>2. CASE i = 1
          BY SMTT(60), <2>0, <4>1, <4>2
        <4>3. CASE i # 1
          <5>1. i - 1 \in 1..(k + 1) /\ i - 1 # k + 1
            BY <4>1, <4>3
          <5>2. g[i - 1] = f[i - 1]
            BY <5>1
          <5>. QED  BY <2>0, <4>1, <4>3, <5>2
        <4>. QED  BY <4>2, <4>3
      <3>. QED  BY <3>1, <3>2, <3>3
    <2>3. g = [i \in 1..(k + 1) |-> IF i = 1 THEN s[i] ELSE g[i - 1] \o s[i]]
      BY <2>2
    <2>. HIDE DEF g
    <2>4. Flattens(g, s, k + 1)
      BY <2>3 DEF Flattens
    <2>. QED  BY <2>4
  <1>3. Nat \subseteq T
    <2>. HIDE DEF T
    <2>. QED  BY <1>1, <1>2, SetInduction
  <1>. QED  BY <1>3

LEMMA FlattensParts ==
  ASSUME NEW s \in Seq(Text), NEW n, n = Len(s), n # 0, NEW f, Flattens(f, s, n)
  PROVE  PieceByPiece(f, s, n)
  <1>. DEFINE T == {i \in Nat : i + 1 <= n => f[i + 1] \in Text}
  <1>1. n \in Nat /\ \A i \in 1..n : s[i] \in Text
    BY LenProperties, ElementOfSeq
  <1>2. \A i \in 1..n : f[i] = IF i = 1 THEN s[i] ELSE f[i - 1] \o s[i]
    BY DEF Flattens
  <1>3. 0 \in T
    BY <1>1, <1>2
  <1>4. ASSUME NEW i \in Nat, i \in T PROVE i + 1 \in T
    <2>. SUFFICES ASSUME (i + 1) + 1 <= n PROVE f[(i + 1) + 1] \in Text
      OBVIOUS
    <2>1. (i + 1) + 1 \in 1..n /\ (i + 1) + 1 # 1 /\ ((i + 1) + 1) - 1 = i + 1
      BY <1>1
    <2>2. f[i + 1] \in Text /\ s[(i + 1) + 1] \in Text
      BY <1>1, <1>4, <2>1
    <2>3. f[(i + 1) + 1] = f[i + 1] \o s[(i + 1) + 1]
      BY <1>2, <2>1
    <2>. QED  BY <2>2, <2>3, ConcatFacts
  <1>5. Nat \subseteq T
    <2>. HIDE DEF T
    <2>. QED  BY <1>3, <1>4, SetInduction
  <1>6. ASSUME NEW i \in 1..n PROVE f[i] \in Text
    <2>1. i - 1 \in Nat /\ (i - 1) + 1 = i /\ i <= n
      BY <1>1
    <2>2. i - 1 \in T
      BY <1>5, <2>1
    <2>. QED  BY <2>1, <2>2
  <1>7. 1 \in 1..n
    BY <1>1
  <1>8. f[1] = s[1]
    BY <1>2, <1>7
  <1>. QED  BY <1>2, <1>6, <1>8 DEF PieceByPiece

LEMMA FlattenIs ==
  ASSUME NEW s \in Seq(Text), NEW n, n = Len(s), n # 0
  PROVE  \E f : Flattens(f, s, n) /\ FlattenSeq(s) = f[n]
  <1>. DEFINE f == CHOOSE f : Flattens(f, s, Len(s))
  <1>1. FlattenSeq(s) = f[Len(s)]
    BY DEF FlattenSeq, Flattens
  <1>2. Len(s) \in Nat
    BY LenProperties
  <1>3. Flattens(f, s, Len(s))
    BY <1>2, FlattensExist
  <1>. HIDE DEF f
  <1>. QED  BY <1>1, <1>3

\* The pieces of a text put together, and one more.
LEMMA FlattenAppend ==
  ASSUME NEW s \in Seq(Text), NEW x \in Text
  PROVE  FlattenSeq(s) \in Text /\ FlattenSeq(Append(s, x)) = FlattenSeq(s) \o x
  <1>. DEFINE n == Len(s)
              r == Append(s, x)
  <1>1. n \in Nat
    BY LenProperties
  <1>2. /\ r \in Seq(Text) /\ Len(r) = n + 1 /\ r[n + 1] = x
        /\ \A i \in 1..n : r[i] = s[i]
    BY AppendProperties
  <1>. HIDE DEF r
  <1>3. PICK g : Flattens(g, r, n + 1) /\ FlattenSeq(r) = g[n + 1]
    <2>. DEFINE m == n + 1
    <2>1. m = Len(r) /\ m # 0
      BY <1>1, <1>2
    <2>. HIDE DEF m
    <2>2. \E g : Flattens(g, r, m) /\ FlattenSeq(r) = g[m]
      BY <1>2, <2>1, FlattenIs
    <2>. QED  BY <2>2 DEF m
  <1>4. /\ g[1] = r[1]
        /\ \A i \in 1..(n + 1) : i # 1 => g[i] = g[i - 1] \o r[i]
    <2>. DEFINE m == n + 1
    <2>1. r \in Seq(Text) /\ m = Len(r) /\ m # 0 /\ Flattens(g, r, m)
      BY <1>1, <1>2, <1>3
    <2>. HIDE DEF m
    <2>2. PieceByPiece(g, r, m)
      BY <2>1, FlattensParts
    <2>. QED  BY <2>2 DEF m, PieceByPiece
  <1>5. CASE n = 0
    <2>1. s = <<>>
      BY <1>5, EmptySeq
    <2>2. FlattenSeq(s) = <<>>
      BY <1>5, <2>1 DEF FlattenSeq
    <2>3. FlattenSeq(r) = x
      BY <1>2, <1>3, <1>4, <1>5
    <2>. QED  BY <2>2, <2>3, EmptySeq, ConcatEmptySeq DEF r, Text
  <1>6. CASE n # 0
    <2>0. n = Len(s)
      OBVIOUS
    <2>. HIDE DEF n
    <2>1. PICK f : Flattens(f, s, n) /\ FlattenSeq(s) = f[n]
      BY <1>6, <2>0, FlattenIs
    <2>2. /\ f[1] = s[1] /\ \A i \in 1..n : f[i] \in Text
          /\ \A i \in 1..n : i # 1 => f[i] = f[i - 1] \o s[i]
      <3>1. PieceByPiece(f, s, n)
        BY <1>6, <2>0, <2>1, FlattensParts
      <3>. QED  BY <3>1 DEF PieceByPiece
    <2>. DEFINE T == {i \in Nat : i + 1 <= n => g[i + 1] = f[i + 1]}
    <2>3. 0 \in T
      BY <1>1, <1>2, <1>4, <1>6, <2>2
    <2>4. ASSUME NEW i \in Nat, i \in T PROVE i + 1 \in T
      <3>. SUFFICES ASSUME (i + 1) + 1 <= n PROVE g[(i + 1) + 1] = f[(i + 1) + 1]
        OBVIOUS
      <3>. DEFINE j == (i + 1) + 1
      <3>1. j \in 1..n /\ j \in 1..(n + 1) /\ j # 1 /\ j - 1 = i + 1 /\ i + 1 <= n
        BY <1>1
      <3>2. g[j - 1] = f[j - 1]
        BY <2>4, <3>1
      <3>. HIDE DEF j
      <3>3. g[j] = f[j]
        BY <1>2, <1>4, <2>2, <3>1, <3>2
      <3>. QED  BY <3>3 DEF j
    <2>5. Nat \subseteq T
      <3>. HIDE DEF T
      <3>. QED  BY <2>3, <2>4, SetInduction
    <2>6. g[n] = f[n]
      <3>1. n - 1 \in Nat /\ (n - 1) + 1 = n
        BY <1>1, <1>6
      <3>. QED  BY <1>1, <2>5, <3>1
    <2>7. g[n + 1] = g[n] \o r[n + 1]
      <3>1. n + 1 \in 1..(n + 1) /\ n + 1 # 1 /\ (n + 1) - 1 = n
        BY <1>1, <1>6
      <3>. QED  BY <1>4, <3>1
    <2>8. n \in 1..n
      BY <1>1, <1>6
    <2>. QED  BY <1>2, <1>3, <2>1, <2>2, <2>6, <2>7, <2>8 DEF r
  <1>. QED  BY <1>5, <1>6

-----------------------------------------------------------------------------
(* valid_up_to *)

LEMMA ValidUpToFacts ==
  ASSUME NEW t \in Text
  PROVE  /\ ValidUpTo(t) \in 0..Len(t) /\ Utf8(Slice(t, 0, ValidUpTo(t)))
         /\ \A b \in 0..Len(t) : Utf8(Slice(t, 0, b)) => b <= ValidUpTo(t)
  <1>. DEFINE S == {b \in 0..Len(t) : Utf8(Slice(t, 0, b))}
  <1>1. Len(t) \in Nat
    BY TextFacts
  <1>2. 0 \in S
    <2>1. Len(Slice(t, 0, 0)) = 0
      BY <1>1, CutFacts DEF Text
    <2>2. Utf8(Slice(t, 0, 0))
      BY <2>1 DEF Utf8
    <2>. QED  BY <1>1, <2>2
  <1>3. Max(S) \in S /\ \A b \in S : b <= Max(S)
    BY <1>1, <1>2, MaxFacts
  <1>4. ValidUpTo(t) = Max(S)
    BY DEF ValidUpTo
  <1>. HIDE DEF ValidUpTo
  <1>. QED  BY <1>3, <1>4

\* A text is UTF-8 if it is so up to its end.
LEMMA ValidToEnd ==
  ASSUME NEW t \in Text
  PROVE  Utf8(t) <=> ValidUpTo(t) = Len(t)
  <1>1. Len(t) \in Nat /\ Slice(t, 0, Len(t)) = t
    BY TextFacts, SubSeqFull DEF Slice, Text
  <1>. QED  BY <1>1, ValidUpToFacts

\* What follows whole chars is whole chars if all is.
LEMMA ValidRest ==
  ASSUME NEW p \in Text, NEW q \in Text, Utf8(p), Utf8(p \o q)
  PROVE  Utf8(q)
  <1>. DEFINE w == p \o q
              n == Len(p)
  <1>1. w \in Text /\ Len(w) = n + Len(q) /\ n \in Nat /\ Len(q) \in Nat
    BY ConcatFacts, TextFacts
  <1>2. /\ \A i \in 1..n : w[i] = p[i]
        /\ \A i \in 1..Len(q) : w[n + i] = q[i]
    BY ConcatFacts
  <1>3. Slice(w, 0, n) = p /\ From(w, n) = q
    BY PartsOfConcat
  <1>4. Utf8(w)
    OBVIOUS
  <1>. HIDE DEF w, n
  <1>5. IsBoundary(n, w)
    <2>. SUFFICES ASSUME n # Len(w), w[n + 1] = Cont PROVE FALSE
      BY DEF IsBoundary
    <2>1. n + 1 \in 1..Len(w)
      BY <1>1
    <2>2. PICK k \in 1..3 : (n + 1) - k \in 1..Len(w) /\ k <= Following(w[(n + 1) - k])
      BY <1>4, <2>1 DEF Utf8
    <2>. DEFINE i == (n + 1) - k
    <2>3. i \in 1..n /\ i + k = n + 1
      BY <1>1, <2>2
    <2>. HIDE DEF i
    <2>4. k \in 1..Following(p[i])
      <3>1. k <= Following(p[i])
        BY <1>2, <2>2, <2>3 DEF i
      <3>2. Following(p[i]) \in Int
        BY DEF Following
      <3>. QED  BY <3>1, <3>2
    <2>5. i + k \in 1..Len(p)
      BY <2>3, <2>4 DEF Utf8, n
    <2>. QED  BY <1>1, <2>3, <2>5 DEF n
  <1>6. n \in 0..Len(w)
    BY <1>1
  <1>. QED  BY <1>1, <1>3, <1>4, <1>5, <1>6, Utf8Parts

\* What is valid before does not change what is valid from there on.
LEMMA ValidUpToConcat ==
  ASSUME NEW p \in Text, NEW q \in Text, Utf8(p)
  PROVE  ValidUpTo(p \o q) = Len(p) + ValidUpTo(q)
  <1>. DEFINE w == p \o q
              n == Len(p)
              v == ValidUpTo(q)
              c == ValidUpTo(w)
  <1>1. w \in Text /\ Len(w) = n + Len(q) /\ n \in Nat /\ Len(q) \in Nat
    BY ConcatFacts, TextFacts
  <1>2. v \in 0..Len(q) /\ Utf8(Slice(q, 0, v)) /\ \A b \in 0..Len(q) : Utf8(Slice(q, 0, b)) => b <= v
    BY ValidUpToFacts
  <1>3. c \in 0..Len(w) /\ Utf8(Slice(w, 0, c)) /\ \A b \in 0..Len(w) : Utf8(Slice(w, 0, b)) => b <= c
    BY <1>1, ValidUpToFacts
  <1>. HIDE DEF v, c
  <1>4. ASSUME NEW b \in 0..Len(q)
        PROVE  /\ Slice(w, 0, n + b) = p \o Slice(q, 0, b) /\ Slice(q, 0, b) \in Text
               /\ n + b \in 0..Len(w)
    <2>. DEFINE l == Slice(q, 0, b)
                r == From(q, b)
    <2>1. l \in Text /\ r \in Text /\ l \o r = q /\ Len(l) = b
      BY PartsFacts
    <2>. HIDE DEF l, r
    <2>2. p \o l \in Text /\ Len(p \o l) = n + b
      BY <2>1, ConcatFacts
    <2>3. (p \o l) \o r = p \o (l \o r)
      BY ZenonT(60), <2>1, TextAssoc
    <2>4. Slice((p \o l) \o r, 0, Len(p \o l)) = p \o l
      BY <2>1, <2>2, PartsOfConcat
    <2>5. n + b \in 0..Len(w)
      BY <1>1
    <2>. QED  BY <2>1, <2>2, <2>3, <2>4, <2>5 DEF l
  <1>5. n + v <= c
    <2>1. Utf8(p \o Slice(q, 0, v))
      BY <1>2, <1>4, Utf8Concat
    <2>. QED  BY <1>2, <1>3, <1>4, <2>1
  <1>6. c - n <= v
    <2>. DEFINE b == c - n
    <2>1. b \in 0..Len(q) /\ n + b = c
      <3>. HIDE DEF w, n
      <3>. QED  BY <1>1, <1>2, <1>3, <1>5
    <2>. HIDE DEF b
    <2>2. Utf8(p \o Slice(q, 0, b)) /\ Slice(q, 0, b) \in Text
      BY <1>3, <1>4, <2>1
    <2>3. Utf8(Slice(q, 0, b))
      BY <2>2, ValidRest
    <2>4. b <= v
      BY <1>2, <2>1, <2>3
    <2>. QED  BY <2>4 DEF b
  <1>7. c = n + v
    <2>. HIDE DEF w, n
    <2>. QED  BY <1>1, <1>2, <1>3, <1>5, <1>6
  <1>. QED  BY <1>7 DEF c, v

-----------------------------------------------------------------------------
(* The buffer of from_reader *)

\* What is read follows what the buffer held.
LEMMA ReadKeeps ==
  ASSUME NEW b \in Text, NEW f \in 0..Len(b), NEW x \in Text, f + Len(x) <= Len(b)
  PROVE  /\ ReadInto(b, f, x) \in Text /\ Len(ReadInto(b, f, x)) = Len(b)
         /\ Slice(ReadInto(b, f, x), 0, f + Len(x)) = Slice(b, 0, f) \o x
  <1>. DEFINE p == Slice(b, 0, f)
              m == f + Len(x)
              r == From(b, m)
              q == p \o x
  <1>1. Len(b) \in Nat /\ Len(x) \in Nat
    BY TextFacts
  <1>2. m \in 0..Len(b)
    BY <1>1
  <1>3. ReadInto(b, f, x) = q \o r
    BY DEF ReadInto
  <1>4. p \in Text /\ Len(p) = f
    BY PartsFacts
  <1>. HIDE DEF m, p
  <1>5. r \in Text /\ Len(r) = Len(b) - m
    BY <1>2, PartsFacts
  <1>. HIDE DEF r
  <1>6. q \in Text /\ Len(q) = m
    BY <1>4, ConcatFacts DEF m
  <1>. HIDE DEF q
  <1>7. q \o r \in Text /\ Len(q \o r) = Len(q) + Len(r) /\ Slice(q \o r, 0, Len(q)) = q
    BY <1>5, <1>6, ConcatFacts, PartsOfConcat
  <1>8. Len(q \o r) = Len(b)
    BY <1>1, <1>2, <1>5, <1>6, <1>7
  <1>. QED  BY <1>3, <1>6, <1>7, <1>8 DEF m, p, q

\* What follows the consumed bytes comes to the front.
LEMMA ShiftKeeps ==
  ASSUME NEW b \in Text, NEW f \in 0..Len(b), NEW v \in 0..f
  PROVE  /\ Shifted(b, v, f) \in Text /\ Len(Shifted(b, v, f)) = Len(b)
         /\ Slice(Shifted(b, v, f), 0, f - v) = From(Slice(b, 0, f), v)
         /\ Slice(b, 0, v) = Slice(Slice(b, 0, f), 0, v)
  <1>. DEFINE w == Slice(b, 0, f)
              k == f - v
  <1>1. Len(b) \in Nat /\ f \in Nat /\ v \in Nat
    BY TextFacts
  <1>2. w \in Text /\ Len(w) = f /\ \A j \in 1..f : w[j] = b[j]
    BY CutFacts DEF Text
  <1>3. v \in 0..Len(b) /\ k \in 0..Len(b) /\ f \in v..Len(b) /\ v \in 0..Len(w) /\ Len(w) - v = k
    BY <1>1, <1>2
  <1>. HIDE DEF w
  <1>4. /\ Slice(b, 0, v) \in Text /\ Len(Slice(b, 0, v)) = v
        /\ \A j \in 1..v : Slice(b, 0, v)[j] = b[j]
    BY <1>3, CutFacts DEF Text
  <1>5. /\ Slice(w, 0, v) \in Text /\ Len(Slice(w, 0, v)) = v
        /\ \A j \in 1..v : Slice(w, 0, v)[j] = w[j]
        /\ From(w, v) \in Text /\ Len(From(w, v)) = k
        /\ \A j \in 1..k : From(w, v)[j] = w[v + j]
    BY ZenonT(60), <1>2, <1>3, CutFacts DEF Text
  <1>6. Slice(b, 0, v) = Slice(w, 0, v)
    <2>1. \A j \in 1..v : Slice(b, 0, v)[j] = Slice(w, 0, v)[j]
      BY <1>1, <1>2, <1>3, <1>4, <1>5
    <2>. QED  BY <1>4, <1>5, <2>1, SeqEqual DEF Text
  <1>7. CASE v < f
    <2>. DEFINE s == Slice(b, v, f)
                r == From(b, k)
    <2>1. s \in Text /\ Len(s) = k /\ \A j \in 1..k : s[j] = b[v + j]
      BY <1>3, SliceFacts
    <2>. HIDE DEF k
    <2>2. r \in Text /\ Len(r) = Len(b) - k
      BY <1>3, PartsFacts
    <2>3. Shifted(b, v, f) = s \o r
      BY <1>7 DEF Shifted, k
    <2>4. s = From(w, v)
      <3>1. \A j \in 1..k : v + j \in 1..f
        BY <1>1 DEF k
      <3>2. \A j \in 1..k : s[j] = From(w, v)[j]
        BY <1>2, <1>5, <2>1, <3>1
      <3>. QED  BY <1>5, <2>1, <3>2, SeqEqual DEF Text
    <2>. HIDE DEF s, r
    <2>5. s \o r \in Text /\ Len(s \o r) = Len(s) + Len(r) /\ Slice(s \o r, 0, Len(s)) = s
      BY <2>1, <2>2, ConcatFacts, PartsOfConcat
    <2>6. Len(s \o r) = Len(b)
      BY <1>1, <1>3, <2>1, <2>2, <2>5
    <2>. QED  BY <1>6, <2>1, <2>3, <2>4, <2>5, <2>6 DEF k, w
  <1>8. CASE ~ (v < f)
    <2>1. k = 0 /\ Shifted(b, v, f) = b
      BY <1>1, <1>8 DEF Shifted
    <2>2. From(w, v) = <<>>
      BY <1>5, <2>1, EmptySeq DEF Text
    <2>3. Slice(b, 0, 0) \in Text /\ Len(Slice(b, 0, 0)) = 0
      BY <1>1, CutFacts DEF Text
    <2>4. Slice(b, 0, 0) = <<>>
      BY <2>3, EmptySeq DEF Text
    <2>. QED  BY <1>6, <2>1, <2>2, <2>4 DEF w
  <1>. QED  BY <1>7, <1>8

\* A chunk of whole chars is appended, if there is any.
LEMMA FedKeeps ==
  ASSUME appended \in Seq(Text), \A i \in DOMAIN appended : IsUtf8(appended[i]),
         Utf8(FlattenSeq(appended)), NEW x \in Text, Utf8(x)
  PROVE  /\ Fed(x) \in Seq(Text) /\ \A i \in DOMAIN Fed(x) : IsUtf8(Fed(x)[i])
         /\ FlattenSeq(appended) \in Text /\ FlattenSeq(Fed(x)) = FlattenSeq(appended) \o x
         /\ Utf8(FlattenSeq(Fed(x)))
         /\ x # <<>> => Fed(x) = Append(appended, x)
  <1>. DEFINE F == FlattenSeq(appended)
              s == Append(appended, x)
  <1>1. F \in Text /\ FlattenSeq(s) = F \o x
    BY FlattenAppend
  <1>2. Utf8(F \o x)
    <2>1. Utf8(F)
      OBVIOUS
    <2>. HIDE DEF F
    <2>. QED  BY <1>1, <2>1, Utf8Concat
  <1>3. CASE x = <<>>
    <2>1. Fed(x) = appended
      BY <1>3 DEF Fed
    <2>2. F \o x = F
      <3>. HIDE DEF F
      <3>. QED  BY <1>1, <1>3, ConcatEmptySeq DEF Text
    <2>. QED  BY <1>1, <1>3, <2>1, <2>2
  <1>4. CASE x # <<>>
    <2>1. Fed(x) = s
      BY <1>4 DEF Fed
    <2>2. /\ s \in Seq(Text) /\ Len(s) = Len(appended) + 1 /\ Len(appended) \in Nat
          /\ \A i \in 1..Len(appended) : s[i] = appended[i]
          /\ s[Len(appended) + 1] = x
      BY AppendProperties, LenProperties
    <2>3. DOMAIN s = 1..(Len(appended) + 1) /\ DOMAIN appended = 1..Len(appended)
      BY <2>2, LenProperties
    <2>4. \A i \in DOMAIN s : IsUtf8(s[i])
      <3>. HIDE DEF s
      <3>. QED  BY <2>2, <2>3 DEF IsUtf8
    <2>. QED  BY <1>1, <1>2, <2>1, <2>2, <2>4
  <1>. QED  BY <1>3, <1>4

-----------------------------------------------------------------------------
(* The invariant *)

\* Besides, all that was appended is UTF-8 when put together, and a program feeds
\* a builder with what is UTF-8 from its start.
IntakeInv ==
  /\ ReaderTyped
  /\ NothingLost
  /\ OutcomeRight
  /\ Utf8(FlattenSeq(appended))
  /\ at = "feeding" => fill_idx = 0 /\ Utf8(coming)

LEMMA BufferSize ==
  BUFFER_SIZE \in Nat /\ BUFFER_SIZE > 0
  BY LeafBoundsAssumption DEF BUFFER_SIZE

\* No bytes of a text.
LEMMA NoBytes ==
  ASSUME NEW t \in Text
  PROVE  Slice(t, 0, 0) = <<>> /\ From(t, 0) = t
  <1>1. 0 \in 0..Len(t)
    BY TextFacts
  <1>2. Slice(t, 0, 0) \in Text /\ Len(Slice(t, 0, 0)) = 0
    BY <1>1, CutFacts DEF Text
  <1>3. From(t, 0) = t
    BY SubSeqFull DEF From, Slice, Text
  <1>. QED  BY <1>2, <1>3, EmptySeq DEF Text

LEMMA EmptyText ==
  /\ <<>> \in Text /\ Utf8(<<>>) /\ Len(<<>>) = 0 /\ ValidUpTo(<<>>) = 0
  /\ FlattenSeq(<<>>) = <<>> /\ <<>> \in Seq(Text) /\ DOMAIN <<>> = {}
  <1>1. <<>> \in Text /\ Len(<<>>) = 0 /\ <<>> \in Seq(Text) /\ DOMAIN <<>> = {}
    BY EmptySeq DEF Text
  <1>2. Utf8(<<>>)
    BY <1>1 DEF Utf8
  <1>3. ValidUpTo(<<>>) = 0
    BY <1>1, <1>2, ValidToEnd
  <1>4. FlattenSeq(<<>>) = <<>>
    BY <1>1 DEF FlattenSeq
  <1>. QED  BY <1>1, <1>2, <1>3, <1>4

LEMMA IntakeStart ==
  ReaderInit => IntakeInv
  <1>. SUFFICES ASSUME ReaderInit PROVE IntakeInv
    OBVIOUS
  <1>1. BUFFER_SIZE \in Nat /\ BUFFER_SIZE > 0
    BY BufferSize
  <1>2. buffer \in Text /\ Len(buffer) = BUFFER_SIZE
    BY <1>1 DEF ReaderInit, Text, Byte
  <1>3. coming \in Text /\ (at = "feeding" => Utf8(coming))
    BY InputsAssumption, FeedsAssumption DEF ReaderInit, Text
  <1>4. Slice(buffer, 0, 0) = <<>>
    BY <1>2, NoBytes
  <1>5. given = <<>> /\ appended = <<>> /\ fill_idx = 0 /\ at \in {"from_reader", "feeding"}
    BY DEF ReaderInit
  <1>6. <<>> \o <<>> = <<>>
    OBVIOUS
  <1>7. ReaderTyped
    <2>1. /\ given \in Text /\ appended \in Seq(Text)
          /\ at \in {"from_reader", "read error", "invalid", "feeding", "built"}
      BY <1>5, EmptyText
    <2>2. fill_idx \in 0..BUFFER_SIZE
      BY <1>1, <1>5
    <2>. QED  BY <1>2, <1>3, <2>1, <2>2 DEF ReaderTyped, Text
  <1>8. NothingLost
    BY <1>1, <1>4, <1>5, <1>6, EmptyText DEF NothingLost
  <1>9. OutcomeRight
    BY <1>5 DEF OutcomeRight
  <1>. QED  BY <1>3, <1>5, <1>7, <1>8, <1>9, EmptyText DEF IntakeInv

\* A read, however many bytes it returns and wherever it cuts the chars.
LEMMA ReadStep ==
  ASSUME IntakeInv, Read
  PROVE  IntakeInv'
  <1>. DEFINE F == FlattenSeq(appended)
              K == Slice(buffer, 0, fill_idx)
  <1>1. PICK n \in 0..Min2(BUFFER_SIZE - fill_idx, Len(coming)) :
          /\ n = 0 => coming = <<>> \/ fill_idx = BUFFER_SIZE
          /\ coming' = From(coming, n)
          /\ given' = given \o Slice(coming, 0, n)
          /\ \E b \in {ReadInto(buffer, fill_idx, Slice(coming, 0, n))} :
             \E valid \in {ValidUpTo(Slice(b, 0, fill_idx + n))} :
               Consume(b, fill_idx + n, valid, n)
    BY DEF Read
  <1>. DEFINE x == Slice(coming, 0, n)
              f == fill_idx + n
              b == ReadInto(buffer, fill_idx, x)
              w == Slice(b, 0, f)
              v == ValidUpTo(w)
              c == Slice(b, 0, v)
              L == From(w, v)
              left == f - v
  <1>2. /\ coming \in Text /\ given \in Text /\ buffer \in Text /\ Len(buffer) = BUFFER_SIZE
        /\ fill_idx \in 0..BUFFER_SIZE /\ appended \in Seq(Text) /\ at = "from_reader"
    BY DEF IntakeInv, ReaderTyped, Read, Text
  <1>3. /\ F \o K = given /\ \A i \in DOMAIN appended : IsUtf8(appended[i])
        /\ fill_idx = Len(given) - ValidUpTo(given) /\ fill_idx < BUFFER_SIZE
        /\ Utf8(F)
    BY <1>2 DEF IntakeInv, NothingLost
  <1>4. BUFFER_SIZE \in Nat /\ BUFFER_SIZE > 0 /\ Len(coming) \in Nat
    BY <1>2, BufferSize, TextFacts
  <1>5. n \in Nat /\ n <= BUFFER_SIZE - fill_idx /\ n <= Len(coming)
    BY <1>2, <1>4 DEF Min2
  <1>6. x \in Text /\ Len(x) = n /\ From(coming, n) \in Text
    <2>1. n \in 0..Len(coming)
      BY <1>4, <1>5
    <2>. QED  BY <1>2, <2>1, PartsFacts
  <1>7. Consume(b, f, v, n)
    BY <1>1
  <1>. HIDE DEF x, F
  <1>8. F \in Text
    BY <1>2, EmptyText, FlattenAppend DEF F
  <1>9. K \in Text /\ Len(K) = fill_idx
    BY <1>2, PartsFacts
  <1>10. f \in 0..BUFFER_SIZE /\ f = fill_idx + Len(x) /\ f \in Nat
    BY <1>2, <1>4, <1>5, <1>6
  <1>11. b \in Text /\ Len(b) = BUFFER_SIZE /\ w = K \o x
    <2>1. fill_idx \in 0..Len(buffer) /\ fill_idx + Len(x) <= Len(buffer)
      BY <1>2, <1>10
    <2>2. /\ b \in Text /\ Len(b) = Len(buffer)
          /\ Slice(b, 0, fill_idx + Len(x)) = Slice(buffer, 0, fill_idx) \o x
      BY <1>2, <1>6, <2>1, ReadKeeps
    <2>. QED  BY <1>2, <1>6, <2>2
  <1>. HIDE DEF b
  <1>12. w \in Text /\ Len(w) = f
    BY <1>10, <1>11, PartsFacts
  <1>. HIDE DEF w, K
  <1>13. v \in 0..f /\ Utf8(Slice(w, 0, v))
    BY <1>12, ValidUpToFacts
  <1>. HIDE DEF v, f
  <1>14. /\ Shifted(b, v, f) \in Text /\ Len(Shifted(b, v, f)) = BUFFER_SIZE
         /\ Slice(Shifted(b, v, f), 0, left) = L /\ c = Slice(w, 0, v)
    <2>1. f \in 0..Len(b)
      BY <1>10, <1>11
    <2>. QED  BY <1>11, <1>13, <2>1, ShiftKeeps DEF w
  <1>15. c \in Text /\ L \in Text /\ c \o L = w /\ Len(L) = left
    <2>1. v \in 0..Len(w)
      BY <1>12, <1>13
    <2>. QED  BY <1>12, <1>14, <2>1, PartsFacts
  <1>16. Utf8(c)
    BY <1>13, <1>14
  <1>. HIDE DEF c, L
  <1>17. left \in 0..BUFFER_SIZE
    BY <1>4, <1>10, <1>13
  <1>. HIDE DEF left
  <1>18. /\ Fed(c) \in Seq(Text) /\ \A i \in DOMAIN Fed(c) : IsUtf8(Fed(c)[i])
         /\ FlattenSeq(Fed(c)) = F \o c /\ Utf8(FlattenSeq(Fed(c)))
    BY <1>2, <1>3, <1>15, <1>16, FedKeeps DEF F
  <1>19. /\ buffer' = Shifted(b, v, f) /\ fill_idx' = left /\ appended' = Fed(c)
         /\ at' = AfterRead(n, left)
    BY <1>7 DEF Consume, c, left
  <1>20. given' = F \o w /\ given' \in Text
    <2>1. (F \o K) \o x = F \o (K \o x)
      BY ZenonT(60), <1>6, <1>8, <1>9, TextAssoc
    <2>2. F \o w \in Text
      BY <1>8, <1>12, ConcatFacts
    <2>. QED  BY <1>1, <1>3, <1>11, <2>1, <2>2 DEF x
  <1>21. (F \o c) \o L = given'
    <2>1. (F \o c) \o L = F \o (c \o L)
      BY ZenonT(60), <1>8, <1>15, TextAssoc
    <2>. QED  BY <1>15, <1>20, <2>1
  <1>22. Len(given') - ValidUpTo(given') = left
    <2>1. ValidUpTo(F \o w) = Len(F) + v /\ Len(F \o w) = Len(F) + Len(w) /\ Len(F) \in Nat
      BY <1>3, <1>8, <1>12, ValidUpToConcat, ConcatFacts, TextFacts DEF v
    <2>. QED  BY <1>10, <1>12, <1>13, <1>20, <2>1 DEF left
  <1>23. at' \in {"from_reader", "invalid", "built"}
    BY <1>5, <1>17, <1>19 DEF AfterRead
  <1>24. at' = "from_reader" => left < BUFFER_SIZE
    BY <1>4, <1>5, <1>17, <1>19 DEF AfterRead
  <1>25. at' = "built" => n = 0 /\ left = 0
    BY <1>4, <1>5, <1>17, <1>19 DEF AfterRead
  <1>26. at' = "invalid" => left > 0
    BY <1>4, <1>5, <1>17, <1>19 DEF AfterRead
  <1>27. ReaderTyped'
    BY <1>1, <1>6, <1>14, <1>17, <1>18, <1>19, <1>20, <1>23 DEF ReaderTyped, Text
  <1>28. NothingLost'
    <2>1. FlattenSeq(appended') \o Slice(buffer', 0, fill_idx') = given'
      BY <1>14, <1>18, <1>19, <1>21
    <2>2. \A i \in DOMAIN appended' : IsUtf8(appended'[i])
      BY <1>18, <1>19
    <2>3. at' = "from_reader" =>
            fill_idx' = Len(given') - ValidUpTo(given') /\ fill_idx' < BUFFER_SIZE
      BY <1>19, <1>22, <1>24
    <2>. QED  BY <2>1, <2>2, <2>3 DEF NothingLost, IsUtf8, BUFFER_SIZE
  <1>29. OutcomeRight'
    <2>1. ASSUME at' = "built"
          PROVE  coming' = <<>> /\ FlattenSeq(appended') = given' /\ IsUtf8(given')
      <3>1. n = 0 /\ left = 0
        BY <1>25, <2>1
      <3>2. coming' = <<>>
        <4>1. coming = <<>>
          BY <1>1, <1>2, <1>3, <3>1
        <4>. QED  BY <1>1, <1>2, <3>1, <4>1, NoBytes
      <3>3. L = <<>>
        BY <1>15, <3>1, EmptySeq DEF Text
      <3>4. F \o c \in Text
        BY <1>8, <1>15, ConcatFacts
      <3>5. F \o c = given'
        BY <1>21, <3>3, <3>4, ConcatEmptySeq DEF Text
      <3>. QED  BY <1>18, <1>19, <3>2, <3>5 DEF IsUtf8
    <2>2. ASSUME at' = "invalid" PROVE ~ IsUtf8(given')
      <3>1. left > 0
        BY <1>26, <2>2
      <3>2. Len(given') \in Nat /\ ValidUpTo(given') \in 0..Len(given')
        BY <1>20, TextFacts, ValidUpToFacts
      <3>3. ValidUpTo(given') # Len(given')
        BY <1>17, <1>22, <3>1, <3>2
      <3>. QED  BY <1>20, <3>3, ValidToEnd DEF IsUtf8
    <2>. QED  BY <2>1, <2>2 DEF OutcomeRight, IsUtf8
  <1>30. Utf8(FlattenSeq(appended'))
    BY <1>18, <1>19
  <1>. QED  BY <1>23, <1>27, <1>28, <1>29, <1>30 DEF IntakeInv

\* A read error ends the call; what was given stays where it is.
LEMMA ReadFailsStep ==
  ASSUME IntakeInv, ReadFails
  PROVE  IntakeInv'
  <1>1. /\ at' = "read error"
        /\ UNCHANGED <<coming, given, buffer, fill_idx, appended>>
    BY DEF ReadFails, reading
  <1>2. ReaderTyped'
    BY <1>1 DEF IntakeInv, ReaderTyped
  <1>3. NothingLost'
    BY <1>1 DEF IntakeInv, NothingLost
  <1>4. OutcomeRight'
    BY <1>1 DEF OutcomeRight
  <1>. QED  BY <1>1, <1>2, <1>3, <1>4 DEF IntakeInv

\* A chunk of what a program feeds ends with a whole char.
LEMMA AppendChunkStep ==
  ASSUME IntakeInv, AppendChunk
  PROVE  IntakeInv'
  <1>. DEFINE F == FlattenSeq(appended)
  <1>1. PICK n \in {k \in 1..Len(coming) : IsCharBoundary(coming, k)} :
          /\ coming' = From(coming, n)
          /\ given' = given \o Slice(coming, 0, n)
          /\ appended' = Append(appended, Slice(coming, 0, n))
    BY DEF AppendChunk
  <1>. DEFINE x == Slice(coming, 0, n)
  <1>2. at = "feeding" /\ at' = at /\ buffer' = buffer /\ fill_idx' = fill_idx
    BY DEF AppendChunk, reading
  <1>3. /\ coming \in Text /\ given \in Text /\ buffer \in Text /\ Len(buffer) = BUFFER_SIZE
        /\ appended \in Seq(Text) /\ fill_idx = 0 /\ Utf8(coming)
        /\ F \o Slice(buffer, 0, 0) = given /\ \A i \in DOMAIN appended : IsUtf8(appended[i])
        /\ Utf8(F)
    BY <1>2 DEF IntakeInv, ReaderTyped, NothingLost, Text
  <1>4. F \in Text
    BY <1>3, EmptyText, FlattenAppend
  <1>5. Slice(buffer, 0, 0) = <<>>
    BY <1>3, NoBytes
  <1>6. n \in 0..Len(coming) /\ n > 0 /\ IsBoundary(n, coming)
    <2>1. Len(coming) \in Nat
      BY <1>3, TextFacts
    <2>. QED  BY <2>1 DEF IsBoundary, IsCharBoundary
  <1>7. x \in Text /\ Len(x) = n /\ From(coming, n) \in Text
    BY <1>3, <1>6, PartsFacts
  <1>8. Utf8(x) /\ Utf8(From(coming, n))
    BY <1>3, <1>6, Utf8Parts
  <1>. HIDE DEF x, F
  <1>9. x # <<>>
    BY <1>6, <1>7, EmptyText
  <1>10. /\ Fed(x) \in Seq(Text) /\ \A i \in DOMAIN Fed(x) : IsUtf8(Fed(x)[i])
         /\ FlattenSeq(Fed(x)) = F \o x /\ Utf8(FlattenSeq(Fed(x)))
         /\ Fed(x) = Append(appended, x)
    BY <1>3, <1>7, <1>8, <1>9, FedKeeps DEF F
  <1>11. appended' = Fed(x) /\ given' = given \o x
    BY <1>1, <1>10 DEF x
  <1>12. given = F
    BY <1>3, <1>4, <1>5, ConcatEmptySeq DEF Text
  <1>13. F \o x \in Text
    BY <1>4, <1>7, ConcatFacts
  <1>14. (F \o x) \o Slice(buffer, 0, 0) = F \o x
    BY <1>5, <1>13, ConcatEmptySeq DEF Text
  <1>15. ReaderTyped'
    <2>1. given' \in Text /\ coming' \in Text /\ appended' \in Seq(Text)
      BY <1>1, <1>7, <1>10, <1>11, <1>12, <1>13
    <2>. QED  BY <1>2, <2>1 DEF IntakeInv, ReaderTyped, Text, BUFFER_SIZE
  <1>16. NothingLost'
    <2>1. FlattenSeq(appended') \o Slice(buffer', 0, fill_idx') = given'
      BY <1>2, <1>3, <1>10, <1>11, <1>12, <1>14
    <2>2. \A i \in DOMAIN appended' : IsUtf8(appended'[i])
      BY <1>10, <1>11
    <2>. QED  BY <1>2, <2>1, <2>2 DEF NothingLost, IsUtf8
  <1>17. OutcomeRight'
    BY <1>2 DEF OutcomeRight
  <1>18. Utf8(FlattenSeq(appended'))
    BY <1>10, <1>11
  <1>19. fill_idx' = 0 /\ Utf8(coming')
    BY <1>1, <1>2, <1>3, <1>8
  <1>. QED  BY <1>15, <1>16, <1>17, <1>18, <1>19 DEF IntakeInv

LEMMA FinishBuildStep ==
  ASSUME IntakeInv, FinishBuild
  PROVE  IntakeInv'
  <1>. DEFINE F == FlattenSeq(appended)
  <1>1. /\ at = "feeding" /\ at' = "built" /\ coming = <<>>
        /\ UNCHANGED <<coming, given, buffer, fill_idx, appended>>
    BY DEF FinishBuild, reading
  <1>2. /\ buffer \in Text /\ appended \in Seq(Text) /\ fill_idx = 0
        /\ F \o Slice(buffer, 0, 0) = given /\ Utf8(F)
    BY <1>1 DEF IntakeInv, ReaderTyped, NothingLost, Text
  <1>3. F \in Text /\ Slice(buffer, 0, 0) = <<>>
    BY <1>2, EmptyText, FlattenAppend, NoBytes
  <1>. HIDE DEF F
  <1>4. given = F
    BY <1>2, <1>3, ConcatEmptySeq DEF Text
  <1>5. ReaderTyped'
    BY <1>1 DEF IntakeInv, ReaderTyped
  <1>6. NothingLost'
    BY <1>1 DEF IntakeInv, NothingLost
  <1>7. OutcomeRight'
    BY <1>1, <1>2, <1>4 DEF OutcomeRight, IsUtf8, F
  <1>. QED  BY <1>1, <1>2, <1>5, <1>6, <1>7 DEF IntakeInv, F

LEMMA IntakeInductive ==
  ASSUME IntakeInv, [ReaderNext]_intake
  PROVE  IntakeInv'
  <1>1. CASE Read
    BY <1>1, ReadStep
  <1>2. CASE ReadFails
    BY <1>2, ReadFailsStep
  <1>3. CASE AppendChunk
    BY <1>3, AppendChunkStep
  <1>4. CASE FinishBuild
    BY <1>4, FinishBuildStep
  <1>5. CASE UNCHANGED intake
    <2>1. UNCHANGED <<coming, given, buffer, fill_idx, appended, at>>
      BY <1>5 DEF intake, reading
    <2>2. ReaderTyped' /\ NothingLost' /\ OutcomeRight'
      BY <2>1 DEF IntakeInv, ReaderTyped, NothingLost, OutcomeRight
    <2>. QED  BY <2>1, <2>2 DEF IntakeInv
  <1>. QED  BY <1>1, <1>2, <1>3, <1>4, <1>5 DEF ReaderNext

THEOREM IntakeInvariant ==
  ReaderSpec => []IntakeInv
  <1>. QED  BY IntakeStart, IntakeInductive, PTL DEF ReaderSpec

\* The buffer of from_reader is never filled past its end.
THEOREM ReaderTypeCorrect ==
  ReaderSpec => []ReaderTyped
  <1>1. IntakeInv => ReaderTyped
    BY DEF IntakeInv
  <1>. QED  BY <1>1, IntakeInvariant, PTL

\* from_reader and the FromIterator code: no byte is lost, doubled or read twice,
\* and what the builder is given is UTF-8, for every stream and however it is cut.
THEOREM ReaderLosesNothing ==
  ReaderSpec => []NothingLost
  <1>1. IntakeInv => NothingLost
    BY DEF IntakeInv
  <1>. QED  BY <1>1, IntakeInvariant, PTL

\* A rope is built from the whole stream, if it is UTF-8; data is called invalid
\* only if it is not.
THEOREM ReaderOutcomeRight ==
  ReaderSpec => []OutcomeRight
  <1>1. IntakeInv => OutcomeRight
    BY DEF IntakeInv
  <1>. QED  BY <1>1, IntakeInvariant, PTL
=============================================================================
