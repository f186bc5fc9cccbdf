--------------------------- MODULE RopeText_proofs ---------------------------
(***************************************************************************)
(* What the text layer promises to the tree, for every text: where it cuts *)
(* is not in a code point nor in a CRLF, cutting loses nothing, and the    *)
(* summaries of two texts add up to the one of both.                       *)
(***************************************************************************)
EXTENDS RopeText, Induction, SequenceTheorems, FiniteSetTheorems

-----------------------------------------------------------------------------
(* Extremes of sets of numbers, and cuts of texts *)

LEMMA MinFacts ==
  ASSUME NEW S \in SUBSET Nat, S # {}
  PROVE  Min(S) \in S /\ \A x \in S : Min(S) <= x
  <1>1. \E x \in S : \A y \in S : x <= y
    BY LeastNatural
  <1>. QED  BY <1>1 DEF Min

LEMMA MaxFacts ==
  ASSUME NEW N \in Nat, NEW S \in SUBSET (0..N), S # {}
  PROVE  Max(S) \in S /\ \A x \in S : x <= Max(S)
  <1>. DEFINE T == {N - x : x \in S}
  <1>1. T \in SUBSET Nat /\ T # {}
    <2>1. \A x \in S : x \in 0..N /\ N - x \in Nat
      OBVIOUS
    <2>2. PICK x \in S : TRUE
      OBVIOUS
    <2>3. N - x \in T
      BY <2>2
    <2>. QED  BY <2>1, <2>3
  <1>2. PICK y \in T : \A z \in T : y <= z
    BY <1>1, LeastNatural
  <1>3. PICK x \in S : y = N - x
    BY <1>2
  <1>4. \A z \in S : x >= z
    BY <1>2, <1>3
  <1>5. \E w \in S : \A z \in S : w >= z
    BY <1>3, <1>4
  <1>6. Max(S) \in S /\ \A z \in S : Max(S) >= z
    BY <1>5 DEF Max
  <1>. QED  BY <1>6

\* The two parts of a text.
LEMMA CutFacts ==
  ASSUME NEW S, NEW t \in Seq(S), NEW i \in 0..Len(t)
  PROVE  /\ Slice(t, 0, i) \in Seq(S) /\ Len(Slice(t, 0, i)) = i
         /\ \A j \in 1..i : Slice(t, 0, i)[j] = t[j]
         /\ From(t, i) \in Seq(S) /\ Len(From(t, i)) = Len(t) - i
         /\ \A j \in 1..(Len(t) - i) : From(t, i)[j] = t[i + j]
         /\ Slice(t, 0, i) \o From(t, i) = t
  <1>1. Len(t) \in Nat /\ \A j \in 1..Len(t) : t[j] \in S
    BY ElementOfSeq, LenProperties
  <1>2. /\ SubSeq(t, 1, i) \in Seq(S) /\ Len(SubSeq(t, 1, i)) = i
        /\ \A j \in 1..i : SubSeq(t, 1, i)[j] = t[j]
    <2>1. /\ SubSeq(t, 1, i) \in Seq(S) /\ Len(SubSeq(t, 1, i)) = IF 1 <= i THEN i - 1 + 1 ELSE 0
          /\ \A j \in 1..(i - 1 + 1) : SubSeq(t, 1, i)[j] = t[1 + j - 1]
      BY <1>1, SubSeqProperties
    <2>. QED  BY <1>1, <2>1
  <1>3. /\ SubSeq(t, i + 1, Len(t)) \in Seq(S) /\ Len(SubSeq(t, i + 1, Len(t))) = Len(t) - i
        /\ \A j \in 1..(Len(t) - i) : SubSeq(t, i + 1, Len(t))[j] = t[i + j]
    <2>1. i + 1 \in Int /\ Len(t) \in Int /\ \A j \in (i + 1)..Len(t) : t[j] \in S
      BY <1>1
    <2>2. /\ SubSeq(t, i + 1, Len(t)) \in Seq(S)
          /\ Len(SubSeq(t, i + 1, Len(t))) = IF i + 1 <= Len(t) THEN Len(t) - (i + 1) + 1 ELSE 0
          /\ \A j \in 1..(Len(t) - (i + 1) + 1) : SubSeq(t, i + 1, Len(t))[j] = t[i + 1 + j - 1]
      BY <2>1, SubSeqProperties
    <2>. QED  BY <1>1, <2>2
  <1>4. SubSeq(t, 1, i) \o SubSeq(t, i + 1, Len(t)) = t
    <2>1. 1 \in 1..(Len(t) + 1) /\ i \in (1 - 1)..Len(t) /\ Len(t) \in i..Len(t)
      BY <1>1
    <2>2. SubSeq(t, 1, i) \o SubSeq(t, i + 1, Len(t)) = SubSeq(t, 1, Len(t))
      BY <2>1, ConcatAdjacentSubSeq
    <2>. QED  BY <2>2, SubSeqFull
  <1>5. Slice(t, 0, i) = SubSeq(t, 1, i) /\ From(t, i) = SubSeq(t, i + 1, Len(t))
    BY DEF Slice, From
  <1>. QED  BY <1>2, <1>3, <1>4, <1>5

-----------------------------------------------------------------------------
(* crlf.rs *)

Text == Seq(Byte)

LEMMA TextFacts ==
  ASSUME NEW t \in Text
  PROVE  Len(t) \in Nat /\ DOMAIN t = 1..Len(t) /\ \A i \in 1..Len(t) : t[i] \in Byte
  BY LenProperties, ElementOfSeq DEF Text

\* prev_break: the last place before a boundary where the text may be cut.
LEMMA PrevBreakFacts ==
  ASSUME NEW t \in Text, NEW i \in 0..Len(t)
  PROVE  /\ PrevBreak(i, t) \in 0..i /\ (i # 0 => PrevBreak(i, t) < i)
         /\ IsBreak(PrevBreak(i, t), t)
         /\ \A b \in 0..(i - 1) : IsBreak(b, t) => b <= PrevBreak(i, t)
  <1>. DEFINE S == {b \in 0..(i - 1) : IsBreak(b, t)}
  <1>1. CASE i = 0
    BY <1>1 DEF PrevBreak, IsBreak
  <1>2. CASE i # 0
    <2>1. i - 1 \in Nat /\ S \in SUBSET (0..(i - 1)) /\ 0 \in S
      BY <1>2, TextFacts DEF IsBreak
    <2>2. Max(S) \in S /\ \A x \in S : x <= Max(S)
      BY <2>1, MaxFacts
    <2>3. PrevBreak(i, t) = Max(S)
      BY <1>2 DEF PrevBreak
    <2>. QED  BY <1>2, <2>2, <2>3, TextFacts
  <1>. QED  BY <1>1, <1>2

\* next_break: the first place after a boundary.
LEMMA NextBreakFacts ==
  ASSUME NEW t \in Text, NEW i \in 0..Len(t)
  PROVE  /\ NextBreak(i, t) \in i..Len(t) /\ (i # Len(t) => NextBreak(i, t) > i)
         /\ IsBreak(NextBreak(i, t), t)
         /\ \A b \in (i + 1)..Len(t) : IsBreak(b, t) => NextBreak(i, t) <= b
  <1>. DEFINE S == {b \in (i + 1)..Len(t) : IsBreak(b, t)}
  <1>1. CASE i = Len(t)
    BY <1>1, TextFacts DEF NextBreak, IsBreak
  <1>2. CASE i # Len(t)
    <2>1. S \in SUBSET Nat /\ Len(t) \in S
      BY <1>2, TextFacts DEF IsBreak
    <2>2. Min(S) \in S /\ \A x \in S : Min(S) <= x
      BY <2>1, MinFacts
    <2>3. NextBreak(i, t) = Min(S)
      BY <1>2 DEF NextBreak
    <2>. QED  BY <1>2, <2>2, <2>3, TextFacts
  <1>. QED  BY <1>1, <1>2

\* A place inside a text where it may be cut.
IsInternal(b, t) == b # 0 /\ b # Len(t) /\ IsBreak(b, t)

Distance(a, b) == IF a < b THEN b - a ELSE a - b

\* nearest_internal_break, for every text and place: the result is a place to cut
\* the text inside, and no other is nearer; if there is none, it is the end.
THEOREM NearestInternal ==
  ASSUME NEW t \in Text, NEW i \in 0..Len(t)
  PROVE  LET b == NearestInternalBreak(i, t)
         IN  /\ b \in 0..Len(t) /\ IsBreak(b, t)
             /\ \A c \in 0..Len(t) : IsInternal(c, t) =>
                  IsInternal(b, t) /\ Distance(i, b) <= Distance(i, c)
             /\ (\A c \in 0..Len(t) : ~ IsInternal(c, t)) => b = Len(t)
  <1>. DEFINE left == IF IsBreak(i, t) /\ i # Len(t) THEN i ELSE PrevBreak(i, t)
              right == NextBreak(i, t)
              b == NearestInternalBreak(i, t)
  <1>0. Len(t) \in Nat /\ i \in Nat
    BY TextFacts
  <1>1. /\ left \in 0..i /\ IsBreak(left, t) /\ (i = Len(t) /\ i # 0 => left < i)
        /\ \A c \in 0..i : IsBreak(c, t) /\ c # Len(t) => c <= left
    <2>1. CASE IsBreak(i, t) /\ i # Len(t)
      BY <1>0, <2>1
    <2>2. CASE ~ (IsBreak(i, t) /\ i # Len(t))
      <3>1. left = PrevBreak(i, t)
        BY <2>2
      <3>2. \A c \in 0..i : IsBreak(c, t) /\ c # Len(t) => c \in 0..(i - 1)
        BY <1>0, <2>2
      <3>. QED  BY <1>0, <3>1, <3>2, PrevBreakFacts
    <2>. QED  BY <2>1, <2>2
  <1>2. /\ right \in i..Len(t) /\ IsBreak(right, t)
        /\ \A c \in (i + 1)..Len(t) : IsBreak(c, t) => right <= c
        /\ (i # Len(t) => right > i)
    BY NextBreakFacts
  <1>3. b = NearerCut(i, left, right, Len(t))
    BY DEF NearestInternalBreak
  <1>. HIDE DEF left, right, b
  <1>4. CASE left = 0 \/ (right # Len(t) /\ i - left >= right - i)
    <2>1. b = right
      BY <1>3, <1>4 DEF NearerCut
    <2>. QED  BY <1>0, <1>1, <1>2, <1>4, <2>1 DEF IsInternal, Distance, b
  <1>5. CASE ~ (left = 0 \/ (right # Len(t) /\ i - left >= right - i))
    <2>1. b = left
      BY <1>3, <1>5 DEF NearerCut
    <2>. QED  BY <1>0, <1>1, <1>2, <1>5, <2>1 DEF IsInternal, Distance, b
  <1>. QED  BY <1>4, <1>5

\* find_good_split, for every text and place: the text may be cut at the result,
\* which is the place itself or the next one on either side of it.
THEOREM GoodSplit ==
  ASSUME NEW t \in Text, NEW i \in 0..Len(t), NEW biasLeft \in BOOLEAN
  PROVE  LET b == FindGoodSplit(i, t, biasLeft)
         IN  /\ b \in 0..Len(t) /\ IsBreak(b, t)
             /\ \A c \in 0..Len(t) : IsBreak(c, t) => ~ (i < c /\ c < b) /\ ~ (b < c /\ c < i)
             /\ IsBreak(i, t) => b = i
             /\ ~ IsBreak(i, t) /\ biasLeft /\ b > i => PrevBreak(i, t) = 0
             /\ ~ IsBreak(i, t) /\ ~ biasLeft /\ b < i => NextBreak(i, t) = Len(t)
  <1>0. Len(t) \in Nat /\ i \in Nat
    BY TextFacts
  <1>1. CASE IsBreak(i, t)
    BY <1>0, <1>1 DEF FindGoodSplit
  <1>2. CASE ~ IsBreak(i, t)
    <2>1. i # 0 /\ i # Len(t)
      BY <1>2 DEF IsBreak
    <2>. DEFINE p == PrevBreak(i, t)
                n == NextBreak(i, t)
    <2>2. /\ p \in 0..i /\ p < i /\ IsBreak(p, t)
          /\ \A c \in 0..(i - 1) : IsBreak(c, t) => c <= p
      BY <2>1, PrevBreakFacts
    <2>3. /\ n \in i..Len(t) /\ n > i /\ IsBreak(n, t)
          /\ \A c \in (i + 1)..Len(t) : IsBreak(c, t) => n <= c
      BY <2>1, NextBreakFacts
    <2>4. FindGoodSplit(i, t, biasLeft) = BiasedCut(p, n, Len(t), biasLeft)
      BY <1>2 DEF FindGoodSplit
    <2>. HIDE DEF p, n
    <2>5. CASE (biasLeft /\ p > 0) \/ (~ biasLeft /\ n >= Len(t))
      <3>1. FindGoodSplit(i, t, biasLeft) = p
        BY <2>4, <2>5 DEF BiasedCut
      <3>. QED  BY <1>0, <1>2, <2>2, <2>3, <2>5, <3>1 DEF p, n
    <2>6. CASE ~ ((biasLeft /\ p > 0) \/ (~ biasLeft /\ n >= Len(t)))
      <3>1. FindGoodSplit(i, t, biasLeft) = n
        BY <2>4, <2>6 DEF BiasedCut
      <3>. QED  BY <1>0, <1>2, <2>2, <2>3, <2>6, <3>1 DEF p, n
    <2>. QED  BY <2>5, <2>6
  <1>. QED  BY <1>1, <1>2

-----------------------------------------------------------------------------
(* Texts that are UTF-8 *)

\* From any place on, the text may be cut after at most four bytes.
LEMMA BreakAhead ==
  ASSUME NEW t \in Text, Utf8(t), NEW i \in 0..Len(t), i # Len(t)
  PROVE  \E b \in (i + 1)..Len(t) : b <= i + 4 /\ IsBreak(b, t)
  <1>0. Len(t) \in Nat
    BY TextFacts
  <1>1. CASE i + 4 >= Len(t)
    <2>1. Len(t) \in (i + 1)..Len(t) /\ IsBreak(Len(t), t)
      BY <1>0 DEF IsBreak
    <2>. QED  BY <1>0, <1>1, <2>1
  <1>2. CASE i + 4 < Len(t)
    <2>. SUFFICES ASSUME \A b \in (i + 1)..Len(t) : b <= i + 4 => ~ IsBreak(b, t)
                  PROVE  FALSE
      OBVIOUS
    <2>1. \A j \in (i + 1)..(i + 4) : ~ CutAllowed(t[j], t[j + 1])
      BY <1>0, <1>2 DEF IsBreak
    <2>2. t[i + 5] = Cont \/ (t[i + 4] = CR /\ t[i + 5] = LF)
      BY <1>0, <2>1 DEF CutAllowed
    <2>3. CASE t[i + 4] = CR
      <3>1. CutAllowed(t[i + 3], t[i + 4])
        BY <2>3 DEF CutAllowed, CR, LF, Cont
      <3>. QED  BY <1>0, <2>1, <3>1
    <2>4. CASE t[i + 5] = Cont
      <3>1. PICK k \in 1..3 : k <= Following(t[(i + 5) - k])
        BY <1>0, <1>2, <2>4 DEF Utf8
      <3>. DEFINE j == (i + 4) - k
      <3>2. j \in (i + 1)..(i + 4) /\ (i + 5) - k = j + 1
        BY <1>0
      <3>3. t[j + 1] \in {Lead2, Lead4}
        BY <3>1, <3>2 DEF Following
      <3>4. CutAllowed(t[j], t[j + 1])
        BY <3>3 DEF CutAllowed, Lead2, Lead4, LF, Cont
      <3>. QED  BY <2>1, <3>2, <3>4
    <2>. QED  BY <2>2, <2>3, <2>4
  <1>. QED  BY <1>0, <1>1, <1>2

\* Where a part of a text may be cut inside, the text may, and the reverse.
LEMMA SliceFacts ==
  ASSUME NEW t \in Text, NEW a \in 0..Len(t), NEW e \in a..Len(t)
  PROVE  /\ Slice(t, a, e) \in Text /\ Len(Slice(t, a, e)) = e - a
         /\ \A j \in 1..(e - a) : Slice(t, a, e)[j] = t[a + j]
         /\ \A b \in 1..((e - a) - 1) : IsBreak(b, Slice(t, a, e)) <=> IsBreak(a + b, t)
  <1>1. Len(t) \in Nat /\ \A j \in 1..Len(t) : t[j] \in Byte
    BY TextFacts
  <1>2. a + 1 \in Int /\ e \in Int /\ \A j \in (a + 1)..e : t[j] \in Byte
    BY <1>1
  <1>. DEFINE v == Slice(t, a, e)
  <1>3. /\ v \in Text /\ Len(v) = e - a
        /\ \A j \in 1..(e - a) : v[j] = t[a + j]
    <2>1. /\ SubSeq(t, a + 1, e) \in Seq(Byte)
          /\ Len(SubSeq(t, a + 1, e)) = IF a + 1 <= e THEN e - (a + 1) + 1 ELSE 0
          /\ \A j \in 1..(e - (a + 1) + 1) : SubSeq(t, a + 1, e)[j] = t[a + 1 + j - 1]
      BY <1>2, SubSeqProperties
    <2>. QED  BY <1>1, <2>1 DEF Slice, Text
  <1>. HIDE DEF v
  <1>4. ASSUME NEW b \in 1..((e - a) - 1) PROVE IsBreak(b, v) <=> IsBreak(a + b, t)
    <2>1. /\ b # 0 /\ b # Len(v) /\ a + b # 0 /\ a + b # Len(t)
          /\ v[b] = t[a + b] /\ v[b + 1] = t[(a + b) + 1]
      BY <1>1, <1>3
    <2>. QED  BY <2>1 DEF IsBreak
  <1>. QED  BY <1>3, <1>4 DEF v

\* The window around the middle that a split looks into.
LEMMA WindowFacts ==
  ASSUME NEW n \in Nat, NEW m \in Nat, 2 * m <= n, n <= 2 * m + 1
  PROVE  LET start == m - Min2(4, m)
             end   == Min2(m + 4, n)
         IN  /\ start \in 0..n /\ end \in start..n /\ m - start \in 0..(end - start)
             /\ n < 8 => start = 0 /\ end = n
             /\ n >= 8 => m >= 4 /\ start = m - 4 /\ end = m + 4
  <1>. DEFINE start == m - Min2(4, m)
              end == Min2(m + 4, n)
  <1>1. start = IF 4 < m THEN m - 4 ELSE 0
    <2>1. CASE 4 < m
      BY <2>1 DEF Min2
    <2>2. CASE ~ (4 < m)
      BY <2>2 DEF Min2
    <2>. QED  BY <2>1, <2>2
  <1>2. end = IF m + 4 < n THEN m + 4 ELSE n
    BY DEF Min2
  <1>3. start \in 0..n /\ start <= m
    <2>. HIDE DEF start
    <2>. QED  BY <1>1
  <1>4. end \in 0..n /\ m <= end
    <2>. HIDE DEF end
    <2>. QED  BY <1>2
  <1>5. end \in start..n /\ m - start \in 0..(end - start)
    <2>. HIDE DEF start, end
    <2>. QED  BY <1>3, <1>4
  <1>6. n < 8 => start = 0 /\ end = n
    <2>. HIDE DEF start, end
    <2>1. n < 8 => start = 0
      BY <1>1
    <2>2. n < 8 => end = n
      BY <1>2
    <2>. QED  BY <2>1, <2>2
  <1>7. n >= 8 => m >= 4 /\ start = m - 4 /\ end = m + 4
    <2>. HIDE DEF start, end
    <2>1. n >= 8 => m >= 4
      OBVIOUS
    <2>2. m >= 4 => start = m - 4
      BY <1>1
    <2>3. n >= 8 => end = m + 4
      BY <1>2
    <2>. QED  BY <2>1, <2>2, <2>3
  <1>. HIDE DEF start, end
  <1>8. /\ start \in 0..n /\ end \in start..n /\ m - start \in 0..(end - start)
        /\ n < 8 => start = 0 /\ end = n
        /\ n >= 8 => m >= 4 /\ start = m - 4 /\ end = m + 4
    BY <1>3, <1>5, <1>6, <1>7
  <1>. USE DEF start, end
  <1>. QED  BY ONLY <1>8

\* insert_str_split, for every text: nothing is lost, the cut is in no code point
\* and no CRLF, and is as near to the middle as any such cut is, though no more
\* than eight bytes are looked at; the right half is empty only if the text cannot
\* be cut.
THEOREM SplitInHalf ==
  ASSUME NEW w \in Text, Utf8(w)
  PROVE  LET halves == SplitNearMiddle(w)
             mid    == Len(w) \div 2
             cut    == Len(halves[1])
         IN  /\ halves[1] \in Text /\ halves[2] \in Text /\ halves[1] \o halves[2] = w
             /\ cut \in 0..Len(w) /\ IsBreak(cut, w)
             /\ \A c \in 0..Len(w) : IsInternal(c, w) =>
                  IsInternal(cut, w) /\ Distance(mid, cut) <= Distance(mid, c)
             /\ (\A c \in 0..Len(w) : ~ IsInternal(c, w)) => halves[2] = <<>>
             /\ Len(w) >= 8 => Distance(mid, cut) <= 3
  <1>. DEFINE mid == Len(w) \div 2
              start == mid - Min2(4, mid)
              end == Min2(mid + 4, Len(w))
              v == Slice(w, start, end)
              b == NearestInternalBreak(mid - start, v)
              cut == start + b
  <1>0. Len(w) \in Nat /\ mid \in Nat /\ 2 * mid <= Len(w) /\ Len(w) <= 2 * mid + 1
    BY TextFacts
  <1>1. /\ start \in 0..Len(w) /\ end \in start..Len(w) /\ mid - start \in 0..(end - start)
        /\ Len(w) < 8 => start = 0 /\ end = Len(w)
        /\ Len(w) >= 8 => mid >= 4 /\ start = mid - 4 /\ end = mid + 4
    <2>. HIDE DEF mid
    <2>. QED  BY <1>0, WindowFacts
  <1>2. /\ v \in Text /\ Len(v) = end - start
        /\ \A c \in 1..((end - start) - 1) : IsBreak(c, v) <=> IsBreak(start + c, w)
    <2>. HIDE DEF mid, start, end
    <2>1. start \in 0..Len(w) /\ end \in start..Len(w)
      BY <1>1
    <2>. QED  BY <2>1, SliceFacts
  <1>3. /\ b \in 0..Len(v) /\ IsBreak(b, v)
        /\ \A c \in 0..Len(v) : IsInternal(c, v) =>
             IsInternal(b, v) /\ Distance(mid - start, b) <= Distance(mid - start, c)
        /\ (\A c \in 0..Len(v) : ~ IsInternal(c, v)) => b = Len(v)
    BY <1>1, <1>2, NearestInternal
  <1>4. SplitNearMiddle(w) = << Slice(w, 0, cut), From(w, cut) >>
    BY DEF SplitNearMiddle, CutAt
  <1>5. /\ cut \in 0..Len(w) /\ IsBreak(cut, w)
        /\ \A c \in 0..Len(w) : IsInternal(c, w) =>
             IsInternal(cut, w) /\ Distance(mid, cut) <= Distance(mid, c)
        /\ (\A c \in 0..Len(w) : ~ IsInternal(c, w)) => cut = Len(w)
        /\ Len(w) >= 8 => Distance(mid, cut) <= 3
    <2>1. CASE Len(w) < 8
      <3>1. start = 0 /\ end = Len(w)
        BY <1>1, <2>1
      <3>2. v = w
        BY <3>1, SubSeqFull DEF Slice, Text
      <3>3. cut = b /\ mid - start = mid
        BY <1>0, <1>2, <1>3, <3>1
      <3>. HIDE DEF v, b, start, end, mid, cut
      <3>. QED  BY <1>0, <1>3, <2>1, <3>2, <3>3
    <2>2. CASE Len(w) >= 8
      <3>1. start = mid - 4 /\ end = mid + 4 /\ Len(v) = 8 /\ mid >= 4 /\ mid - start = 4
        <4>. HIDE DEF v, b, start, end, mid
        <4>. QED  BY <1>0, <1>1, <1>2, <2>2
      <3>. HIDE DEF v, b, start, end, mid
      <3>0. start \in 0..Len(w) /\ start # Len(w)
        BY <1>0, <1>1, <2>2, <3>1
      <3>2. PICK c \in (start + 1)..Len(w) : c <= start + 4 /\ IsBreak(c, w)
        BY <3>0, BreakAhead
      <3>3. c - start \in 1..7 /\ start + (c - start) = c
        BY <1>0, <1>1, <3>1, <3>2
      <3>4. IsInternal(c - start, v)
        <4>1. c - start \in 1..((end - start) - 1)
          BY <1>0, <1>1, <3>1, <3>3
        <4>2. IsBreak(c - start, v)
          BY <1>2, <3>2, <3>3, <4>1
        <4>. QED  BY <3>1, <3>3, <4>2 DEF IsInternal
      <3>5. IsInternal(b, v) /\ b \in 1..7
        BY <1>3, <3>1, <3>3, <3>4 DEF IsInternal
      <3>6. IsInternal(cut, w) /\ cut \in (mid - 3)..(mid + 3) /\ cut \in 0..Len(w)
        BY <1>0, <1>2, <2>2, <3>1, <3>5 DEF IsInternal
      <3>7. Distance(mid, cut) = Distance(4, b)
        BY <1>0, <3>1, <3>5 DEF Distance
      <3>8. ASSUME NEW d \in 0..Len(w), IsInternal(d, w)
            PROVE  Distance(mid, cut) <= Distance(mid, d)
        <4>1. CASE d \in (start + 1)..(start + 7)
          <5>1. d - start \in 1..7 /\ start + (d - start) = d
            BY <1>0, <3>1, <4>1
          <5>2. IsInternal(d - start, v)
            <6>1. d - start \in 1..((end - start) - 1)
              BY <1>0, <1>1, <3>1, <5>1
            <6>2. IsBreak(d - start, v)
              BY <1>2, <3>8, <5>1, <6>1 DEF IsInternal
            <6>. QED  BY SMTT(60), <3>1, <5>1, <6>2 DEF IsInternal
          <5>3. Distance(4, b) <= Distance(4, d - start)
            BY SMTT(60), <1>3, <3>1, <5>1, <5>2
          <5>4. Distance(4, d - start) = Distance(mid, d)
            BY <1>0, <3>1, <5>1 DEF Distance
          <5>. QED  BY <3>7, <5>3, <5>4
        <4>2. CASE d \notin (start + 1)..(start + 7)
          BY <1>0, <3>1, <3>6, <4>2 DEF Distance
        <4>. QED  BY <4>1, <4>2
      <3>9. Distance(mid, cut) <= 3
        BY <1>0, <3>6 DEF Distance
      <3>. QED  BY <3>6, <3>8, <3>9 DEF IsInternal
    <2>. QED  BY <1>0, <2>1, <2>2
  <1>. HIDE DEF cut
  <1>6. /\ Slice(w, 0, cut) \in Text /\ Len(Slice(w, 0, cut)) = cut
        /\ From(w, cut) \in Text /\ Len(From(w, cut)) = Len(w) - cut
        /\ Slice(w, 0, cut) \o From(w, cut) = w
    BY <1>5, CutFacts DEF Text
  <1>7. cut = Len(w) => From(w, cut) = <<>>
    BY <1>0, <1>6, EmptySeq DEF Text
  <1>. QED  BY <1>4, <1>5, <1>6, <1>7

-----------------------------------------------------------------------------
(* Two texts in a row *)

LEMMA ConcatFacts ==
  ASSUME NEW l \in Text, NEW r \in Text
  PROVE  /\ l \o r \in Text /\ Len(l \o r) = Len(l) + Len(r)
         /\ \A i \in 1..Len(l) : (l \o r)[i] = l[i]
         /\ \A i \in 1..Len(r) : (l \o r)[Len(l) + i] = r[i]
  <1>1. Len(l) \in Nat /\ Len(r) \in Nat
    BY TextFacts
  <1>2. /\ l \o r \in Seq(Byte) /\ Len(l \o r) = Len(l) + Len(r)
        /\ \A i \in 1..(Len(l) + Len(r)) :
             (l \o r)[i] = IF i <= Len(l) THEN l[i] ELSE r[i - Len(l)]
    BY ConcatProperties DEF Text
  <1>3. \A i \in 1..Len(l) : i \in 1..(Len(l) + Len(r)) /\ i <= Len(l)
    BY <1>1
  <1>4. \A i \in 1..Len(r) : /\ Len(l) + i \in 1..(Len(l) + Len(r))
                             /\ ~ (Len(l) + i <= Len(l)) /\ (Len(l) + i) - Len(l) = i
    BY <1>1
  <1>. QED  BY <1>2, <1>3, <1>4 DEF Text

LEMMA TextAssoc ==
  ASSUME NEW l \in Text, NEW m \in Text, NEW r \in Text
  PROVE  (l \o m) \o r = l \o (m \o r)
  BY SMTT(60), ConcatAssociative DEF Text

\* Where two texts in a row may be cut.
LEMMA ConcatBreaks ==
  ASSUME NEW l \in Text, NEW r \in Text, Len(l) # 0, Len(r) # 0
  PROVE  /\ \A b \in 1..(Len(l) - 1) : IsBreak(b, l \o r) <=> IsBreak(b, l)
         /\ \A b \in 1..(Len(r) - 1) : IsBreak(Len(l) + b, l \o r) <=> IsBreak(b, r)
         /\ IsBreak(Len(l), l \o r) <=> SeamIsBreak(l, r)
  <1>. DEFINE w == l \o r
              n == Len(l)
              m == Len(r)
  <1>1. n \in Nat \ {0} /\ m \in Nat \ {0}
    BY TextFacts
  <1>2. /\ Len(w) = n + m /\ \A i \in 1..n : w[i] = l[i]
        /\ \A i \in 1..m : w[n + i] = r[i]
    BY ConcatFacts
  <1>. HIDE DEF w, n, m
  <1>3. ASSUME NEW b \in 1..(n - 1) PROVE IsBreak(b, w) <=> IsBreak(b, l)
    <2>1. b # 0 /\ b # Len(w) /\ b # n /\ w[b] = l[b] /\ w[b + 1] = l[b + 1]
      BY <1>1, <1>2
    <2>. QED  BY <2>1 DEF IsBreak, n
  <1>4. ASSUME NEW b \in 1..(m - 1) PROVE IsBreak(n + b, w) <=> IsBreak(b, r)
    <2>1. /\ n + b # 0 /\ n + b # Len(w) /\ b # 0 /\ b # m
          /\ w[n + b] = r[b] /\ b + 1 \in 1..m /\ (n + b) + 1 = n + (b + 1)
      BY <1>1, <1>2
    <2>2. w[(n + b) + 1] = r[b + 1]
      BY <1>2, <2>1
    <2>. QED  BY <2>1, <2>2 DEF IsBreak, m
  <1>5. IsBreak(n, w) <=> SeamIsBreak(l, r)
    <2>1. n # 0 /\ n # Len(w) /\ w[n] = l[n] /\ w[n + 1] = r[1]
      BY <1>1, <1>2
    <2>. QED  BY <2>1 DEF IsBreak, SeamIsBreak, n
  <1>. QED  BY <1>3, <1>4, <1>5 DEF w, n, m

\* fix_segment_seam, for every two texts that are UTF-8 together: nothing is lost,
\* the new seam is in no code point and no CRLF, it moves by at most three bytes,
\* and only if it had to.
THEOREM SeamFixed ==
  ASSUME NEW l \in Text, NEW r \in Text, Len(l) # 0, Len(r) # 0, Utf8(l \o r)
  PROVE  LET fixed == FixSegmentSeam(l, r)
             seam  == Len(fixed[1])
         IN  /\ fixed[1] \in Text /\ fixed[2] \in Text /\ fixed[1] \o fixed[2] = l \o r
             /\ seam \in 0..Len(l \o r) /\ IsBreak(seam, l \o r)
             /\ Distance(Len(l), seam) <= 3
             /\ SeamIsBreak(l, r) => fixed = <<l, r>>
  <1>. DEFINE w == l \o r
              n == Len(l)
              m == Len(r)
  <1>1. n \in Nat \ {0} /\ m \in Nat \ {0}
    BY TextFacts
  <1>2. w \in Text /\ Len(w) = n + m
    BY ConcatFacts
  <1>3. CASE SeamIsBreak(l, r)
    <2>1. FixSegmentSeam(l, r) = <<l, r>>
      BY <1>3 DEF FixSegmentSeam
    <2>2. IsBreak(n, w)
      BY <1>3, ConcatBreaks
    <2>3. n \in 0..Len(w) /\ Distance(n, n) <= 3
      BY <1>1, <1>2 DEF Distance
    <2>. QED  BY <2>1, <2>2, <2>3
  <1>4. CASE ~ SeamIsBreak(l, r)
    <2>. DEFINE p == PrevBreak(n, l)
                q == n + NextBreak(0, r)
                cut == SegmentCut(p, q, n, n + m)
    <2>1. p \in 0..n /\ p < n /\ IsBreak(p, l) /\ \A b \in 0..(n - 1) : IsBreak(b, l) => b <= p
      <3>1. n \in 0..Len(l) /\ n # 0
        BY <1>1
      <3>. QED  BY <3>1, PrevBreakFacts
    <2>2. /\ q - n \in 1..m /\ q \in (n + 1)..(n + m) /\ IsBreak(q - n, r)
          /\ \A b \in 1..m : IsBreak(b, r) => q - n <= b
      <3>. DEFINE k == NextBreak(0, r)
      <3>1. 0 \in 0..m /\ 0 # m /\ 0 + 1 = 1
        BY <1>1
      <3>2. k \in 0..m /\ k > 0 /\ IsBreak(k, r) /\ \A b \in (0 + 1)..m : IsBreak(b, r) => k <= b
        BY <3>1, NextBreakFacts
      <3>. HIDE DEF k
      <3>3. (n + k) - n = k /\ k \in 1..m /\ n + k \in (n + 1)..(n + m)
        BY <1>1, <3>2
      <3>. QED  BY <3>1, <3>2, <3>3 DEF k
    <2>. HIDE DEF p, q, w
    <2>3. FixSegmentSeam(l, r) = << Slice(w, 0, cut), From(w, cut) >>
      BY <1>4 DEF FixSegmentSeam, CutAt, p, q, w
    <2>4. cut = p \/ cut = q
      BY DEF SegmentCut
    <2>5. /\ \A b \in 1..(n - 1) : IsBreak(b, w) <=> IsBreak(b, l)
          /\ \A b \in 1..(m - 1) : IsBreak(n + b, w) <=> IsBreak(b, r)
          /\ ~ IsBreak(n, w)
      BY <1>4, ConcatBreaks DEF w
    <2>. HIDE DEF n, m, cut
    <2>6. IsBreak(p, w)
      <3>1. CASE p = 0
        BY <3>1 DEF IsBreak
      <3>2. CASE p # 0
        BY <1>1, <2>1, <2>5, <3>2
      <3>. QED  BY <3>1, <3>2
    <2>7. IsBreak(q, w)
      <3>1. CASE q = n + m
        BY <1>2, <3>1 DEF IsBreak
      <3>2. CASE q # n + m
        <4>1. q - n \in 1..(m - 1) /\ n + (q - n) = q
          BY <1>1, <2>2, <3>2
        <4>. QED  BY <2>2, <2>5, <4>1
      <3>. QED  BY <3>1, <3>2
    <2>8. q <= p + 4
      <3>1. p \in 0..Len(w) /\ p # Len(w)
        BY <1>1, <1>2, <2>1
      <3>2. PICK b \in (p + 1)..Len(w) : b <= p + 4 /\ IsBreak(b, w)
        BY <1>2, <3>1, BreakAhead DEF w
      <3>3. CASE b < n
        <4>1. b \in 1..(n - 1) /\ b \in 0..(n - 1) /\ b > p
          BY <1>1, <2>1, <3>2, <3>3
        <4>2. FALSE
          BY <2>1, <2>5, <3>2, <4>1
        <4>. QED  BY <4>2
      <3>4. CASE b >= n
        <4>1. b # n
          BY <2>5, <3>2
        <4>2. q <= b
          <5>1. CASE b = n + m
            BY <1>1, <2>2, <5>1
          <5>2. CASE b # n + m
            <6>1. b - n \in 1..(m - 1) /\ b - n \in 1..m /\ n + (b - n) = b
              BY <1>1, <1>2, <2>1, <3>2, <3>4, <4>1, <5>2
            <6>2. q - n <= b - n
              BY <2>2, <2>5, <3>2, <6>1
            <6>. QED  BY <1>1, <2>2, <3>2, <6>1, <6>2
          <5>. QED  BY <5>1, <5>2
        <4>. QED  BY <1>1, <1>2, <2>1, <2>2, <3>2, <4>2
      <3>5. b < n \/ b >= n
        BY <1>1, <1>2, <2>1, <3>2
      <3>. QED  BY <3>3, <3>4, <3>5
    <2>9. cut \in 0..Len(w) /\ IsBreak(cut, w) /\ Distance(n, cut) <= 3
      BY <1>1, <1>2, <2>1, <2>2, <2>4, <2>6, <2>7, <2>8 DEF Distance
    <2>10. /\ Slice(w, 0, cut) \in Text /\ Len(Slice(w, 0, cut)) = cut
           /\ From(w, cut) \in Text /\ Slice(w, 0, cut) \o From(w, cut) = w
      BY <1>2, <2>9, CutFacts DEF Text, w
    <2>. QED  BY SMTT(60), <1>4, <2>3, <2>9, <2>10 DEF w, n
  <1>. QED  BY <1>3, <1>4

-----------------------------------------------------------------------------
(* The summaries of two texts in a row *)

\* S is L, in a range of n numbers, and R, in the range of m numbers after it.
InTwo(S, L, R, n, m) ==
  /\ n \in Nat /\ m \in Nat
  /\ S \in SUBSET (1..(n + m)) /\ L \in SUBSET (1..n) /\ R \in SUBSET (1..m)
  /\ \A i \in 1..n : i \in S <=> i \in L
  /\ \A j \in 1..m : n + j \in S <=> j \in R

\* What is counted in two ranges in a row is what is counted in each.
LEMMA CountInTwo ==
  ASSUME NEW S, NEW L, NEW R, NEW n, NEW m, InTwo(S, L, R, n, m)
  PROVE  /\ IsFiniteSet(S) /\ IsFiniteSet(L) /\ IsFiniteSet(R)
         /\ Cardinality(L) \in Nat /\ Cardinality(R) \in Nat
         /\ Cardinality(S) = Cardinality(L) + Cardinality(R)
  <1>. USE DEF InTwo
  <1>. DEFINE H == S \ L
              f == [j \in R |-> n + j]
  <1>1. IsFiniteSet(1..(n + m)) /\ IsFiniteSet(1..n) /\ IsFiniteSet(1..m)
    BY FS_Interval
  <1>2. \A i \in 1..n : i \in 1..(n + m)
    OBVIOUS
  <1>3. L \in SUBSET S /\ H \in SUBSET S /\ L \cup H = S /\ L \cap H = {}
    BY <1>2
  <1>4. IsFiniteSet(S)
    BY <1>1, FS_Subset
  <1>5. IsFiniteSet(L) /\ IsFiniteSet(H) /\ IsFiniteSet(R)
    BY <1>1, <1>3, <1>4, FS_Subset
  <1>6. f \in Bijection(R, H)
    <2>1. \A j \in R : n + j \in H
      OBVIOUS
    <2>2. \A x \in H : x - n \in R /\ n + (x - n) = x
      <3>1. \A x \in H : x \in 1..(n + m) /\ x \notin 1..n
        OBVIOUS
      <3>2. \A x \in H : x - n \in 1..m /\ n + (x - n) = x
        BY <3>1
      <3>. QED  BY <3>2
    <2>. HIDE DEF H
    <2>3. f \in [R -> H]
      BY <2>1
    <2>4. \A i, j \in R : f[i] = f[j] => i = j
      OBVIOUS
    <2>5. \A x \in H : \E j \in R : f[j] = x
      BY <2>2
    <2>6. f \in Injection(R, H)
      BY <2>3, <2>4 DEF Injection, IsInjective
    <2>7. f \in Surjection(R, H)
      BY <2>3, <2>5 DEF Surjection
    <2>. QED  BY <2>6, <2>7 DEF Bijection
  <1>. HIDE DEF H
  <1>7. Cardinality(H) = Cardinality(R)
    BY <1>5, <1>6, FS_Bijection DEF ExistsBijection
  <1>8. Cardinality(L) \in Nat /\ Cardinality(R) \in Nat
    BY <1>5, FS_CardinalityType
  <1>9. Cardinality(L \cup H) = Cardinality(L) + Cardinality(H) - Cardinality(L \cap H)
    BY <1>5, FS_Union
  <1>10. Cardinality(L \cap H) = 0
    BY <1>3, FS_EmptySet
  <1>11. Cardinality(S) = Cardinality(L) + Cardinality(H) - 0
    BY <1>3, <1>9, <1>10
  <1>12. Cardinality(S) = Cardinality(L) + Cardinality(R)
    BY <1>7, <1>8, <1>11
  <1>. QED  BY <1>4, <1>5, <1>8, <1>12

\* A text's CR at the end and the next one's LF at the start, which are two line
\* breaks apart and one together.
Joins(l, r) ==
  CrLines /\ Len(l) # 0 /\ Len(r) # 0 /\ l[Len(l)] = CR /\ r[1] = LF

\* InfoFromStr, for every two texts: the summaries add up, but for the line break
\* of a CRLF that the texts share.  This is what the corrections of every
\* incremental update of a cached summary in the code stand for.
THEOREM InfoOfConcat ==
  ASSUME NEW l \in Text, NEW r \in Text
  PROVE  InfoFromStr(l \o r) =
           AddBreaks(InfoAdd(InfoFromStr(l), InfoFromStr(r)), IF Joins(l, r) THEN -1 ELSE 0)
  <1>. DEFINE w == l \o r
              n == Len(l)
              m == Len(r)
              Chars(t) == {i \in DOMAIN t : t[i] # Cont}
              Pairs(t) == {i \in DOMAIN t : t[i] = Lead4}
              Lines(t) == {i \in DOMAIN t : IsLineBreak(t, i)}
  <1>1. n \in Nat /\ m \in Nat /\ DOMAIN l = 1..n /\ DOMAIN r = 1..m
    BY TextFacts
  <1>2. /\ Len(w) = n + m /\ \A i \in 1..n : w[i] = l[i]
        /\ \A i \in 1..m : w[n + i] = r[i] /\ w \in Text
    BY ConcatFacts
  <1>3. DOMAIN w = 1..(n + m)
    BY <1>2, TextFacts
  <1>. HIDE DEF w, n, m
  <1>4. Cardinality(Chars(w)) = Cardinality(Chars(l)) + Cardinality(Chars(r))
    <2>1. /\ Chars(w) \in SUBSET (1..(n + m)) /\ Chars(l) \in SUBSET (1..n) /\ Chars(r) \in SUBSET (1..m)
          /\ \A i \in 1..n : i \in Chars(w) <=> i \in Chars(l)
          /\ \A j \in 1..m : n + j \in Chars(w) <=> j \in Chars(r)
      BY <1>1, <1>2, <1>3
    <2>. DEFINE S == Chars(w)
                L == Chars(l)
                R == Chars(r)
    <2>2. InTwo(S, L, R, n, m)
      BY <1>1, <2>1 DEF InTwo
    <2>. HIDE DEF S, L, R
    <2>3. Cardinality(S) = Cardinality(L) + Cardinality(R)
      BY <2>2, CountInTwo
    <2>. QED  BY <2>3 DEF S, L, R
  <1>5. Cardinality(Pairs(w)) = Cardinality(Pairs(l)) + Cardinality(Pairs(r))
    <2>1. /\ Pairs(w) \in SUBSET (1..(n + m)) /\ Pairs(l) \in SUBSET (1..n) /\ Pairs(r) \in SUBSET (1..m)
          /\ \A i \in 1..n : i \in Pairs(w) <=> i \in Pairs(l)
          /\ \A j \in 1..m : n + j \in Pairs(w) <=> j \in Pairs(r)
      BY <1>1, <1>2, <1>3
    <2>. DEFINE S == Pairs(w)
                L == Pairs(l)
                R == Pairs(r)
    <2>2. InTwo(S, L, R, n, m)
      BY <1>1, <2>1 DEF InTwo
    <2>. HIDE DEF S, L, R
    <2>3. Cardinality(S) = Cardinality(L) + Cardinality(R)
      BY <2>2, CountInTwo
    <2>. QED  BY <2>3 DEF S, L, R
  <1>6. Cardinality(Lines(w)) =
          (Cardinality(Lines(l)) + Cardinality(Lines(r))) + (IF Joins(l, r) THEN -1 ELSE 0)
    <2>. DEFINE K == IF Joins(l, r) THEN Lines(l) \ {n} ELSE Lines(l)
    <2>1. Lines(w) \in SUBSET (1..(n + m)) /\ Lines(l) \in SUBSET (1..n) /\ Lines(r) \in SUBSET (1..m)
      BY <1>1, <1>3
    <2>2. \A j \in 1..m : n + j \in Lines(w) <=> j \in Lines(r)
      <3>1. ASSUME NEW j \in 1..m PROVE IsLineBreak(w, n + j) <=> IsLineBreak(r, j)
        <4>1. w[n + j] = r[j] /\ (n + j < Len(w) <=> j < m)
          BY <1>1, <1>2
        <4>2. j < m => w[(n + j) + 1] = r[j + 1]
          <5>1. j < m => j + 1 \in 1..m /\ n + (j + 1) = (n + j) + 1
            BY <1>1
          <5>. QED  BY <1>2, <5>1
        <4>. QED  BY <4>1, <4>2 DEF IsLineBreak, m
      <3>2. \A j \in 1..m : n + j \in 1..(n + m)
        BY <1>1
      <3>. QED  BY <1>1, <1>3, <3>1, <3>2
    <2>3. \A i \in 1..n : i \in Lines(w) <=> i \in K
      <3>1. ASSUME NEW i \in 1..n, i # n PROVE IsLineBreak(w, i) <=> IsLineBreak(l, i)
        <4>1. w[i] = l[i] /\ i < Len(w) /\ i < n /\ w[i + 1] = l[i + 1]
          BY <1>1, <1>2, <3>1
        <4>. QED  BY <4>1 DEF IsLineBreak, n
      <3>2. ASSUME n # 0
            PROVE  IsLineBreak(w, n) <=> IsLineBreak(l, n) /\ ~ Joins(l, r)
        <4>1. w[n] = l[n] /\ (n < Len(w) <=> m # 0) /\ (m # 0 => w[n + 1] = r[1]) /\ ~ (n < n)
          BY <1>1, <1>2, <3>2
        <4>2. CR # LF
          BY DEF CR, LF
        <4>. QED  BY <3>2, <4>1, <4>2 DEF IsLineBreak, Joins, n, m
      <3>3. \A i \in 1..n : i \in 1..(n + m) /\ n # 0
        BY <1>1
      <3>. QED  BY <1>1, <1>3, <3>1, <3>2, <3>3
    <2>4. Joins(l, r) => n \in Lines(l)
      BY <1>1 DEF Joins, IsLineBreak, n, m
    <2>. HIDE DEF Lines
    <2>5. K \in SUBSET (1..n)
      BY <2>1
    <2>6. IsFiniteSet(Lines(l))
      BY <1>1, <2>1, FS_Interval, FS_Subset
    <2>7. Cardinality(Lines(l)) \in Nat
      BY <2>6, FS_CardinalityType
    <2>8. Cardinality(K) = Cardinality(Lines(l)) + (IF Joins(l, r) THEN -1 ELSE 0)
      <3>1. CASE Joins(l, r)
        <4>1. Cardinality(Lines(l) \ {n}) = Cardinality(Lines(l)) - 1
          BY <2>4, <2>6, <3>1, FS_RemoveElement
        <4>. QED  BY <2>7, <3>1, <4>1
      <3>2. CASE ~ Joins(l, r)
        BY <2>7, <3>2
      <3>. QED  BY <3>1, <3>2
    <2>. HIDE DEF K
    <2>9. /\ Cardinality(Lines(w)) = Cardinality(K) + Cardinality(Lines(r))
          /\ Cardinality(Lines(r)) \in Nat
      <3>. DEFINE S == Lines(w)
                  R == Lines(r)
      <3>1. InTwo(S, K, R, n, m)
        BY <1>1, <2>1, <2>2, <2>3, <2>5 DEF InTwo
      <3>. HIDE DEF S, R
      <3>2. Cardinality(S) = Cardinality(K) + Cardinality(R) /\ Cardinality(R) \in Nat
        BY <3>1, CountInTwo
      <3>. QED  BY <3>2 DEF S, R
    <2>. QED  BY <2>7, <2>8, <2>9
  <1>7. /\ InfoFromStr(w) = [bytes |-> n + m, chars |-> Cardinality(Chars(w)),
                             utf16 |-> Cardinality(Pairs(w)), line_breaks |-> Cardinality(Lines(w))]
        /\ InfoFromStr(l) = [bytes |-> n, chars |-> Cardinality(Chars(l)),
                             utf16 |-> Cardinality(Pairs(l)), line_breaks |-> Cardinality(Lines(l))]
        /\ InfoFromStr(r) = [bytes |-> m, chars |-> Cardinality(Chars(r)),
                             utf16 |-> Cardinality(Pairs(r)), line_breaks |-> Cardinality(Lines(r))]
    BY <1>2 DEF InfoFromStr, n, m
  <1>. HIDE DEF Chars, Pairs, Lines
  <1>. QED  BY <1>4, <1>5, <1>6, <1>7 DEF InfoAdd, AddBreaks, w

-----------------------------------------------------------------------------
(* Parts of texts that are UTF-8 *)

\* A place in no code point.
IsBoundary(b, t) == b = Len(t) \/ t[b + 1] # Cont

LEMMA Utf8Parts ==
  ASSUME NEW t \in Text, Utf8(t), NEW b \in 0..Len(t), IsBoundary(b, t)
  PROVE  Utf8(Slice(t, 0, b)) /\ Utf8(From(t, b))
  <1>. DEFINE l == Slice(t, 0, b)
              r == From(t, b)
  <1>1. /\ Len(l) = b /\ \A j \in 1..b : l[j] = t[j]
        /\ Len(r) = Len(t) - b /\ \A j \in 1..(Len(t) - b) : r[j] = t[b + j]
    BY CutFacts DEF Text
  <1>2. Len(t) \in Nat
    BY TextFacts
  <1>. HIDE DEF l, r
  <1>3. \A x : Following(x) \in 0..3
    BY DEF Following
  \* No code point lies across the place.
  <1>4. ASSUME NEW i \in 1..b, NEW k \in 1..Following(t[i]) PROVE i + k \in 1..b /\ t[i + k] = Cont
    <2>1. i \in 1..Len(t) /\ k \in 1..3
      BY <1>2, <1>3
    <2>2. \A h \in 1..k : h \in 1..Following(t[i])
      BY <1>3
    <2>3. i + k \in 1..Len(t) /\ \A h \in 1..k : t[i + h] = Cont
      BY <2>1, <2>2 DEF Utf8
    <2>4. CASE i + k > b
      <3>1. b # Len(t)
        BY <1>2, <2>1, <2>3, <2>4
      <3>2. (b + 1) - i \in 1..k /\ i + ((b + 1) - i) = b + 1
        BY <1>2, <2>1, <2>4
      <3>3. t[b + 1] = Cont
        BY <2>3, <3>2
      <3>. QED  BY <3>1, <3>3 DEF IsBoundary
    <2>5. k \in 1..k
      BY <2>1
    <2>. QED  BY <1>2, <2>1, <2>3, <2>4, <2>5
  <1>5. Utf8(l)
    <2>1. ASSUME NEW i \in 1..b
          PROVE  /\ \A k \in 1..Following(l[i]) : i + k \in 1..b /\ l[i + k] = Cont
                 /\ l[i] = Cont => \E k \in 1..3 : i - k \in 1..b /\ k <= Following(l[i - k])
      <3>1. \A k \in 1..Following(l[i]) : i + k \in 1..b /\ l[i + k] = Cont
        BY <1>1, <1>4
      <3>2. ASSUME l[i] = Cont PROVE \E k \in 1..3 : i - k \in 1..b /\ k <= Following(l[i - k])
        <4>1. i \in 1..Len(t) /\ t[i] = Cont
          BY <1>1, <1>2, <3>2
        <4>2. PICK k \in 1..3 : i - k \in 1..Len(t) /\ k <= Following(t[i - k])
          BY <4>1 DEF Utf8
        <4>3. i - k \in 1..b
          BY <1>2, <4>2
        <4>. QED  BY <1>1, <4>2, <4>3
      <3>. QED  BY <3>1, <3>2
    <2>. QED  BY <1>1, <2>1 DEF Utf8
  <1>6. Utf8(r)
    <2>. DEFINE m == Len(t) - b
    <2>1. ASSUME NEW i \in 1..m
          PROVE  /\ \A k \in 1..Following(r[i]) : i + k \in 1..m /\ r[i + k] = Cont
                 /\ r[i] = Cont => \E k \in 1..3 : i - k \in 1..m /\ k <= Following(r[i - k])
      <3>1. b + i \in 1..Len(t) /\ r[i] = t[b + i]
        BY <1>1, <1>2
      <3>2. ASSUME NEW k \in 1..Following(r[i]) PROVE i + k \in 1..m /\ r[i + k] = Cont
        <4>1. (b + i) + k \in 1..Len(t) /\ t[(b + i) + k] = Cont
          BY <3>1 DEF Utf8
        <4>2. i + k \in 1..m /\ b + (i + k) = (b + i) + k
          BY <1>2, <1>3, <4>1
        <4>. QED  BY <1>1, <4>1, <4>2
      <3>3. ASSUME r[i] = Cont PROVE \E k \in 1..3 : i - k \in 1..m /\ k <= Following(r[i - k])
        <4>1. PICK k \in 1..3 : (b + i) - k \in 1..Len(t) /\ k <= Following(t[(b + i) - k])
          BY <3>1, <3>3 DEF Utf8
        <4>2. CASE (b + i) - k <= b
          <5>1. (b + i) - k \in 1..b /\ k \in 1..Following(t[(b + i) - k])
            BY <1>2, <1>3, <4>1, <4>2
          <5>2. ((b + i) - k) + k \in 1..b
            BY <1>4, <5>1
          <5>. QED  BY <1>2, <5>2
        <4>3. CASE (b + i) - k > b
          <5>1. i - k \in 1..m /\ b + (i - k) = (b + i) - k
            BY <1>2, <4>1, <4>3
          <5>. QED  BY <1>1, <4>1, <5>1
        <4>. QED  BY <1>2, <4>2, <4>3
      <3>. QED  BY <3>2, <3>3
    <2>. QED  BY <1>1, <2>1 DEF Utf8
  <1>. QED  BY <1>5, <1>6 DEF l, r

LEMMA Utf8Concat ==
  ASSUME NEW l \in Text, NEW r \in Text, Utf8(l), Utf8(r)
  PROVE  Utf8(l \o r)
  <1>. DEFINE w == l \o r
              n == Len(l)
              m == Len(r)
  <1>1. n \in Nat /\ m \in Nat
    BY TextFacts
  <1>2. /\ Len(w) = n + m /\ \A i \in 1..n : w[i] = l[i]
        /\ \A i \in 1..m : w[n + i] = r[i]
    BY ConcatFacts
  <1>. HIDE DEF w
  <1>3. ASSUME NEW i \in 1..n
        PROVE  /\ \A k \in 1..Following(w[i]) : i + k \in 1..(n + m) /\ w[i + k] = Cont
               /\ w[i] = Cont => \E k \in 1..3 : i - k \in 1..(n + m) /\ k <= Following(w[i - k])
    <2>1. /\ \A k \in 1..Following(l[i]) : i + k \in 1..n /\ l[i + k] = Cont
          /\ l[i] = Cont => \E k \in 1..3 : i - k \in 1..n /\ k <= Following(l[i - k])
      BY DEF Utf8
    <2>2. \A j \in 1..n : j \in 1..(n + m)
      BY <1>1
    <2>. HIDE DEF n, m
    <2>. QED  BY <1>2, <2>1, <2>2
  <1>4. ASSUME NEW j \in 1..m
        PROVE  /\ \A k \in 1..Following(w[n + j]) :
                    (n + j) + k \in 1..(n + m) /\ w[(n + j) + k] = Cont
               /\ w[n + j] = Cont =>
                    \E k \in 1..3 : (n + j) - k \in 1..(n + m) /\ k <= Following(w[(n + j) - k])
    <2>1. /\ \A k \in 1..Following(r[j]) : j + k \in 1..m /\ r[j + k] = Cont
          /\ r[j] = Cont => \E k \in 1..3 : j - k \in 1..m /\ k <= Following(r[j - k])
      BY DEF Utf8
    <2>. HIDE DEF n, m
    <2>2. ASSUME NEW k \in Int, j + k \in 1..m
          PROVE  (n + j) + k \in 1..(n + m) /\ w[(n + j) + k] = r[j + k]
      <3>1. (n + j) + k = n + (j + k) /\ (n + j) + k \in 1..(n + m)
        BY <1>1, <2>2
      <3>2. w[n + (j + k)] = r[j + k]
        BY <1>2, <2>2
      <3>. QED  BY <3>1, <3>2
    <2>3. w[n + j] = r[j]
      BY <1>2
    <2>4. \A k \in 1..Following(w[n + j]) : (n + j) + k \in 1..(n + m) /\ w[(n + j) + k] = Cont
      BY <2>1, <2>2, <2>3
    <2>5. ASSUME w[n + j] = Cont
          PROVE  \E k \in 1..3 : (n + j) - k \in 1..(n + m) /\ k <= Following(w[(n + j) - k])
      <3>1. PICK k \in 1..3 : j - k \in 1..m /\ k <= Following(r[j - k])
        BY <2>1, <2>3, <2>5
      <3>2. j + (-k) \in 1..m /\ (-k) \in Int /\ j + (-k) = j - k /\ (n + j) + (-k) = (n + j) - k
        BY <1>1, <3>1
      <3>3. (n + j) - k \in 1..(n + m) /\ w[(n + j) - k] = r[j - k]
        BY <2>2, <3>2
      <3>. QED  BY <3>1, <3>3
    <2>. QED  BY <2>4, <2>5
  <1>5. \A i \in 1..(n + m) : i \in 1..n \/ (i - n \in 1..m /\ n + (i - n) = i)
    BY <1>1
  <1>6. \A i \in 1..(n + m) :
          /\ \A k \in 1..Following(w[i]) : i + k \in 1..(n + m) /\ w[i + k] = Cont
          /\ w[i] = Cont => \E k \in 1..3 : i - k \in 1..(n + m) /\ k <= Following(w[i - k])
    <2>. TAKE i \in 1..(n + m)
    <2>1. CASE i \in 1..n
      BY <1>3, <2>1
    <2>2. CASE i - n \in 1..m /\ n + (i - n) = i
      <3>. DEFINE j == i - n
      <3>1. j \in 1..m /\ n + j = i
        BY <2>2
      <3>. HIDE DEF j, n, m
      <3>. QED  BY <1>4, <3>1
    <2>. QED  BY <1>5, <2>1, <2>2
  <1>. QED  BY <1>2, <1>6 DEF Utf8, w

\* Where a UTF-8 text may be cut is in no code point.
LEMMA BreakIsBoundary ==
  ASSUME NEW t \in Text, Utf8(t), NEW b \in 0..Len(t), b = 0 \/ IsBreak(b, t)
  PROVE  IsBoundary(b, t)
  <1>1. Len(t) \in Nat
    BY TextFacts
  <1>2. CASE b = 0
    <2>1. SUFFICES ASSUME Len(t) # 0, t[1] = Cont PROVE FALSE
      BY <1>2 DEF IsBoundary
    <2>2. 1 \in 1..Len(t)
      BY <1>1, <2>1
    <2>3. PICK k \in 1..3 : 1 - k \in 1..Len(t)
      BY <2>1, <2>2 DEF Utf8
    <2>. QED  BY <1>1, <2>3
  <1>3. CASE b # 0 /\ IsBreak(b, t)
    BY <1>3 DEF IsBreak, CutAllowed, IsBoundary
  <1>. QED  BY <1>2, <1>3

-----------------------------------------------------------------------------
(* Byte indices of chars *)

CharStarts(t) == {i \in DOMAIN t : t[i] # Cont}

\* How many chars start in the first b bytes.
CharsBefore(t, b) == Cardinality({i \in CharStarts(t) : i <= b})

LEMMA CharsBeforeFacts ==
  ASSUME NEW t \in Text
  PROVE  /\ CharsBefore(t, 0) = 0 /\ CharsBefore(t, Len(t)) = InfoFromStr(t).chars
         /\ \A b \in 0..Len(t) : /\ CharsBefore(t, b) \in Nat
                                 /\ CharsBefore(t, b) = InfoFromStr(Slice(t, 0, b)).chars
         /\ \A b \in 0..(Len(t) - 1) :
              CharsBefore(t, b + 1) =
                CharsBefore(t, b) + (IF b + 1 \in CharStarts(t) THEN 1 ELSE 0)
  <1>. DEFINE P(b) == {i \in CharStarts(t) : i <= b}
  <1>1. Len(t) \in Nat /\ DOMAIN t = 1..Len(t)
    BY TextFacts
  <1>2. CharStarts(t) \in SUBSET (1..Len(t))
    BY <1>1 DEF CharStarts
  <1>3. IsFiniteSet(CharStarts(t))
    <2>1. IsFiniteSet(1..Len(t))
      BY <1>1, FS_Interval
    <2>. QED  BY <1>2, <2>1, FS_Subset
  <1>4. \A b \in Int : IsFiniteSet(P(b)) /\ Cardinality(P(b)) \in Nat
    <2>. TAKE b \in Int
    <2>1. P(b) \in SUBSET CharStarts(t)
      OBVIOUS
    <2>2. IsFiniteSet(P(b))
      BY <1>3, <2>1, FS_Subset
    <2>. QED  BY <2>2, FS_CardinalityType
  <1>5. P(0) = {} /\ P(Len(t)) = CharStarts(t)
    BY <1>1, <1>2
  <1>6. CharsBefore(t, 0) = 0
    BY <1>5, FS_EmptySet DEF CharsBefore
  <1>7. CharsBefore(t, Len(t)) = InfoFromStr(t).chars
    BY <1>5 DEF CharsBefore, CharStarts, InfoFromStr
  <1>8. ASSUME NEW b \in 0..Len(t) PROVE CharsBefore(t, b) = InfoFromStr(Slice(t, 0, b)).chars
    <2>1. /\ Slice(t, 0, b) \in Text /\ Len(Slice(t, 0, b)) = b
          /\ \A j \in 1..b : Slice(t, 0, b)[j] = t[j]
      BY CutFacts DEF Text
    <2>2. DOMAIN Slice(t, 0, b) = 1..b
      BY <2>1, TextFacts
    <2>3. {i \in DOMAIN Slice(t, 0, b) : Slice(t, 0, b)[i] # Cont} = P(b)
      BY <1>1, <2>1, <2>2 DEF CharStarts
    <2>. QED  BY <2>3 DEF InfoFromStr, CharsBefore
  <1>9. ASSUME NEW b \in 0..(Len(t) - 1)
        PROVE  CharsBefore(t, b + 1) = CharsBefore(t, b) + (IF b + 1 \in CharStarts(t) THEN 1 ELSE 0)
    <2>1. IsFiniteSet(P(b)) /\ Cardinality(P(b)) \in Nat /\ b + 1 \notin P(b)
      BY <1>1, <1>4
    <2>2. CASE b + 1 \in CharStarts(t)
      <3>1. P(b + 1) = P(b) \cup {b + 1}
        BY <1>1, <1>2, <2>2
      <3>. HIDE DEF P
      <3>2. Cardinality(P(b) \cup {b + 1}) = Cardinality(P(b)) + 1
        BY <2>1, FS_AddElement
      <3>. QED  BY <2>2, <3>1, <3>2 DEF CharsBefore, P
    <2>3. CASE b + 1 \notin CharStarts(t)
      <3>1. P(b + 1) = P(b)
        BY <1>1, <1>2, <2>3
      <3>2. CharsBefore(t, b) = Cardinality(P(b)) /\ CharsBefore(t, b + 1) = Cardinality(P(b + 1))
        BY DEF CharsBefore
      <3>. HIDE DEF P
      <3>. QED  BY <2>1, <2>3, <3>1, <3>2
    <2>. QED  BY <2>2, <2>3
  <1>10. \A b \in 0..Len(t) : CharsBefore(t, b) \in Nat
    <2>. TAKE b \in 0..Len(t)
    <2>1. b \in Int
      BY <1>1
    <2>2. Cardinality(P(b)) \in Nat
      BY <1>4, <2>1
    <2>. QED  BY <2>2 DEF CharsBefore
  <1>. HIDE DEF P
  <1>. QED  BY <1>6, <1>7, <1>8, <1>9, <1>10

\* char_to_byte_idx, for every text and char: the result is in no code point and
\* just as many chars are before it, or it is the end of the text.
THEOREM CharToByte ==
  ASSUME NEW t \in Text, NEW c \in Nat
  PROVE  LET b == CharToByteIdx(t, c)
         IN  /\ b \in 0..Len(t) /\ IsBoundary(b, t)
             /\ InfoFromStr(Slice(t, 0, b)).chars = Min2(c, InfoFromStr(t).chars)
             /\ b = Len(t) <=> c >= InfoFromStr(t).chars
  <1>. DEFINE n == InfoFromStr(t).chars
              IsIdx(b) == b + 1 \in CharStarts(t) /\ CharsBefore(t, b) = c
  <1>1. Len(t) \in Nat /\ DOMAIN t = 1..Len(t)
    BY TextFacts
  <1>2. n \in Nat /\ n = CharsBefore(t, Len(t)) /\ n = Cardinality(CharStarts(t))
    <2>1. CharsBefore(t, Len(t)) = n
      BY CharsBeforeFacts
    <2>2. Len(t) \in 0..Len(t)
      BY <1>1
    <2>3. CharsBefore(t, Len(t)) \in Nat
      BY <2>2, CharsBeforeFacts
    <2>4. n = Cardinality(CharStarts(t))
      BY DEF CharStarts, InfoFromStr
    <2>. HIDE DEF n
    <2>. QED  BY <2>1, <2>3, <2>4
  <1>3. CharToByteIdx(t, c) =
          IF c >= n THEN Len(t) ELSE CHOOSE b \in 0..(Len(t) - 1) : IsIdx(b)
    BY <1>2 DEF CharToByteIdx, CharStarts, CharsBefore
  <1>. HIDE DEF n
  <1>4. CASE c >= n
    <2>0. Len(t) \in 0..Len(t)
      BY <1>1
    <2>1. InfoFromStr(Slice(t, 0, Len(t))).chars = n
      BY <1>2, <2>0, CharsBeforeFacts
    <2>2. Min2(c, n) = n
      BY <1>2, <1>4 DEF Min2
    <2>. QED  BY <1>3, <1>4, <2>0, <2>1, <2>2 DEF IsBoundary, n
  <1>5. CASE ~ (c >= n)
    <2>. DEFINE T == {b \in Nat : b <= Len(t) /\ CharsBefore(t, b) > c}
    <2>1. T \in SUBSET Nat /\ Len(t) \in T
      <3>. HIDE DEF IsIdx
      <3>1. Len(t) <= Len(t) /\ CharsBefore(t, Len(t)) > c
        BY <1>1, <1>2, <1>5
      <3>. QED  BY <1>1, <3>1
    <2>2. PICK x \in T : \A y \in T : x <= y
      BY <2>1, LeastNatural
    <2>3. x # 0 /\ x \in 1..Len(t) /\ CharsBefore(t, x) > c
      <3>1. CharsBefore(t, 0) = 0
        BY CharsBeforeFacts
      <3>. QED  BY <1>1, <2>2, <3>1
    <2>. DEFINE b == x - 1
    <2>4. b \in 0..(Len(t) - 1) /\ b + 1 = x /\ b \in 0..Len(t) /\ b \in Nat /\ b < x
      BY <1>1, <2>3
    <2>5. ~ (CharsBefore(t, b) > c)
      BY <2>2, <2>4
    <2>. HIDE DEF b, T
    <2>6. /\ CharsBefore(t, b) \in Nat
          /\ CharsBefore(t, b + 1) =
               CharsBefore(t, b) + (IF b + 1 \in CharStarts(t) THEN 1 ELSE 0)
      BY <2>4, CharsBeforeFacts
    <2>7. IsIdx(b)
      BY <2>3, <2>4, <2>5, <2>6
    <2>. DEFINE r == CHOOSE y \in 0..(Len(t) - 1) : IsIdx(y)
    <2>8. r \in 0..(Len(t) - 1) /\ IsIdx(r)
      BY <2>4, <2>7
    <2>9. CharToByteIdx(t, c) = r
      BY <1>3, <1>5
    <2>. HIDE DEF r
    <2>10. r \in 0..Len(t) /\ r # Len(t) /\ t[r + 1] # Cont
      <3>1. r + 1 \in CharStarts(t)
        BY <2>8
      <3>2. t[r + 1] # Cont
        BY <3>1 DEF CharStarts
      <3>3. r \in 0..(Len(t) - 1)
        BY <2>8
      <3>4. \A n0 \in Nat : \A y \in 0..(n0 - 1) : y \in 0..n0 /\ y # n0
        OBVIOUS
      <3>5. r \in 0..Len(t) /\ r # Len(t)
        <4>1. Len(t) \in Nat
          BY <1>1
        <4>. HIDE DEF IsIdx
        <4>. QED  BY <3>3, <3>4, <4>1
      <3>. QED  BY <3>2, <3>5
    <2>11. InfoFromStr(Slice(t, 0, r)).chars = c
      BY <2>8, <2>10, CharsBeforeFacts
    <2>12. Min2(c, n) = c
      BY <1>2, <1>5 DEF Min2
    <2>. QED  BY <1>5, <2>9, <2>10, <2>11, <2>12 DEF IsBoundary, n
  <1>. QED  BY <1>4, <1>5
=============================================================================
