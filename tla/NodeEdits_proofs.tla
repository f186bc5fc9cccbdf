--------------------------- MODULE NodeEdits_proofs ---------------------------
(***************************************************************************)
(* An edit of a leaf, for every text: the new text is the one asked for,   *)
(* cut in two only where it may be, and the summary that goes up with it,  *)
(* which the code corrects instead of counting again, is right.            *)
(***************************************************************************)
EXTENDS NodeEdits, RopeText_proofs

-----------------------------------------------------------------------------
(* Summaries *)

LEMMA SameInfo ==
  ASSUME NEW x \in TextInfo, NEW y \in TextInfo,
         x.bytes = y.bytes, x.chars = y.chars, x.utf16 = y.utf16, x.line_breaks = y.line_breaks
  PROVE  x = y
  <1>1. x = [bytes |-> x.bytes, chars |-> x.chars, utf16 |-> x.utf16, line_breaks |-> x.line_breaks]
    BY DEF TextInfo
  <1>2. y = [bytes |-> y.bytes, chars |-> y.chars, utf16 |-> y.utf16, line_breaks |-> y.line_breaks]
    BY DEF TextInfo
  <1>. QED  BY <1>1, <1>2

LEMMA ThreeFieldsSet ==
  ASSUME NEW i \in TextInfo, NEW x \in Int, NEW y \in Int, NEW z \in Int
  PROVE  [i EXCEPT !.bytes = x, !.chars = y, !.line_breaks = z] =
           [bytes |-> x, chars |-> y, utf16 |-> i.utf16, line_breaks |-> z]
  <1>. DEFINE e == [i EXCEPT !.bytes = x, !.chars = y, !.line_breaks = z]
              f == [bytes |-> x, chars |-> y, utf16 |-> i.utf16, line_breaks |-> z]
  <1>1. e \in TextInfo /\ f \in TextInfo
    BY DEF TextInfo
  <1>2. e.bytes = f.bytes /\ e.chars = f.chars /\ e.utf16 = f.utf16 /\ e.line_breaks = f.line_breaks
    BY DEF TextInfo
  <1>. HIDE DEF e, f
  <1>3. e = f
    BY <1>1, <1>2, SameInfo
  <1>. QED  BY <1>3 DEF e, f

LEMMA SumForm ==
  ASSUME NEW x \in TextInfo, NEW y \in TextInfo, NEW n \in Int
  PROVE  /\ AddBreaks(InfoAdd(x, y), n) =
              [bytes |-> x.bytes + y.bytes, chars |-> x.chars + y.chars,
               utf16 |-> x.utf16 + y.utf16,
               line_breaks |-> (x.line_breaks + y.line_breaks) + n]
         /\ AddBreaks(InfoSub(x, y), n) =
              [bytes |-> x.bytes - y.bytes, chars |-> x.chars - y.chars,
               utf16 |-> x.utf16 - y.utf16,
               line_breaks |-> (x.line_breaks - y.line_breaks) + n]
         /\ AddBreaks(InfoAdd(x, y), n) \in TextInfo
         /\ AddBreaks(InfoSub(x, y), n) \in TextInfo
  BY DEF AddBreaks, InfoAdd, InfoSub, TextInfo

\* Three summaries added up in two orders.
LEMMA InsertSum ==
  ASSUME NEW p \in TextInfo, NEW q \in TextInfo, NEW s \in TextInfo,
         NEW x \in Int, NEW y \in Int, NEW z \in Int
  PROVE  AddBreaks(InfoAdd(AddBreaks(InfoAdd(p, q), x), s), (y + z) - x) =
         AddBreaks(InfoAdd(AddBreaks(InfoAdd(p, s), y), q), z)
  <1>1. AddBreaks(InfoAdd(p, q), x) \in TextInfo /\ AddBreaks(InfoAdd(p, s), y) \in TextInfo
    BY SumForm
  <1>2. (y + z) - x \in Int
    OBVIOUS
  <1>. DEFINE u == AddBreaks(InfoAdd(p, q), x)
              v == AddBreaks(InfoAdd(p, s), y)
  <1>3. /\ u = [bytes |-> p.bytes + q.bytes, chars |-> p.chars + q.chars,
                utf16 |-> p.utf16 + q.utf16, line_breaks |-> (p.line_breaks + q.line_breaks) + x]
        /\ v = [bytes |-> p.bytes + s.bytes, chars |-> p.chars + s.chars,
                utf16 |-> p.utf16 + s.utf16, line_breaks |-> (p.line_breaks + s.line_breaks) + y]
    BY SumForm
  <1>. HIDE DEF u, v
  <1>4. /\ AddBreaks(InfoAdd(u, s), (y + z) - x) =
             [bytes |-> u.bytes + s.bytes, chars |-> u.chars + s.chars,
              utf16 |-> u.utf16 + s.utf16,
              line_breaks |-> (u.line_breaks + s.line_breaks) + ((y + z) - x)]
        /\ AddBreaks(InfoAdd(v, q), z) =
             [bytes |-> v.bytes + q.bytes, chars |-> v.chars + q.chars,
              utf16 |-> v.utf16 + q.utf16, line_breaks |-> (v.line_breaks + q.line_breaks) + z]
    <2>. DEFINE d == (y + z) - x
    <2>1. u \in TextInfo /\ v \in TextInfo /\ d \in Int
      BY <1>1, <1>2 DEF u, v
    <2>. HIDE DEF d
    <2>2. AddBreaks(InfoAdd(u, s), d) =
             [bytes |-> u.bytes + s.bytes, chars |-> u.chars + s.chars,
              utf16 |-> u.utf16 + s.utf16,
              line_breaks |-> (u.line_breaks + s.line_breaks) + d]
      BY <2>1, SumForm
    <2>3. AddBreaks(InfoAdd(v, q), z) =
             [bytes |-> v.bytes + q.bytes, chars |-> v.chars + q.chars,
              utf16 |-> v.utf16 + q.utf16, line_breaks |-> (v.line_breaks + q.line_breaks) + z]
      BY <2>1, SumForm
    <2>. QED  BY <2>2, <2>3 DEF d
  <1>5. /\ p.bytes \in Int /\ q.bytes \in Int /\ s.bytes \in Int
        /\ p.chars \in Int /\ q.chars \in Int /\ s.chars \in Int
        /\ p.utf16 \in Int /\ q.utf16 \in Int /\ s.utf16 \in Int
        /\ p.line_breaks \in Int /\ q.line_breaks \in Int /\ s.line_breaks \in Int
    BY DEF TextInfo
  <1>6. /\ u.bytes + s.bytes = v.bytes + q.bytes
        /\ u.chars + s.chars = v.chars + q.chars
        /\ u.utf16 + s.utf16 = v.utf16 + q.utf16
        /\ (u.line_breaks + s.line_breaks) + ((y + z) - x) = (v.line_breaks + q.line_breaks) + z
    BY <1>3, <1>5
  <1>. QED  BY <1>4, <1>6 DEF u, v

\* The middle one of three summaries taken away again.
LEMMA RemoveSum ==
  ASSUME NEW p \in TextInfo, NEW m \in TextInfo, NEW q \in TextInfo,
         NEW x \in Int, NEW y \in Int, NEW z \in Int
  PROVE  AddBreaks(InfoSub(AddBreaks(InfoAdd(AddBreaks(InfoAdd(p, m), x), q), y), m),
                   (z - x) - y) =
         AddBreaks(InfoAdd(p, q), z)
  <1>. DEFINE u == AddBreaks(InfoAdd(p, m), x)
              v == AddBreaks(InfoAdd(u, q), y)
  <1>1. /\ u = [bytes |-> p.bytes + m.bytes, chars |-> p.chars + m.chars,
                utf16 |-> p.utf16 + m.utf16, line_breaks |-> (p.line_breaks + m.line_breaks) + x]
        /\ u \in TextInfo
    BY SumForm
  <1>. HIDE DEF u
  <1>2. /\ v = [bytes |-> u.bytes + q.bytes, chars |-> u.chars + q.chars,
                utf16 |-> u.utf16 + q.utf16, line_breaks |-> (u.line_breaks + q.line_breaks) + y]
        /\ v \in TextInfo
    BY ZenonT(60), <1>1, SumForm
  <1>. HIDE DEF v
  <1>3. (z - x) - y \in Int
    OBVIOUS
  <1>4. /\ AddBreaks(InfoSub(v, m), (z - x) - y) =
             [bytes |-> v.bytes - m.bytes, chars |-> v.chars - m.chars,
              utf16 |-> v.utf16 - m.utf16,
              line_breaks |-> (v.line_breaks - m.line_breaks) + ((z - x) - y)]
        /\ AddBreaks(InfoAdd(p, q), z) =
             [bytes |-> p.bytes + q.bytes, chars |-> p.chars + q.chars,
              utf16 |-> p.utf16 + q.utf16, line_breaks |-> (p.line_breaks + q.line_breaks) + z]
    <2>. DEFINE d == (z - x) - y
    <2>1. v \in TextInfo /\ d \in Int
      BY <1>2, <1>3
    <2>. HIDE DEF d
    <2>2. AddBreaks(InfoSub(v, m), d) =
             [bytes |-> v.bytes - m.bytes, chars |-> v.chars - m.chars,
              utf16 |-> v.utf16 - m.utf16,
              line_breaks |-> (v.line_breaks - m.line_breaks) + d]
      BY <2>1, SumForm
    <2>3. AddBreaks(InfoAdd(p, q), z) =
             [bytes |-> p.bytes + q.bytes, chars |-> p.chars + q.chars,
              utf16 |-> p.utf16 + q.utf16, line_breaks |-> (p.line_breaks + q.line_breaks) + z]
      BY SumForm
    <2>. QED  BY <2>2, <2>3 DEF d
  <1>5. /\ p.bytes \in Int /\ q.bytes \in Int /\ m.bytes \in Int
        /\ p.chars \in Int /\ q.chars \in Int /\ m.chars \in Int
        /\ p.utf16 \in Int /\ q.utf16 \in Int /\ m.utf16 \in Int
        /\ p.line_breaks \in Int /\ q.line_breaks \in Int /\ m.line_breaks \in Int
    BY DEF TextInfo
  <1>6. /\ v.bytes - m.bytes = p.bytes + q.bytes
        /\ v.chars - m.chars = p.chars + q.chars
        /\ v.utf16 - m.utf16 = p.utf16 + q.utf16
        /\ (v.line_breaks - m.line_breaks) + ((z - x) - y) = (p.line_breaks + q.line_breaks) + z
    BY <1>1, <1>2, <1>5
  <1>. QED  BY <1>4, <1>6 DEF u, v

LEMMA InfoTyped ==
  ASSUME NEW t \in Text
  PROVE  /\ InfoFromStr(t) \in [bytes : Nat, chars : Nat, utf16 : Nat, line_breaks : Nat]
         /\ InfoFromStr(t) \in TextInfo
  <1>1. Len(t) \in Nat /\ DOMAIN t = 1..Len(t)
    BY TextFacts
  <1>2. IsFiniteSet(1..Len(t))
    BY <1>1, FS_Interval
  <1>3. \A S \in SUBSET (1..Len(t)) : Cardinality(S) \in Nat
    BY <1>2, FS_Subset, FS_CardinalityType
  <1>4. /\ {i \in DOMAIN t : t[i] # Cont} \in SUBSET (1..Len(t))
        /\ {i \in DOMAIN t : t[i] = Lead4} \in SUBSET (1..Len(t))
        /\ {i \in DOMAIN t : IsLineBreak(t, i)} \in SUBSET (1..Len(t))
    BY <1>1
  <1>. QED  BY <1>1, <1>3, <1>4 DEF InfoFromStr, TextInfo

\* The two parts of a text, and what is where they meet.
LEMMA PartsFacts ==
  ASSUME NEW t \in Text, NEW b \in 0..Len(t)
  PROVE  /\ Slice(t, 0, b) \in Text /\ From(t, b) \in Text
         /\ Slice(t, 0, b) \o From(t, b) = t
         /\ Len(Slice(t, 0, b)) = b /\ Len(From(t, b)) = Len(t) - b
         /\ b # 0 => Slice(t, 0, b)[b] = t[b]
         /\ b # Len(t) => From(t, b)[1] = t[b + 1]
  <1>1. /\ Slice(t, 0, b) \in Text /\ Len(Slice(t, 0, b)) = b
        /\ \A j \in 1..b : Slice(t, 0, b)[j] = t[j]
        /\ From(t, b) \in Text /\ Len(From(t, b)) = Len(t) - b
        /\ \A j \in 1..(Len(t) - b) : From(t, b)[j] = t[b + j]
        /\ Slice(t, 0, b) \o From(t, b) = t
    BY CutFacts DEF Text
  <1>2. Len(t) \in Nat
    BY TextFacts
  <1>3. b # 0 => b \in 1..b
    BY <1>2
  <1>4. b # Len(t) => 1 \in 1..(Len(t) - b)
    BY <1>2
  <1>. QED  BY <1>1, <1>3, <1>4

\* The first closure's correction, for every insertion: it accounts for the CRLF
\* that is broken up and for those that are made at either end.
THEOREM InsertedInfoRight ==
  ASSUME NEW t \in Text, NEW s \in Text, s # <<>>, NEW b \in 0..Len(t)
  PROVE  InsertedInfo(InfoFromStr(t), t, b, s) = InfoFromStr(InsertStr(t, b, s))
  <1>. DEFINE p == Slice(t, 0, b)
              q == From(t, b)
              k == Len(s)
  <1>1. Len(t) \in Nat /\ k \in Nat \ {0}
    BY TextFacts, EmptySeq DEF Text
  <1>2. /\ p \in Text /\ q \in Text /\ p \o q = t /\ Len(p) = b /\ Len(q) = Len(t) - b
        /\ (b # 0 => p[b] = t[b]) /\ (b # Len(t) => q[1] = t[b + 1])
    BY PartsFacts
  <1>3. InsertStr(t, b, s) = (p \o s) \o q
    BY DEF InsertStr
  <1>. HIDE DEF p, q
  <1>4. p \o s \in Text /\ Len(p \o s) = b + k /\ (p \o s)[b + k] = s[k]
    <2>1. /\ p \o s \in Text /\ Len(p \o s) = Len(p) + Len(s)
          /\ \A i \in 1..Len(s) : (p \o s)[Len(p) + i] = s[i]
      BY <1>2, ConcatFacts
    <2>2. k \in 1..Len(s)
      BY <1>1
    <2>. QED  BY <1>2, <2>1, <2>2
  <1>5. InfoFromStr(p \o q) =
          AddBreaks(InfoAdd(InfoFromStr(p), InfoFromStr(q)), IF Joins(p, q) THEN -1 ELSE 0)
    BY <1>2, InfoOfConcat
  <1>6. InfoFromStr(p \o s) =
          AddBreaks(InfoAdd(InfoFromStr(p), InfoFromStr(s)), IF Joins(p, s) THEN -1 ELSE 0)
    BY <1>2, InfoOfConcat
  <1>7. InfoFromStr((p \o s) \o q) =
          AddBreaks(InfoAdd(InfoFromStr(p \o s), InfoFromStr(q)),
                    IF Joins(p \o s, q) THEN -1 ELSE 0)
    BY <1>2, <1>4, InfoOfConcat
  <1>. DEFINE splits == CrLines /\ b > 0 /\ b < Len(t) /\ t[b] = CR /\ t[b + 1] = LF
              joinsL == CrLines /\ b > 0 /\ t[b] = CR /\ s[1] = LF
              joinsR == CrLines /\ b < Len(t) /\ s[k] = CR /\ t[b + 1] = LF
  <1>8. (b > 0 <=> b # 0) /\ (b < Len(t) <=> b # Len(t)) /\ (Len(t) - b # 0 <=> b # Len(t))
        /\ b + k # 0 /\ k # 0
    BY <1>1
  <1>9. Joins(p, q) <=> splits
    BY <1>2, <1>8 DEF Joins
  <1>10. Joins(p, s) <=> joinsL
    BY <1>2, <1>8 DEF Joins
  <1>11. Joins(p \o s, q) <=> joinsR
    BY <1>2, <1>4, <1>8 DEF Joins
  <1>12. InsertedInfo(InfoFromStr(t), t, b, s) =
           AddBreaks(InfoAdd(InfoFromStr(t), InfoFromStr(s)),
                     (IF splits THEN 1 ELSE 0) - (IF joinsL THEN 1 ELSE 0)
                       - (IF joinsR THEN 1 ELSE 0))
    BY DEF InsertedInfo
  <1>. HIDE DEF splits, joinsL, joinsR
  <1>. DEFINE x == IF splits THEN -1 ELSE 0
              y == IF joinsL THEN -1 ELSE 0
              z == IF joinsR THEN -1 ELSE 0
  <1>13. /\ x \in Int /\ y \in Int /\ z \in Int
         /\ (y + z) - x = (IF splits THEN 1 ELSE 0) - (IF joinsL THEN 1 ELSE 0)
                            - (IF joinsR THEN 1 ELSE 0)
    OBVIOUS
  <1>14. InfoFromStr(p) \in TextInfo /\ InfoFromStr(q) \in TextInfo /\ InfoFromStr(s) \in TextInfo
    BY <1>2, InfoTyped
  <1>15. /\ InfoFromStr(t) = AddBreaks(InfoAdd(InfoFromStr(p), InfoFromStr(q)), x)
         /\ InfoFromStr(p \o s) = AddBreaks(InfoAdd(InfoFromStr(p), InfoFromStr(s)), y)
         /\ InfoFromStr((p \o s) \o q) = AddBreaks(InfoAdd(InfoFromStr(p \o s), InfoFromStr(q)), z)
         /\ InsertedInfo(InfoFromStr(t), t, b, s) =
              AddBreaks(InfoAdd(InfoFromStr(t), InfoFromStr(s)), (y + z) - x)
    BY <1>2, <1>5, <1>6, <1>7, <1>9, <1>10, <1>11, <1>12, <1>13
  <1>. HIDE DEF x, y, z
  <1>. QED  BY <1>3, <1>13, <1>14, <1>15, InsertSum

\* The second closure's correction: the LF that it pushes onto a chunk is a line
\* break, unless it makes a CRLF of a CR that was one.
THEOREM PushedLfInfoRight ==
  ASSUME NEW t \in Text, t # <<>>
  PROVE  PushedLfInfo(InfoFromStr(t), t) = InfoFromStr(Append(t, LF))
  <1>. DEFINE s == <<LF>>
  <1>1. s \in Text /\ Len(s) = 1 /\ s[1] = LF /\ DOMAIN s = {1}
    BY DEF Text, Byte
  <1>2. Append(t, LF) = t \o s
    BY AppendIsConcat DEF Text, Byte
  <1>3. InfoFromStr(s) = [bytes |-> 1, chars |-> 1, utf16 |-> 0, line_breaks |-> 1]
    <2>1. LF # Cont /\ LF # Lead4
      BY DEF LF, Cont, Lead4
    <2>2. /\ {i \in DOMAIN s : s[i] # Cont} = {1} /\ {i \in DOMAIN s : s[i] = Lead4} = {}
          /\ {i \in DOMAIN s : IsLineBreak(s, i)} = {1}
      BY <1>1, <2>1 DEF IsLineBreak
    <2>3. Cardinality({1}) = 1 /\ Cardinality({}) = 0
      BY FS_Singleton, FS_EmptySet
    <2>. HIDE DEF s
    <2>. QED  BY <1>1, <2>2, <2>3 DEF InfoFromStr
  <1>4. Len(t) \in Nat \ {0}
    BY TextFacts, EmptySeq DEF Text
  <1>. HIDE DEF s
  <1>5. InfoFromStr(t \o s) =
          AddBreaks(InfoAdd(InfoFromStr(t), InfoFromStr(s)), IF Joins(t, s) THEN -1 ELSE 0)
    BY <1>1, InfoOfConcat
  <1>6. Joins(t, s) <=> CrLines /\ t[Len(t)] = CR
    BY <1>1, <1>4 DEF Joins
  <1>7. InfoFromStr(t) \in TextInfo
    BY InfoTyped
  <1>. DEFINE i == InfoFromStr(t)
  <1>. HIDE DEF i
  <1>8. AddBreaks(InfoAdd(i, [bytes |-> 1, chars |-> 1, utf16 |-> 0, line_breaks |-> 1]),
                  IF CrLines /\ t[Len(t)] = CR THEN -1 ELSE 0) = PushedLfInfo(i, t)
    <2>1. i \in TextInfo
      BY <1>7 DEF i
    <2>. DEFINE one == [bytes |-> 1, chars |-> 1, utf16 |-> 0, line_breaks |-> 1]
                d   == IF CrLines /\ t[Len(t)] = CR THEN -1 ELSE 0
    <2>2. one \in TextInfo /\ d \in Int
      BY DEF TextInfo
    <2>3. AddBreaks(InfoAdd(i, one), d) =
            [bytes |-> i.bytes + 1, chars |-> i.chars + 1, utf16 |-> i.utf16 + 0,
             line_breaks |-> (i.line_breaks + 1) + d]
      <3>. HIDE DEF d
      <3>1. AddBreaks(InfoAdd(i, one), d) =
            [bytes |-> i.bytes + one.bytes, chars |-> i.chars + one.chars,
             utf16 |-> i.utf16 + one.utf16, line_breaks |-> (i.line_breaks + one.line_breaks) + d]
        <4>. HIDE DEF one
        <4>. QED  BY <2>1, <2>2, SumForm
      <3>. QED  BY <3>1
    <2>4. PushedLfInfo(i, t) =
            [bytes |-> i.bytes + 1, chars |-> i.chars + 1, utf16 |-> i.utf16,
             line_breaks |-> i.line_breaks + (IF CrLines /\ t[Len(t)] = CR THEN 0 ELSE 1)]
      <3>. DEFINE g == IF CrLines /\ t[Len(t)] = CR THEN 0 ELSE 1
      <3>1. PushedLfInfo(i, t) = [i EXCEPT !.bytes = @ + 1, !.chars = @ + 1, !.line_breaks = @ + g]
        BY DEF PushedLfInfo
      <3>. HIDE DEF g
      <3>2. [i EXCEPT !.bytes = @ + 1, !.chars = @ + 1, !.line_breaks = @ + g] =
              [bytes |-> i.bytes + 1, chars |-> i.chars + 1, utf16 |-> i.utf16,
               line_breaks |-> i.line_breaks + g]
        <4>. DEFINE x == i.bytes + 1
                    y == i.chars + 1
                    z == i.line_breaks + g
        <4>1. x \in Int /\ y \in Int /\ z \in Int
          BY <2>1 DEF TextInfo, g
        <4>. HIDE DEF x, y, z
        <4>2. [i EXCEPT !.bytes = x, !.chars = y, !.line_breaks = z] =
                [bytes |-> x, chars |-> y, utf16 |-> i.utf16, line_breaks |-> z]
          BY <2>1, <4>1, ThreeFieldsSet
        <4>. QED  BY <4>2 DEF x, y, z
      <3>. QED  BY <3>1, <3>2 DEF g
    <2>5. /\ i.utf16 + 0 = i.utf16
          /\ (i.line_breaks + 1) + d = i.line_breaks + (IF CrLines /\ t[Len(t)] = CR THEN 0 ELSE 1)
      BY <2>1 DEF TextInfo
    <2>. HIDE DEF d
    <2>. QED  BY <2>3, <2>4, <2>5 DEF d
  <1>. QED  BY <1>2, <1>3, <1>5, <1>6, <1>8 DEF i

\* The three parts of a text.
LEMMA ThreeParts ==
  ASSUME NEW t \in Text, NEW a \in 0..Len(t), NEW b \in a..Len(t)
  PROVE  /\ Slice(t, a, b) \in Text /\ Len(Slice(t, a, b)) = b - a
         /\ \A j \in 1..(b - a) : Slice(t, a, b)[j] = t[a + j]
         /\ Slice(t, a, b) \o From(t, b) = From(t, a)
         /\ (Slice(t, 0, a) \o Slice(t, a, b)) \o From(t, b) = t
         /\ Slice(t, 0, a) \o Slice(t, a, b) = Slice(t, 0, b)
         /\ Slice(From(t, a), 0, b - a) = Slice(t, a, b)
  <1>1. Len(t) \in Nat
    BY TextFacts
  <1>2. /\ Slice(t, a, b) \in Text /\ Len(Slice(t, a, b)) = b - a
        /\ \A j \in 1..(b - a) : Slice(t, a, b)[j] = t[a + j]
    BY SliceFacts
  <1>3. Slice(t, a, b) \o From(t, b) = From(t, a)
    <2>1. a + 1 \in 1..(Len(t) + 1) /\ b \in ((a + 1) - 1)..Len(t) /\ Len(t) \in b..Len(t)
      BY <1>1
    <2>2. SubSeq(t, a + 1, b) \o SubSeq(t, b + 1, Len(t)) = SubSeq(t, a + 1, Len(t))
      BY <2>1, ConcatAdjacentSubSeq DEF Text
    <2>. QED  BY <2>2 DEF Slice, From
  <1>4. Slice(t, 0, a) \o Slice(t, a, b) = Slice(t, 0, b)
    <2>1. 1 \in 1..(Len(t) + 1) /\ a \in (1 - 1)..Len(t) /\ b \in a..Len(t)
      BY <1>1
    <2>2. SubSeq(t, 1, a) \o SubSeq(t, a + 1, b) = SubSeq(t, 1, b)
      BY <2>1, ConcatAdjacentSubSeq DEF Text
    <2>. QED  BY <2>2 DEF Slice
  <1>5. b \in 0..Len(t)
    BY <1>1
  <1>6. Slice(t, 0, b) \o From(t, b) = t
    BY <1>5, PartsFacts
  <1>7. Slice(From(t, a), 0, b - a) = Slice(t, a, b)
    <2>. DEFINE f == From(t, a)
    <2>1. /\ f \in Text /\ Len(f) = Len(t) - a
          /\ \A j \in 1..(Len(t) - a) : f[j] = t[a + j]
      BY CutFacts DEF Text
    <2>2. b - a \in 0..Len(f)
      BY <1>1, <2>1
    <2>. HIDE DEF f
    <2>3. /\ Slice(f, 0, b - a) \in Text /\ Len(Slice(f, 0, b - a)) = b - a
          /\ \A j \in 1..(b - a) : Slice(f, 0, b - a)[j] = f[j]
      BY ZenonT(60), <2>1, <2>2, CutFacts DEF Text
    <2>4. \A j \in 1..(b - a) : j \in 1..(Len(t) - a)
      BY <1>1
    <2>5. \A j \in 1..(b - a) : Slice(f, 0, b - a)[j] = Slice(t, a, b)[j]
      BY <1>2, <2>1, <2>3, <2>4
    <2>. QED  BY <1>2, <2>3, <2>5, SeqEqual DEF f, Text
  <1>. QED  BY <1>2, <1>3, <1>4, <1>6, <1>7

\* The removal's correction, for every range: it accounts for the CRLFs that are cut
\* at its ends and for the one that closes up over it.
THEOREM RemovedInfoRight ==
  ASSUME NEW t \in Text, NEW a \in 0..Len(t), NEW b \in a..Len(t), a # b
  PROVE  RemovedInfo(InfoFromStr(t), t, a, b) = InfoFromStr(RemoveRange(t, a, b))
  <1>. DEFINE p == Slice(t, 0, a)
              m == Slice(t, a, b)
              q == From(t, b)
  <1>1. Len(t) \in Nat /\ b \in 0..Len(t)
    BY TextFacts
  <1>2. /\ p \in Text /\ Len(p) = a /\ (a # 0 => p[a] = t[a])
        /\ q \in Text /\ Len(q) = Len(t) - b /\ (b # Len(t) => q[1] = t[b + 1])
    BY <1>1, PartsFacts
  <1>3. /\ m \in Text /\ Len(m) = b - a /\ (p \o m) \o q = t
        /\ m[1] = t[a + 1] /\ m[b - a] = t[b]
    <2>1. 1 \in 1..(b - a) /\ b - a \in 1..(b - a) /\ a + (b - a) = b
      BY <1>1
    <2>2. /\ m \in Text /\ Len(m) = b - a /\ (p \o m) \o q = t
          /\ \A j \in 1..(b - a) : m[j] = t[a + j]
      BY ThreeParts
    <2>. HIDE DEF m
    <2>. QED  BY <2>1, <2>2
  <1>4. RemoveRange(t, a, b) = p \o q
    BY DEF RemoveRange
  <1>. HIDE DEF p, q, m
  <1>5. p \o m \in Text /\ Len(p \o m) = b /\ (p \o m)[b] = t[b]
    <2>1. /\ p \o m \in Text /\ Len(p \o m) = Len(p) + Len(m)
          /\ \A i \in 1..Len(m) : (p \o m)[Len(p) + i] = m[i]
      BY <1>2, <1>3, ConcatFacts
    <2>2. b - a \in 1..Len(m) /\ a + (b - a) = b
      BY <1>1, <1>3
    <2>. QED  BY <1>2, <1>3, <2>1, <2>2
  <1>6. InfoFromStr(p \o q) =
          AddBreaks(InfoAdd(InfoFromStr(p), InfoFromStr(q)), IF Joins(p, q) THEN -1 ELSE 0)
    BY <1>2, InfoOfConcat
  <1>7. InfoFromStr(p \o m) =
          AddBreaks(InfoAdd(InfoFromStr(p), InfoFromStr(m)), IF Joins(p, m) THEN -1 ELSE 0)
    BY <1>2, <1>3, InfoOfConcat
  <1>8. InfoFromStr(t) =
          AddBreaks(InfoAdd(InfoFromStr(p \o m), InfoFromStr(q)),
                    IF Joins(p \o m, q) THEN -1 ELSE 0)
    BY <1>2, <1>3, <1>5, InfoOfConcat
  <1>. DEFINE endCut   == b < Len(t) /\ t[b] = CR /\ t[b + 1] = LF
              startCut == (a > 0 /\ t[a] = CR) /\ t[a + 1] = LF
              joins    == (a > 0 /\ t[a] = CR) /\ b < Len(t) /\ t[b + 1] = LF
  <1>9. (a > 0 <=> a # 0) /\ (b < Len(t) <=> b # Len(t)) /\ (Len(t) - b # 0 <=> b # Len(t))
        /\ b # 0 /\ b - a # 0
    BY <1>1
  <1>10. Joins(p, q) <=> CrLines /\ joins
    BY <1>2, <1>9 DEF Joins
  <1>11. Joins(p, m) <=> CrLines /\ startCut
    BY <1>2, <1>3, <1>9 DEF Joins
  <1>12. Joins(p \o m, q) <=> CrLines /\ endCut
    BY <1>2, <1>5, <1>9 DEF Joins
  <1>. DEFINE delta == (IF endCut THEN 1 ELSE 0) + (IF startCut THEN 1 ELSE 0)
                         - (IF joins THEN 1 ELSE 0)
  <1>13. RemovedInfo(InfoFromStr(t), t, a, b) =
           IF b - a < Len(t) - (b - a)
           THEN AddBreaks(InfoSub(InfoFromStr(t), InfoFromStr(m)), IF CrLines THEN delta ELSE 0)
           ELSE InfoFromStr(RemoveRange(t, a, b))
    BY DEF RemovedInfo, m
  <1>. HIDE DEF endCut, startCut, joins
  <1>. DEFINE x == IF CrLines /\ startCut THEN -1 ELSE 0
              y == IF CrLines /\ endCut THEN -1 ELSE 0
              z == IF CrLines /\ joins THEN -1 ELSE 0
  <1>14. x \in Int /\ y \in Int /\ z \in Int /\ (z - x) - y = IF CrLines THEN delta ELSE 0
    OBVIOUS
  <1>15. InfoFromStr(p) \in TextInfo /\ InfoFromStr(q) \in TextInfo /\ InfoFromStr(m) \in TextInfo
    BY <1>2, <1>3, InfoTyped
  <1>16. /\ InfoFromStr(p \o q) = AddBreaks(InfoAdd(InfoFromStr(p), InfoFromStr(q)), z)
         /\ InfoFromStr(t) =
              AddBreaks(InfoAdd(AddBreaks(InfoAdd(InfoFromStr(p), InfoFromStr(m)), x),
                                InfoFromStr(q)), y)
    BY <1>6, <1>7, <1>8, <1>10, <1>11, <1>12
  <1>. HIDE DEF x, y, z, delta
  <1>17. AddBreaks(InfoSub(InfoFromStr(t), InfoFromStr(m)), IF CrLines THEN delta ELSE 0)
           = InfoFromStr(p \o q)
    BY <1>14, <1>15, <1>16, RemoveSum
  <1>. QED  BY <1>4, <1>13, <1>17

-----------------------------------------------------------------------------
(* The texts that an edit leaves *)

\* The result r of an edit of a leaf is right if its text was to be w: it is, or the
\* leaf was cut in two where it may be, with nothing lost, and the summaries are those
\* of the texts.
EditRight(r, w) ==
  \E l \in Text :
    /\ r.node = Leaf(l) /\ r.info = InfoFromStr(l) /\ Utf8(l)
    /\ \/ r.residual = <<>> /\ l = w
       \/ \E u \in Text :
            /\ r.residual = << Child(Leaf(u)) >> /\ l \o u = w /\ Utf8(u)
            /\ Len(l) # 0 /\ Len(u) # 0 /\ SeamIsBreak(l, u)

LEMMA PartsOfConcat ==
  ASSUME NEW l \in Text, NEW r \in Text
  PROVE  Slice(l \o r, 0, Len(l)) = l /\ From(l \o r, Len(l)) = r
  <1>. DEFINE w == l \o r
              n == Len(l)
  <1>1. n \in Nat /\ Len(r) \in Nat
    BY TextFacts
  <1>2. /\ w \in Text /\ Len(w) = n + Len(r) /\ \A i \in 1..n : w[i] = l[i]
        /\ \A i \in 1..Len(r) : w[n + i] = r[i]
    BY ConcatFacts
  <1>3. n \in 0..Len(w) /\ Len(w) - n = Len(r)
    BY <1>1, <1>2
  <1>. HIDE DEF w
  <1>4. /\ Slice(w, 0, n) \in Text /\ Len(Slice(w, 0, n)) = n
        /\ \A j \in 1..n : Slice(w, 0, n)[j] = w[j]
        /\ From(w, n) \in Text /\ Len(From(w, n)) = Len(w) - n
        /\ \A j \in 1..(Len(w) - n) : From(w, n)[j] = w[n + j]
    BY ZenonT(60), <1>2, <1>3, CutFacts DEF Text
  <1>5. Slice(w, 0, n) = l
    BY <1>2, <1>4, SeqEqual DEF Text
  <1>6. From(w, n) = r
    <2>1. \A j \in 1..Len(r) : From(w, n)[j] = r[j]
      BY <1>2, <1>3, <1>4
    <2>. QED  BY <1>3, <1>4, <2>1, SeqEqual DEF Text
  <1>. QED  BY <1>5, <1>6 DEF w

LEMMA Utf8OfParts ==
  ASSUME NEW l \in Text, NEW r \in Text, Utf8(l \o r), IsBreak(Len(l), l \o r)
  PROVE  Utf8(l) /\ Utf8(r)
  <1>1. l \o r \in Text /\ Len(l) \in 0..Len(l \o r)
    BY ConcatFacts, TextFacts
  <1>. DEFINE w == l \o r
              n == Len(l)
  <1>2. w \in Text /\ n \in 0..Len(w) /\ Utf8(w) /\ (n = 0 \/ IsBreak(n, w))
    BY <1>1
  <1>3. Slice(w, 0, n) = l /\ From(w, n) = r
    BY PartsOfConcat
  <1>. HIDE DEF w, n
  <1>4. IsBoundary(n, w)
    BY <1>2, BreakIsBoundary
  <1>5. Utf8(Slice(w, 0, n)) /\ Utf8(From(w, n))
    BY <1>2, <1>4, Utf8Parts
  <1>. QED  BY <1>3, <1>5

\* insert_str_split's halves make up an edit.
LEMMA SplitRight ==
  ASSUME NEW w \in Text, Utf8(w), w # <<>>, NEW seam
  PROVE  EditRight(SplitInTwo(SplitNearMiddle(w), seam), w)
  <1>. DEFINE h == SplitNearMiddle(w)
              r == SplitInTwo(h, seam)
  <1>1. /\ h[1] \in Text /\ h[2] \in Text /\ h[1] \o h[2] = w
        /\ IsBreak(Len(h[1]), w)
        /\ \A c \in 0..Len(w) : IsInternal(c, w) => IsInternal(Len(h[1]), w)
        /\ (\A c \in 0..Len(w) : ~ IsInternal(c, w)) => h[2] = <<>>
    BY SplitInHalf
  <1>2. Len(w) \in Nat \ {0}
    BY TextFacts, EmptySeq DEF Text
  <1>3. /\ r.node = Leaf(h[1]) /\ r.info = InfoFromStr(h[1])
        /\ r.residual = IF h[2] = <<>> THEN <<>> ELSE << Child(Leaf(h[2])) >>
    BY DEF SplitInTwo
  <1>. HIDE DEF h, r
  <1>4. Utf8(h[1]) /\ Utf8(h[2])
    BY <1>1, Utf8OfParts
  <1>5. CASE h[2] = <<>>
    <2>1. h[1] = w
      BY <1>1, <1>5, ConcatEmptySeq DEF Text
    <2>2. r.residual = <<>>
      BY <1>3, <1>5
    <2>3. EditRight(r, w)
      BY <1>1, <1>3, <1>4, <2>1, <2>2 DEF EditRight
    <2>. QED  BY <2>3 DEF h, r
  <1>6. CASE h[2] # <<>>
    <2>1. IsInternal(Len(h[1]), w)
      BY <1>1, <1>6
    <2>2. Len(h[1]) # 0 /\ Len(h[2]) # 0
      BY <1>1, <1>6, <2>1, EmptySeq DEF IsInternal, Text
    <2>3. SeamIsBreak(h[1], h[2])
      BY <1>1, <2>2, ConcatBreaks
    <2>4. r.residual = << Child(Leaf(h[2])) >>
      BY <1>3, <1>6
    <2>5. EditRight(r, w)
      BY <1>1, <1>3, <1>4, <2>2, <2>3, <2>4 DEF EditRight
    <2>. QED  BY <2>5 DEF h, r
  <1>. QED  BY <1>5, <1>6

\* Text inserted between two chars of a text.
LEMMA InsertStrFacts ==
  ASSUME NEW t \in Text, NEW s \in Text, Utf8(t), Utf8(s), NEW b \in 0..Len(t), IsBoundary(b, t)
  PROVE  /\ InsertStr(t, b, s) \in Text /\ Utf8(InsertStr(t, b, s))
         /\ Len(InsertStr(t, b, s)) = Len(t) + Len(s)
         /\ s = <<>> => InsertStr(t, b, s) = t
         /\ b # 0 => InsertStr(t, b, s)[1] = t[1]
         /\ b = 0 /\ Len(s) # 0 => InsertStr(t, b, s)[1] = s[1]
         /\ b = 0 /\ Len(s) = 0 /\ Len(t) # 0 => InsertStr(t, b, s)[1] = t[1]
  <1>. DEFINE p == Slice(t, 0, b)
              q == From(t, b)
  <1>1. Len(t) \in Nat /\ Len(s) \in Nat
    BY TextFacts
  <1>2. /\ p \in Text /\ q \in Text /\ p \o q = t /\ Len(p) = b /\ Len(q) = Len(t) - b
    BY PartsFacts
  <1>3. Utf8(p) /\ Utf8(q)
    BY Utf8Parts
  <1>4. b # 0 => p[1] = t[1]
    <2>1. \A j \in 1..b : p[j] = t[j]
      BY CutFacts DEF Text
    <2>. HIDE DEF p
    <2>. QED  BY <1>1, <2>1
  <1>5. InsertStr(t, b, s) = (p \o s) \o q
    BY DEF InsertStr
  <1>. HIDE DEF p, q
  <1>6. /\ p \o s \in Text /\ Len(p \o s) = b + Len(s)
        /\ (b # 0 => (p \o s)[1] = p[1])
        /\ (b = 0 /\ Len(s) # 0 => (p \o s)[1] = s[1])
    <2>1. /\ p \o s \in Text /\ Len(p \o s) = Len(p) + Len(s)
          /\ \A i \in 1..Len(p) : (p \o s)[i] = p[i]
          /\ \A i \in 1..Len(s) : (p \o s)[Len(p) + i] = s[i]
      BY <1>2, ConcatFacts
    <2>2. b # 0 => 1 \in 1..Len(p)
      BY <1>1, <1>2
    <2>3. b = 0 /\ Len(s) # 0 => 1 \in 1..Len(s) /\ Len(p) + 1 = 1
      BY <1>1, <1>2
    <2>. QED  BY <1>2, <2>1, <2>2, <2>3
  <1>7. Utf8(p \o s)
    BY <1>2, <1>3, Utf8Concat
  <1>8. /\ (p \o s) \o q \in Text /\ Len((p \o s) \o q) = (b + Len(s)) + (Len(t) - b)
        /\ \A i \in 1..(b + Len(s)) : ((p \o s) \o q)[i] = (p \o s)[i]
    <2>. DEFINE y == p \o s
    <2>1. y \in Text /\ Len(y) = b + Len(s)
      BY <1>6
    <2>. HIDE DEF y
    <2>2. /\ y \o q \in Text /\ Len(y \o q) = Len(y) + Len(q)
          /\ \A i \in 1..Len(y) : (y \o q)[i] = y[i]
      BY <1>2, <2>1, ConcatFacts
    <2>3. /\ y \o q \in Text /\ Len(y \o q) = (b + Len(s)) + (Len(t) - b)
          /\ \A i \in 1..(b + Len(s)) : (y \o q)[i] = y[i]
      BY <1>2, <2>1, <2>2
    <2>. QED  BY <2>3 DEF y
  <1>9. Utf8((p \o s) \o q)
    BY <1>2, <1>3, <1>6, <1>7, Utf8Concat
  <1>10. s = <<>> => (p \o s) \o q = t
    <2>1. s = <<>> => p \o s = p
      BY <1>2, ConcatEmptySeq DEF Text
    <2>. QED  BY <1>2, <2>1
  <1>11. b # 0 \/ Len(s) # 0 => 1 \in 1..(b + Len(s))
    BY <1>1
  <1>12. Len(s) = 0 => s = <<>>
    BY EmptySeq DEF Text
  <1>13. (b + Len(s)) + (Len(t) - b) = Len(t) + Len(s)
    BY <1>1
  <1>. QED  BY <1>4, <1>5, <1>6, <1>8, <1>9, <1>10, <1>11, <1>12, <1>13

\* An insertion into a leaf, for every text, place between two chars and inserted text:
\* the leaf has the text asked for, whether or not it was cut in two, and the summaries
\* are right, whether they were corrected or counted.
THEOREM InsertInLeafRight ==
  ASSUME NEW t \in Text, NEW s \in Text, Utf8(t), Utf8(s), NEW b \in 0..Len(t), IsBoundary(b, t),
         NEW seam
  PROVE  LET r == InsertInLeaf(t, b, s, InfoFromStr(t), seam)
         IN  EditRight(r, InsertStr(t, b, s)) /\ r.seam = seam
  <1>. DEFINE w == InsertStr(t, b, s)
              r == InsertInLeaf(t, b, s, InfoFromStr(t), seam)
  <1>1. w \in Text /\ Utf8(w) /\ Len(w) = Len(t) + Len(s) /\ (s = <<>> => w = t)
    BY InsertStrFacts
  <1>2. CASE Len(t) + Len(s) > MAX_BYTES /\ s # <<>>
    <2>1. r = SplitInTwo(SplitNearMiddle(w), seam)
      BY <1>2 DEF InsertInLeaf, SplitLeaf, InsertStrSplit
    <2>2. w # <<>>
      <3>1. Len(t) \in Nat /\ Len(s) \in Nat \ {0}
        BY <1>2, TextFacts, EmptySeq DEF Text
      <3>2. Len(<<>>) = 0
        BY EmptySeq
      <3>. HIDE DEF w
      <3>. QED  BY <1>1, <3>1, <3>2
    <2>3. r.seam = seam
      BY <2>1 DEF SplitInTwo
    <2>. HIDE DEF w
    <2>. QED  BY <1>1, <2>1, <2>2, <2>3, SplitRight DEF w
  <1>3. CASE ~ (Len(t) + Len(s) > MAX_BYTES /\ s # <<>>)
    <2>1. r = [node |-> Leaf(w), residual |-> <<>>, seam |-> seam,
               info |-> IF s = <<>> THEN InfoFromStr(t) ELSE InsertedInfo(InfoFromStr(t), t, b, s)]
      BY <1>3 DEF InsertInLeaf
    <2>2. r.info = InfoFromStr(w)
      <3>1. CASE s = <<>>
        BY <1>1, <2>1, <3>1
      <3>2. CASE s # <<>>
        BY <2>1, <3>2, InsertedInfoRight
      <3>. QED  BY <3>1, <3>2
    <2>3. r.node = Leaf(w) /\ r.residual = <<>> /\ r.seam = seam
      BY <2>1
    <2>. HIDE DEF w, r
    <2>4. EditRight(r, w)
      BY <1>1, <2>2, <2>3 DEF EditRight
    <2>. QED  BY <2>3, <2>4 DEF w, r
  <1>. QED  BY <1>2, <1>3

\* The first byte of a text that is UTF-8.
LEMMA FirstByte ==
  ASSUME NEW t \in Text, Utf8(t), Len(t) # 0
  PROVE  t[1] # Cont
  <1>1. 0 \in 0..Len(t) /\ 0 + 1 = 1
    BY TextFacts
  <1>2. IsBoundary(0, t)
    BY <1>1, BreakIsBoundary
  <1>. QED  BY <1>1, <1>2 DEF IsBoundary

\* A text after an LF that it starts with.
LEMMA WithoutLf ==
  ASSUME NEW s \in Text, Utf8(s), Len(s) # 0, s[1] = LF
  PROVE  Tail(s) \in Text /\ Utf8(Tail(s))
  <1>1. Len(s) \in Nat \ {0} /\ 1 \in 0..Len(s)
    BY TextFacts
  <1>2. Len(<<>>) = 0
    BY EmptySeq
  <1>3. Tail(s) = From(s, 1)
    BY <1>2, TailIsSubSeq DEF Text, From, Slice
  <1>4. IsBoundary(1, s)
    <2>1. SUFFICES ASSUME 1 # Len(s), s[2] = Cont PROVE FALSE
      BY DEF IsBoundary
    <2>2. 2 \in 1..Len(s)
      BY SMTT(60), <1>1, <2>1
    <2>3. PICK k \in 1..3 : 2 - k \in 1..Len(s) /\ k <= Following(s[2 - k])
      BY <2>1, <2>2 DEF Utf8
    <2>4. k = 1
      BY <2>3
    <2>5. Following(s[1]) = 0
      BY DEF Following, LF, Lead2, Lead4
    <2>. QED  BY <2>3, <2>4, <2>5
  <1>5. Utf8(From(s, 1))
    BY <1>1, <1>4, Utf8Parts
  <1>. QED  BY ZenonT(60), <1>1, <1>3, <1>5, PartsFacts

\* An edit leaves the first byte of the text first.
LEMMA EditFirst ==
  ASSUME NEW r, NEW w \in Text, Len(w) # 0, EditRight(r, w)
  PROVE  r.node.text \in Text /\ Len(r.node.text) # 0 /\ r.node.text[1] = w[1] /\ Utf8(r.node.text)
  <1>1. PICK l \in Text :
          /\ r.node = Leaf(l) /\ r.info = InfoFromStr(l) /\ Utf8(l)
          /\ \/ r.residual = <<>> /\ l = w
             \/ \E u \in Text :
                  /\ r.residual = << Child(Leaf(u)) >> /\ l \o u = w /\ Utf8(u)
                  /\ Len(l) # 0 /\ Len(u) # 0 /\ SeamIsBreak(l, u)
    BY DEF EditRight
  <1>2. r.node.text = l
    BY <1>1 DEF Leaf
  <1>3. Len(l) # 0 /\ l[1] = w[1]
    <2>1. CASE r.residual = <<>> /\ l = w
      BY <2>1
    <2>2. ASSUME NEW u \in Text, l \o u = w, Len(l) # 0 PROVE l[1] = w[1]
      <3>1. 1 \in 1..Len(l)
        BY <2>2, TextFacts
      <3>. QED  BY <2>2, <3>1, ConcatFacts
    <2>. QED  BY <1>1, <2>1, <2>2
  <1>. QED  BY <1>1, <1>2, <1>3

\* insert_internal's first closure, for every leaf and text.  If the LF that the text
\* starts with could make a CRLF with the chunk before, it is left for that chunk; at
\* all other times the text goes in whole.  Either way, a seam with the chunk before
\* that was in no CRLF is in none after.
THEOREM EditLeafTextRight ==
  ASSUME NEW t \in Text, Utf8(t), Len(t) # 0, NEW text \in Text, Utf8(text), Len(text) # 0,
         NEW idx \in Nat, NEW atStart \in BOOLEAN
  PROVE  LET r == EditLeafText(t, idx, InfoFromStr(t), TextEdit(text, atStart))
         IN  /\ r.seam \in BOOLEAN
             /\ EditRight(r, IF r.seam THEN InsertStr(t, 0, Tail(text))
                             ELSE InsertStr(t, CharToByteIdx(t, idx), text))
             /\ r.seam => idx = 0 /\ ~ atStart /\ text[1] = LF
             /\ \A l \in Text : ~ atStart /\ Len(l) # 0 /\ SeamIsBreak(l, t) =>
                  SeamIsBreak(IF r.seam THEN Append(l, LF) ELSE l, r.node.text)
  <1>. DEFINE e == TextEdit(text, atStart)
              b == CharToByteIdx(t, idx)
              r == EditLeafText(t, idx, InfoFromStr(t), e)
  <1>1. Len(t) \in Nat \ {0} /\ Len(text) \in Nat \ {0} /\ 0 \in 0..Len(t)
    BY TextFacts
  <1>2. StripsSeam(e, idx) <=> idx = 0 /\ ~ atStart /\ text[1] = LF
    BY DEF StripsSeam, TextEdit
  <1>3. e.text = text
    BY DEF TextEdit
  <1>4. t[1] # Cont /\ text[1] # Cont
    BY FirstByte
  <1>5. CASE StripsSeam(e, idx)
    <2>. DEFINE s == Tail(text)
                w == InsertStr(t, 0, s)
    <2>1. r = InsertInLeaf(t, 0, s, InfoFromStr(t), TRUE)
      BY <1>3, <1>5 DEF EditLeafText
    <2>2. s \in Text /\ Utf8(s)
      BY <1>2, <1>5, WithoutLf
    <2>3. IsBoundary(0, t)
      BY <1>1, BreakIsBoundary
    <2>. HIDE DEF e, s, r
    <2>4. EditRight(r, w) /\ r.seam = TRUE
      BY ZenonT(60), <1>1, <2>1, <2>2, <2>3, InsertInLeafRight
    <2>5. w \in Text /\ Utf8(w) /\ Len(w) = Len(t) + Len(s)
      BY <1>1, <2>2, <2>3, InsertStrFacts
    <2>6. Len(w) # 0
      <3>1. Len(s) \in Nat
        BY <2>2, TextFacts
      <3>. QED  BY <1>1, <2>5, <3>1
    <2>. HIDE DEF w
    <2>7. r.node.text[1] = w[1] /\ w[1] # Cont
      BY <2>4, <2>5, <2>6, EditFirst, FirstByte
    <2>8. ASSUME NEW l \in Text PROVE SeamIsBreak(Append(l, LF), r.node.text)
      <3>1. Append(l, LF)[Len(Append(l, LF))] = LF
        BY AppendProperties DEF Text, Byte
      <3>2. LF # CR
        BY DEF LF, CR
      <3>. QED  BY <2>7, <3>1, <3>2 DEF SeamIsBreak, CutAllowed
    <2>. QED  BY <1>2, <1>5, <2>4, <2>8 DEF e, r, s, w
  <1>6. CASE ~ StripsSeam(e, idx)
    <2>. DEFINE w == InsertStr(t, b, text)
    <2>1. r = InsertInLeaf(t, b, text, InfoFromStr(t), FALSE)
      BY <1>3, <1>6 DEF EditLeafText
    <2>2. b \in 0..Len(t) /\ IsBoundary(b, t)
      BY CharToByte
    <2>3. b = 0 => idx = 0
      <3>1. SUFFICES ASSUME b = 0 PROVE idx = 0
        OBVIOUS
      <3>2. /\ InfoFromStr(Slice(t, 0, b)).chars = Min2(idx, InfoFromStr(t).chars)
            /\ b = Len(t) <=> idx >= InfoFromStr(t).chars
        BY CharToByte
      <3>3. InfoFromStr(Slice(t, 0, 0)).chars = 0
        BY <1>1, CharsBeforeFacts
      <3>4. InfoFromStr(t).chars \in Nat
        BY InfoTyped
      <3>5. ~ (idx >= InfoFromStr(t).chars)
        BY <1>1, <3>1, <3>2
      <3>6. Min2(idx, InfoFromStr(t).chars) = idx
        BY <3>4, <3>5 DEF Min2
      <3>. QED  BY <3>1, <3>2, <3>3, <3>6
    <2>. HIDE DEF e, b, r
    <2>4. EditRight(r, w) /\ r.seam = FALSE
      <3>. DEFINE x == InsertInLeaf(t, b, text, InfoFromStr(t), FALSE)
      <3>1. EditRight(x, w) /\ x.seam = FALSE
        BY ZenonT(60), <2>2, InsertInLeafRight
      <3>. HIDE DEF x, w
      <3>2. r = x
        BY <2>1 DEF x
      <3>. QED  BY <3>1, <3>2
    <2>5. /\ w \in Text /\ Len(w) = Len(t) + Len(text)
          /\ (b # 0 => w[1] = t[1]) /\ (b = 0 => w[1] = text[1])
      BY <1>1, <2>2, InsertStrFacts
    <2>6. Len(w) # 0
      BY <1>1, <2>5
    <2>. HIDE DEF w
    <2>7. r.node.text[1] = w[1]
      BY <2>4, <2>5, <2>6, EditFirst
    <2>8. ASSUME NEW l \in Text, ~ atStart, Len(l) # 0, SeamIsBreak(l, t)
          PROVE  SeamIsBreak(l, r.node.text)
      <3>1. CASE b # 0
        BY <2>5, <2>7, <2>8, <3>1 DEF SeamIsBreak
      <3>2. CASE b = 0
        <4>1. text[1] # LF
          BY <1>2, <1>6, <2>3, <2>8, <3>2
        <4>. QED  BY <1>4, <2>5, <2>7, <3>2, <4>1 DEF SeamIsBreak, CutAllowed
      <3>. QED  BY <3>1, <3>2
    <2>. QED  BY <2>4, <2>8 DEF e, b, r, w
  <1>. QED  BY <1>5, <1>6

\* insert_internal's second closure, for every leaf: the LF that was left for it is
\* pushed onto it, and it is cut in two when it is full.
THEOREM EditLeafLfRight ==
  ASSUME NEW t \in Text, Utf8(t), Len(t) # 0, NEW left \in Text
  PROVE  LET r == EditLeafLf(t, InfoFromStr(t), LfEdit(left))
         IN  EditRight(r, Append(t, LF)) /\ r.seam = FALSE
  <1>. DEFINE r == EditLeafLf(t, InfoFromStr(t), LfEdit(left))
              w == Append(t, LF)
              s == <<LF>>
  <1>1. s \in Text /\ Len(s) = 1 /\ s[1] = LF
    BY DEF Text, Byte
  <1>2. w = t \o s
    BY AppendIsConcat DEF Text, Byte
  <1>3. Utf8(s)
    <2>1. Following(LF) = 0 /\ LF # Cont
      BY DEF Following, LF, Lead2, Lead4, Cont
    <2>. HIDE DEF s
    <2>. QED  BY <1>1, <2>1 DEF Utf8
  <1>4. Len(t) \in Nat \ {0} /\ Len(t) \in 0..Len(t) /\ IsBoundary(Len(t), t)
    BY TextFacts DEF IsBoundary
  <1>5. t # <<>> /\ Len(<<>>) = 0
    BY EmptySeq
  <1>6. InsertStr(t, Len(t), s) = w
    <2>1. Slice(t, 0, Len(t)) = t
      BY SubSeqFull DEF Slice, Text
    <2>2. From(t, Len(t)) \in Text /\ Len(From(t, Len(t))) = 0
      BY <1>4, PartsFacts
    <2>3. From(t, Len(t)) = <<>>
      BY <2>2, EmptySeq DEF Text
    <2>4. w \in Text
      BY <1>1, <1>2, ConcatFacts
    <2>. HIDE DEF w, s
    <2>5. InsertStr(t, Len(t), s) = (t \o s) \o <<>>
      BY <2>1, <2>3 DEF InsertStr
    <2>. QED  BY <1>2, <2>4, <2>5, ConcatEmptySeq DEF Text
  <1>7. w \in Text /\ Utf8(w) /\ Len(w) # 0
    <2>1. w \in Text /\ Len(w) = Len(t) + 1
      BY <1>1, <1>2, ConcatFacts
    <2>2. Utf8(w)
      BY <1>1, <1>2, <1>3, Utf8Concat
    <2>. HIDE DEF w
    <2>. QED  BY <1>4, <2>1, <2>2
  <1>8. CASE Len(t) + Len(left) <= MAX_BYTES
    <2>1. /\ r.node = Leaf(w) /\ r.info = PushedLfInfo(InfoFromStr(t), t)
          /\ r.residual = <<>> /\ r.seam = FALSE
      BY <1>8 DEF EditLeafLf, LfEdit
    <2>2. r.info = InfoFromStr(w)
      BY <1>5, <2>1, PushedLfInfoRight
    <2>. HIDE DEF w, r
    <2>3. EditRight(r, w)
      BY <1>7, <2>1, <2>2 DEF EditRight
    <2>. QED  BY <2>1, <2>3 DEF w, r
  <1>9. CASE ~ (Len(t) + Len(left) <= MAX_BYTES)
    <2>1. r = SplitInTwo(SplitNearMiddle(w), FALSE)
      BY <1>6, <1>9 DEF EditLeafLf, LfEdit, SplitLeaf, InsertStrSplit
    <2>2. r.seam = FALSE
      BY <2>1 DEF SplitInTwo
    <2>. HIDE DEF w
    <2>3. EditRight(SplitInTwo(SplitNearMiddle(w), FALSE), w)
      BY <1>5, <1>7, SplitRight
    <2>. QED  BY <2>1, <2>2, <2>3 DEF w
  <1>. QED  BY <1>8, <1>9

\* How large the parts of a text are that was cut in two.
LEMMA HalvesSize ==
  ASSUME NEW w \in Text, Utf8(w), Len(w) < 2 * MAX_BYTES
  PROVE  LET h == SplitNearMiddle(w)
         IN  Len(h[1]) < MAX_BYTES + 4 /\ Len(h[2]) < MAX_BYTES + 4
  <1>. DEFINE h == SplitNearMiddle(w)
              mid == Len(w) \div 2
              cut == Len(h[1])
  <1>1. /\ h[1] \in Text /\ h[2] \in Text /\ h[1] \o h[2] = w
        /\ Len(w) >= 8 => Distance(mid, cut) <= 3
    BY SplitInHalf
  <1>2. MAX_BYTES \in Nat /\ MAX_BYTES >= 5
    BY LeafBoundsAssumption
  <1>3. Len(w) \in Nat /\ mid \in Nat /\ 2 * mid <= Len(w) /\ Len(w) <= 2 * mid + 1
    BY TextFacts
  <1>. HIDE DEF h, mid
  <1>4. cut \in Nat /\ Len(h[2]) \in Nat /\ cut + Len(h[2]) = Len(w)
    BY <1>1, TextFacts, ConcatFacts
  <1>. HIDE DEF cut
  <1>. SUFFICES cut < MAX_BYTES + 4 /\ Len(h[2]) < MAX_BYTES + 4
    BY DEF h, cut
  <1>5. CASE Len(w) < 8
    BY <1>2, <1>3, <1>4, <1>5
  <1>6. CASE Len(w) >= 8
    <2>1. cut <= mid + 3 /\ mid <= cut + 3
      BY <1>1, <1>3, <1>4, <1>6 DEF Distance
    <2>2. mid < MAX_BYTES
      BY <1>2, <1>3
    <2>. QED  BY <1>2, <1>3, <1>4, <2>1, <2>2
  <1>7. Len(w) < 8 \/ Len(w) >= 8
    BY <1>3
  <1>. QED  BY <1>5, <1>6, <1>7

\* A leaf holds less than a char more than it should, and no edit makes more of it, as
\* long as what is inserted at a time is small: insert cuts large texts in pieces.
NotOverfull(t) == Len(t) < MAX_BYTES + 4

THEOREM OverfillBounded ==
  ASSUME NEW t \in Text, Utf8(t), NotOverfull(t), NEW s \in Text, Utf8(s),
         NEW b \in 0..Len(t), IsBoundary(b, t), NEW seam, Len(t) + Len(s) < 2 * MAX_BYTES
  PROVE  LET r == InsertInLeaf(t, b, s, InfoFromStr(t), seam)
         IN  /\ NotOverfull(r.node.text)
             /\ r.residual # <<>> => NotOverfull(r.residual[1].node.text)
  <1>. DEFINE w == InsertStr(t, b, s)
              r == InsertInLeaf(t, b, s, InfoFromStr(t), seam)
              h == SplitNearMiddle(w)
  <1>1. w \in Text /\ Utf8(w) /\ Len(w) = Len(t) + Len(s) /\ (s = <<>> => w = t)
    BY InsertStrFacts
  <1>2. Len(t) \in Nat /\ Len(s) \in Nat /\ MAX_BYTES \in Nat
    BY TextFacts, LeafBoundsAssumption
  <1>3. CASE Len(t) + Len(s) > MAX_BYTES /\ s # <<>>
    <2>1. r = SplitInTwo(h, seam)
      BY <1>3 DEF InsertInLeaf, SplitLeaf, InsertStrSplit
    <2>2. r.node.text = h[1] /\ (r.residual # <<>> => r.residual[1].node.text = h[2])
      BY <2>1 DEF SplitInTwo, Leaf, Child
    <2>3. Len(h[1]) < MAX_BYTES + 4 /\ Len(h[2]) < MAX_BYTES + 4
      <3>1. w \in Text /\ Utf8(w) /\ Len(w) < 2 * MAX_BYTES
        BY <1>1
      <3>. HIDE DEF w
      <3>. QED  BY <3>1, HalvesSize
    <2>. HIDE DEF h, r
    <2>. QED  BY <2>2, <2>3 DEF NotOverfull, r
  <1>4. CASE ~ (Len(t) + Len(s) > MAX_BYTES /\ s # <<>>)
    <2>1. r = [node |-> Leaf(w), residual |-> <<>>, seam |-> seam,
               info |-> IF s = <<>> THEN InfoFromStr(t) ELSE InsertedInfo(InfoFromStr(t), t, b, s)]
      BY <1>4 DEF InsertInLeaf
    <2>2. r.node.text = w /\ r.residual = <<>>
      BY <2>1 DEF Leaf
    <2>3. NotOverfull(w)
      <3>1. CASE s = <<>>
        BY <1>1, <3>1
      <3>2. CASE s # <<>>
        <4>. HIDE DEF w
        <4>. QED  BY <1>1, <1>2, <1>4, <3>2 DEF NotOverfull
      <3>. QED  BY <3>1, <3>2
    <2>. HIDE DEF w, r
    <2>. QED  BY <2>2, <2>3 DEF r
  <1>. QED  BY <1>3, <1>4

-----------------------------------------------------------------------------
(* Removals *)

LEMMA InfoOfNothing == InfoFromStr(<<>>) = InfoNew
  <1>1. Len(<<>>) = 0 /\ <<>> \in Text
    BY EmptySeq DEF Text
  <1>2. DOMAIN <<>> = {}
    BY <1>1, TextFacts
  <1>3. Cardinality({}) = 0
    BY FS_EmptySet
  <1>4. /\ {i \in DOMAIN <<>> : <<>>[i] # Cont} = {}
        /\ {i \in DOMAIN <<>> : <<>>[i] = Lead4} = {}
        /\ {i \in DOMAIN <<>> : IsLineBreak(<<>>, i)} = {}
    BY <1>2
  <1>. QED  BY <1>1, <1>3, <1>4 DEF InfoFromStr, InfoNew

\* Where the chars s to e of a leaf's text are.
CharRangeOf(t, s, e, a, b) ==
  /\ a \in 0..Len(t) /\ b \in 0..Len(t) /\ a < b
  /\ IsBoundary(a, t) /\ IsBoundary(b, t)
  /\ InfoFromStr(Slice(t, 0, a)).chars = s /\ InfoFromStr(Slice(t, a, b)).chars = e - s

\* The byte range that remove_char_range finds, from two searches of the leaf.
LEMMA CharRangeFound ==
  ASSUME NEW t \in Text, Utf8(t), NEW s \in Nat, NEW e \in Nat, s < e, e <= InfoFromStr(t).chars
  PROVE  LET a == CharToByteIdx(t, s)
         IN  CharRangeOf(t, s, e, a, a + CharToByteIdx(From(t, a), e - s))
  <1>. DEFINE a == CharToByteIdx(t, s)
              f == From(t, a)
              k == CharToByteIdx(f, e - s)
              b == a + k
  <1>1. InfoFromStr(t).chars \in Nat /\ Len(t) \in Nat
    BY InfoTyped, TextFacts
  <1>2. /\ a \in 0..Len(t) /\ IsBoundary(a, t)
        /\ InfoFromStr(Slice(t, 0, a)).chars = Min2(s, InfoFromStr(t).chars)
    BY CharToByte
  <1>3. InfoFromStr(Slice(t, 0, a)).chars = s
    <2>1. Min2(s, InfoFromStr(t).chars) = s
      BY <1>1 DEF Min2
    <2>. QED  BY <1>2, <2>1
  <1>. HIDE DEF a
  <1>4. /\ Slice(t, 0, a) \in Text /\ f \in Text /\ Slice(t, 0, a) \o f = t /\ Len(f) = Len(t) - a
    BY <1>2, PartsFacts
  <1>5. \A j \in 1..(Len(t) - a) : f[j] = t[a + j]
    BY <1>2, CutFacts DEF Text
  <1>. HIDE DEF f
  <1>6. InfoFromStr(t).chars = s + InfoFromStr(f).chars /\ InfoFromStr(f).chars \in Nat
    <2>. DEFINE p == Slice(t, 0, a)
                n == IF Joins(p, f) THEN -1 ELSE 0
    <2>1. /\ InfoFromStr(p \o f) = AddBreaks(InfoAdd(InfoFromStr(p), InfoFromStr(f)), n)
      BY <1>4, InfoOfConcat
    <2>2. InfoFromStr(p) \in TextInfo /\ InfoFromStr(f) \in TextInfo /\ InfoFromStr(f).chars \in Nat
      BY <1>4, InfoTyped
    <2>3. n \in Int
      OBVIOUS
    <2>. HIDE DEF n, p
    <2>4. AddBreaks(InfoAdd(InfoFromStr(p), InfoFromStr(f)), n).chars
            = InfoFromStr(p).chars + InfoFromStr(f).chars
      <3>. DEFINE x == InfoFromStr(p)
                  y == InfoFromStr(f)
      <3>1. x \in TextInfo /\ y \in TextInfo
        BY <2>2
      <3>. HIDE DEF x, y
      <3>2. AddBreaks(InfoAdd(x, y), n) =
              [bytes |-> x.bytes + y.bytes, chars |-> x.chars + y.chars,
               utf16 |-> x.utf16 + y.utf16,
               line_breaks |-> (x.line_breaks + y.line_breaks) + n]
        BY <2>3, <3>1, SumForm
      <3>3. AddBreaks(InfoAdd(x, y), n).chars = x.chars + y.chars
        BY <3>2
      <3>. QED  BY <3>3 DEF x, y
    <2>. QED  BY <1>3, <1>4, <2>1, <2>2, <2>4 DEF p
  <1>7. e - s \in Nat /\ e - s # 0 /\ e - s <= InfoFromStr(f).chars
    BY <1>1, <1>6
  <1>8. /\ k \in 0..Len(f) /\ IsBoundary(k, f)
        /\ InfoFromStr(Slice(f, 0, k)).chars = Min2(e - s, InfoFromStr(f).chars)
    BY <1>4, <1>7, CharToByte
  <1>. HIDE DEF k
  <1>9. InfoFromStr(Slice(f, 0, k)).chars = e - s
    <2>1. Min2(e - s, InfoFromStr(f).chars) = e - s
      BY <1>6, <1>7 DEF Min2
    <2>. QED  BY <1>8, <2>1
  <1>10. k # 0
    <2>1. InfoFromStr(Slice(f, 0, 0)).chars = 0
      <3>1. 0 \in 0..Len(f)
        BY <1>1, <1>2, <1>4
      <3>. QED  BY <1>4, <3>1, CharsBeforeFacts
    <2>. QED  BY <1>7, <1>9, <2>1
  <1>11. b \in a..Len(t) /\ b \in 0..Len(t) /\ a < b /\ b - a = k
    BY <1>1, <1>2, <1>4, <1>8, <1>10
  <1>12. Slice(f, 0, k) = Slice(t, a, b)
    <2>. HIDE DEF b
    <2>. QED  BY <1>2, <1>11, ThreeParts DEF f
  <1>13. IsBoundary(b, t)
    <2>1. CASE k = Len(f)
      BY <1>1, <1>2, <1>4, <2>1 DEF IsBoundary
    <2>2. CASE k # Len(f)
      <3>1. f[k + 1] # Cont
        BY <1>8, <2>2 DEF IsBoundary
      <3>2. k + 1 \in 1..(Len(t) - a) /\ a + (k + 1) = b + 1
        <4>1. a \in Nat /\ k \in Nat /\ k <= Len(t) - a /\ k # Len(t) - a
          BY <1>1, <1>2, <1>4, <1>8, <2>2
        <4>. QED  BY <1>1, <4>1
      <3>3. t[b + 1] # Cont
        BY <1>5, <3>1, <3>2
      <3>. QED  BY <3>3 DEF IsBoundary
    <2>. QED  BY <2>1, <2>2
  <1>. HIDE DEF b
  <1>14. CharRangeOf(t, s, e, a, b)
    BY <1>2, <1>3, <1>9, <1>11, <1>12, <1>13 DEF CharRangeOf
  <1>. QED  BY <1>14 DEF a, b, k, f

\* What a text is without its bytes a to b.
LEMMA RemoveRangeFacts ==
  ASSUME NEW t \in Text, Utf8(t), NEW a \in 0..Len(t), NEW b \in 0..Len(t), a < b,
         IsBoundary(a, t), IsBoundary(b, t)
  PROVE  LET w == RemoveRange(t, a, b)
         IN  /\ w \in Text /\ Utf8(w) /\ Len(w) = Len(t) - (b - a)
             /\ a # 0 => w[1] = t[1]
             /\ a = 0 /\ b # Len(t) => w[1] = t[b + 1]
             /\ b # Len(t) => w[Len(w)] = t[Len(t)]
             /\ b = Len(t) /\ a # 0 => w[Len(w)] = t[a]
  <1>. DEFINE p == Slice(t, 0, a)
              q == From(t, b)
              w == RemoveRange(t, a, b)
  <1>1. Len(t) \in Nat
    BY TextFacts
  <1>2. /\ p \in Text /\ Len(p) = a /\ \A j \in 1..a : p[j] = t[j]
        /\ q \in Text /\ Len(q) = Len(t) - b /\ \A j \in 1..(Len(t) - b) : q[j] = t[b + j]
    BY CutFacts DEF Text
  <1>3. Utf8(p) /\ Utf8(q)
    BY Utf8Parts
  <1>4. w = p \o q
    BY DEF RemoveRange
  <1>. HIDE DEF p, q, w
  <1>5. /\ w \in Text /\ Len(w) = a + (Len(t) - b) /\ \A i \in 1..a : w[i] = p[i]
        /\ \A i \in 1..(Len(t) - b) : w[a + i] = q[i]
    <2>1. /\ p \o q \in Text /\ Len(p \o q) = Len(p) + Len(q)
          /\ \A i \in 1..Len(p) : (p \o q)[i] = p[i]
          /\ \A i \in 1..Len(q) : (p \o q)[Len(p) + i] = q[i]
      BY <1>2, ConcatFacts
    <2>. QED  BY <1>2, <1>4, <2>1
  <1>6. Utf8(w)
    BY <1>2, <1>3, <1>4, Utf8Concat
  <1>7. Len(w) = Len(t) - (b - a)
    BY <1>1, <1>5
  <1>8. a # 0 => w[1] = t[1]
    <2>1. a # 0 => 1 \in 1..a
      BY <1>1
    <2>. QED  BY <1>2, <1>5, <2>1
  <1>9. a = 0 /\ b # Len(t) => w[1] = t[b + 1]
    <2>1. b # Len(t) => 1 \in 1..(Len(t) - b)
      BY <1>1
    <2>2. a = 0 => a + 1 = 1
      OBVIOUS
    <2>. QED  BY <1>2, <1>5, <2>1, <2>2
  <1>10. b # Len(t) => w[Len(w)] = t[Len(t)]
    <2>1. b # Len(t) => /\ Len(t) - b \in 1..(Len(t) - b) /\ a + (Len(t) - b) = Len(w)
                        /\ b + (Len(t) - b) = Len(t)
      BY <1>1, <1>5
    <2>2. b # Len(t) => w[a + (Len(t) - b)] = q[Len(t) - b]
      BY <1>5, <2>1
    <2>3. b # Len(t) => q[Len(t) - b] = t[b + (Len(t) - b)]
      BY <1>2, <2>1
    <2>. QED  BY <2>1, <2>2, <2>3
  <1>11. b = Len(t) /\ a # 0 => w[Len(w)] = t[a]
    <2>1. b = Len(t) /\ a # 0 => a \in 1..a /\ Len(w) = a
      BY <1>1, <1>5
    <2>. QED  BY <1>2, <1>5, <2>1
  <1>. QED  BY <1>5, <1>6, <1>7, <1>8, <1>9, <1>10, <1>11 DEF w

\* remove_char_range on a leaf, for every text and range of chars in it: just those
\* chars go, the summary is right, and unless it says that the seams must be looked at,
\* something is left and neither seam of the leaf with a neighbour is in a CRLF if it
\* was in none before.
THEOREM RemoveFromLeafRight ==
  ASSUME NEW t \in Text, Utf8(t), NEW s \in Nat, NEW e \in Nat, s < e, e <= InfoFromStr(t).chars
  PROVE  LET r == RemoveFromLeaf(t, s, e, InfoFromStr(t))
         IN  \E a, b \in 0..Len(t) :
               LET w == RemoveRange(t, a, b)
               IN  /\ CharRangeOf(t, s, e, a, b)
                   /\ r.node = Leaf(w) /\ w \in Text /\ Utf8(w)
                   /\ r.info = InfoFromStr(w) /\ r.fix = FALSE
                   /\ ~ r.seam =>
                        /\ Len(w) # 0
                        /\ \A x \in Text : Len(x) # 0 =>
                             /\ SeamIsBreak(x, t) => SeamIsBreak(x, w)
                             /\ SeamIsBreak(t, x) => SeamIsBreak(w, x)
  <1>. DEFINE a == CharToByteIdx(t, s)
              b == a + CharToByteIdx(From(t, a), e - s)
              w == RemoveRange(t, a, b)
              r == RemoveFromLeaf(t, s, e, InfoFromStr(t))
  <1>1. CharRangeOf(t, s, e, a, b)
    BY CharRangeFound
  <1>2. r = RemoveBytes(t, a, b, InfoFromStr(t))
    BY DEF RemoveFromLeaf, RemoveCharsFrom
  <1>. HIDE DEF a, b, r
  <1>3. a \in 0..Len(t) /\ b \in 0..Len(t) /\ a < b /\ IsBoundary(a, t) /\ IsBoundary(b, t)
    BY <1>1 DEF CharRangeOf
  <1>4. /\ w \in Text /\ Utf8(w) /\ Len(w) = Len(t) - (b - a)
        /\ a # 0 => w[1] = t[1]
        /\ a = 0 /\ b # Len(t) => w[1] = t[b + 1]
        /\ b # Len(t) => w[Len(w)] = t[Len(t)]
        /\ b = Len(t) /\ a # 0 => w[Len(w)] = t[a]
    BY <1>3, RemoveRangeFacts
  <1>5. Len(t) \in Nat
    BY TextFacts
  <1>. DEFINE seam == (a = 0 /\ t[b + 1] = LF) \/ (b = Len(t) /\ t[a] = CR)
  <1>6. CASE a > 0 \/ b < Len(t)
    <2>1. r = [node |-> Leaf(w), info |-> RemovedInfo(InfoFromStr(t), t, a, b),
               seam |-> seam, fix |-> FALSE]
      BY <1>2, <1>6 DEF RemoveBytes
    <2>2. r.node = Leaf(w) /\ r.info = RemovedInfo(InfoFromStr(t), t, a, b) /\ r.fix = FALSE
          /\ r.seam = seam
      BY <2>1
    <2>3. RemovedInfo(InfoFromStr(t), t, a, b) = InfoFromStr(w)
      <3>1. b \in a..Len(t) /\ a # b
        BY <1>3, <1>5
      <3>. QED  BY <1>3, <3>1, RemovedInfoRight
    <2>. HIDE DEF w
    <2>4. Len(w) # 0
      BY <1>3, <1>4, <1>5, <1>6
    <2>5. ASSUME ~ seam, NEW x \in Text, Len(x) # 0, SeamIsBreak(x, t) PROVE SeamIsBreak(x, w)
      <3>1. CASE a # 0
        BY <1>4, <2>5, <3>1 DEF SeamIsBreak
      <3>2. CASE a = 0
        <4>1. b # Len(t)
          BY <1>3, <1>5, <1>6, <3>2
        <4>2. t[b + 1] # Cont /\ t[b + 1] # LF
          BY <1>3, <2>5, <3>2, <4>1 DEF IsBoundary
        <4>. QED  BY <1>4, <3>2, <4>1, <4>2 DEF SeamIsBreak, CutAllowed
      <3>. QED  BY <3>1, <3>2
    <2>6. ASSUME ~ seam, NEW x \in Text, Len(x) # 0, SeamIsBreak(t, x) PROVE SeamIsBreak(w, x)
      <3>1. CASE b # Len(t)
        BY <1>4, <2>6, <3>1 DEF SeamIsBreak
      <3>2. CASE b = Len(t)
        <4>1. a # 0
          BY <1>3, <1>5, <1>6, <3>2
        <4>2. t[a] # CR
          BY <2>6, <3>2
        <4>. QED  BY <1>4, <2>6, <3>2, <4>1, <4>2 DEF SeamIsBreak, CutAllowed
      <3>. QED  BY <3>1, <3>2
    <2>. HIDE DEF seam
    <2>. QED  BY <1>1, <1>3, <1>4, <2>2, <2>3, <2>4, <2>5, <2>6 DEF r, w
  <1>7. CASE ~ (a > 0 \/ b < Len(t))
    <2>1. r = [node |-> EmptyNode, info |-> InfoNew, seam |-> TRUE, fix |-> FALSE]
      BY <1>2, <1>7 DEF RemoveBytes
    <2>2. r.node = Leaf(<<>>) /\ r.info = InfoNew /\ r.fix = FALSE /\ r.seam = TRUE
      BY <2>1 DEF EmptyNode
    <2>3. w = <<>>
      <3>1. Len(w) = 0
        <4>. HIDE DEF w
        <4>. QED  BY <1>3, <1>4, <1>5, <1>7
      <3>. HIDE DEF w
      <3>. QED  BY <1>4, <3>1, EmptySeq DEF Text
    <2>4. InfoFromStr(w) = InfoNew
      BY <2>3, InfoOfNothing
    <2>. HIDE DEF w
    <2>. QED  BY <1>1, <1>3, <1>4, <2>2, <2>3, <2>4 DEF r, w
  <1>. QED  BY <1>6, <1>7
=============================================================================
