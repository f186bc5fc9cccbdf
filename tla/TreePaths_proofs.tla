--------------------------- MODULE TreePaths_proofs ---------------------------
(***************************************************************************)
(* Whole trees, of any height: what an operation makes of a sound tree is  *)
(* a sound tree of the text that the operation should leave.               *)
(***************************************************************************)
EXTENDS TreePaths, NodeChildren_proofs

-----------------------------------------------------------------------------
(* Sound trees.  A set of trees is a set of pairs, a node and its text.    *)

IsText(t) == t \in Text /\ Utf8(t)

\* Leaves: any text that is not empty, and not much larger than a leaf should be.
LeafLevel == {<<Leaf(t), t>> : t \in {t \in Text : Utf8(t) /\ Len(t) # 0 /\ NotOverfull(t)}}

\* The children that the trees of X can be, with the summaries the nodes keep of them.
Kids(X) == {Child(x[1]) : x \in X}

\* Where in the text t its parts for the children c begin and end: not in a code point,
\* and not in a CRLF.
Marks(p, c, t) ==
  /\ p \in [0..Len(c) -> 0..Len(t)]
  /\ p[0] = 0 /\ p[Len(c)] = Len(t)
  /\ \A i, j \in 0..Len(c) : i <= j => p[i] <= p[j]
  /\ \A i \in 0..Len(c) : IsBreak(p[i], t)

\* The children c, of the set X, have the text t between them.
Spells(X, c, t) ==
  \E p : /\ Marks(p, c, t)
         /\ \A i \in 1..Len(c) : <<c[i].node, Slice(t, p[i - 1], p[i])>> \in X

Row(X, c, t) == c \in Seq(Kids(X)) /\ IsText(t) /\ Spells(X, c, t)

Arrays(X) ==
  {row \in Seq(Kids(X)) \X Text :
     Row(X, row[1], row[2]) /\ Len(row[1]) \in 1..MAX_CHILDREN}

\* The internal nodes whose children are in X.
Above(X) == {<<Internal(row[1]), row[2]>> : row \in Arrays(X)}

\* The sound trees of height h.
Level[h \in Nat] == IF h = 0 THEN LeafLevel ELSE Above(Level[h - 1])

\* What every level has: texts that are not empty, and a summary of each node, which
\* for an internal node is the sum of those kept, that is the one of its text.
Sound(X) ==
  \A n, t : <<n, t>> \in X => IsText(t) /\ Len(t) # 0 /\ NodeInfo(n) = InfoFromStr(t)

IsPairs(X) == \A x \in X : x = <<x[1], x[2]>>

-----------------------------------------------------------------------------
(* The levels exist *)

\* f has the levels up to k.
LevelsTo(f, k) == f = [j \in 0..k |-> IF j = 0 THEN LeafLevel ELSE Above(f[j - 1])]

LEMMA LevelsExist ==
  ASSUME NEW h \in Nat
  PROVE  \E f : LevelsTo(f, h)
  <1>. DEFINE T == {k \in Nat : \E f : LevelsTo(f, k)}
  <1>1. 0 \in T
    <2>. DEFINE f == [j \in 0..0 |-> LeafLevel]
    <2>1. f = [j \in 0..0 |-> IF j = 0 THEN LeafLevel ELSE Above(f[j - 1])]
      OBVIOUS
    <2>. QED  BY <2>1 DEF LevelsTo
  <1>2. ASSUME NEW k \in Nat, k \in T PROVE k + 1 \in T
    <2>1. PICK f : LevelsTo(f, k)
      BY <1>2
    <2>. DEFINE b == Above(f[k])
                g == [j \in 0..(k + 1) |-> IF j = k + 1 THEN b ELSE f[j]]
    <2>2. ASSUME NEW j \in 0..(k + 1)
          PROVE  g[j] = IF j = 0 THEN LeafLevel ELSE Above(g[j - 1])
      <3>1. CASE j = k + 1
        <4>1. g[j] = b /\ g[j - 1] = f[k] /\ j # 0
          BY <3>1
        <4>. QED  BY <4>1
      <3>2. CASE j # k + 1
        <4>1. j \in 0..k /\ g[j] = f[j]
          BY <3>2
        <4>2. CASE j = 0
          BY <2>1, <4>1, <4>2 DEF LevelsTo
        <4>3. CASE j # 0
          <5>1. j - 1 \in 0..(k + 1) /\ j - 1 # k + 1
            BY <4>1, <4>3
          <5>2. g[j - 1] = f[j - 1]
            BY <5>1
          <5>. QED  BY <2>1, <4>1, <4>3, <5>2 DEF LevelsTo
        <4>. QED  BY <4>2, <4>3
      <3>. QED  BY <3>1, <3>2
    <2>3. g = [j \in 0..(k + 1) |-> IF j = 0 THEN LeafLevel ELSE Above(g[j - 1])]
      BY <2>2
    <2>4. LevelsTo(g, k + 1)
      BY <2>3 DEF LevelsTo
    <2>. QED  BY <2>4
  <1>3. Nat \subseteq T
    <2>. HIDE DEF T
    <2>. QED  BY <1>1, <1>2, SetInduction
  <1>. QED  BY <1>3

LEMMA LevelsAgree ==
  ASSUME NEW k \in Nat, NEW m \in Nat, NEW f, LevelsTo(f, k), NEW g, LevelsTo(g, m)
  PROVE  \A j \in 0..k : j <= m => f[j] = g[j]
  <1>. DEFINE T == {j \in Nat : j <= k /\ j <= m => f[j] = g[j]}
  <1>1. 0 \in T
    BY DEF LevelsTo
  <1>2. ASSUME NEW j \in Nat, j \in T PROVE j + 1 \in T
    <2>. SUFFICES ASSUME j + 1 <= k, j + 1 <= m PROVE f[j + 1] = g[j + 1]
      OBVIOUS
    <2>1. f[j] = g[j]
      BY <1>2
    <2>2. j + 1 \in 0..k /\ j + 1 \in 0..m /\ j + 1 # 0 /\ (j + 1) - 1 = j
      OBVIOUS
    <2>3. f[j + 1] = Above(f[j]) /\ g[j + 1] = Above(g[j])
      BY <2>2 DEF LevelsTo
    <2>. QED  BY <2>1, <2>3
  <1>3. Nat \subseteq T
    <2>. HIDE DEF T
    <2>. QED  BY <1>1, <1>2, SetInduction
  <1>. QED  BY <1>3

LEMMA LevelStep ==
  Level[0] = LeafLevel /\ \A h \in Nat : Level[h + 1] = Above(Level[h])
  <1>. DEFINE F(h) == CHOOSE f : LevelsTo(f, h)
              g == [h \in Nat |-> F(h)[h]]
  <1>1. \A h \in Nat : LevelsTo(F(h), h)
    BY LevelsExist
  <1>2. \A h \in Nat : F(h + 1)[h] = F(h)[h]
    <2>. SUFFICES ASSUME NEW h \in Nat PROVE F(h + 1)[h] = F(h)[h]
      OBVIOUS
    <2>1. LevelsTo(F(h), h) /\ LevelsTo(F(h + 1), h + 1)
      BY <1>1
    <2>. HIDE DEF F
    <2>. QED  BY <2>1, LevelsAgree
  <1>3. \A h \in Nat : F(h)[h] = IF h = 0 THEN LeafLevel ELSE Above(F(h)[h - 1])
    <2>. SUFFICES ASSUME NEW h \in Nat
                  PROVE  F(h)[h] = IF h = 0 THEN LeafLevel ELSE Above(F(h)[h - 1])
      OBVIOUS
    <2>1. LevelsTo(F(h), h) /\ h \in 0..h
      BY <1>1
    <2>. HIDE DEF F
    <2>. QED  BY <2>1 DEF LevelsTo
  <1>. HIDE DEF F
  <1>4. ASSUME NEW h \in Nat PROVE g[h] = IF h = 0 THEN LeafLevel ELSE Above(g[h - 1])
    <2>1. CASE h = 0
      BY <1>3, <2>1
    <2>2. CASE h # 0
      <3>1. h - 1 \in Nat /\ (h - 1) + 1 = h
        BY <2>2
      <3>2. g[h] = F(h)[h] /\ g[h - 1] = F(h - 1)[h - 1]
        BY <3>1
      <3>3. F(h)[h - 1] = F(h - 1)[h - 1]
        BY <1>2, <3>1
      <3>. QED  BY <1>3, <2>2, <3>2, <3>3
    <2>. QED  BY <2>1, <2>2
  <1>5. g = [h \in Nat |-> IF h = 0 THEN LeafLevel ELSE Above(g[h - 1])]
    <2>. HIDE DEF g
    <2>1. g = [h \in Nat |-> g[h]]
      BY DEF g
    <2>. QED  BY <1>4, <2>1
  <1>6. Level = [h \in Nat |-> IF h = 0 THEN LeafLevel ELSE Above(Level[h - 1])]
    <2>. HIDE DEF g
    <2>. QED  BY <1>5 DEF Level
  <1>7. \A h \in Nat : h + 1 # 0 /\ (h + 1) - 1 = h /\ h + 1 \in Nat
    OBVIOUS
  <1>. QED  BY <1>6, <1>7

-----------------------------------------------------------------------------
(* Trees and their children *)

LEMMA KidsMember ==
  ASSUME NEW X, NEW n, NEW t, <<n, t>> \in X
  PROVE  Child(n) \in Kids(X) /\ Child(n).node = n /\ Child(n).info = NodeInfo(n)
  <1>1. <<n, t>>[1] = n
    OBVIOUS
  <1>. QED  BY <1>1 DEF Kids, Child

LEMMA KidsParts ==
  ASSUME NEW X, IsPairs(X), NEW k \in Kids(X)
  PROVE  k = Child(k.node) /\ k.info = NodeInfo(k.node) /\ \E t : <<k.node, t>> \in X
  <1>1. PICK x \in X : k = Child(x[1])
    BY DEF Kids
  <1>2. x = <<x[1], x[2]>>
    BY DEF IsPairs
  <1>3. k.node = x[1] /\ k.info = NodeInfo(x[1])
    BY <1>1 DEF Child
  <1>. QED  BY <1>1, <1>2, <1>3

LEMMA KidsTyped ==
  ASSUME NEW X, IsPairs(X), Sound(X)
  PROVE  AreKids(Kids(X))
  <1>. SUFFICES ASSUME NEW k \in Kids(X) PROVE k.info \in TextInfo
    BY DEF AreKids
  <1>1. PICK t : <<k.node, t>> \in X
    BY KidsParts
  <1>2. k.info = NodeInfo(k.node)
    BY KidsParts
  <1>3. NodeInfo(k.node) = InfoFromStr(t) /\ t \in Text
    BY <1>1 DEF Sound, IsText
  <1>. QED  BY <1>2, <1>3, InfoTyped

LEMMA AboveMember ==
  ASSUME NEW X, NEW c, NEW t, Row(X, c, t), Len(c) \in 1..MAX_CHILDREN
  PROVE  <<Internal(c), t>> \in Above(X)
  <1>. DEFINE row == <<c, t>>
  <1>1. row[1] = c /\ row[2] = t
    OBVIOUS
  <1>2. c \in Seq(Kids(X)) /\ t \in Text
    BY DEF Row, IsText
  <1>3. row \in Seq(Kids(X)) \X Text
    BY <1>2
  <1>4. row \in Arrays(X)
    BY <1>1, <1>3 DEF Arrays
  <1>. HIDE DEF row
  <1>5. <<Internal(row[1]), row[2]>> \in Above(X)
    BY <1>4 DEF Above
  <1>. QED  BY <1>1, <1>5

LEMMA AboveParts ==
  ASSUME NEW X, NEW n, NEW t, <<n, t>> \in Above(X)
  PROVE  /\ n = Internal(n.children) /\ n.leaf = FALSE
         /\ Row(X, n.children, t) /\ Len(n.children) \in 1..MAX_CHILDREN
  <1>1. PICK row \in Arrays(X) : <<n, t>> = <<Internal(row[1]), row[2]>>
    BY DEF Above
  <1>2. n = Internal(row[1]) /\ t = row[2]
    BY <1>1
  <1>3. n.children = row[1] /\ n.leaf = FALSE
    BY <1>2 DEF Internal
  <1>4. Row(X, row[1], row[2]) /\ Len(row[1]) \in 1..MAX_CHILDREN
    BY DEF Arrays
  <1>. QED  BY <1>2, <1>3, <1>4

LEMMA AbovePairs ==
  ASSUME NEW X
  PROVE  IsPairs(Above(X))
  <1>. SUFFICES ASSUME NEW x \in Above(X) PROVE x = <<x[1], x[2]>>
    BY DEF IsPairs
  <1>1. PICK row \in Arrays(X) : x = <<Internal(row[1]), row[2]>>
    BY DEF Above
  <1>. QED  BY <1>1

LEMMA LeafMember ==
  ASSUME NEW n, NEW t
  PROVE  <<n, t>> \in LeafLevel <=>
           n = Leaf(t) /\ t \in Text /\ Utf8(t) /\ Len(t) # 0 /\ NotOverfull(t)
  BY DEF LeafLevel

-----------------------------------------------------------------------------
(* Texts in two parts *)

\* The texts may be put one after the other.
Meets(l, r) == Len(l) = 0 \/ Len(r) = 0 \/ SeamIsBreak(l, r)

LEMMA SliceOfLeft ==
  ASSUME NEW l \in Text, NEW r \in Text, NEW a \in 0..Len(l), NEW b \in a..Len(l)
  PROVE  Slice(l \o r, a, b) = Slice(l, a, b)
  <1>. DEFINE w == l \o r
              x == Slice(w, a, b)
              y == Slice(l, a, b)
  <1>1. /\ w \in Text /\ Len(w) = Len(l) + Len(r)
        /\ \A i \in 1..Len(l) : w[i] = l[i]
    BY ConcatFacts
  <1>2. Len(l) \in Nat /\ Len(r) \in Nat
    BY TextFacts
  <1>. HIDE DEF w
  <1>3. a \in 0..Len(w) /\ b \in a..Len(w)
    BY <1>1, <1>2
  <1>4. x \in Text /\ Len(x) = b - a /\ \A j \in 1..(b - a) : x[j] = w[a + j]
    BY <1>1, <1>3, SliceFacts
  <1>5. y \in Text /\ Len(y) = b - a /\ \A j \in 1..(b - a) : y[j] = l[a + j]
    BY SliceFacts
  <1>. HIDE DEF x, y
  <1>6. \A j \in 1..(b - a) : a + j \in 1..Len(l)
    BY <1>2
  <1>7. \A j \in 1..Len(x) : x[j] = y[j]
    BY <1>1, <1>4, <1>5, <1>6
  <1>8. x = y
    BY <1>4, <1>5, <1>7, SeqEqual DEF Text
  <1>. QED  BY <1>8 DEF x, y, w

LEMMA SliceOfRight ==
  ASSUME NEW l \in Text, NEW r \in Text, NEW a \in 0..Len(r), NEW b \in a..Len(r)
  PROVE  Slice(l \o r, Len(l) + a, Len(l) + b) = Slice(r, a, b)
  <1>. DEFINE w == l \o r
              n == Len(l)
              x == Slice(w, n + a, n + b)
              y == Slice(r, a, b)
  <1>1. /\ w \in Text /\ Len(w) = n + Len(r)
        /\ \A i \in 1..Len(r) : w[n + i] = r[i]
    BY ConcatFacts
  <1>2. n \in Nat /\ Len(r) \in Nat
    BY TextFacts
  <1>. HIDE DEF w, n
  <1>3. n + a \in 0..Len(w) /\ n + b \in (n + a)..Len(w) /\ (n + b) - (n + a) = b - a
    BY <1>1, <1>2
  <1>4. x \in Text /\ Len(x) = b - a /\ \A j \in 1..(b - a) : x[j] = w[(n + a) + j]
    BY ZenonT(60), <1>1, <1>3, SliceFacts
  <1>5. y \in Text /\ Len(y) = b - a /\ \A j \in 1..(b - a) : y[j] = r[a + j]
    BY SliceFacts
  <1>. HIDE DEF x, y
  <1>6. \A j \in 1..(b - a) : a + j \in 1..Len(r) /\ (n + a) + j = n + (a + j)
    BY <1>2
  <1>7. \A j \in 1..Len(x) : x[j] = y[j]
    BY <1>1, <1>4, <1>5, <1>6
  <1>8. x = y
    BY <1>4, <1>5, <1>7, SeqEqual DEF Text
  <1>. QED  BY <1>8 DEF x, y, w, n

LEMMA BreaksOfConcat ==
  ASSUME NEW l \in Text, NEW r \in Text, Meets(l, r)
  PROVE  /\ \A b \in 0..Len(l) : IsBreak(b, l) => IsBreak(b, l \o r)
         /\ \A b \in 0..Len(r) : IsBreak(b, r) => IsBreak(Len(l) + b, l \o r)
  <1>. DEFINE w == l \o r
              n == Len(l)
              m == Len(r)
  <1>1. /\ w \in Text /\ Len(w) = n + m
        /\ \A i \in 1..n : w[i] = l[i]
        /\ \A i \in 1..m : w[n + i] = r[i]
    BY ConcatFacts
  <1>2. n \in Nat /\ m \in Nat
    BY TextFacts
  <1>3. n = 0 \/ m = 0 \/ CutAllowed(l[n], r[1])
    BY DEF Meets, SeamIsBreak
  <1>. HIDE DEF w
  <1>4. n # 0 /\ m # 0 => IsBreak(n, w)
    <2>. SUFFICES ASSUME n # 0, m # 0 PROVE IsBreak(n, w)
      OBVIOUS
    <2>1. n \in 1..n /\ 1 \in 1..m
      BY <1>2
    <2>2. w[n] = l[n] /\ w[n + 1] = r[1]
      BY <1>1, <2>1
    <2>. QED  BY <1>3, <2>2 DEF IsBreak
  <1>5. n = 0 \/ m = 0 => IsBreak(n, w)
    BY <1>1, <1>2 DEF IsBreak
  <1>6. ASSUME NEW b \in 0..n, IsBreak(b, l) PROVE IsBreak(b, w)
    <2>1. CASE b = n
      BY <1>4, <1>5, <2>1
    <2>2. CASE b = 0
      BY <2>2 DEF IsBreak
    <2>3. CASE b # n /\ b # 0
      <3>1. b \in 1..n /\ b + 1 \in 1..n
        BY <1>2, <2>3
      <3>2. CutAllowed(l[b], l[b + 1])
        BY <1>6, <2>3 DEF IsBreak
      <3>3. w[b] = l[b] /\ w[b + 1] = l[b + 1]
        BY <1>1, <3>1
      <3>. QED  BY <3>2, <3>3 DEF IsBreak
    <2>. QED  BY <2>1, <2>2, <2>3
  <1>7. ASSUME NEW b \in 0..m, IsBreak(b, r) PROVE IsBreak(n + b, w)
    <2>1. CASE b = 0
      BY <1>2, <1>4, <1>5, <2>1
    <2>2. CASE b = m
      BY <1>1, <2>2 DEF IsBreak
    <2>3. CASE b # m /\ b # 0
      <3>1. b \in 1..m /\ b + 1 \in 1..m /\ (n + b) + 1 = n + (b + 1)
        BY <1>2, <2>3
      <3>2. CutAllowed(r[b], r[b + 1])
        BY <1>7, <2>3 DEF IsBreak
      <3>3. w[n + b] = r[b] /\ w[(n + b) + 1] = r[b + 1]
        BY <1>1, <3>1
      <3>. QED  BY <3>2, <3>3 DEF IsBreak
    <2>. QED  BY <2>1, <2>2, <2>3
  <1>. QED  BY <1>6, <1>7 DEF w

LEMMA BreaksOfParts ==
  ASSUME NEW l \in Text, NEW r \in Text
  PROVE  /\ \A b \in 0..Len(l) : IsBreak(b, l \o r) => IsBreak(b, l)
         /\ \A b \in 0..Len(r) : IsBreak(Len(l) + b, l \o r) => IsBreak(b, r)
         /\ IsBreak(Len(l), l \o r) => Meets(l, r)
  <1>. DEFINE w == l \o r
              n == Len(l)
              m == Len(r)
  <1>1. /\ w \in Text /\ Len(w) = n + m
        /\ \A i \in 1..n : w[i] = l[i]
        /\ \A i \in 1..m : w[n + i] = r[i]
    BY ConcatFacts
  <1>2. n \in Nat /\ m \in Nat
    BY TextFacts
  <1>. HIDE DEF w
  <1>3. ASSUME NEW b \in 0..n, IsBreak(b, w) PROVE IsBreak(b, l)
    <2>1. CASE b = n \/ b = 0
      BY <2>1 DEF IsBreak
    <2>2. CASE b # n /\ b # 0
      <3>1. b \in 1..n /\ b + 1 \in 1..n /\ b # Len(w)
        BY <1>1, <1>2, <2>2
      <3>2. CutAllowed(w[b], w[b + 1])
        BY <1>3, <2>2, <3>1 DEF IsBreak
      <3>3. w[b] = l[b] /\ w[b + 1] = l[b + 1]
        BY <1>1, <3>1
      <3>. QED  BY <3>2, <3>3 DEF IsBreak
    <2>. QED  BY <2>1, <2>2
  <1>4. ASSUME NEW b \in 0..m, IsBreak(n + b, w) PROVE IsBreak(b, r)
    <2>1. CASE b = m \/ b = 0
      BY <2>1 DEF IsBreak
    <2>2. CASE b # m /\ b # 0
      <3>1. b \in 1..m /\ b + 1 \in 1..m /\ (n + b) + 1 = n + (b + 1) /\ n + b # Len(w) /\ n + b # 0
        BY <1>1, <1>2, <2>2
      <3>2. CutAllowed(w[n + b], w[(n + b) + 1])
        BY <1>4, <3>1 DEF IsBreak
      <3>3. w[n + b] = r[b] /\ w[(n + b) + 1] = r[b + 1]
        BY <1>1, <3>1
      <3>. QED  BY <3>2, <3>3 DEF IsBreak
    <2>. QED  BY <2>1, <2>2
  <1>5. ASSUME IsBreak(n, w) PROVE Meets(l, r)
    <2>1. CASE n = 0 \/ m = 0
      BY <2>1 DEF Meets
    <2>2. CASE n # 0 /\ m # 0
      <3>1. n \in 1..n /\ 1 \in 1..m /\ n # Len(w)
        BY <1>1, <1>2, <2>2
      <3>2. CutAllowed(w[n], w[n + 1])
        BY <1>5, <2>2, <3>1 DEF IsBreak
      <3>3. w[n] = l[n] /\ w[n + 1] = r[1]
        BY <1>1, <3>1
      <3>. QED  BY <3>2, <3>3 DEF Meets, SeamIsBreak
    <2>. QED  BY <2>1, <2>2
  <1>. QED  BY <1>3, <1>4, <1>5 DEF w

LEMMA EmptyText ==
  <<>> \in Text /\ Len(<<>>) = 0 /\ IsText(<<>>) /\ \A t \in Text : Len(t) = 0 <=> t = <<>>
  BY EmptySeq DEF Text, IsText, Utf8

LEMMA WholeSlice ==
  ASSUME NEW t \in Text
  PROVE  Slice(t, 0, Len(t)) = t
  <1>1. t \in Seq(Byte) /\ Len(t) \in 0..Len(t)
    BY TextFacts DEF Text
  <1>2. /\ Slice(t, 0, Len(t)) \in Seq(Byte) /\ Len(Slice(t, 0, Len(t))) = Len(t)
        /\ \A j \in 1..Len(t) : Slice(t, 0, Len(t))[j] = t[j]
    BY <1>1, CutFacts
  <1>. QED  BY <1>1, <1>2, SeqEqual

LEMMA MeetsConcat ==
  ASSUME NEW a \in Text, NEW b \in Text, NEW c \in Text, Len(b) # 0
  PROVE  /\ Meets(a \o b, c) <=> Meets(b, c)
         /\ Meets(a, b \o c) <=> Meets(a, b)
  <1>1. /\ Len(a \o b) = Len(a) + Len(b) /\ Len(b \o c) = Len(b) + Len(c)
        /\ \A i \in 1..Len(b) : (a \o b)[Len(a) + i] = b[i] /\ (b \o c)[i] = b[i]
    BY ConcatFacts
  <1>2. Len(a) \in Nat /\ Len(b) \in Nat /\ Len(c) \in Nat
    BY TextFacts
  <1>3. 1 \in 1..Len(b) /\ Len(b) \in 1..Len(b)
    BY <1>2
  <1>4. (a \o b)[Len(a \o b)] = b[Len(b)] /\ (b \o c)[1] = b[1]
    BY <1>1, <1>3
  <1>5. Len(a \o b) # 0 /\ Len(b \o c) # 0
    BY <1>1, <1>2
  <1>. QED  BY <1>4, <1>5 DEF Meets, SeamIsBreak

-----------------------------------------------------------------------------
(* Rows of children *)

LEMMA RowNone ==
  ASSUME NEW X
  PROVE  Row(X, <<>>, <<>>)
  <1>. DEFINE p == [i \in 0..0 |-> 0]
  <1>1. Len(<<>>) = 0 /\ <<>> \in Seq(Kids(X))
    BY EmptySeq
  <1>2. IsBreak(0, <<>>)
    BY DEF IsBreak
  <1>3. Marks(p, <<>>, <<>>)
    BY <1>1, <1>2 DEF Marks
  <1>. HIDE DEF p
  <1>4. Spells(X, <<>>, <<>>)
    BY <1>1, <1>3 DEF Spells
  <1>. QED  BY <1>1, <1>4, EmptyText DEF Row

LEMMA RowOfNone ==
  ASSUME NEW X, NEW t, Row(X, <<>>, t)
  PROVE  t = <<>>
  <1>1. PICK p : Marks(p, <<>>, t)
    BY DEF Row, Spells
  <1>2. Len(<<>>) = 0 /\ t \in Text
    BY EmptySeq DEF Row, IsText
  <1>3. Len(t) = 0
    BY <1>1, <1>2 DEF Marks
  <1>. QED  BY <1>2, <1>3, EmptyText

LEMMA RowOne ==
  ASSUME NEW X, Sound(X), NEW n, NEW t, <<n, t>> \in X
  PROVE  Row(X, <<Child(n)>>, t)
  <1>. DEFINE k == Child(n)
              c == <<k>>
              p == [i \in 0..1 |-> IF i = 0 THEN 0 ELSE Len(t)]
  <1>1. k \in Kids(X) /\ k.node = n
    BY KidsMember
  <1>2. c \in Seq(Kids(X)) /\ Len(c) = 1 /\ c[1] = k
    BY <1>1
  <1>3. t \in Text /\ IsText(t) /\ Len(t) \in Nat
    BY TextFacts DEF Sound, IsText
  <1>4. p \in [0..1 -> 0..Len(t)] /\ p[0] = 0 /\ p[1] = Len(t)
    BY <1>3
  <1>. HIDE DEF k, c, p
  <1>5. \A i \in 0..1 : i = 0 \/ i = 1
    OBVIOUS
  <1>6. IsBreak(0, t) /\ IsBreak(Len(t), t)
    BY DEF IsBreak
  <1>7. \A i, j \in 0..1 : i <= j => p[i] <= p[j]
    BY <1>3, <1>4, <1>5
  <1>8. \A i \in 0..1 : IsBreak(p[i], t)
    BY <1>4, <1>5, <1>6
  <1>9. Marks(p, c, t)
    BY <1>2, <1>4, <1>7, <1>8 DEF Marks
  <1>10. Slice(t, p[0], p[1]) = t
    BY <1>3, <1>4, WholeSlice
  <1>11. \A i \in 1..1 : <<c[i].node, Slice(t, p[i - 1], p[i])>> \in X
    <2>1. \A i \in 1..1 : i = 1 /\ i - 1 = 0
      OBVIOUS
    <2>. QED  BY <1>1, <1>2, <1>10, <2>1
  <1>12. Spells(X, c, t)
    BY <1>2, <1>9, <1>11 DEF Spells
  <1>13. Row(X, c, t)
    BY <1>2, <1>3, <1>12 DEF Row
  <1>. QED  BY <1>13 DEF c, k

\* Two rows are one when their texts may be put together.
LEMMA RowBoth ==
  ASSUME NEW X, NEW c, NEW t, Row(X, c, t), NEW d, NEW u, Row(X, d, u), Meets(t, u)
  PROVE  Row(X, c \o d, t \o u)
  <1>. DEFINE n == Len(t)
              m == Len(c)
              k == Len(d)
              w == t \o u
              e == c \o d
  <1>1. PICK p : Marks(p, c, t) /\ \A i \in 1..m : <<c[i].node, Slice(t, p[i - 1], p[i])>> \in X
    BY DEF Row, Spells
  <1>2. PICK q : Marks(q, d, u) /\ \A i \in 1..k : <<d[i].node, Slice(u, q[i - 1], q[i])>> \in X
    BY DEF Row, Spells
  <1>3. c \in Seq(Kids(X)) /\ d \in Seq(Kids(X)) /\ t \in Text /\ u \in Text /\ Utf8(t) /\ Utf8(u)
    BY DEF Row, IsText
  <1>4. n \in Nat /\ m \in Nat /\ k \in Nat /\ Len(u) \in Nat
    BY <1>3, TextFacts, LenProperties
  <1>5. /\ e \in Seq(Kids(X)) /\ Len(e) = m + k
        /\ \A i \in 1..(m + k) : e[i] = IF i <= m THEN c[i] ELSE d[i - m]
    BY <1>3, ConcatProperties
  <1>6. w \in Text /\ Len(w) = n + Len(u) /\ Utf8(w)
    BY <1>3, ConcatFacts, Utf8Concat
  <1>7. /\ \A b \in 0..n : IsBreak(b, t) => IsBreak(b, w)
        /\ \A b \in 0..Len(u) : IsBreak(b, u) => IsBreak(n + b, w)
    BY <1>3, BreaksOfConcat
  <1>. DEFINE r == [i \in 0..(m + k) |-> IF i <= m THEN p[i] ELSE n + q[i - m]]
  <1>8. /\ \A i \in 0..m : p[i] \in 0..n /\ IsBreak(p[i], t)
        /\ p[0] = 0 /\ p[m] = n /\ \A i, j \in 0..m : i <= j => p[i] <= p[j]
    BY <1>1 DEF Marks
  <1>9. /\ \A i \in 0..k : q[i] \in 0..Len(u) /\ IsBreak(q[i], u)
        /\ q[0] = 0 /\ q[k] = Len(u) /\ \A i, j \in 0..k : i <= j => q[i] <= q[j]
    BY <1>2 DEF Marks
  <1>10. \A i \in 0..m : r[i] = p[i]
    BY <1>4
  <1>11. \A i \in 0..k : r[m + i] = n + q[i]
    <2>. SUFFICES ASSUME NEW i \in 0..k PROVE r[m + i] = n + q[i]
      OBVIOUS
    <2>1. CASE i = 0
      BY <1>4, <1>8, <1>9, <2>1
    <2>2. CASE i # 0
      <3>1. m + i \in 0..(m + k) /\ ~ (m + i <= m) /\ (m + i) - m = i
        BY <1>4, <2>2
      <3>. QED  BY <3>1
    <2>. QED  BY <2>1, <2>2
  <1>12. DOMAIN r = 0..(m + k) /\ r = [i \in 0..(m + k) |-> r[i]]
    OBVIOUS
  <1>. HIDE DEF r, w, e, n, m, k
  <1>13. \A i \in 0..(m + k) : i \in 0..m \/ (i - m \in 0..k /\ i = m + (i - m) /\ i > m)
    BY <1>4
  <1>14. ASSUME NEW i \in 0..(m + k) PROVE r[i] \in 0..Len(w) /\ IsBreak(r[i], w)
    <2>1. CASE i \in 0..m
      <3>1. r[i] = p[i] /\ p[i] \in 0..n /\ IsBreak(p[i], t)
        BY <1>8, <1>10, <2>1
      <3>. QED  BY <1>4, <1>6, <1>7, <3>1
    <2>2. CASE i - m \in 0..k /\ i = m + (i - m)
      <3>. DEFINE j == i - m
      <3>1. r[m + j] = n + q[j] /\ q[j] \in 0..Len(u) /\ IsBreak(q[j], u)
        BY <1>9, <1>11, <2>2
      <3>2. IsBreak(n + q[j], w)
        BY <1>7, <3>1
      <3>3. r[i] = n + q[j]
        BY <2>2, <3>1
      <3>. HIDE DEF j
      <3>. QED  BY <1>4, <1>6, <3>1, <3>2, <3>3
    <2>. QED  BY <1>13, <2>1, <2>2
  <1>15. r[0] = 0 /\ r[m + k] = Len(w)
    BY SMTT(60), <1>4, <1>6, <1>8, <1>9, <1>10, <1>11
  <1>16. ASSUME NEW i \in 0..(m + k), NEW j \in 0..(m + k), i <= j PROVE r[i] <= r[j]
    <2>1. CASE i \in 0..m /\ j \in 0..m
      BY <1>8, <1>10, <1>16, <2>1
    <2>2. CASE i \in 0..m /\ (j - m \in 0..k /\ j = m + (j - m))
      <3>1. r[i] = p[i] /\ p[i] \in 0..n
        BY <1>8, <1>10, <2>2
      <3>2. r[m + (j - m)] = n + q[j - m] /\ q[j - m] \in 0..Len(u)
        BY <1>9, <1>11, <2>2
      <3>3. r[j] = n + q[j - m]
        BY <2>2, <3>2
      <3>. QED  BY <1>4, <3>1, <3>2, <3>3
    <2>3. CASE (i - m \in 0..k /\ i = m + (i - m)) /\ (j - m \in 0..k /\ j = m + (j - m))
      <3>1. r[m + (i - m)] = n + q[i - m] /\ q[i - m] \in 0..Len(u)
        BY <1>9, <1>11, <2>3
      <3>2. r[m + (j - m)] = n + q[j - m] /\ q[j - m] \in 0..Len(u)
        BY <1>9, <1>11, <2>3
      <3>3. i - m <= j - m
        BY <1>4, <1>16, <2>3
      <3>4. q[i - m] <= q[j - m]
        BY <1>9, <2>3, <3>3
      <3>5. r[i] = n + q[i - m] /\ r[j] = n + q[j - m]
        BY <2>3, <3>1, <3>2
      <3>. QED  BY <1>4, <3>1, <3>2, <3>4, <3>5
    <2>4. CASE i > m /\ j \in 0..m
      BY <1>4, <1>16, <2>4
    <2>. QED  BY <1>13, <2>1, <2>2, <2>3, <2>4
  <1>17. Marks(r, e, w)
    <2>1. r \in [0..(m + k) -> 0..Len(w)]
      BY <1>12, <1>14
    <2>. QED  BY <1>5, <1>14, <1>15, <1>16, <2>1 DEF Marks
  <1>18. ASSUME NEW i \in 1..(m + k) PROVE <<e[i].node, Slice(w, r[i - 1], r[i])>> \in X
    <2>1. CASE i <= m
      <3>1. i \in 1..m /\ i \in 0..m /\ i - 1 \in 0..m /\ i - 1 <= i
        BY <1>4, <2>1
      <3>2. /\ r[i] = p[i] /\ r[i - 1] = p[i - 1] /\ p[i] \in 0..n /\ p[i - 1] \in 0..n
            /\ p[i - 1] <= p[i] /\ e[i] = c[i]
        BY <1>5, <1>8, <1>10, <2>1, <3>1
      <3>. DEFINE a == p[i - 1]
                  b == p[i]
      <3>3. a \in 0..n /\ b \in a..n
        BY <1>4, <3>2
      <3>. HIDE DEF a, b
      <3>4. Slice(t \o u, a, b) = Slice(t, a, b)
        BY <1>3, <3>3, SliceOfLeft DEF n
      <3>5. <<c[i].node, Slice(t, a, b)>> \in X
        BY <1>1, <3>1 DEF a, b, m
      <3>. QED  BY <3>2, <3>4, <3>5 DEF a, b, w
    <2>2. CASE i > m
      <3>. DEFINE h == i - m
      <3>1. /\ h \in 1..k /\ h \in 0..k /\ h - 1 \in 0..k /\ h - 1 <= h
            /\ i = m + h /\ i - 1 = m + (h - 1) /\ ~ (i <= m)
        BY <1>4, <2>2
      <3>2. e[i] = d[h]
        BY <1>5, <3>1
      <3>. HIDE DEF h
      <3>3. /\ r[i] = n + q[h] /\ r[i - 1] = n + q[h - 1] /\ q[h] \in 0..Len(u)
            /\ q[h - 1] \in 0..Len(u) /\ q[h - 1] <= q[h]
        BY <1>9, <1>11, <3>1
      <3>. DEFINE a == q[h - 1]
                  b == q[h]
      <3>4. a \in 0..Len(u) /\ b \in a..Len(u)
        BY <1>4, <3>3
      <3>. HIDE DEF a, b
      <3>5. Slice(t \o u, n + a, n + b) = Slice(u, a, b)
        BY <1>3, <3>4, SliceOfRight DEF n
      <3>6. <<d[h].node, Slice(u, a, b)>> \in X
        BY <1>2, <3>1 DEF a, b, k
      <3>. QED  BY <3>2, <3>3, <3>5, <3>6 DEF a, b, w
    <2>. QED  BY <1>4, <2>1, <2>2
  <1>19. Spells(X, e, w)
    BY <1>5, <1>17, <1>18 DEF Spells
  <1>20. Row(X, e, w)
    BY <1>5, <1>6, <1>19 DEF Row, IsText
  <1>. QED  BY <1>20 DEF e, w

\* The text t is that of the rows c and d, in that order.
InRows(X, c, d, t, u, v) ==
  t = u \o v /\ Row(X, c, u) /\ Row(X, d, v) /\ Meets(u, v)

\* A row is two wherever it is cut.
LEMMA RowParts ==
  ASSUME NEW X, NEW c \in Seq(Kids(X)), NEW d \in Seq(Kids(X)), NEW t, Row(X, c \o d, t)
  PROVE  \E u, v : InRows(X, c, d, t, u, v)
  <1>. DEFINE m == Len(c)
              k == Len(d)
              e == c \o d
  <1>1. m \in Nat /\ k \in Nat
    BY LenProperties
  <1>2. Len(e) = m + k /\ \A i \in 1..(m + k) : e[i] = IF i <= m THEN c[i] ELSE d[i - m]
    BY ConcatProperties
  <1>3. t \in Text /\ Utf8(t) /\ Len(t) \in Nat
    BY TextFacts DEF Row, IsText
  <1>. HIDE DEF m, k
  <1>4. PICK p : /\ Marks(p, e, t)
                 /\ \A i \in 1..(m + k) : <<e[i].node, Slice(t, p[i - 1], p[i])>> \in X
    BY <1>2 DEF Row, Spells
  <1>5. /\ \A i \in 0..(m + k) : p[i] \in 0..Len(t) /\ IsBreak(p[i], t)
        /\ p[0] = 0 /\ p[m + k] = Len(t)
        /\ \A i, j \in 0..(m + k) : i <= j => p[i] <= p[j]
    BY <1>2, <1>4 DEF Marks
  <1>. DEFINE n == p[m]
              u == Slice(t, 0, n)
              v == From(t, n)
  <1>6. n \in 0..Len(t) /\ IsBreak(n, t) /\ m \in 0..(m + k)
    BY <1>1, <1>5
  <1>. HIDE DEF n
  <1>7. /\ u \in Text /\ v \in Text /\ Len(u) = n /\ Len(v) = Len(t) - n /\ u \o v = t
    BY <1>3, <1>6, CutFacts DEF Text
  <1>8. Utf8(u) /\ Utf8(v)
    BY <1>3, <1>6, BreakIsBoundary, Utf8Parts
  <1>9. n \in Nat /\ Len(v) \in Nat /\ Len(t) = n + Len(v)
    BY <1>3, <1>6, <1>7
  <1>. HIDE DEF u, v
  <1>10. /\ \A b \in 0..n : IsBreak(b, t) => IsBreak(b, u)
         /\ \A b \in 0..Len(v) : IsBreak(n + b, t) => IsBreak(b, v)
         /\ Meets(u, v)
    BY <1>6, <1>7, BreaksOfParts
  <1>. DEFINE q == [i \in 0..m |-> p[i]]
              r == [i \in 0..k |-> p[m + i] - n]
  <1>11. \A i \in 0..m : q[i] = p[i] /\ i \in 0..(m + k) /\ i <= m
    BY <1>1
  <1>12. \A i \in 0..k : r[i] = p[m + i] - n /\ m + i \in 0..(m + k) /\ m <= m + i
    BY <1>1
  <1>13. q = [i \in 0..m |-> q[i]] /\ r = [i \in 0..k |-> r[i]]
    OBVIOUS
  <1>. HIDE DEF q, r
  <1>14. ASSUME NEW i \in 0..m PROVE p[i] \in 0..n /\ IsBreak(p[i], u)
    <2>1. p[i] \in 0..Len(t) /\ IsBreak(p[i], t) /\ p[i] <= p[m]
      BY <1>5, <1>6, <1>11
    <2>2. p[i] \in 0..n
      BY <1>6, <2>1 DEF n
    <2>. QED  BY <1>10, <2>1, <2>2
  <1>15. ASSUME NEW i \in 0..k
         PROVE  /\ r[i] \in 0..Len(v) /\ IsBreak(r[i], v)
                /\ p[m + i] = n + r[i]
    <2>1. p[m + i] \in 0..Len(t) /\ IsBreak(p[m + i], t) /\ p[m] <= p[m + i]
      BY <1>5, <1>6, <1>12
    <2>2. r[i] = p[m + i] - n /\ n <= p[m + i]
      BY <1>12, <2>1 DEF n
    <2>3. r[i] \in 0..Len(v) /\ p[m + i] = n + r[i]
      BY <1>9, <2>1, <2>2
    <2>4. IsBreak(n + r[i], t)
      BY <2>1, <2>3
    <2>. QED  BY <1>10, <2>3, <2>4
  <1>16. Marks(q, c, u)
    <2>1. q \in [0..m -> 0..n]
      BY <1>11, <1>13, <1>14
    <2>2. q[0] = 0 /\ q[m] = n
      BY <1>1, <1>5, <1>11 DEF n
    <2>3. \A i, j \in 0..m : i <= j => q[i] <= q[j]
      BY <1>5, <1>11
    <2>4. \A i \in 0..m : IsBreak(q[i], u)
      BY <1>11, <1>14
    <2>. QED  BY <1>7, <2>1, <2>2, <2>3, <2>4 DEF Marks, m
  <1>17. Marks(r, d, v)
    <2>1. r \in [0..k -> 0..Len(v)]
      BY <1>13, <1>15
    <2>2. r[0] = 0
      <3>1. 0 \in 0..k /\ m + 0 = m
        BY <1>1
      <3>. QED  BY <1>6, <1>12, <3>1 DEF n
    <2>3. r[k] = Len(v)
      <3>1. k \in 0..k
        BY <1>1
      <3>. QED  BY <1>5, <1>7, <1>12, <3>1
    <2>4. ASSUME NEW i \in 0..k, NEW j \in 0..k, i <= j PROVE r[i] <= r[j]
      <3>1. m + i \in 0..(m + k) /\ m + j \in 0..(m + k) /\ m + i <= m + j
        BY <1>1, <2>4
      <3>2. p[m + i] <= p[m + j]
        BY <1>5, <3>1
      <3>3. p[m + i] = n + r[i] /\ p[m + j] = n + r[j] /\ r[i] \in 0..Len(v) /\ r[j] \in 0..Len(v)
        BY <1>15
      <3>. QED  BY <1>9, <3>2, <3>3
    <2>5. \A i \in 0..k : IsBreak(r[i], v)
      BY <1>15
    <2>. QED  BY <2>1, <2>2, <2>3, <2>4, <2>5 DEF Marks, k
  <1>18. ASSUME NEW i \in 1..m PROVE <<c[i].node, Slice(u, q[i - 1], q[i])>> \in X
    <2>1. i \in 1..(m + k) /\ i <= m /\ i \in 0..m /\ i - 1 \in 0..m /\ i - 1 <= i
      BY <1>1
    <2>2. e[i] = c[i] /\ q[i] = p[i] /\ q[i - 1] = p[i - 1]
      BY <1>2, <1>11, <2>1
    <2>. DEFINE a == p[i - 1]
                b == p[i]
    <2>3. a \in 0..n /\ b \in 0..n /\ a <= b
      BY <1>5, <1>11, <1>14, <2>1
    <2>4. <<c[i].node, Slice(t, a, b)>> \in X
      BY <1>4, <2>1, <2>2
    <2>. HIDE DEF a, b
    <2>5. a \in 0..Len(u) /\ b \in a..Len(u)
      BY <1>7, <1>9, <2>3
    <2>6. Slice(u \o v, a, b) = Slice(u, a, b)
      BY <1>7, <2>5, SliceOfLeft
    <2>. QED  BY <1>7, <2>2, <2>4, <2>6 DEF a, b
  <1>19. ASSUME NEW i \in 1..k PROVE <<d[i].node, Slice(v, r[i - 1], r[i])>> \in X
    <2>1. /\ m + i \in 1..(m + k) /\ ~ (m + i <= m) /\ (m + i) - m = i /\ (m + i) - 1 = m + (i - 1)
          /\ i \in 0..k /\ i - 1 \in 0..k
      BY <1>1
    <2>2. e[m + i] = d[i]
      BY <1>2, <2>1
    <2>3. p[m + i] = n + r[i] /\ p[m + (i - 1)] = n + r[i - 1]
      BY <1>15, <2>1
    <2>4. <<e[m + i].node, Slice(t, p[(m + i) - 1], p[m + i])>> \in X
      BY <1>4, <2>1
    <2>5. <<d[i].node, Slice(t, n + r[i - 1], n + r[i])>> \in X
      BY <2>1, <2>2, <2>3, <2>4
    <2>. DEFINE a == r[i - 1]
                b == r[i]
    <2>6. a \in 0..Len(v) /\ b \in 0..Len(v)
      BY <1>15, <2>1
    <2>7. p[m + (i - 1)] <= p[m + i]
      <3>1. m + (i - 1) \in 0..(m + k) /\ m + i \in 0..(m + k) /\ m + (i - 1) <= m + i
        BY <1>1
      <3>. QED  BY <1>5, <3>1
    <2>8. a <= b
      BY <1>9, <2>3, <2>6, <2>7
    <2>. HIDE DEF a, b
    <2>9. b \in a..Len(v)
      BY <1>9, <2>6, <2>8
    <2>10. Slice(u \o v, n + a, n + b) = Slice(v, a, b)
      BY <1>7, <2>6, <2>9, SliceOfRight
    <2>. QED  BY <1>7, <2>5, <2>10 DEF a, b
  <1>20. Spells(X, c, u)
    BY <1>16, <1>18 DEF Spells, m
  <1>21. Spells(X, d, v)
    BY <1>17, <1>19 DEF Spells, k
  <1>22. Row(X, c, u) /\ Row(X, d, v)
    BY <1>7, <1>8, <1>20, <1>21 DEF Row, IsText
  <1>23. InRows(X, c, d, t, u, v)
    BY <1>7, <1>10, <1>22 DEF InRows
  <1>. QED  BY <1>23

LEMMA AddNothing ==
  ASSUME NEW x \in TextInfo
  PROVE  AddBreaks(x, 0) = x
  BY DEF AddBreaks, TextInfo

\* The summaries of the children add up to that of their text.
LEMMA RowInfo ==
  ASSUME NEW X, IsPairs(X), Sound(X), NEW c, NEW t, Row(X, c, t)
  PROVE  CombinedInfo(c) = InfoFromStr(t)
  <1>. DEFINE n == Len(c)
              P(i) == PrefixInfo(c, i)
  <1>1. c \in Seq(Kids(X)) /\ t \in Text /\ Utf8(t) /\ n \in Nat /\ Len(t) \in Nat
    BY LenProperties, TextFacts DEF Row, IsText
  <1>2. AreKids(Kids(X))
    BY KidsTyped
  <1>3. P(0) = InfoNew /\ \A i \in 1..n : P(i) = InfoAdd(P(i - 1), c[i].info)
    BY <1>1, <1>2, PrefixFacts
  <1>. HIDE DEF P, n
  <1>4. PICK p : Marks(p, c, t) /\ \A i \in 1..n : <<c[i].node, Slice(t, p[i - 1], p[i])>> \in X
    BY DEF Row, Spells, n
  <1>5. /\ \A i \in 0..n : p[i] \in 0..Len(t) /\ IsBreak(p[i], t)
        /\ p[0] = 0 /\ p[n] = Len(t)
        /\ \A i, j \in 0..n : i <= j => p[i] <= p[j]
    BY <1>4 DEF Marks, n
  <1>. DEFINE T == {i \in 0..n : P(i) = InfoFromStr(Slice(t, 0, p[i]))}
  <1>6. 0 \in T
    <2>1. 0 \in 0..Len(t) /\ t \in Seq(Byte)
      BY <1>1 DEF Text
    <2>2. Slice(t, 0, 0) \in Seq(Byte) /\ Len(Slice(t, 0, 0)) = 0
      BY <2>1, CutFacts
    <2>3. Slice(t, 0, 0) = <<>>
      BY <2>2, EmptySeq
    <2>. QED  BY <1>1, <1>3, <1>5, <2>3, InfoOfNothing
  <1>7. ASSUME NEW i \in 0..n, i # n, i \in T PROVE i + 1 \in T
    <2>1. i + 1 \in 1..n /\ i + 1 \in 0..n /\ (i + 1) - 1 = i /\ i <= i + 1
      BY <1>1, <1>7
    <2>. DEFINE a == p[i]
                b == p[i + 1]
                l == Slice(t, 0, a)
                r == Slice(t, a, b)
                k == c[i + 1]
    <2>2. a \in 0..Len(t) /\ b \in 0..Len(t) /\ a <= b /\ IsBreak(a, t)
      BY <1>5, <1>7, <2>1
    <2>3. b \in a..Len(t)
      BY <1>1, <2>2
    <2>4. <<k.node, r>> \in X
      BY <1>4, <2>1
    <2>5. P(i + 1) = InfoAdd(P(i), k.info) /\ P(i) = InfoFromStr(l)
      BY <1>3, <1>7, <2>1
    <2>6. k \in Kids(X)
      BY <1>1, <2>1, ElementOfSeq DEF n
    <2>. HIDE DEF a, b
    <2>7. l \o r = Slice(t, 0, b) /\ r \in Text
      BY <1>1, <2>2, <2>3, ThreeParts
    <2>8. l \in Text
      BY <1>1, <2>2, CutFacts DEF Text
    <2>9. Slice(t, 0, b) \in Text /\ Slice(t, 0, b) \o From(t, b) = t /\ From(t, b) \in Text /\ Len(l) = a
          /\ Len(Slice(t, 0, b)) = b
      BY <1>1, <2>2, CutFacts DEF Text
    <2>. HIDE DEF l, r, k
    <2>10. IsBreak(Len(l), l \o r)
      <3>. DEFINE x == Slice(t, 0, b)
                  y == From(t, b)
      <3>1. x \in Text /\ y \in Text /\ x \o y = t /\ a \in 0..Len(x)
        BY <1>1, <2>2, <2>3, <2>9
      <3>. HIDE DEF x, y
      <3>2. IsBreak(a, x \o y)
        BY <2>2, <3>1
      <3>3. IsBreak(a, x)
        BY <3>1, <3>2, BreaksOfParts
      <3>. QED  BY <2>7, <2>9, <3>3 DEF x
    <2>11. Meets(l, r)
      BY <2>7, <2>8, <2>10, BreaksOfParts
    <2>12. ~ Joins(l, r)
      BY <2>11 DEF Meets, Joins, SeamIsBreak, CutAllowed
    <2>13. InfoFromStr(l \o r) = AddBreaks(InfoAdd(InfoFromStr(l), InfoFromStr(r)), 0)
      BY <2>7, <2>8, <2>12, InfoOfConcat
    <2>14. InfoAdd(InfoFromStr(l), InfoFromStr(r)) \in TextInfo
      BY <2>7, <2>8, InfoTyped, AddTyped
    <2>15. InfoFromStr(l \o r) = InfoAdd(InfoFromStr(l), InfoFromStr(r))
      BY <2>13, <2>14, AddNothing
    <2>16. k.info = NodeInfo(k.node)
      BY <2>6, KidsParts
    <2>17. k.info = InfoFromStr(r)
      BY <2>4, <2>16 DEF Sound
    <2>18. P(i + 1) = InfoFromStr(Slice(t, 0, b))
      BY <2>5, <2>7, <2>15, <2>17
    <2>. QED  BY <2>1, <2>18 DEF b
  <1>8. 0..n \subseteq T
    <2>. HIDE DEF T
    <2>. QED  BY <1>1, <1>6, <1>7, BoundedInduction
  <1>9. P(n) = InfoFromStr(Slice(t, 0, Len(t)))
    BY <1>1, <1>5, <1>8
  <1>10. P(n) = InfoFromStr(t)
    BY <1>1, <1>9, WholeSlice
  <1>. QED  BY <1>10 DEF CombinedInfo, P, n

LEMMA RowOneParts ==
  ASSUME NEW X, NEW k, NEW t, Row(X, <<k>>, t)
  PROVE  <<k.node, t>> \in X
  <1>. DEFINE c == <<k>>
  <1>1. Len(c) = 1 /\ c[1] = k
    OBVIOUS
  <1>. HIDE DEF c
  <1>2. PICK p : Marks(p, c, t) /\ \A i \in 1..1 : <<c[i].node, Slice(t, p[i - 1], p[i])>> \in X
    BY <1>1 DEF Row, Spells, c
  <1>3. p[0] = 0 /\ p[1] = Len(t)
    BY <1>1, <1>2 DEF Marks
  <1>4. <<c[1].node, Slice(t, p[1 - 1], p[1])>> \in X
    BY <1>2
  <1>5. Slice(t, 0, Len(t)) = t
    BY WholeSlice DEF Row, IsText
  <1>. QED  BY <1>1, <1>3, <1>4, <1>5

-----------------------------------------------------------------------------
(* A row around one of its children *)

Before(c, i) == SubSeq(c, 1, i - 1)
After(c, i)  == SubSeq(c, i + 1, Len(c))

\* The text t of the row c is a before child i, x in it, b after it.
AtChild(X, c, i, t, a, x, b) ==
  /\ Row(X, Before(c, i), a) /\ Row(X, After(c, i), b) /\ <<c[i].node, x>> \in X
  /\ t = a \o (x \o b) /\ Meets(a, x) /\ Meets(x, b)
  /\ c[i].info = InfoFromStr(x) /\ PrefixInfo(c, i - 1) = InfoFromStr(a)

LEMMA RowChild ==
  ASSUME NEW X, IsPairs(X), Sound(X), NEW c, NEW t, Row(X, c, t), NEW i \in 1..Len(c)
  PROVE  \E a, x, b : AtChild(X, c, i, t, a, x, b)
  <1>. DEFINE l == Before(c, i)
              r == After(c, i)
              k == c[i]
              m == <<k>>
              K == Kids(X)
  <1>1. c \in Seq(K) /\ Len(c) \in Nat /\ AreKids(K)
    BY LenProperties, KidsTyped DEF Row
  <1>2. /\ l \in Seq(K) /\ r \in Seq(K) /\ c = l \o (m \o r) /\ Len(l) = i - 1
        /\ \A j \in 1..(i - 1) : l[j] = c[j]
    BY ZenonT(60), <1>1, AroundChild DEF Before, After
  <1>3. k \in K
    BY <1>1, ElementOfSeq
  <1>4. m \in Seq(K) /\ m \o r \in Seq(K)
    BY <1>2, <1>3, ConcatProperties
  <1>. HIDE DEF l, r, m, K
  <1>5. Row(X, l \o (m \o r), t)
    BY <1>2
  <1>6. PICK a, y : InRows(X, l, m \o r, t, a, y)
    BY <1>2, <1>4, <1>5, RowParts DEF K
  <1>7. t = a \o y /\ Row(X, l, a) /\ Row(X, m \o r, y) /\ Meets(a, y)
    BY <1>6 DEF InRows
  <1>8. PICK x, b : InRows(X, m, r, y, x, b)
    BY <1>2, <1>4, <1>7, RowParts DEF K
  <1>9. y = x \o b /\ Row(X, m, x) /\ Row(X, r, b) /\ Meets(x, b)
    BY <1>8 DEF InRows
  <1>10. <<k.node, x>> \in X
    BY <1>9, RowOneParts DEF m
  <1>11. Len(x) # 0 /\ x \in Text /\ NodeInfo(k.node) = InfoFromStr(x)
    BY <1>10 DEF Sound, IsText
  <1>12. a \in Text /\ b \in Text
    BY <1>7, <1>9 DEF Row, IsText
  <1>13. Meets(a, x)
    BY <1>7, <1>9, <1>11, <1>12, MeetsConcat
  <1>14. k.info = InfoFromStr(x)
    BY <1>3, <1>11, KidsParts DEF K
  <1>15. PrefixInfo(c, i - 1) = InfoFromStr(a)
    <2>1. i - 1 \in Nat /\ i - 1 <= Len(l) /\ i - 1 <= Len(c) /\ i - 1 \in 0..(i - 1)
      BY <1>1, <1>2
    <2>2. AgreeUpTo(l, c, i - 1)
      BY <1>2 DEF AgreeUpTo
    <2>3. PrefixInfo(l, i - 1) = PrefixInfo(c, i - 1)
      BY ZenonT(60), <1>1, <1>2, <2>1, <2>2, PrefixSame
    <2>4. CombinedInfo(l) = InfoFromStr(a)
      BY <1>7, RowInfo
    <2>. QED  BY <1>2, <2>3, <2>4 DEF CombinedInfo
  <1>16. AtChild(X, c, i, t, a, x, b)
    BY <1>7, <1>9, <1>10, <1>13, <1>14, <1>15 DEF AtChild, l, r, k
  <1>. QED  BY <1>16

\* The row with other children in the place of one.
LEMMA RowReplace ==
  ASSUME NEW X, Sound(X), NEW c, NEW i, NEW t, NEW a, NEW x, NEW b, AtChild(X, c, i, t, a, x, b),
         NEW e, NEW u, Row(X, e, u), Len(u) # 0, Meets(a, u), Meets(u, b)
  PROVE  Row(X, Before(c, i) \o (e \o After(c, i)), a \o (u \o b))
  <1>1. Row(X, Before(c, i), a) /\ Row(X, After(c, i), b)
    BY DEF AtChild
  <1>2. Row(X, e \o After(c, i), u \o b)
    BY <1>1, RowBoth
  <1>3. a \in Text /\ b \in Text /\ u \in Text
    BY <1>1 DEF Row, IsText
  <1>4. Meets(a, u \o b)
    BY <1>3, MeetsConcat
  <1>. QED  BY <1>1, <1>2, <1>4, RowBoth

-----------------------------------------------------------------------------
(* Every level is sound *)

LEMMA RowNotEmpty ==
  ASSUME NEW X, IsPairs(X), Sound(X), NEW c, NEW t, Row(X, c, t), Len(c) # 0
  PROVE  Len(t) # 0
  <1>1. Len(c) \in Nat
    BY LenProperties DEF Row
  <1>2. 1 \in 1..Len(c)
    BY <1>1
  <1>3. PICK a, x, b : AtChild(X, c, 1, t, a, x, b)
    BY <1>2, RowChild
  <1>4. t = a \o (x \o b) /\ Row(X, Before(c, 1), a) /\ Row(X, After(c, 1), b) /\ <<c[1].node, x>> \in X
    BY <1>3 DEF AtChild
  <1>5. x \in Text /\ Len(x) # 0
    BY <1>4 DEF Sound, IsText
  <1>6. a \in Text /\ b \in Text
    BY <1>4 DEF Row, IsText
  <1>7. Len(x) \in Nat /\ Len(a) \in Nat /\ Len(b) \in Nat
    BY <1>5, <1>6, TextFacts
  <1>8. x \o b \in Text /\ Len(x \o b) = Len(x) + Len(b)
    BY <1>5, <1>6, ConcatFacts
  <1>9. Len(a \o (x \o b)) = Len(a) + (Len(x) + Len(b))
    BY <1>6, <1>8, ConcatFacts
  <1>. QED  BY <1>4, <1>5, <1>7, <1>9

LEMMA AboveSound ==
  ASSUME NEW X, IsPairs(X), Sound(X)
  PROVE  Sound(Above(X))
  <1>. SUFFICES ASSUME NEW n, NEW t, <<n, t>> \in Above(X)
                PROVE  IsText(t) /\ Len(t) # 0 /\ NodeInfo(n) = InfoFromStr(t)
    BY DEF Sound
  <1>1. n = Internal(n.children) /\ Row(X, n.children, t) /\ Len(n.children) \in 1..MAX_CHILDREN
    BY AboveParts
  <1>2. Len(n.children) # 0
    BY <1>1
  <1>3. Len(t) # 0
    BY <1>1, <1>2, RowNotEmpty
  <1>4. CombinedInfo(n.children) = InfoFromStr(t)
    BY <1>1, RowInfo
  <1>5. NodeInfo(n) = CombinedInfo(n.children)
    BY <1>1, InternalFacts
  <1>6. IsText(t)
    BY <1>1 DEF Row
  <1>. QED  BY <1>3, <1>4, <1>5, <1>6

LEMMA LeafLevelSound ==
  IsPairs(LeafLevel) /\ Sound(LeafLevel)
  <1>1. ASSUME NEW x \in LeafLevel PROVE x = <<x[1], x[2]>>
    BY DEF LeafLevel
  <1>2. ASSUME NEW n, NEW t, <<n, t>> \in LeafLevel
        PROVE  IsText(t) /\ Len(t) # 0 /\ NodeInfo(n) = InfoFromStr(t)
    <2>1. n = Leaf(t) /\ t \in Text /\ Utf8(t) /\ Len(t) # 0
      BY <1>2, LeafMember
    <2>. QED  BY <2>1 DEF IsText, NodeInfo, Leaf
  <1>. QED  BY <1>1, <1>2 DEF IsPairs, Sound

\* The summary of each sound tree is that of its text, whatever its height: every info
\* that a node keeps of a child is the one assert_integrity counts anew.
THEOREM LevelSound ==
  ASSUME NEW h \in Nat
  PROVE  IsPairs(Level[h]) /\ Sound(Level[h])
  <1>. DEFINE T == {k \in Nat : IsPairs(Level[k]) /\ Sound(Level[k])}
  <1>1. 0 \in T
    BY LevelStep, LeafLevelSound
  <1>2. ASSUME NEW k \in Nat, k \in T PROVE k + 1 \in T
    <2>1. Level[k + 1] = Above(Level[k])
      BY LevelStep
    <2>2. IsPairs(Level[k]) /\ Sound(Level[k])
      BY <1>2
    <2>. QED  BY <2>1, <2>2, AboveSound, AbovePairs
  <1>3. Nat \subseteq T
    <2>. HIDE DEF T
    <2>. QED  BY <1>1, <1>2, SetInduction
  <1>. QED  BY <1>3

-----------------------------------------------------------------------------
(* A char of a text is where it is in the part that has it *)

LEMMA FromOneOn ==
  ASSUME NEW t \in Text, Len(t) # 0, t[1] # Cont
  PROVE  InfoFromStr(t).chars >= 1
  <1>. DEFINE S == {i \in DOMAIN t : t[i] # Cont}
  <1>1. Len(t) \in Nat /\ DOMAIN t = 1..Len(t)
    BY TextFacts
  <1>2. S \in SUBSET (1..Len(t)) /\ 1 \in S
    BY <1>1
  <1>3. IsFiniteSet(S)
    <2>1. IsFiniteSet(1..Len(t))
      BY <1>1, FS_Interval
    <2>. HIDE DEF S
    <2>. QED  BY <1>2, <2>1, FS_Subset
  <1>4. Cardinality(S) \in Nat /\ Cardinality(S) # 0
    BY <1>2, <1>3, FS_CardinalityType, FS_EmptySet
  <1>5. InfoFromStr(t).chars = Cardinality(S)
    BY DEF InfoFromStr
  <1>. HIDE DEF S
  <1>. QED  BY <1>4, <1>5

LEMMA CharsOfConcat ==
  ASSUME NEW l \in Text, NEW r \in Text
  PROVE  /\ InfoFromStr(l \o r).chars = InfoFromStr(l).chars + InfoFromStr(r).chars
         /\ InfoFromStr(l).chars \in Nat /\ InfoFromStr(r).chars \in Nat
  <1>1. InfoFromStr(l) \in TextInfo /\ InfoFromStr(r) \in TextInfo
    BY InfoTyped
  <1>2. InfoFromStr(l).chars \in Nat /\ InfoFromStr(r).chars \in Nat
    BY InfoTyped
  <1>3. InfoAdd(InfoFromStr(l), InfoFromStr(r)) \in TextInfo
    BY <1>1, AddTyped
  <1>4. \A i \in TextInfo : \A n : AddBreaks(i, n).chars = i.chars
    BY DEF AddBreaks, TextInfo
  <1>5. InfoFromStr(l \o r).chars = InfoAdd(InfoFromStr(l), InfoFromStr(r)).chars
    BY <1>3, <1>4, InfoOfConcat
  <1>. QED  BY <1>2, <1>5 DEF InfoAdd

\* Two places in no char with as many chars before them are one.
LEMMA SameCharsBefore ==
  ASSUME NEW t \in Text, NEW j \in 0..Len(t), NEW k \in 0..Len(t), IsBoundary(j, t),
         InfoFromStr(Slice(t, 0, j)).chars = InfoFromStr(Slice(t, 0, k)).chars
  PROVE  ~ (j < k)
  <1>. SUFFICES ASSUME j < k PROVE FALSE
    OBVIOUS
  <1>1. Len(t) \in Nat
    BY TextFacts
  <1>2. k \in j..Len(t)
    BY <1>1
  <1>. DEFINE l == Slice(t, 0, j)
              m == Slice(t, j, k)
  <1>3. l \in Text
    BY CutFacts DEF Text
  <1>4. m \in Text /\ Len(m) = k - j /\ (\A i \in 1..(k - j) : m[i] = t[j + i]) /\ l \o m = Slice(t, 0, k)
    BY <1>2, ThreeParts
  <1>. HIDE DEF l, m
  <1>5. Len(m) # 0 /\ 1 \in 1..(k - j) /\ j # Len(t)
    BY <1>1, <1>2, <1>4
  <1>6. m[1] = t[j + 1] /\ t[j + 1] # Cont
    BY <1>4, <1>5 DEF IsBoundary
  <1>7. InfoFromStr(m).chars >= 1
    BY <1>4, <1>5, <1>6, FromOneOn
  <1>8. InfoFromStr(l \o m).chars = InfoFromStr(l).chars + InfoFromStr(m).chars
        /\ InfoFromStr(l).chars \in Nat /\ InfoFromStr(m).chars \in Nat
    BY <1>3, <1>4, CharsOfConcat
  <1>9. InfoFromStr(l).chars = InfoFromStr(l \o m).chars
    BY <1>4 DEF l
  <1>. QED  BY <1>7, <1>8, <1>9

\* The place in no char that has c chars before it is where CharToByteIdx says.
LEMMA CharIdxUnique ==
  ASSUME NEW t \in Text, NEW c \in Nat, NEW k \in 0..Len(t), IsBoundary(k, t),
         InfoFromStr(Slice(t, 0, k)).chars = c
  PROVE  CharToByteIdx(t, c) = k
  <1>. DEFINE j == CharToByteIdx(t, c)
              n == InfoFromStr(t).chars
  <1>1. /\ j \in 0..Len(t) /\ IsBoundary(j, t)
        /\ InfoFromStr(Slice(t, 0, j)).chars = Min2(c, n)
    BY CharToByte
  <1>2. Len(t) \in Nat
    BY TextFacts
  <1>. HIDE DEF j
  <1>3. c <= n
    <2>1. Slice(t, 0, k) \in Text /\ From(t, k) \in Text /\ Slice(t, 0, k) \o From(t, k) = t
      BY CutFacts DEF Text
    <2>. DEFINE x == Slice(t, 0, k)
                y == From(t, k)
    <2>2. x \in Text /\ y \in Text /\ x \o y = t
      BY <2>1
    <2>3. InfoFromStr(x).chars = c
      OBVIOUS
    <2>. HIDE DEF x, y
    <2>4. InfoFromStr(t).chars = c + InfoFromStr(y).chars /\ InfoFromStr(y).chars \in Nat
      BY ZenonT(60), <2>2, <2>3, CharsOfConcat
    <2>. QED  BY <2>4
  <1>4. n \in Nat
    BY InfoTyped
  <1>. HIDE DEF n
  <1>5. InfoFromStr(Slice(t, 0, j)).chars = InfoFromStr(Slice(t, 0, k)).chars
    BY <1>1, <1>3, <1>4 DEF Min2
  <1>6. ~ (j < k)
    BY <1>1, <1>5, SameCharsBefore
  <1>7. ~ (k < j)
    BY <1>1, <1>5, SameCharsBefore
  <1>8. j = k
    BY <1>1, <1>2, <1>6, <1>7
  <1>. QED  BY <1>8 DEF j

\* Byte j of t is byte k of the text x, in the middle of t.
IsInMiddle(t, j, a, x, b, k) ==
  /\ IsText(a) /\ IsText(x) /\ IsText(b)
  /\ k \in 0..Len(x)
  /\ t = a \o (x \o b)
  /\ j = Len(a) + k

LEMMA PlaceInPart ==
  ASSUME NEW t, NEW j, NEW a, NEW x, NEW b, NEW k, IsInMiddle(t, j, a, x, b, k)
  PROVE  /\ t \in Text /\ Len(t) = Len(a) + (Len(x) + Len(b)) /\ j \in 0..Len(t)
         /\ Slice(t, 0, j) = a \o Slice(x, 0, k)
         /\ From(t, j) = From(x, k) \o b
  <1>. DEFINE p == Slice(x, 0, k)
              q == From(x, k)
              l == a \o p
              r == q \o b
  <1>1. a \in Text /\ x \in Text /\ b \in Text /\ k \in 0..Len(x)
    BY DEF IsInMiddle, IsText
  <1>2. p \in Text /\ q \in Text
    BY <1>1, CutFacts DEF Text
  <1>3. p \o q = x /\ Len(p) = k
    BY <1>1, CutFacts DEF Text
  <1>4. Len(a) \in Nat /\ Len(x) \in Nat /\ Len(b) \in Nat
    BY <1>1, TextFacts
  <1>5. x \o b \in Text /\ Len(x \o b) = Len(x) + Len(b)
    BY <1>1, ConcatFacts
  <1>6. a \o (x \o b) \in Text /\ Len(a \o (x \o b)) = Len(a) + (Len(x) + Len(b))
    BY <1>1, <1>5, ConcatFacts
  <1>7. t = a \o (x \o b) /\ j = Len(a) + k
    BY DEF IsInMiddle
  <1>. HIDE DEF p, q
  <1>8. l \in Text /\ r \in Text /\ Len(l) = Len(a) + Len(p)
    BY <1>1, <1>2, ConcatFacts
  <1>9. (p \o q) \o b = p \o (q \o b)
    BY SMTT(60), <1>1, <1>2, TextAssoc
  <1>10. x \o b = p \o r
    BY <1>3, <1>9
  <1>. HIDE DEF r
  <1>11. (a \o p) \o r = a \o (p \o r)
    <2>1. r \in Text /\ a \in Text /\ p \in Text
      BY <1>1, <1>2, <1>8
    <2>. QED  BY <2>1, TextAssoc
  <1>12. t = l \o r
    BY <1>7, <1>10, <1>11
  <1>. HIDE DEF l
  <1>13. Slice(l \o r, 0, Len(l)) = l /\ From(l \o r, Len(l)) = r
    BY <1>8, PartsOfConcat
  <1>14. Len(l) = j
    BY <1>3, <1>7, <1>8
  <1>15. Slice(t, 0, j) = l /\ From(t, j) = r
    BY <1>12, <1>13, <1>14
  <1>16. j \in 0..Len(t)
    BY <1>1, <1>4, <1>6, <1>7
  <1>. QED  BY <1>6, <1>7, <1>15, <1>16 DEF l, r, p, q

\* The place at byte k of the middle text is in no char of all three.
LEMMA BoundaryInPart ==
  ASSUME NEW t, NEW j, NEW a, NEW x, NEW b, NEW k, IsInMiddle(t, j, a, x, b, k),
         IsBoundary(k, x)
  PROVE  IsBoundary(j, t)
  <1>1. /\ t \in Text /\ Len(t) = Len(a) + (Len(x) + Len(b)) /\ j \in 0..Len(t)
        /\ From(t, j) = From(x, k) \o b
    BY PlaceInPart
  <1>2. /\ a \in Text /\ x \in Text /\ b \in Text /\ Utf8(b) /\ k \in 0..Len(x)
        /\ j = Len(a) + k
    BY DEF IsInMiddle, IsText
  <1>3. SUFFICES ASSUME j # Len(t) PROVE t[j + 1] # Cont
    BY DEF IsBoundary
  <1>. DEFINE y == From(x, k)
  <1>4. y \in Text /\ Len(y) = Len(x) - k /\ (k # Len(x) => y[1] = x[k + 1])
    BY <1>2, PartsFacts
  <1>5. From(t, j)[1] = t[j + 1]
    BY <1>1, <1>3, PartsFacts
  <1>6. From(t, j) = y \o b
    BY <1>1
  <1>. HIDE DEF y
  <1>7. Len(a) \in Nat /\ Len(x) \in Nat /\ Len(b) \in Nat /\ Len(y) \in Nat
    BY <1>2, <1>4, TextFacts
  <1>8. /\ \A i \in 1..Len(y) : (y \o b)[i] = y[i]
        /\ \A i \in 1..Len(b) : (y \o b)[Len(y) + i] = b[i]
    BY <1>2, <1>4, ConcatFacts
  <1>9. CASE k # Len(x)
    <2>1. 1 \in 1..Len(y)
      BY <1>2, <1>4, <1>7, <1>9
    <2>2. x[k + 1] # Cont
      BY <1>9 DEF IsBoundary
    <2>. QED  BY <1>4, <1>5, <1>6, <1>8, <1>9, <2>1, <2>2
  <1>10. CASE k = Len(x)
    <2>1. Len(y) = 0
      BY <1>4, <1>7, <1>10
    <2>2. Len(b) # 0
      <3>1. Len(t) = Len(a) + (Len(x) + Len(b)) /\ j = Len(a) + k /\ j # Len(t)
        BY <1>1, <1>2, <1>3
      <3>. QED  BY <1>7, <1>10, <3>1
    <2>3. 1 \in 1..Len(b) /\ 0 + 1 = 1
      BY <1>7, <2>2
    <2>4. (y \o b)[1] = b[1]
      BY <1>8, <2>1, <2>3
    <2>5. b[1] # Cont
      BY <1>2, <2>2, FirstByte
    <2>. QED  BY <1>5, <1>6, <2>4, <2>5
  <1>. QED  BY <1>9, <1>10

\* Char idx of t is char c of the text x, in the middle of t.
IsCharInMiddle(t, idx, a, x, b, c) ==
  /\ IsText(a) /\ IsText(x) /\ IsText(b)
  /\ t = a \o (x \o b)
  /\ c \in 0..InfoFromStr(x).chars
  /\ idx = InfoFromStr(a).chars + c

LEMMA CharInPart ==
  ASSUME NEW t, NEW idx, NEW a, NEW x, NEW b, NEW c, IsCharInMiddle(t, idx, a, x, b, c)
  PROVE  IsInMiddle(t, CharToByteIdx(t, idx), a, x, b, CharToByteIdx(x, c))
  <1>. DEFINE k == CharToByteIdx(x, c)
              j == Len(a) + k
  <1>1. a \in Text /\ x \in Text /\ b \in Text /\ IsText(a) /\ IsText(x) /\ IsText(b)
    BY DEF IsCharInMiddle, IsText
  <1>2. InfoFromStr(x).chars \in Nat
    BY <1>1, InfoTyped
  <1>3. c \in Nat /\ c <= InfoFromStr(x).chars /\ idx = InfoFromStr(a).chars + c /\ t = a \o (x \o b)
    BY <1>2 DEF IsCharInMiddle
  <1>4. k \in 0..Len(x) /\ IsBoundary(k, x) /\ InfoFromStr(Slice(x, 0, k)).chars = Min2(c, InfoFromStr(x).chars)
    BY <1>1, <1>3, CharToByte
  <1>5. InfoFromStr(Slice(x, 0, k)).chars = c
    BY <1>2, <1>3, <1>4 DEF Min2
  <1>. HIDE DEF k
  <1>6. IsInMiddle(t, j, a, x, b, k)
    BY <1>1, <1>3, <1>4 DEF IsInMiddle
  <1>. HIDE DEF j
  <1>7. t \in Text /\ j \in 0..Len(t) /\ Slice(t, 0, j) = a \o Slice(x, 0, k)
    BY <1>6, PlaceInPart
  <1>8. Slice(x, 0, k) \in Text
    BY <1>1, <1>4, CutFacts DEF Text
  <1>. DEFINE y == Slice(x, 0, k)
  <1>9. y \in Text /\ InfoFromStr(y).chars = c /\ Slice(t, 0, j) = a \o y
    BY <1>5, <1>7, <1>8
  <1>. HIDE DEF y
  <1>10. InfoFromStr(a \o y).chars = InfoFromStr(a).chars + InfoFromStr(y).chars
         /\ InfoFromStr(a).chars \in Nat
    BY <1>1, <1>9, CharsOfConcat
  <1>11. IsBoundary(j, t)
    BY <1>4, <1>6, BoundaryInPart
  <1>12. idx \in Nat /\ InfoFromStr(Slice(t, 0, j)).chars = idx
    <2>1. idx = InfoFromStr(a).chars + c
      BY <1>3
    <2>2. InfoFromStr(a \o y).chars = idx
      BY <1>9, <1>10, <2>1
    <2>3. idx \in Nat
      BY <1>3, <1>10
    <2>4. Slice(t, 0, j) = a \o y
      BY <1>9
    <2>5. InfoFromStr(Slice(t, 0, j)).chars = InfoFromStr(a \o y).chars
      BY <2>4
    <2>. QED  BY <2>2, <2>3, <2>5
  <1>13. CharToByteIdx(t, idx) = j
    BY <1>7, <1>11, <1>12, CharIdxUnique
  <1>. QED  BY <1>6, <1>13 DEF k

\* Inserting into a text is inserting into a part of it.
LEMMA InsertInPart ==
  ASSUME NEW t, NEW j, NEW a, NEW x, NEW b, NEW k, IsInMiddle(t, j, a, x, b, k),
         NEW w \in Text
  PROVE  InsertStr(t, j, w) = a \o (InsertStr(x, k, w) \o b)
  <1>. DEFINE p == Slice(x, 0, k)
              q == From(x, k)
  <1>1. a \in Text /\ x \in Text /\ b \in Text /\ k \in 0..Len(x)
    BY DEF IsInMiddle, IsText
  <1>2. p \in Text /\ q \in Text
    BY <1>1, CutFacts DEF Text
  <1>3. Slice(t, 0, j) = a \o p /\ From(t, j) = q \o b
    BY PlaceInPart
  <1>4. InsertStr(x, k, w) = (p \o w) \o q
    BY DEF InsertStr
  <1>. HIDE DEF p, q
  <1>5. InsertStr(t, j, w) = ((a \o p) \o w) \o (q \o b)
    BY <1>3 DEF InsertStr
  <1>. DEFINE pw == p \o w
              qb == q \o b
  <1>6. pw \in Text /\ qb \in Text
    BY <1>1, <1>2, ConcatFacts
  <1>7. (a \o p) \o w = a \o (p \o w)
    BY SMTT(60), <1>1, <1>2, TextAssoc
  <1>8. (a \o p) \o w = a \o pw
    BY <1>7
  <1>. HIDE DEF pw
  <1>9. (pw \o q) \o b = pw \o (q \o b)
    <2>1. pw \in Text /\ q \in Text /\ b \in Text
      BY <1>1, <1>2, <1>6
    <2>. QED  BY SMTT(60), <2>1, TextAssoc
  <1>10. (pw \o q) \o b = pw \o qb
    BY <1>9
  <1>. HIDE DEF qb
  <1>11. (a \o pw) \o qb = a \o (pw \o qb)
    BY SMTT(60), <1>1, <1>6, TextAssoc
  <1>12. InsertStr(t, j, w) = (a \o pw) \o qb
    BY <1>5, <1>8 DEF qb
  <1>13. InsertStr(x, k, w) \o b = pw \o qb
    BY <1>4, <1>10 DEF pw
  <1>. QED  BY <1>11, <1>12, <1>13

-----------------------------------------------------------------------------
(* The child that has a char *)

LEMMA SomeChars ==
  ASSUME NEW t, IsText(t), Len(t) # 0
  PROVE  InfoFromStr(t).chars >= 1
  BY FirstByte, FromOneOn DEF IsText

\* Char idx of the row is char k of its child i.
Found(X, c, i, t, idx, a, x, b, k) ==
  /\ AtChild(X, c, i, t, a, x, b)
  /\ k \in 0..InfoFromStr(x).chars
  /\ idx = InfoFromStr(a).chars + k
  /\ Len(b) = 0 \/ k < InfoFromStr(x).chars
  /\ idx = 0 => Len(a) = 0

\* search_char_idx finds it.
LEMMA ChildFound ==
  ASSUME NEW X, IsPairs(X), Sound(X), NEW c, NEW t, Row(X, c, t), Len(c) # 0,
         NEW idx \in 0..InfoFromStr(t).chars
  PROVE  /\ SearchCharIdx(c, idx) \in 1..Len(c)
         /\ \E a, x, b : Found(X, c, SearchCharIdx(c, idx), t, idx, a, x, b,
                               idx - PrefixInfo(c, SearchCharIdx(c, idx) - 1).chars)
  <1>. DEFINE K == Kids(X)
              i == SearchCharIdx(c, idx)
  <1>1. c \in Seq(K) /\ AreKids(K) /\ c # <<>>
    BY KidsTyped DEF Row
  <1>2. t \in Text
    BY DEF Row, IsText
  <1>3. idx \in Nat /\ idx <= InfoFromStr(t).chars /\ InfoFromStr(t).chars \in Nat
    BY <1>2, InfoTyped
  <1>4. /\ i \in 1..Len(c) /\ PrefixInfo(c, i - 1).chars <= idx
        /\ i = Len(c) \/ idx < PrefixInfo(c, i).chars
    BY <1>1, <1>3, SearchCharIdxRight
  <1>5. Len(c) \in Nat /\ PrefixInfo(c, i) = InfoAdd(PrefixInfo(c, i - 1), c[i].info)
    BY <1>1, <1>4, LenProperties, PrefixFacts
  <1>. HIDE DEF i, K
  <1>6. PICK a, x, b : AtChild(X, c, i, t, a, x, b)
    BY <1>4, RowChild
  <1>7. /\ Row(X, Before(c, i), a) /\ Row(X, After(c, i), b) /\ <<c[i].node, x>> \in X
        /\ t = a \o (x \o b)
        /\ c[i].info = InfoFromStr(x) /\ PrefixInfo(c, i - 1) = InfoFromStr(a)
    BY <1>6 DEF AtChild
  <1>8. IsText(a) /\ IsText(b) /\ IsText(x) /\ Len(x) # 0
    BY <1>7 DEF Row, Sound
  <1>. DEFINE k == idx - PrefixInfo(c, i - 1).chars
              na == InfoFromStr(a).chars
              nx == InfoFromStr(x).chars
              nb == InfoFromStr(b).chars
  <1>9. InfoFromStr(t).chars = na + (nx + nb) /\ na \in Nat /\ nx \in Nat /\ nb \in Nat
    <2>1. a \in Text /\ x \in Text /\ b \in Text
      BY <1>8 DEF IsText
    <2>2. x \o b \in Text
      BY <2>1, ConcatFacts
    <2>3. InfoFromStr(x \o b).chars = nx + nb /\ nx \in Nat /\ nb \in Nat
      BY <2>1, CharsOfConcat
    <2>4. InfoFromStr(a \o (x \o b)).chars = na + InfoFromStr(x \o b).chars /\ na \in Nat
      BY <2>1, <2>2, CharsOfConcat
    <2>. QED  BY <1>7, <2>3, <2>4
  <1>10. k = idx - na /\ na <= idx /\ idx = na + k /\ k \in Nat
    BY SMTT(60), <1>3, <1>4, <1>7, <1>9
  <1>. HIDE DEF k
  <1>11. Len(b) = 0 \/ k < nx
    <2>1. CASE i = Len(c)
      <3>1. SubSeq(c, Len(c) + 1, Len(c)) = <<>>
        BY <1>1, <1>5, CutChildren, EmptySeq
      <3>2. After(c, i) = <<>>
        BY <2>1, <3>1 DEF After
      <3>3. b = <<>>
        BY <1>7, <3>2, RowOfNone
      <3>. QED  BY <3>3
    <2>2. CASE idx < PrefixInfo(c, i).chars
      <3>1. PrefixInfo(c, i).chars = na + nx
        BY <1>5, <1>7 DEF InfoAdd
      <3>. QED  BY <1>3, <1>9, <1>10, <2>2, <3>1
    <2>. QED  BY <1>4, <2>1, <2>2
  <1>12. k <= nx
    <2>1. CASE Len(b) = 0
      <3>1. nb = 0
        <4>1. b = <<>>
          BY <1>8, <2>1, EmptySeq DEF IsText, Text
        <4>2. InfoFromStr(<<>>) = InfoNew
          BY InfoOfNothing
        <4>. QED  BY <4>1, <4>2 DEF InfoNew
      <3>. QED  BY <1>3, <1>9, <1>10, <3>1
    <2>2. CASE k < nx
      BY <1>9, <1>10, <2>2
    <2>. QED  BY <1>11, <2>1, <2>2
  <1>13. idx = 0 => Len(a) = 0
    <2>. SUFFICES ASSUME idx = 0, Len(a) # 0 PROVE FALSE
      OBVIOUS
    <2>1. na >= 1
      BY <1>8, SomeChars
    <2>. QED  BY <1>9, <1>10, <2>1
  <1>14. Found(X, c, i, t, idx, a, x, b, k)
    BY <1>6, <1>9, <1>10, <1>11, <1>12, <1>13 DEF Found
  <1>. QED  BY <1>4, <1>14 DEF i, k

-----------------------------------------------------------------------------
(* Compaction *)

\* Two leaves that may be put together, filled, are a row of the same text.
LEMMA FilledRight ==
  ASSUME NEW l, NEW t, <<Leaf(l), l>> \in LeafLevel, <<Leaf(t), t>> \in LeafLevel, Meets(l, t)
  PROVE  Row(LeafLevel, Filled(l, t), l \o t) /\ Len(Filled(l, t)) \in 1..2
  <1>. DEFINE X == LeafLevel
  <1>1. /\ l \in Text /\ Utf8(l) /\ Len(l) # 0 /\ NotOverfull(l)
        /\ t \in Text /\ Utf8(t) /\ Len(t) # 0 /\ NotOverfull(t)
    BY LeafMember
  <1>2. Len(l) \in Nat /\ Len(t) \in Nat /\ MAX_BYTES \in Nat
    BY <1>1, TextFacts, LeafBoundsAssumption
  <1>3. Sound(X)
    BY LeafLevelSound
  <1>4. CASE Len(l) + Len(t) <= MAX_BYTES
    <2>1. l \o t \in Text /\ Len(l \o t) = Len(l) + Len(t)
      BY <1>1, ConcatFacts
    <2>2. Utf8(l \o t)
      BY <1>1, Utf8Concat
    <2>3. NotOverfull(l \o t) /\ Len(l \o t) # 0
      BY <1>1, <1>2, <1>4, <2>1 DEF NotOverfull
    <2>. DEFINE w == l \o t
    <2>. HIDE DEF w
    <2>4. <<Leaf(w), w>> \in X
      BY <2>1, <2>2, <2>3, LeafMember DEF w
    <2>. HIDE DEF X
    <2>5. Row(X, <<Child(Leaf(w))>>, w)
      BY <1>3, <2>4, RowOne
    <2>6. Filled(l, t) = <<Child(Leaf(w))>>
      BY <1>4 DEF Filled, w
    <2>7. Len(<<Child(Leaf(w))>>) = 1
      OBVIOUS
    <2>. QED  BY <2>5, <2>6, <2>7 DEF w, X
  <1>. DEFINE Two(p, q) == <<Child(Leaf(p)), Child(Leaf(q))>>
  <1>5. ASSUME NEW p, NEW q, <<Leaf(p), p>> \in X, <<Leaf(q), q>> \in X, Meets(p, q)
        PROVE  Row(X, Two(p, q), p \o q) /\ Len(Two(p, q)) \in 1..2
    <2>. HIDE DEF X
    <2>1. Row(X, <<Child(Leaf(p))>>, p) /\ Row(X, <<Child(Leaf(q))>>, q)
      BY <1>3, <1>5, RowOne
    <2>2. Row(X, <<Child(Leaf(p))>> \o <<Child(Leaf(q))>>, p \o q)
      BY <1>5, <2>1, RowBoth
    <2>3. Two(p, q) = <<Child(Leaf(p))>> \o <<Child(Leaf(q))>>
      OBVIOUS
    <2>4. Len(Two(p, q)) \in 1..2
      OBVIOUS
    <2>. QED  BY <2>2, <2>3, <2>4
  <1>6. CASE ~ (Len(l) + Len(t) <= MAX_BYTES) /\ Len(l) < MAX_BYTES
    <2>. DEFINE room == MAX_BYTES - Len(l)
                cut  == PrevBreak(room, t)
                p    == Slice(t, 0, cut)
                q    == From(t, cut)
                lp   == l \o p
    <2>1. room \in 0..Len(t) /\ room < Len(t) /\ room # 0
      BY <1>2, <1>6
    <2>2. cut \in 0..room /\ IsBreak(cut, t)
      BY <1>1, <2>1, PrevBreakFacts
    <2>3. cut \in 0..Len(t) /\ cut < Len(t)
      BY <1>2, <2>1, <2>2
    <2>. HIDE DEF cut
    <2>4. /\ p \in Text /\ Len(p) = cut /\ q \in Text /\ Len(q) = Len(t) - cut /\ p \o q = t
      BY <1>1, <2>3, PartsFacts
    <2>5. Utf8(p) /\ Utf8(q) /\ (Len(p) = 0 \/ Len(q) = 0 \/ SeamIsBreak(p, q))
      <3>. HIDE DEF p, q
      <3>1. IsBreak(Len(p), p \o q) /\ Utf8(p \o q)
        BY <1>1, <2>2, <2>4
      <3>2. Utf8(p) /\ Utf8(q)
        BY <2>4, <3>1, Utf8OfParts
      <3>3. Meets(p, q)
        BY <2>4, <3>1, BreaksOfParts
      <3>. QED  BY <3>2, <3>3 DEF Meets
    <2>. HIDE DEF p, q
    <2>6. lp \in Text /\ Len(lp) = Len(l) + Len(p) /\ Utf8(lp)
      BY <1>1, <2>4, <2>5, ConcatFacts, Utf8Concat
    <2>7. Len(lp) # 0 /\ NotOverfull(lp) /\ Len(q) # 0 /\ NotOverfull(q)
      BY <1>1, <1>2, <2>1, <2>2, <2>3, <2>4, <2>6 DEF NotOverfull
    <2>8. Meets(lp, q)
      <3>1. CASE Len(p) = 0
        <4>1. p = <<>>
          BY <2>4, <3>1, EmptySeq DEF Text
        <4>2. l \o <<>> = l /\ <<>> \o q = q
          BY <1>1, <2>4, ConcatEmptySeq DEF Text
        <4>. QED  BY <2>4, <4>1, <4>2
      <3>2. CASE Len(p) # 0
        <4>1. Meets(p, q)
          BY <2>5 DEF Meets
        <4>. QED  BY <1>1, <2>4, <3>2, <4>1, MeetsConcat
      <3>. QED  BY <3>1, <3>2
    <2>9. lp \o q = l \o t
      BY ZenonT(60), <1>1, <2>4, TextAssoc
    <2>10. Filled(l, t) = Two(lp, q)
      BY <1>6 DEF Filled, cut, p, q
    <2>. HIDE DEF lp, Two
    <2>11. <<Leaf(lp), lp>> \in X /\ <<Leaf(q), q>> \in X
      BY <2>4, <2>5, <2>6, <2>7, LeafMember
    <2>12. Row(X, Two(lp, q), lp \o q) /\ Len(Two(lp, q)) \in 1..2
      BY <1>5, <2>8, <2>11
    <2>. QED  BY <2>9, <2>10, <2>12
  <1>7. CASE ~ (Len(l) + Len(t) <= MAX_BYTES) /\ ~ (Len(l) < MAX_BYTES)
    <2>1. Filled(l, t) = Two(l, t)
      BY <1>7 DEF Filled
    <2>. QED  BY <1>5, <2>1
  <1>. QED  BY <1>4, <1>6, <1>7

LEMMA FrontFacts ==
  ASSUME NEW S, NEW s \in Seq(S), Len(s) # 0
  PROVE  /\ Front(s) \in Seq(S) /\ Last(s) \in S /\ Len(Front(s)) = Len(s) - 1
         /\ s = Front(s) \o <<Last(s)>> /\ <<Last(s)>> \in Seq(S)
  <1>1. Len(s) \in Nat /\ s \in [1..Len(s) -> S]
    BY LenProperties
  <1>. DEFINE n == Len(s)
              f == Front(s)
              l == Last(s)
              m == <<l>>
  <1>2. n \in Nat /\ n # 0 /\ n - 1 \in Nat /\ n \in 1..n
    BY <1>1
  <1>3. l = s[n] /\ l \in S
    BY <1>1, <1>2 DEF Last
  <1>4. f \in Seq(S) /\ Len(f) = n - 1 /\ \A i \in 1..(n - 1) : f[i] = s[i]
    <2>1. f = SubSeq(s, 1, n - 1)
      BY DEF Front
    <2>. QED  BY <1>1, <1>2, <2>1, SubSeqProperties
  <1>5. m \in Seq(S) /\ Len(m) = 1 /\ m[1] = l
    BY <1>3
  <1>. HIDE DEF f, l, m
  <1>6. f \o m \in Seq(S) /\ Len(f \o m) = (n - 1) + 1
        /\ \A i \in 1..((n - 1) + 1) : (f \o m)[i] = IF i <= n - 1 THEN f[i] ELSE m[i - (n - 1)]
    <2>1. f \o m \in Seq(S) /\ Len(f \o m) = Len(f) + Len(m)
          /\ \A i \in 1..(Len(f) + Len(m)) :
               (f \o m)[i] = IF i <= Len(f) THEN f[i] ELSE m[i - Len(f)]
      BY <1>4, <1>5, ConcatProperties
    <2>. QED  BY <1>4, <1>5, <2>1
  <1>7. ASSUME NEW i \in 1..n PROVE s[i] = (f \o m)[i]
    <2>1. CASE i <= n - 1
      <3>1. i \in 1..(n - 1) /\ i \in 1..((n - 1) + 1)
        BY <1>2, <2>1
      <3>. QED  BY <1>4, <1>6, <2>1, <3>1
    <2>2. CASE ~ (i <= n - 1)
      <3>1. i = n /\ i \in 1..((n - 1) + 1) /\ i - (n - 1) = 1
        BY <1>2, <2>2
      <3>. QED  BY <1>3, <1>5, <1>6, <2>2, <3>1
    <2>. QED  BY <2>1, <2>2
  <1>8. s = f \o m
    <2>1. Len(s) = Len(f \o m)
      BY <1>2, <1>6
    <2>. QED  BY <1>6, <1>7, <2>1, SeqEqual
  <1>. QED  BY <1>3, <1>4, <1>5, <1>8 DEF f, l, m

LEMMA RowOneOf ==
  ASSUME NEW X, IsPairs(X), NEW k \in Kids(X), NEW t, Row(X, <<k>>, t)
  PROVE  k = Child(k.node) /\ <<k.node, t>> \in X
  BY RowOneParts, KidsParts

LEMMA LeafRowOne ==
  ASSUME NEW k \in Kids(LeafLevel), NEW t, Row(LeafLevel, <<k>>, t)
  PROVE  k = Child(Leaf(t)) /\ k.node.text = t /\ <<Leaf(t), t>> \in LeafLevel
  <1>1. k = Child(k.node) /\ <<k.node, t>> \in LeafLevel
    BY LeafLevelSound, RowOneOf
  <1>2. k.node = Leaf(t)
    BY <1>1, LeafMember
  <1>. QED  BY <1>1, <1>2 DEF Leaf

\* What CompactNext makes of the row done, of text u, and the next leaf, of text v.
LEMMA CompactNextRight ==
  ASSUME NEW done, NEW u, Row(LeafLevel, done, u), Len(done) # 0,
         NEW k \in Kids(LeafLevel), NEW v, Row(LeafLevel, <<k>>, v), Meets(u, v)
  PROVE  /\ Row(LeafLevel, CompactNext(done, k), u \o v)
         /\ Len(CompactNext(done, k)) \in Len(done)..(Len(done) + 1)
  <1>. DEFINE X == LeafLevel
              K == Kids(X)
              f == Front(done)
              l == Last(done)
              m == <<l>>
  <1>1. /\ f \in Seq(K) /\ l \in K /\ m \in Seq(K) /\ Len(f) = Len(done) - 1
        /\ done = f \o m /\ Len(done) \in Nat
    <2>1. done \in Seq(K)
      BY DEF Row
    <2>. QED  BY <2>1, FrontFacts, LenProperties
  <1>2. CompactNext(done, k) = f \o Filled(l.node.text, k.node.text)
    BY DEF CompactNext
  <1>. HIDE DEF K, X, f, l, m
  <1>3. Row(X, f \o m, u)
    BY <1>1 DEF X
  <1>4. PICK a, y : InRows(X, f, m, u, a, y)
    BY <1>1, <1>3, RowParts DEF K
  <1>5. u = a \o y /\ Row(X, f, a) /\ Row(X, m, y) /\ Meets(a, y)
    BY <1>4 DEF InRows
  <1>6. l.node.text = y /\ <<Leaf(y), y>> \in X
    BY <1>1, <1>5, LeafRowOne DEF X, K, m
  <1>7. k.node.text = v /\ <<Leaf(v), v>> \in X
    BY LeafRowOne DEF X
  <1>8. a \in Text /\ y \in Text /\ v \in Text /\ Len(y) # 0 /\ Len(v) # 0
    <2>1. a \in Text
      BY <1>5 DEF Row, IsText
    <2>. QED  BY <1>6, <1>7, <2>1, LeafMember DEF X
  <1>9. Meets(y, v)
    BY <1>5, <1>8, MeetsConcat
  <1>. DEFINE e == Filled(y, v)
  <1>10. Row(X, e, y \o v) /\ Len(e) \in 1..2
    BY <1>6, <1>7, <1>9, FilledRight DEF X
  <1>11. Meets(a, y \o v)
    BY <1>5, <1>8, MeetsConcat
  <1>12. CompactNext(done, k) = f \o e
    BY <1>2, <1>6, <1>7
  <1>. HIDE DEF e
  <1>13. Row(X, f \o e, a \o (y \o v))
    BY <1>5, <1>10, <1>11, RowBoth
  <1>14. a \o (y \o v) = u \o v
    BY <1>5, <1>8, TextAssoc
  <1>15. Len(f \o e) = Len(f) + Len(e)
    <2>1. e \in Seq(K) /\ f \in Seq(K)
      BY <1>1, <1>10 DEF Row, K
    <2>. QED  BY <2>1, ConcatProperties
  <1>16. Len(f \o e) \in Len(done)..(Len(done) + 1)
    <2>1. Len(f) = Len(done) - 1 /\ Len(done) \in Nat
      BY <1>1
    <2>2. Len(e) \in 1..2
      BY <1>10
    <2>. DEFINE z == Len(f \o e)
                p == Len(f)
                q == Len(e)
                n == Len(done)
    <2>3. z = p + q /\ p = n - 1 /\ n \in Nat /\ q \in 1..2
      BY <1>15, <2>1, <2>2
    <2>. HIDE DEF z, p, q, n
    <2>4. z \in n..(n + 1)
      BY <2>3
    <2>. QED  BY <2>4 DEF z, n
  <1>. QED  BY <1>12, <1>13, <1>14, <1>16 DEF X

\* f is the run of compact_leaves over the first k children.
Compacting(f, c, k) ==
  f = [i \in 1..k |-> IF i = 1 THEN <<c[1]>> ELSE CompactNext(f[i - 1], c[i])]

LEMMA CompactingExists ==
  ASSUME NEW c, NEW n \in Nat
  PROVE  \E f : Compacting(f, c, n)
  <1>. DEFINE T == {k \in Nat : \E f : Compacting(f, c, k)}
  <1>1. 0 \in T
    <2>. DEFINE f == [i \in 1..0 |-> <<c[1]>>]
    <2>1. f = [i \in 1..0 |-> IF i = 1 THEN <<c[1]>> ELSE CompactNext(f[i - 1], c[i])]
      OBVIOUS
    <2>. QED  BY <2>1 DEF Compacting
  <1>2. ASSUME NEW k \in Nat, k \in T PROVE k + 1 \in T
    <2>1. PICK f : Compacting(f, c, k)
      BY <1>2
    <2>. DEFINE b == IF k + 1 = 1 THEN <<c[1]>> ELSE CompactNext(f[k], c[k + 1])
                g == [i \in 1..(k + 1) |-> IF i = k + 1 THEN b ELSE f[i]]
    <2>2. ASSUME NEW i \in 1..(k + 1)
          PROVE  g[i] = IF i = 1 THEN <<c[1]>> ELSE CompactNext(g[i - 1], c[i])
      <3>1. CASE i = k + 1
        <4>1. g[i] = b
          BY <3>1
        <4>2. CASE i = 1
          BY <3>1, <4>1, <4>2
        <4>3. CASE i # 1
          <5>1. i - 1 \in 1..(k + 1) /\ i - 1 # k + 1 /\ i - 1 = k
            BY <3>1, <4>3
          <5>2. g[i - 1] = f[k]
            BY <5>1
          <5>. QED  BY <3>1, <4>1, <4>3, <5>2
        <4>. QED  BY <4>2, <4>3
      <3>2. CASE i # k + 1
        <4>1. i \in 1..k /\ g[i] = f[i]
          BY <3>2
        <4>2. f[i] = IF i = 1 THEN <<c[1]>> ELSE CompactNext(f[i - 1], c[i])
          BY <2>1, <4>1 DEF Compacting
        <4>3. CASE i = 1
          BY <4>1, <4>2, <4>3
        <4>4. CASE i # 1
          <5>1. i - 1 \in 1..(k + 1) /\ i - 1 # k + 1
            BY <4>1, <4>4
          <5>2. g[i - 1] = f[i - 1]
            BY <5>1
          <5>. QED  BY <4>1, <4>2, <4>4, <5>2
        <4>. QED  BY <4>3, <4>4
      <3>. QED  BY <3>1, <3>2
    <2>. HIDE DEF b
    <2>3. g = [i \in 1..(k + 1) |-> IF i = 1 THEN <<c[1]>> ELSE CompactNext(g[i - 1], c[i])]
      BY <2>2
    <2>4. Compacting(g, c, k + 1)
      BY <2>3 DEF Compacting
    <2>. QED  BY <2>4
  <1>3. Nat \subseteq T
    <2>. HIDE DEF T
    <2>. QED  BY <1>1, <1>2, SetInduction
  <1>. QED  BY <1>3

LEMMA RestOf ==
  ASSUME NEW S, NEW c \in Seq(S), NEW i \in 1..(Len(c) - 1)
  PROVE  /\ SubSeq(c, i + 1, Len(c)) = <<c[i + 1]>> \o SubSeq(c, (i + 1) + 1, Len(c))
         /\ c[i + 1] \in S /\ <<c[i + 1]>> \in Seq(S) /\ SubSeq(c, (i + 1) + 1, Len(c)) \in Seq(S)
  <1>. DEFINE n == Len(c)
              l == SubSeq(c, i + 1, n)
              r == SubSeq(c, (i + 1) + 1, n)
              m == <<c[i + 1]>>
  <1>1. n \in Nat /\ i \in 0..n /\ i + 1 \in 0..n /\ i + 1 \in 1..n
    BY LenProperties
  <1>2. c[i + 1] \in S
    BY <1>1, ElementOfSeq
  <1>3. l \in Seq(S) /\ Len(l) = n - i /\ \A k \in 1..(n - i) : l[k] = c[i + k]
    BY <1>1, SubSeqProperties
  <1>4. r \in Seq(S) /\ Len(r) = n - (i + 1) /\ \A k \in 1..(n - (i + 1)) : r[k] = c[(i + 1) + k]
    BY <1>1, SubSeqProperties
  <1>5. m \in Seq(S) /\ Len(m) = 1 /\ m[1] = c[i + 1]
    BY <1>2
  <1>. HIDE DEF l, r, m, n
  <1>6. m \o r \in Seq(S) /\ Len(m \o r) = 1 + (n - (i + 1))
        /\ \A k \in 1..(1 + (n - (i + 1))) : (m \o r)[k] = IF k <= 1 THEN m[k] ELSE r[k - 1]
    <2>1. m \o r \in Seq(S) /\ Len(m \o r) = Len(m) + Len(r)
          /\ \A k \in 1..(Len(m) + Len(r)) :
               (m \o r)[k] = IF k <= Len(m) THEN m[k] ELSE r[k - Len(m)]
      <3>1. m \in Seq(S) /\ r \in Seq(S)
        BY <1>4, <1>5
      <3>. QED  BY <3>1, ConcatProperties
    <2>. QED  BY <1>4, <1>5, <2>1
  <1>7. ASSUME NEW k \in 1..(n - i) PROVE l[k] = (m \o r)[k]
    <2>1. k \in 1..(1 + (n - (i + 1)))
      BY <1>1
    <2>2. CASE k = 1
      BY <1>3, <1>5, <1>6, <2>1, <2>2
    <2>3. CASE k # 1
      <3>1. k - 1 \in 1..(n - (i + 1)) /\ ~ (k <= 1) /\ (i + 1) + (k - 1) = i + k
        BY <1>1, <2>3
      <3>. QED  BY <1>3, <1>4, <1>6, <2>1, <3>1
    <2>. QED  BY <2>2, <2>3
  <1>8. l = m \o r
    <2>1. Len(l) = Len(m \o r)
      BY <1>1, <1>3, <1>6
    <2>. QED  BY <1>3, <1>6, <1>7, <2>1, SeqEqual
  <1>. QED  BY <1>2, <1>4, <1>5, <1>8 DEF l, r, m, n

\* The row c, the children up to i compacted.
CompactedTo(done, c, t, i) ==
  /\ Len(done) \in 1..i
  /\ \E u, v : InRows(LeafLevel, done, SubSeq(c, i + 1, Len(c)), t, u, v)

LEMMA CompactStep ==
  ASSUME NEW c \in Seq(Kids(LeafLevel)), NEW t, NEW i \in 1..(Len(c) - 1),
         NEW done, CompactedTo(done, c, t, i)
  PROVE  CompactedTo(CompactNext(done, c[i + 1]), c, t, i + 1)
  <1>. DEFINE X == LeafLevel
              K == Kids(X)
              k == c[i + 1]
              m == <<k>>
              r == SubSeq(c, (i + 1) + 1, Len(c))
  <1>1. Len(c) \in Nat /\ i \in Nat /\ Len(done) \in 1..i
    BY LenProperties DEF CompactedTo
  <1>2. SubSeq(c, i + 1, Len(c)) = m \o r /\ k \in K /\ m \in Seq(K) /\ r \in Seq(K)
    BY RestOf
  <1>. HIDE DEF X, K, k, m, r
  <1>3. PICK u, w : InRows(X, done, m \o r, t, u, w)
    BY <1>2 DEF CompactedTo, X
  <1>4. t = u \o w /\ Row(X, done, u) /\ Row(X, m \o r, w) /\ Meets(u, w)
    BY <1>3 DEF InRows
  <1>5. PICK x, v : InRows(X, m, r, w, x, v)
    BY <1>2, <1>4, RowParts DEF K
  <1>6. w = x \o v /\ Row(X, m, x) /\ Row(X, r, v) /\ Meets(x, v)
    BY <1>5 DEF InRows
  <1>7. <<Leaf(x), x>> \in X
    BY <1>2, <1>6, LeafRowOne DEF X, K, m
  <1>8. x \in Text /\ Len(x) # 0
    BY <1>7, LeafMember DEF X
  <1>9. u \in Text /\ v \in Text
    BY <1>4, <1>6 DEF Row, IsText
  <1>10. Meets(u, x)
    BY <1>4, <1>6, <1>8, <1>9, MeetsConcat
  <1>11. Meets(u \o x, v)
    BY <1>6, <1>8, <1>9, MeetsConcat
  <1>12. (u \o x) \o v = t
    BY <1>4, <1>6, <1>8, <1>9, TextAssoc
  <1>. DEFINE d == CompactNext(done, k)
  <1>13. Len(done) # 0
    BY <1>1
  <1>14. Row(X, d, u \o x) /\ Len(d) \in Len(done)..(Len(done) + 1)
    BY <1>2, <1>4, <1>6, <1>10, <1>13, CompactNextRight DEF X, K, m
  <1>. HIDE DEF d
  <1>15. InRows(X, d, r, t, u \o x, v)
    BY <1>6, <1>11, <1>12, <1>14 DEF InRows
  <1>16. Len(d) \in 1..(i + 1)
    BY <1>1, <1>14
  <1>. QED  BY <1>15, <1>16 DEF CompactedTo, X, d, r, k

\* compact_leaves keeps the text, in as many leaves or fewer.
THEOREM CompactLeavesRight ==
  ASSUME NEW c, NEW t, Row(LeafLevel, c, t), Len(c) # 0
  PROVE  Row(LeafLevel, CompactLeaves(c), t) /\ Len(CompactLeaves(c)) \in 1..Len(c)
  <1>. DEFINE X == LeafLevel
              K == Kids(X)
              n == Len(c)
              f == CHOOSE g : Compacting(g, c, n)
  <1>1. c \in Seq(K) /\ n \in Nat /\ n # 0
    BY LenProperties DEF Row
  <1>2. Compacting(f, c, n)
    BY <1>1, CompactingExists
  <1>3. CompactLeaves(c) = f[n]
    BY DEF CompactLeaves, Compacting
  <1>. HIDE DEF f
  <1>4. f[1] = <<c[1]>> /\ \A i \in 1..(n - 1) : f[i + 1] = CompactNext(f[i], c[i + 1])
    <2>1. f[1] = <<c[1]>>
      BY <1>1, <1>2 DEF Compacting
    <2>2. ASSUME NEW i \in 1..(n - 1) PROVE f[i + 1] = CompactNext(f[i], c[i + 1])
      <3>1. i + 1 \in 1..n /\ i + 1 # 1 /\ (i + 1) - 1 = i
        BY <1>1
      <3>2. f[i + 1] = CompactNext(f[(i + 1) - 1], c[i + 1])
        BY <1>2, <3>1 DEF Compacting
      <3>. QED  BY <3>1, <3>2
    <2>. QED  BY <2>1, <2>2
  <1>. DEFINE T == {i \in Nat : i < n => CompactedTo(f[i + 1], c, t, i + 1)}
  <1>5. 0 \in T
    <2>. DEFINE a == SubSeq(c, 1, 1)
                b == SubSeq(c, 1 + 1, n)
    <2>1. a \in Seq(K) /\ b \in Seq(K) /\ Len(a) = 1 /\ a \o b = c
      BY <1>1, CutChildren
    <2>2. a = <<c[1]>>
      <3>1. 1 \in 1..(Len(c) + 1) /\ 1 \in 0..Len(c)
        BY <1>1
      <3>2. a[1] = c[1]
        <4>1. \A i \in 1..(1 - 1 + 1) : a[i] = c[1 + i - 1]
          BY <1>1, <3>1, SubSeqProperties
        <4>. QED  BY <4>1
      <3>3. <<c[1]>> \in Seq(K)
        <4>1. c[1] \in K
          BY <1>1, <3>1, ElementOfSeq
        <4>. QED  BY <4>1
      <3>. HIDE DEF a, K
      <3>4. Len(<<c[1]>>) = 1 /\ <<c[1]>>[1] = c[1]
        OBVIOUS
      <3>5. \A i \in 1..Len(a) : a[i] = <<c[1]>>[i]
        BY <2>1, <3>2, <3>4
      <3>. QED  BY <2>1, <3>3, <3>4, <3>5, SeqEqual
    <2>. HIDE DEF a, K, X
    <2>3. Row(X, a \o b, t)
      BY <2>1 DEF X
    <2>4. \E u, v : InRows(X, a, b, t, u, v)
      BY <2>1, <2>3, RowParts DEF K
    <2>5. CompactedTo(a, c, t, 1)
      BY <2>1, <2>4 DEF CompactedTo, X, b
    <2>6. f[0 + 1] = a /\ 0 + 1 = 1
      BY <1>4, <2>2
    <2>. QED  BY <2>5, <2>6
  <1>6. ASSUME NEW i \in Nat, i \in T PROVE i + 1 \in T
    <2>. SUFFICES ASSUME i + 1 < n PROVE CompactedTo(f[(i + 1) + 1], c, t, (i + 1) + 1)
      OBVIOUS
    <2>1. i + 1 \in 1..(n - 1) /\ i < n
      BY <1>1
    <2>2. CompactedTo(f[i + 1], c, t, i + 1)
      BY <1>6, <2>1
    <2>. DEFINE j == i + 1
    <2>3. j \in 1..(Len(c) - 1) /\ CompactedTo(f[j], c, t, j)
      BY <2>1, <2>2
    <2>. HIDE DEF j
    <2>4. CompactedTo(CompactNext(f[j], c[j + 1]), c, t, j + 1)
      BY <1>1, <2>3, CompactStep
    <2>5. f[j + 1] = CompactNext(f[j], c[j + 1])
      BY <1>4, <2>3
    <2>. QED  BY <2>4, <2>5 DEF j
  <1>7. Nat \subseteq T
    <2>. HIDE DEF T
    <2>. QED  BY <1>5, <1>6, SetInduction
  <1>8. CompactedTo(f[n], c, t, n)
    <2>1. n - 1 \in T /\ n - 1 < n /\ (n - 1) + 1 = n
      BY <1>1, <1>7
    <2>. QED  BY <2>1
  <1>9. SubSeq(c, n + 1, n) = <<>>
    BY <1>1, CutChildren, EmptySeq
  <1>10. PICK u, v : InRows(X, f[n], <<>>, t, u, v)
    BY <1>8, <1>9 DEF CompactedTo
  <1>. HIDE DEF X
  <1>11. t = u \o v /\ Row(X, f[n], u) /\ Row(X, <<>>, v)
    BY <1>10 DEF InRows
  <1>12. v = <<>> /\ u \in Text
    BY <1>11, RowOfNone DEF Row, IsText
  <1>13. u \o <<>> = u
    BY <1>12, ConcatEmptySeq DEF Text
  <1>14. Row(X, f[n], t)
    BY <1>11, <1>12, <1>13
  <1>15. Len(f[n]) \in 1..n
    BY <1>8 DEF CompactedTo
  <1>. QED  BY <1>3, <1>14, <1>15 DEF X

\* The children that an edit goes on with.
LEMMA CompactedRight ==
  ASSUME NEW h \in Nat, NEW c, NEW t, Row(Level[h], c, t), Len(c) # 0
  PROVE  Row(Level[h], Compacted(c), t) /\ Len(Compacted(c)) \in 1..Len(c)
  <1>1. Len(c) \in Nat /\ c \in Seq(Kids(Level[h]))
    BY LenProperties DEF Row
  <1>2. Len(c) \in 1..Len(c)
    BY <1>1
  <1>3. CASE c[1].node.leaf
    <2>1. CASE h = 0
      <3>1. Level[h] = LeafLevel
        BY <2>1, LevelStep
      <3>. QED  BY <1>2, <3>1, CompactLeavesRight DEF Compacted
    <2>2. CASE h # 0
      <3>. DEFINE k == h - 1
                  X == Level[k]
      <3>1. k \in Nat /\ Level[h] = Above(X)
        <4>1. k \in Nat /\ k + 1 = h
          BY <2>2
        <4>2. Level[k + 1] = Above(Level[k])
          BY <4>1, LevelStep
        <4>. QED  BY <4>1, <4>2
      <3>. HIDE DEF k
      <3>2. c[1] \in Kids(Above(X))
        <4>1. 1 \in 1..Len(c)
          BY <1>1
        <4>. QED  BY <1>1, <3>1, <4>1, ElementOfSeq
      <3>. HIDE DEF X
      <3>3. PICK y : <<c[1].node, y>> \in Above(X)
        BY <3>2, AbovePairs, KidsParts
      <3>4. c[1].node.leaf = FALSE
        BY <3>3, AboveParts
      <3>. QED  BY <1>3, <3>4
    <2>. QED  BY <2>1, <2>2
  <1>4. CASE ~ c[1].node.leaf
    BY <1>2, <1>4 DEF Compacted
  <1>. QED  BY <1>3, <1>4

-----------------------------------------------------------------------------
(* The node above an edited child *)

\* l and r are the parts of c before and after its element i.
IsAround(l, r, c, i, K) ==
  /\ l \in Seq(K) /\ Len(l) = i - 1 /\ \A k \in 1..(i - 1) : l[k] = c[k]
  /\ r \in Seq(K) /\ Len(r) = Len(c) - i /\ \A k \in 1..(Len(c) - i) : r[k] = c[i + k]
  /\ c = l \o (<<c[i]>> \o r)

LEMMA AroundParts ==
  ASSUME NEW K, NEW c \in Seq(K), NEW i \in 1..Len(c)
  PROVE  IsAround(Before(c, i), After(c, i), c, i, K)
  BY ZenonT(60), AroundChild DEF Before, After, IsAround

\* d is c with x at i.
IsReplaced(d, c, i, x, K) ==
  /\ d \in Seq(K) /\ Len(d) = Len(c)
  /\ d = Before(c, i) \o (<<x>> \o After(c, i))
  /\ SubSeq(d, 1, i) = Before(c, i) \o <<x>>
  /\ After(d, i) = After(c, i)

LEMMA ReplaceChild ==
  ASSUME NEW K, NEW c \in Seq(K), NEW i \in 1..Len(c), NEW x \in K,
         NEW d, d = [c EXCEPT ![i] = x]
  PROVE  IsReplaced(d, c, i, x, K)
  <1>. DEFINE n == Len(c)
              l == Before(c, i)
              r == After(c, i)
              ld == Before(d, i)
              rd == After(d, i)
              m == <<x>>
              q == SubSeq(d, 1, i)
  <1>1. n \in Nat /\ i \in 1..n
    BY LenProperties
  <1>2. d \in Seq(K) /\ Len(d) = n /\ d[i] = x /\ \A k \in 1..n : k # i => d[k] = c[k]
    BY LenProperties
  <1>3. /\ l \in Seq(K) /\ Len(l) = i - 1 /\ \A k \in 1..(i - 1) : l[k] = c[k]
        /\ r \in Seq(K) /\ Len(r) = n - i /\ \A k \in 1..(n - i) : r[k] = c[i + k]
    BY AroundChild DEF Before, After
  <1>4. i \in 1..Len(d)
    BY SMTT(60), <1>2
  <1>5. /\ ld \in Seq(K) /\ Len(ld) = i - 1 /\ \A k \in 1..(i - 1) : ld[k] = d[k]
        /\ rd \in Seq(K) /\ Len(rd) = n - i /\ \A k \in 1..(n - i) : rd[k] = d[i + k]
        /\ d = ld \o (<<d[i]>> \o rd)
    <2>1. d \in Seq(K) /\ i \in 1..Len(d)
      BY <1>2, <1>4
    <2>2. IsAround(ld, rd, d, i, K)
      BY <2>1, AroundParts
    <2>. HIDE DEF ld, rd
    <2>. QED  BY <1>2, <2>2 DEF IsAround
  <1>. HIDE DEF l, r, ld, rd
  <1>6. ld = l
    <2>1. ASSUME NEW k \in 1..(i - 1) PROVE ld[k] = l[k]
      BY <1>1, <1>2, <1>3, <1>5
    <2>. QED  BY <1>3, <1>5, <2>1, SeqEqual
  <1>7. rd = r
    <2>1. ASSUME NEW k \in 1..(n - i) PROVE rd[k] = r[k]
      <3>1. i + k \in 1..n /\ i + k # i
        BY SMTT(60), <1>1
      <3>. QED  BY <1>2, <1>3, <1>5, <3>1
    <2>. QED  BY <1>3, <1>5, <2>1, SeqEqual
  <1>8. d = l \o (m \o r)
    BY <1>2, <1>5, <1>6, <1>7
  <1>9. q \in Seq(K) /\ Len(q) = i /\ \A k \in 1..i : q[k] = d[k]
    <2>1. i \in 0..Len(d)
      BY <1>1, <1>2
    <2>2. q \in Seq(K) /\ Len(q) = i
      BY <1>2, <2>1, CutChildren
    <2>3. \A k \in 1..i : q[k] = d[k]
      BY <1>1, <1>2, SubSeqProperties
    <2>. QED  BY <2>2, <2>3
  <1>10. m \in Seq(K) /\ Len(m) = 1 /\ m[1] = x
    OBVIOUS
  <1>. HIDE DEF m, q
  <1>11. /\ l \o m \in Seq(K) /\ Len(l \o m) = i
         /\ \A k \in 1..i : (l \o m)[k] = IF k <= i - 1 THEN l[k] ELSE m[k - (i - 1)]
    <2>1. l \in Seq(K) /\ m \in Seq(K)
      BY <1>3, <1>10
    <2>2. /\ l \o m \in Seq(K) /\ Len(l \o m) = Len(l) + Len(m)
          /\ \A k \in 1..(Len(l) + Len(m)) :
               (l \o m)[k] = IF k <= Len(l) THEN l[k] ELSE m[k - Len(l)]
      BY <2>1, ConcatProperties
    <2>3. Len(l) + Len(m) = i
      BY <1>1, <1>3, <1>10
    <2>. QED  BY <1>3, <2>2, <2>3
  <1>12. q = l \o m
    <2>1. ASSUME NEW k \in 1..i PROVE q[k] = (l \o m)[k]
      <3>1. CASE k <= i - 1
        <4>1. k \in 1..(i - 1) /\ k \in 1..n /\ k # i
          BY <1>1, <3>1
        <4>. QED  BY <1>2, <1>3, <1>9, <1>11, <3>1, <4>1
      <3>2. CASE ~ (k <= i - 1)
        <4>1. k = i /\ k - (i - 1) = 1
          BY <1>1, <3>2
        <4>. QED  BY <1>2, <1>9, <1>10, <1>11, <3>2, <4>1
      <3>. QED  BY <3>1, <3>2
    <2>. QED  BY <1>9, <1>11, <2>1, SeqEqual
  <1>. QED  BY <1>2, <1>7, <1>8, <1>12 DEF l, r, m, q, rd, IsReplaced

\* d is what the edit made of the child of c, with the children before and after it.
IsEdited(d, c, i, r, K) ==
  /\ d = Before(c, i) \o ((<<Edited(r)>> \o r.residual) \o After(c, i))
  /\ d \in Seq(K) /\ Len(d) >= 1

LEMMA EditedChildrenParts ==
  ASSUME NEW N, NEW K, NEW c \in Seq(K), NEW i \in 1..Len(c), NEW r \in EditResults(N, K)
  PROVE  IsEdited(EditedChildren(c, i, r), c, i, r, K)
  <1>. DEFINE x == Edited(r)
              d == [c EXCEPT ![i] = x]
              l == Before(c, i)
              s == After(c, i)
              m == <<x>>
  <1>1. x \in K /\ r.residual \in Seq(K) /\ Len(r.residual) <= 1
    BY DEF EditResults
  <1>2. Len(c) \in Nat
    BY LenProperties
  <1>3. EditedChildren(c, i, r) = IF r.residual = <<>> THEN d ELSE InsertAt(d, i + 1, r.residual[1])
    BY DEF EditedChildren
  <1>4. l \in Seq(K) /\ s \in Seq(K)
    BY AroundChild DEF Before, After
  <1>. HIDE DEF x
  <1>5. m \in Seq(K)
    BY <1>1
  <1>6. d \in Seq(K) /\ Len(d) = Len(c) /\ d = l \o (m \o s) /\ SubSeq(d, 1, i) = l \o m
        /\ After(d, i) = s
    <2>1. x \in K /\ d = [c EXCEPT ![i] = x]
      BY <1>1
    <2>. HIDE DEF d
    <2>2. IsReplaced(d, c, i, x, K)
      BY <2>1, ReplaceChild
    <2>. QED  BY <2>2 DEF IsReplaced
  <1>. HIDE DEF d, l, s
  <1>7. CASE r.residual = <<>>
    <2>. HIDE DEF m
    <2>1. m \o <<>> = m
      BY <1>5, ConcatEmptySeq
    <2>2. EditedChildren(c, i, r) = d
      BY <1>3, <1>7
    <2>3. Len(d) >= 1
      BY <1>2, <1>6
    <2>4. EditedChildren(c, i, r) = l \o ((m \o r.residual) \o s)
      BY <1>6, <1>7, <2>1, <2>2
    <2>. QED  BY <1>6, <2>2, <2>3, <2>4 DEF l, s, m, x, IsEdited
  <1>8. CASE r.residual # <<>>
    <2>. DEFINE z == r.residual[1]
                p == <<z>>
    <2>1. Len(r.residual) = 1
      <3>. DEFINE n == Len(r.residual)
      <3>1. n \in Nat /\ n # 0
        BY <1>1, <1>8, LenProperties, EmptySeq
      <3>2. n <= 1
        BY <1>1
      <3>. HIDE DEF n
      <3>3. n = 1
        BY <3>1, <3>2
      <3>. QED  BY <3>3 DEF n
    <2>2. z \in K /\ p \in Seq(K)
      BY <1>1, <2>1, ElementOfSeq
    <2>3. r.residual = p
      <3>1. Len(p) = 1 /\ p[1] = z
        OBVIOUS
      <3>2. \A k \in 1..Len(r.residual) : r.residual[k] = p[k]
        BY <2>1, <3>1
      <3>. HIDE DEF p
      <3>. QED  BY <1>1, <2>1, <2>2, <3>1, <3>2, SeqEqual
    <2>4. EditedChildren(c, i, r) = InsertAt(d, i + 1, z)
      BY <1>3, <1>8
    <2>5. i + 1 \in 1..(Len(d) + 1) /\ (i + 1) - 1 = i
      BY <1>2, <1>6
    <2>6. InsertAt(d, i + 1, z) \in Seq(K) /\ Len(InsertAt(d, i + 1, z)) = Len(d) + 1
      <3>. DEFINE j == i + 1
      <3>1. d \in Seq(K) /\ j \in 1..(Len(d) + 1) /\ z \in K
        BY <1>6, <2>2, <2>5
      <3>. HIDE DEF j, z
      <3>2. InsertAt(d, j, z) \in Seq(K) /\ Len(InsertAt(d, j, z)) = Len(d) + 1
        BY <3>1, InsertAtElems
      <3>. QED  BY <3>2 DEF j
    <2>7. InsertAt(d, i + 1, z) = (SubSeq(d, 1, i) \o p) \o After(d, i)
      BY <2>5 DEF InsertAt, After
    <2>. HIDE DEF p, z, m
    <2>8. ((l \o m) \o p) \o s = l \o ((m \o p) \o s)
      <3>. DEFINE mp == m \o p
      <3>1. mp \in Seq(K)
        BY <1>5, <2>2, ConcatProperties
      <3>2. (l \o m) \o p = l \o (m \o p)
        BY <1>4, <1>5, <2>2, ConcatAssociative, SMTT(60)
      <3>3. (l \o m) \o p = l \o mp
        BY <3>2
      <3>. HIDE DEF mp
      <3>4. (l \o mp) \o s = l \o (mp \o s)
        BY <1>4, <3>1, ConcatAssociative, SMTT(60)
      <3>. QED  BY <3>3, <3>4 DEF mp
    <2>9. EditedChildren(c, i, r) = l \o ((m \o r.residual) \o s)
      BY <1>6, <2>3, <2>4, <2>7, <2>8
    <2>10. Len(d) + 1 >= 1
      BY <1>2, <1>6
    <2>. QED  BY <2>4, <2>6, <2>9, <2>10 DEF l, s, m, x, IsEdited
  <1>. QED  BY <1>7, <1>8

Nodes(X) == {x[1] : x \in X}

\* The result of an edit is one tree or two of X, with the text w between them.
Put(X, r, w) ==
  r \in EditResults(Nodes(X), Kids(X)) /\ Row(X, <<Edited(r)>> \o r.residual, w)

LEMMA NodesMember ==
  ASSUME NEW X, NEW n, NEW t, <<n, t>> \in X
  PROVE  n \in Nodes(X)
  <1>1. <<n, t>>[1] = n
    OBVIOUS
  <1>. QED  BY <1>1 DEF Nodes

\* A result has the fields of a result.
LEMMA ResidualShape ==
  ASSUME NEW N, NEW K, NEW r \in EditResults(N, K), NEW c \in Seq(K), NEW i, NEW info,
         NEW x, x = AddResidual(c, i, r, info)
  PROVE  x = [node |-> x.node, info |-> x.info, residual |-> x.residual, seam |-> x.seam]
  <1>1. r = [node |-> r.node, info |-> r.info, residual |-> r.residual, seam |-> r.seam]
    BY DEF EditResults
  <1>2. CASE r.residual = <<>>
    <2>1. x = [r EXCEPT !.node = Internal(c), !.info = info]
      BY <1>2 DEF AddResidual
    <2>2. x = [node |-> Internal(c), info |-> info, residual |-> r.residual, seam |-> r.seam]
      BY <1>1, <2>1
    <2>. QED  BY <2>2
  <1>3. CASE r.residual # <<>> /\ Len(c) < MAX_CHILDREN /\ ~ (Len(c) >= MAX_CHILDREN)
    <2>. DEFINE m == Internal(InsertAt(c, i + 1, r.residual[1]))
                y == InfoAdd(info, r.residual[1].info)
    <2>1. x = [r EXCEPT !.node = m, !.info = y, !.residual = <<>>]
      BY <1>3 DEF AddResidual
    <2>. HIDE DEF m, y
    <2>2. x = [node |-> m, info |-> y, residual |-> <<>>, seam |-> r.seam]
      BY <1>1, <2>1
    <2>. QED  BY <2>2
  <1>4. CASE r.residual # <<>> /\ ~ (Len(c) < MAX_CHILDREN) /\ Len(c) >= MAX_CHILDREN
    <2>. DEFINE h == InsertSplit(c, i + 1, r.residual[1])
                m == Internal(h[1])
                y == CombinedInfo(h[1])
                z == <<Child(Internal(h[2]))>>
    <2>1. x = [r EXCEPT !.node = m, !.info = y, !.residual = z]
      BY <1>4 DEF AddResidual, SplitEdit
    <2>. HIDE DEF m, y, z
    <2>2. x = [node |-> m, info |-> y, residual |-> z, seam |-> r.seam]
      BY <1>1, <2>1
    <2>. QED  BY <2>2
  <1>5. (Len(c) < MAX_CHILDREN /\ ~ (Len(c) >= MAX_CHILDREN))
        \/ (~ (Len(c) < MAX_CHILDREN) /\ Len(c) >= MAX_CHILDREN)
    BY LenProperties, ChildBounds
  <1>. QED  BY <1>2, <1>3, <1>4, <1>5

\* The node or the two nodes of the children d are trees of their text.
LEMMA HoldsRow ==
  ASSUME NEW X, IsPairs(X), Sound(X), NEW d, NEW w, Row(X, d, w), Len(d) >= 1,
         NEW x, HoldsAll(x, d, Kids(X)), x.seam \in BOOLEAN,
         x = [node |-> x.node, info |-> x.info, residual |-> x.residual, seam |-> x.seam]
  PROVE  Put(Above(X), x, w)
  <1>. DEFINE Y == Above(X)
  <1>1. IsPairs(Y) /\ Sound(Y)
    BY AbovePairs, AboveSound
  <1>. HIDE DEF Y
  <1>2. ASSUME NEW v, <<x.node, v>> \in Y, x.info = NodeInfo(x.node)
        PROVE  /\ Edited(x) = Child(x.node) /\ Edited(x) \in Kids(Y) /\ x.node \in Nodes(Y)
               /\ x.info \in TextInfo /\ Row(Y, <<Edited(x)>>, v)
    <2>1. Edited(x) = Child(x.node)
      BY <1>2 DEF Edited, Child
    <2>2. Edited(x) \in Kids(Y)
      BY <1>2, <2>1, KidsMember
    <2>3. x.node \in Nodes(Y)
      BY <1>2, NodesMember
    <2>4. x.info \in TextInfo
      <3>1. NodeInfo(x.node) = InfoFromStr(v) /\ v \in Text
        BY <1>1, <1>2 DEF Sound, IsText
      <3>. QED  BY <1>2, <3>1, InfoTyped
    <2>5. Row(Y, <<Edited(x)>>, v)
      BY <1>1, <1>2, <2>1, RowOne
    <2>. QED  BY <2>1, <2>2, <2>3, <2>4, <2>5
  <1>3. ASSUME x.node \in Nodes(Y), x.info \in TextInfo, Edited(x) \in Kids(Y),
               x.residual \in Seq(Kids(Y)), Len(x.residual) <= 1
        PROVE  x \in EditResults(Nodes(Y), Kids(Y))
    <2>1. x \in [node : Nodes(Y), info : TextInfo, residual : Seq(Kids(Y)), seam : BOOLEAN]
      BY <1>3
    <2>. QED  BY <1>3, <2>1 DEF EditResults
  <1>4. CASE /\ x.node = Internal(d) /\ x.residual = <<>>
             /\ Len(d) <= MAX_CHILDREN
             /\ x.info = NodeInfo(x.node)
    <2>1. Len(d) \in 1..MAX_CHILDREN
      <3>1. Len(d) \in Nat
        BY LenProperties DEF Row
      <3>2. MAX_CHILDREN \in Nat
        BY ChildBounds
      <3>. QED  BY <1>4, <3>1, <3>2
    <2>2. <<x.node, w>> \in Y
      BY <1>4, <2>1, AboveMember DEF Y
    <2>3. /\ Edited(x) \in Kids(Y) /\ x.node \in Nodes(Y) /\ x.info \in TextInfo
          /\ Row(Y, <<Edited(x)>>, w)
      BY <1>2, <1>4, <2>2
    <2>4. x.residual \in Seq(Kids(Y)) /\ Len(x.residual) <= 1
      BY <1>4, EmptySeq
    <2>5. <<Edited(x)>> \o x.residual = <<Edited(x)>>
      <3>1. <<Edited(x)>> \in Seq(Kids(Y))
        BY <2>3
      <3>. QED  BY <1>4, <3>1, ConcatEmptySeq
    <2>6. x \in EditResults(Nodes(Y), Kids(Y))
      BY <1>3, <2>3, <2>4
    <2>. QED  BY <2>3, <2>5, <2>6 DEF Put, Y
  <1>5. CASE \E h : /\ Halves(h, d, Kids(X))
                    /\ x.node = Internal(h[1])
                    /\ x.residual = <<Child(Internal(h[2]))>>
                    /\ x.info = NodeInfo(x.node)
    <2>1. PICK h : /\ Halves(h, d, Kids(X))
                   /\ x.node = Internal(h[1])
                   /\ x.residual = <<Child(Internal(h[2]))>>
                   /\ x.info = NodeInfo(x.node)
      BY <1>5
    <2>. DEFINE h1 == h[1]
                h2 == h[2]
                m  == Internal(h2)
    <2>2. /\ h1 \in Seq(Kids(X)) /\ h2 \in Seq(Kids(X)) /\ h1 \o h2 = d
          /\ Len(h1) \in 1..MAX_CHILDREN /\ Len(h2) \in 1..MAX_CHILDREN
      <3>1. Len(h1) \in MIN_CHILDREN..MAX_CHILDREN /\ Len(h2) \in MIN_CHILDREN..MAX_CHILDREN
        BY <2>1 DEF Halves
      <3>2. MAX_CHILDREN \in Nat /\ MIN_CHILDREN \in Nat /\ MIN_CHILDREN >= 1
        BY ChildBounds
      <3>3. Len(h1) \in 1..MAX_CHILDREN /\ Len(h2) \in 1..MAX_CHILDREN
        BY <3>1, <3>2
      <3>. QED  BY <2>1, <3>3 DEF Halves
    <2>3. x.node = Internal(h1) /\ x.residual = <<Child(m)>>
      BY <2>1
    <2>. HIDE DEF h1, h2
    <2>4. Row(X, h1 \o h2, w)
      BY <2>2
    <2>5. PICK u, v : InRows(X, h1, h2, w, u, v)
      BY <2>2, <2>4, RowParts
    <2>6. w = u \o v /\ Row(X, h1, u) /\ Row(X, h2, v) /\ Meets(u, v)
      BY <2>5 DEF InRows
    <2>7. <<x.node, u>> \in Y /\ <<m, v>> \in Y
      BY <2>2, <2>3, <2>6, AboveMember DEF Y
    <2>. HIDE DEF m
    <2>8. /\ Edited(x) \in Kids(Y) /\ x.node \in Nodes(Y) /\ x.info \in TextInfo
          /\ Row(Y, <<Edited(x)>>, u)
      BY <1>2, <2>1, <2>7
    <2>9. Row(Y, <<Child(m)>>, v)
      BY <1>1, <2>7, RowOne
    <2>10. x.residual \in Seq(Kids(Y)) /\ Len(x.residual) <= 1
      <3>1. Child(m) \in Kids(Y)
        BY <2>7, KidsMember
      <3>. QED  BY <2>3, <3>1
    <2>11. Row(Y, <<Edited(x)>> \o <<Child(m)>>, u \o v)
      BY <2>6, <2>8, <2>9, RowBoth
    <2>12. x \in EditResults(Nodes(Y), Kids(Y))
      BY <1>3, <2>8, <2>10
    <2>. QED  BY <2>3, <2>6, <2>11, <2>12 DEF Put, Y
  <1>. QED  BY <1>4, <1>5 DEF HoldsAll

\* The node of children c, of text t, after the edit r of its child i, which has text
\* x in t and now has text u.
LEMMA PutAbove ==
  ASSUME NEW X, IsPairs(X), Sound(X), NEW c, NEW t, Row(X, c, t), Len(c) <= MAX_CHILDREN,
         NEW i \in 1..Len(c), NEW a, NEW x, NEW b, AtChild(X, c, i, t, a, x, b),
         NEW r, NEW u, Put(X, r, u), Len(u) # 0, Meets(a, u), Meets(u, b)
  PROVE  /\ Put(Above(X), AfterChildEdit(c, i, InfoFromStr(t), r), a \o (u \o b))
         /\ AfterChildEdit(c, i, InfoFromStr(t), r).seam = r.seam
  <1>. DEFINE K == Kids(X)
              N == Nodes(X)
              d == EditedChildren(c, i, r)
              e == <<Edited(r)>> \o r.residual
              y == AfterChildEdit(c, i, CombinedInfo(c), r)
  <1>1. c \in Seq(K) /\ AreKids(K) /\ CombinedInfo(c) = InfoFromStr(t)
    BY KidsTyped, RowInfo DEF Row
  <1>2. r \in EditResults(N, K) /\ Row(X, e, u)
    BY DEF Put
  <1>3. HoldsAll(y, d, K) /\ y.seam = r.seam
    BY <1>1, <1>2, AfterChildEditRight
  <1>4. d = Before(c, i) \o (e \o After(c, i)) /\ Len(d) >= 1
    <2>. HIDE DEF N, K
    <2>1. c \in Seq(K) /\ r \in EditResults(N, K)
      BY <1>1, <1>2
    <2>2. IsEdited(EditedChildren(c, i, r), c, i, r, K)
      BY <2>1, EditedChildrenParts
    <2>. QED  BY <2>2 DEF IsEdited
  <1>5. y = [node |-> y.node, info |-> y.info, residual |-> y.residual, seam |-> y.seam]
    <2>. DEFINE z  == [c EXCEPT ![i] = Edited(r)]
                zi == InfoAdd(InfoSub(CombinedInfo(c), c[i].info), r.info)
    <2>1. y = AddResidual(z, i, r, zi)
      BY DEF AfterChildEdit
    <2>2. Edited(r) \in K
      BY <1>2 DEF EditResults
    <2>. HIDE DEF N, K
    <2>3. z \in Seq(K)
      BY <1>1, <2>2, LenProperties
    <2>. HIDE DEF y, z, zi
    <2>. QED  BY <1>2, <2>1, <2>3, ResidualShape
  <1>6. r.seam \in BOOLEAN
    BY <1>2 DEF EditResults
  <1>. HIDE DEF d, e, y
  <1>7. Row(X, Before(c, i) \o (e \o After(c, i)), a \o (u \o b))
    BY <1>2, RowReplace
  <1>8. Row(X, d, a \o (u \o b))
    BY <1>4, <1>7
  <1>. DEFINE w == a \o (u \o b)
  <1>. HIDE DEF w
  <1>9. Put(Above(X), y, w)
    <2>1. Row(X, d, w) /\ y.seam \in BOOLEAN
      BY <1>3, <1>6, <1>8 DEF w
    <2>. QED  BY <1>3, <1>4, <1>5, <2>1, HoldsRow
  <1>. QED  BY <1>1, <1>3, <1>9 DEF y, w

-----------------------------------------------------------------------------
(* The edits of a leaf *)

IsResult(r) ==
  /\ r = [node |-> r.node, info |-> r.info, residual |-> r.residual, seam |-> r.seam]
  /\ r.seam \in BOOLEAN

\* None of the leaves of a result is overfull.
LeavesFit(r) ==
  NotOverfull(r.node.text) /\ (r.residual # <<>> => NotOverfull(r.residual[1].node.text))

LEMMA LeafPut ==
  ASSUME NEW r, IsResult(r), NEW w \in Text, Len(w) # 0, Utf8(w), EditRight(r, w), LeavesFit(r)
  PROVE  Put(LeafLevel, r, w)
  <1>. DEFINE X == LeafLevel
              N == Nodes(X)
              K == Kids(X)
  <1>1. PICK l \in Text :
          /\ r.node = Leaf(l) /\ r.info = InfoFromStr(l) /\ Utf8(l)
          /\ \/ r.residual = <<>> /\ l = w
             \/ \E u \in Text :
                  /\ r.residual = << Child(Leaf(u)) >> /\ l \o u = w /\ Utf8(u)
                  /\ Len(l) # 0 /\ Len(u) # 0 /\ SeamIsBreak(l, u)
    BY DEF EditRight
  <1>2. Len(l) # 0
    BY <1>1
  <1>3. r.node.text = l
    BY <1>1 DEF Leaf
  <1>4. <<r.node, l>> \in X
    <2>1. NotOverfull(l)
      BY <1>3 DEF LeavesFit
    <2>. QED  BY <1>1, <1>2, <2>1, LeafMember
  <1>5. IsPairs(X) /\ Sound(X)
    BY LeafLevelSound
  <1>6. Edited(r) = Child(r.node)
    BY <1>1, LeafChild DEF Edited, Child
  <1>7. ASSUME r.residual \in Seq(K), Len(r.residual) <= 1
        PROVE  r \in EditResults(N, K)
    <2>1. r.node \in N /\ Edited(r) \in K
      BY <1>4, <1>6, NodesMember, KidsMember
    <2>2. r.info \in TextInfo
      BY <1>1, InfoTyped
    <2>. HIDE DEF N, K
    <2>3. r \in [node : N, info : TextInfo, residual : Seq(K), seam : BOOLEAN]
      BY <1>7, <2>1, <2>2 DEF IsResult
    <2>. QED  BY <1>7, <2>1, <2>3 DEF EditResults
  <1>. HIDE DEF X
  <1>8. Row(X, <<Edited(r)>>, l) /\ <<Edited(r)>> \in Seq(K)
    <2>1. Row(X, <<Child(r.node)>>, l)
      BY <1>4, <1>5, RowOne
    <2>. QED  BY <1>6, <2>1 DEF Row
  <1>9. CASE r.residual = <<>> /\ l = w
    <2>1. r.residual \in Seq(K) /\ Len(r.residual) <= 1
      BY <1>9, EmptySeq
    <2>2. <<Edited(r)>> \o r.residual = <<Edited(r)>>
      BY <1>8, <1>9, ConcatEmptySeq
    <2>. QED  BY <1>7, <1>8, <1>9, <2>1, <2>2 DEF Put, X
  <1>10. CASE \E u \in Text :
                /\ r.residual = << Child(Leaf(u)) >> /\ l \o u = w /\ Utf8(u)
                /\ Len(l) # 0 /\ Len(u) # 0 /\ SeamIsBreak(l, u)
    <2>1. PICK u \in Text :
            /\ r.residual = << Child(Leaf(u)) >> /\ l \o u = w /\ Utf8(u)
            /\ Len(l) # 0 /\ Len(u) # 0 /\ SeamIsBreak(l, u)
      BY <1>10
    <2>. DEFINE m == Leaf(u)
    <2>2. NotOverfull(u)
      <3>1. r.residual # <<>> /\ r.residual[1] = Child(m)
        BY <2>1
      <3>2. Child(m).node.text = u
        BY DEF Child, Leaf
      <3>. QED  BY <3>1, <3>2 DEF LeavesFit
    <2>3. <<m, u>> \in X
      BY <2>1, <2>2, LeafMember DEF X
    <2>. HIDE DEF m
    <2>4. Row(X, <<Child(m)>>, u)
      BY <1>5, <2>3, RowOne
    <2>5. r.residual = <<Child(m)>>
      BY <2>1 DEF m
    <2>6. r.residual \in Seq(K) /\ Len(r.residual) <= 1
      <3>1. Child(m) \in K
        BY <2>3, KidsMember
      <3>. QED  BY <2>5, <3>1
    <2>7. Meets(l, u)
      BY <2>1 DEF Meets
    <2>8. Row(X, <<Edited(r)>> \o <<Child(m)>>, l \o u)
      BY <1>8, <2>4, <2>7, RowBoth
    <2>. QED  BY <1>7, <2>1, <2>5, <2>6, <2>8 DEF Put, X
  <1>. QED  BY <1>1, <1>9, <1>10

LEMMA InsertInLeafShape ==
  ASSUME NEW t, NEW b, NEW s, NEW info, NEW seam \in BOOLEAN
  PROVE  IsResult(InsertInLeaf(t, b, s, info, seam))
  BY DEF IsResult, InsertInLeaf, SplitLeaf, SplitInTwo

LEMMA EditLeafLfShape ==
  ASSUME NEW t, NEW info, NEW e
  PROVE  IsResult(EditLeafLf(t, info, e))
  BY DEF IsResult, EditLeafLf, SplitLeaf, SplitInTwo

\* A text inserted by one edit fits beside that of a leaf; and if the LF at its start
\* has to be left for the chunk before, no second LF takes its place.
IsTextEdit(e, text, atStart) ==
  /\ e = TextEdit(text, atStart) /\ atStart \in BOOLEAN
  /\ IsText(text) /\ Len(text) # 0 /\ Len(text) + 4 <= MAX_BYTES
  /\ ~ atStart /\ text[1] = LF /\ Len(Tail(text)) # 0 => Tail(text)[1] # LF

IsLfEdit(e, left) == e = LfEdit(left) /\ left \in Text

AtStart(e) == e.kind = "text" /\ e.atStart

\* The text x of a leaf after the edit e at its char k.
Effect(x, k, e, seam) ==
  IF e.kind = "text"
  THEN InsertStr(x, CharToByteIdx(x, k), IF seam THEN Tail(e.text) ELSE e.text)
  ELSE Append(x, LF)

\* What comes before t, or after it, may come before w, or after it.
KeepsLeft(t, w)  == \A l \in Text : Meets(l, t) => Meets(l, w)
KeepsRight(t, w) == \A r \in Text : Utf8(r) /\ Meets(t, r) => Meets(w, r)

LEMMA TextEditFits ==
  ASSUME NEW t, <<Leaf(t), t>> \in LeafLevel, NEW idx \in Nat,
         NEW e, NEW text, NEW atStart, IsTextEdit(e, text, atStart)
  PROVE  /\ IsResult(EditLeafText(t, idx, InfoFromStr(t), e))
         /\ LeavesFit(EditLeafText(t, idx, InfoFromStr(t), e))
  <1>. DEFINE info == InfoFromStr(t)
              k == CharToByteIdx(t, idx)
              s == Tail(text)
  <1>1. t \in Text /\ Utf8(t) /\ Len(t) # 0 /\ NotOverfull(t)
    BY LeafMember
  <1>2. text \in Text /\ Utf8(text) /\ Len(text) # 0 /\ Len(text) + 4 <= MAX_BYTES
        /\ e.text = text
    BY DEF IsTextEdit, IsText, TextEdit
  <1>3. Len(t) \in Nat /\ Len(text) \in Nat /\ MAX_BYTES \in Nat
    BY <1>1, <1>2, TextFacts, LeafBoundsAssumption
  <1>4. Len(t) + Len(text) < 2 * MAX_BYTES
    BY <1>1, <1>2, <1>3 DEF NotOverfull
  <1>5. CASE StripsSeam(e, idx)
    <2>1. text[1] = LF
      BY <1>2, <1>5 DEF StripsSeam
    <2>2. s \in Text /\ Utf8(s)
      BY <1>2, <2>1, WithoutLf
    <2>3. Len(s) = Len(text) - 1
      <3>1. text # <<>>
        BY <1>2
      <3>. QED  BY <1>2, <3>1, HeadTailProperties DEF Text
    <2>. HIDE DEF s
    <2>4. Len(t) + Len(s) < 2 * MAX_BYTES
      BY <1>3, <1>4, <2>3
    <2>5. 0 \in 0..Len(t) /\ IsBoundary(0, t)
      <3>1. t[1] # Cont
        BY <1>1, FirstByte
      <3>. QED  BY <1>3, <3>1 DEF IsBoundary
    <2>. DEFINE r == InsertInLeaf(t, 0, s, info, TRUE)
    <2>6. LeavesFit(r)
      BY <1>1, <2>2, <2>4, <2>5, OverfillBounded DEF LeavesFit
    <2>7. IsResult(r)
      BY InsertInLeafShape
    <2>8. EditLeafText(t, idx, info, e) = r
      BY <1>2, <1>5 DEF EditLeafText, s
    <2>. QED  BY <2>6, <2>7, <2>8
  <1>6. CASE ~ StripsSeam(e, idx)
    <2>1. k \in 0..Len(t) /\ IsBoundary(k, t)
      BY <1>1, CharToByte
    <2>. HIDE DEF k
    <2>. DEFINE r == InsertInLeaf(t, k, text, info, FALSE)
    <2>2. LeavesFit(r)
      BY <1>1, <1>2, <1>4, <2>1, OverfillBounded DEF LeavesFit
    <2>3. IsResult(r)
      BY InsertInLeafShape
    <2>4. EditLeafText(t, idx, info, e) = r
      BY <1>2, <1>6 DEF EditLeafText, k
    <2>. QED  BY <2>2, <2>3, <2>4
  <1>. QED  BY <1>5, <1>6

LEMMA LfEditFits ==
  ASSUME NEW t, <<Leaf(t), t>> \in LeafLevel, NEW e, NEW left, IsLfEdit(e, left)
  PROVE  LeavesFit(EditLeafLf(t, InfoFromStr(t), e))
  <1>. DEFINE info == InfoFromStr(t)
              r == EditLeafLf(t, info, e)
              w == Append(t, LF)
              s == <<LF>>
  <1>1. t \in Text /\ Utf8(t) /\ Len(t) # 0 /\ NotOverfull(t)
    BY LeafMember
  <1>2. e = LfEdit(left) /\ left \in Text /\ e.left = left
    BY DEF IsLfEdit, LfEdit
  <1>3. Len(t) \in Nat /\ Len(left) \in Nat /\ MAX_BYTES \in Nat /\ MAX_BYTES >= 5
    BY <1>1, <1>2, TextFacts, LeafBoundsAssumption
  <1>4. CASE Len(t) + Len(left) <= MAX_BYTES
    <2>1. r.node.text = w /\ r.residual = <<>>
      BY <1>2, <1>4 DEF EditLeafLf, Leaf
    <2>2. Len(w) = Len(t) + 1
      BY <1>1, AppendProperties DEF Text, Byte
    <2>. HIDE DEF w, r
    <2>3. NotOverfull(w)
      BY <1>3, <1>4, <2>2 DEF NotOverfull
    <2>. QED  BY <2>1, <2>3 DEF LeavesFit, r
  <1>5. CASE ~ (Len(t) + Len(left) <= MAX_BYTES)
    <2>. DEFINE v == InsertStr(t, Len(t), s)
                h == SplitNearMiddle(v)
    <2>1. r = SplitInTwo(h, FALSE)
      BY <1>2, <1>5 DEF EditLeafLf, SplitLeaf, InsertStrSplit
    <2>2. r.node.text = h[1] /\ (r.residual # <<>> => r.residual[1].node.text = h[2])
      BY <2>1 DEF SplitInTwo, Leaf, Child
    <2>3. s \in Text /\ Len(s) = 1 /\ s[1] = LF
      BY DEF Text, Byte
    <2>4. Utf8(s)
      <3>1. Following(LF) = 0 /\ LF # Cont
        BY DEF Following, LF, Lead2, Lead4, Cont
      <3>. HIDE DEF s
      <3>. QED  BY <2>3, <3>1 DEF Utf8
    <2>5. Len(t) \in 0..Len(t) /\ IsBoundary(Len(t), t)
      BY <1>3 DEF IsBoundary
    <2>. HIDE DEF s
    <2>6. v \in Text /\ Utf8(v) /\ Len(v) = Len(t) + 1
      <3>. DEFINE j == Len(t)
      <3>1. j \in 0..Len(t) /\ IsBoundary(j, t) /\ t \in Text /\ Utf8(t) /\ s \in Text /\ Utf8(s)
        BY <1>1, <2>3, <2>4, <2>5
      <3>. HIDE DEF j
      <3>2. v = InsertStr(t, j, s)
        BY DEF j
      <3>. HIDE DEF v
      <3>3. v \in Text /\ Utf8(v) /\ Len(v) = Len(t) + Len(s)
        BY <3>1, <3>2, InsertStrFacts
      <3>. QED  BY <2>3, <3>3
    <2>. HIDE DEF v
    <2>7. Len(v) < 2 * MAX_BYTES
      BY <1>1, <1>3, <2>6 DEF NotOverfull
    <2>8. Len(h[1]) < MAX_BYTES + 4 /\ Len(h[2]) < MAX_BYTES + 4
      BY <2>6, <2>7, HalvesSize
    <2>. HIDE DEF h, r
    <2>. QED  BY <2>2, <2>8 DEF NotOverfull, LeavesFit, r
  <1>. QED  BY <1>4, <1>5

LEMMA InsertKeepsLeft ==
  ASSUME NEW t, IsText(t), Len(t) # 0, NEW s, IsText(s), NEW j \in 0..Len(t), IsBoundary(j, t),
         j = 0 /\ Len(s) # 0 => s[1] # LF
  PROVE  /\ IsText(InsertStr(t, j, s)) /\ Len(InsertStr(t, j, s)) # 0
         /\ KeepsLeft(t, InsertStr(t, j, s))
  <1>. DEFINE w == InsertStr(t, j, s)
  <1>1. t \in Text /\ Utf8(t) /\ s \in Text /\ Utf8(s)
    BY DEF IsText
  <1>2. Len(t) \in Nat /\ Len(s) \in Nat
    BY <1>1, TextFacts
  <1>3. /\ w \in Text /\ Utf8(w) /\ Len(w) = Len(t) + Len(s)
        /\ s = <<>> => w = t
        /\ j # 0 => w[1] = t[1]
        /\ j = 0 /\ Len(s) # 0 => w[1] = s[1]
        /\ j = 0 /\ Len(s) = 0 /\ Len(t) # 0 => w[1] = t[1]
    BY <1>1, InsertStrFacts
  <1>. HIDE DEF w
  <1>4. Len(w) # 0
    BY <1>2, <1>3
  <1>5. Len(s) # 0 => s[1] # Cont
    BY <1>1, FirstByte
  <1>6. w[1] = t[1] \/ w[1] \notin {Cont, LF}
    BY <1>3, <1>5
  <1>7. ASSUME NEW l \in Text, Meets(l, t) PROVE Meets(l, w)
    BY <1>4, <1>6, <1>7 DEF Meets, SeamIsBreak, CutAllowed
  <1>. QED  BY <1>3, <1>4, <1>7 DEF KeepsLeft, IsText, w

LEMMA InsertKeepsRight ==
  ASSUME NEW t, IsText(t), NEW s, IsText(s), NEW j \in 0..Len(t), j # Len(t)
  PROVE  KeepsRight(t, InsertStr(t, j, s))
  <1>. DEFINE p == Slice(t, 0, j)
              q == From(t, j)
  <1>1. t \in Text /\ s \in Text
    BY DEF IsText
  <1>2. p \in Text /\ q \in Text /\ p \o q = t /\ Len(q) = Len(t) - j
    BY <1>1, PartsFacts
  <1>3. Len(q) # 0
    BY <1>1, <1>2, TextFacts
  <1>4. InsertStr(t, j, s) = (p \o s) \o q
    BY DEF InsertStr
  <1>. HIDE DEF p, q
  <1>. DEFINE ps == p \o s
  <1>5. ps \in Text
    BY <1>1, <1>2, ConcatFacts
  <1>. HIDE DEF ps
  <1>6. ASSUME NEW r \in Text, Meets(t, r) PROVE Meets(ps \o q, r)
    <2>1. Meets(p \o q, r)
      BY <1>2, <1>6
    <2>2. Meets(q, r)
      BY <1>2, <1>3, <2>1, MeetsConcat
    <2>. QED  BY <1>2, <1>3, <1>5, <2>2, MeetsConcat
  <1>. QED  BY <1>4, <1>6 DEF KeepsRight, ps

\* Text t is edited in the leaf x, at its char k, which is char idx of t.
EditedAt(t, idx, e, seam, w, a, x, b, k) ==
  /\ IsText(a) /\ IsText(b) /\ <<Leaf(x), x>> \in LeafLevel
  /\ t = a \o (x \o b) /\ w = a \o (Effect(x, k, e, seam) \o b)
  /\ Effect(x, k, e, seam) \in Text
  /\ k \in 0..InfoFromStr(x).chars /\ idx = InfoFromStr(a).chars + k
  /\ Len(b) = 0 \/ k < InfoFromStr(x).chars
  /\ seam => k = 0 /\ e.kind = "text" /\ ~ e.atStart /\ e.text[1] = LF

EditedTo(t, idx, e, seam, w) ==
  /\ IsText(w) /\ Len(w) # 0
  /\ \E a, x, b, k : EditedAt(t, idx, e, seam, w, a, x, b, k)
  /\ ~ AtStart(e) => KeepsLeft(t, w)
  /\ idx < InfoFromStr(t).chars => KeepsRight(t, w)

\* The result r of the edit e at char idx of a tree of text t, of the set X: one tree
\* or two, with the text as e should leave it.
EditDone(X, t, idx, e, r) == \E w : EditedTo(t, idx, e, r.seam, w) /\ Put(X, r, w)

LEMMA EditedWhole ==
  ASSUME NEW t, <<Leaf(t), t>> \in LeafLevel, NEW idx \in 0..InfoFromStr(t).chars,
         NEW e, NEW seam, NEW w \in Text, w = Effect(t, idx, e, seam),
         seam => idx = 0 /\ e.kind = "text" /\ ~ e.atStart /\ e.text[1] = LF
  PROVE  \E a, x, b, k : EditedAt(t, idx, e, seam, w, a, x, b, k)
  <1>. DEFINE o == <<>>
  <1>1. t \in Text
    BY LeafMember
  <1>2. IsText(o) /\ Len(o) = 0
    BY EmptyText
  <1>3. t = o \o (t \o o) /\ w = o \o (w \o o)
    BY <1>1, ConcatEmptySeq DEF Text
  <1>4. InfoFromStr(o).chars = 0
    BY InfoOfNothing DEF InfoNew
  <1>5. idx = InfoFromStr(o).chars + idx
    BY <1>1, <1>4, InfoTyped DEF TextInfo
  <1>. HIDE DEF o
  <1>6. EditedAt(t, idx, e, seam, w, o, t, o, idx)
    BY <1>2, <1>3, <1>5 DEF EditedAt
  <1>. QED  BY <1>6

LEMMA TextLeafSeam ==
  ASSUME NEW t, <<Leaf(t), t>> \in LeafLevel, NEW idx \in 0..InfoFromStr(t).chars,
         NEW e, NEW text, NEW atStart, IsTextEdit(e, text, atStart), StripsSeam(e, idx)
  PROVE  EditDone(LeafLevel, t, idx, e, EditLeafText(t, idx, InfoFromStr(t), e))
  <1>. DEFINE r == EditLeafText(t, idx, InfoFromStr(t), e)
              s == Tail(text)
              w == InsertStr(t, 0, s)
  <1>1. t \in Text /\ Utf8(t) /\ Len(t) # 0 /\ IsText(t)
    BY LeafMember DEF IsText
  <1>2. /\ text \in Text /\ Utf8(text) /\ Len(text) # 0
        /\ e.text = text /\ e.kind = "text" /\ e.atStart = atStart
        /\ (~ atStart /\ text[1] = LF /\ Len(s) # 0 => s[1] # LF)
    BY DEF IsTextEdit, IsText, TextEdit
  <1>3. idx = 0 /\ ~ atStart /\ text[1] = LF
    BY <1>2 DEF StripsSeam
  <1>4. s \in Text /\ Utf8(s) /\ IsText(s)
    BY <1>2, <1>3, WithoutLf DEF IsText
  <1>5. 0 \in 0..Len(t) /\ IsBoundary(0, t)
    BY <1>1, TextFacts, BreakIsBoundary DEF IsBreak
  <1>6. r = InsertInLeaf(t, 0, s, InfoFromStr(t), TRUE)
    BY <1>2 DEF EditLeafText
  <1>7. IsResult(r) /\ LeavesFit(r)
    <2>1. idx \in Nat
      BY <1>3
    <2>. QED  BY <2>1, TextEditFits
  <1>. HIDE DEF r, s
  <1>8. EditRight(r, w) /\ r.seam = TRUE
    BY ZenonT(60), <1>1, <1>4, <1>5, <1>6, InsertInLeafRight
  <1>9. IsText(w) /\ Len(w) # 0 /\ KeepsLeft(t, w)
    BY <1>1, <1>2, <1>3, <1>4, <1>5, InsertKeepsLeft
  <1>10. idx < InfoFromStr(t).chars => KeepsRight(t, w)
    <2>1. 0 # Len(t)
      BY <1>1
    <2>. QED  BY <1>1, <1>4, <1>5, <2>1, InsertKeepsRight
  <1>11. w = Effect(t, idx, e, r.seam)
    <2>1. InfoFromStr(Slice(t, 0, 0)).chars = 0
      BY <1>1, <1>5, CharsBeforeFacts
    <2>2. CharToByteIdx(t, 0) = 0
      BY <1>1, <1>5, <2>1, CharIdxUnique
    <2>. QED  BY <1>2, <1>3, <1>8, <2>2 DEF Effect, s
  <1>. HIDE DEF w
  <1>12. Put(LeafLevel, r, w)
    <2>1. w \in Text /\ Utf8(w)
      BY <1>9 DEF IsText
    <2>. QED  BY <1>7, <1>8, <1>9, <2>1, LeafPut
  <1>13. \E a, x, b, k : EditedAt(t, idx, e, r.seam, w, a, x, b, k)
    <2>1. w \in Text
      BY <1>9 DEF IsText
    <2>. DEFINE seam == r.seam
    <2>2. seam => idx = 0 /\ e.kind = "text" /\ ~ e.atStart /\ e.text[1] = LF
      BY <1>2, <1>3
    <2>3. w = Effect(t, idx, e, seam)
      BY <1>11
    <2>. HIDE DEF seam
    <2>4. \E a, x, b, k : EditedAt(t, idx, e, seam, w, a, x, b, k)
      BY <2>1, <2>2, <2>3, EditedWhole
    <2>. QED  BY <2>4 DEF seam
  <1>14. EditedTo(t, idx, e, r.seam, w)
    BY <1>9, <1>10, <1>13 DEF EditedTo
  <1>. QED  BY <1>12, <1>14 DEF EditDone, r

LEMMA TextLeafWhole ==
  ASSUME NEW t, <<Leaf(t), t>> \in LeafLevel, NEW idx \in 0..InfoFromStr(t).chars,
         NEW e, NEW text, NEW atStart, IsTextEdit(e, text, atStart), ~ StripsSeam(e, idx)
  PROVE  EditDone(LeafLevel, t, idx, e, EditLeafText(t, idx, InfoFromStr(t), e))
  <1>. DEFINE r == EditLeafText(t, idx, InfoFromStr(t), e)
              j == CharToByteIdx(t, idx)
              w == InsertStr(t, j, text)
  <1>1. t \in Text /\ Utf8(t) /\ Len(t) # 0 /\ IsText(t)
    BY LeafMember DEF IsText
  <1>2. /\ text \in Text /\ Utf8(text) /\ Len(text) # 0 /\ IsText(text) /\ atStart \in BOOLEAN
        /\ e.text = text /\ e.kind = "text" /\ e.atStart = atStart
    BY DEF IsTextEdit, IsText, TextEdit
  <1>3. InfoFromStr(t).chars \in Nat /\ idx \in Nat /\ Len(t) \in Nat
    <2>1. InfoFromStr(t).chars \in Nat /\ Len(t) \in Nat
      BY <1>1, InfoTyped, TextFacts DEF TextInfo
    <2>. QED  BY <2>1
  <1>4. /\ j \in 0..Len(t) /\ IsBoundary(j, t)
        /\ InfoFromStr(Slice(t, 0, j)).chars = Min2(idx, InfoFromStr(t).chars)
        /\ j = Len(t) <=> idx >= InfoFromStr(t).chars
    BY <1>1, <1>3, CharToByte
  <1>5. j = 0 => idx = 0
    <2>1. SUFFICES ASSUME j = 0 PROVE idx = 0
      OBVIOUS
    <2>2. InfoFromStr(Slice(t, 0, 0)).chars = 0
      BY <1>1, <1>3, CharsBeforeFacts
    <2>. HIDE DEF j
    <2>3. Min2(idx, InfoFromStr(t).chars) = 0
      BY <1>4, <2>1, <2>2
    <2>. QED  BY <1>1, <1>3, <1>4, <2>1, <2>3 DEF Min2
  <1>6. r = InsertInLeaf(t, j, text, InfoFromStr(t), FALSE)
    BY <1>2 DEF EditLeafText
  <1>7. IsResult(r) /\ LeavesFit(r)
    BY <1>3, TextEditFits
  <1>. HIDE DEF r, j
  <1>8. EditRight(r, w) /\ r.seam = FALSE
    <2>. DEFINE y == InsertInLeaf(t, j, text, InfoFromStr(t), FALSE)
    <2>1. t \in Text /\ Utf8(t) /\ Len(t) # 0 /\ text \in Text /\ Utf8(text)
      BY <1>1, <1>2
    <2>2. j \in 0..Len(t) /\ IsBoundary(j, t)
      BY <1>4
    <2>3. EditRight(y, w) /\ y.seam = FALSE
      BY ZenonT(60), <2>1, <2>2, InsertInLeafRight
    <2>. HIDE DEF y, w
    <2>. QED  BY <1>6, <2>3 DEF y
  <1>9. ~ AtStart(e) => (j = 0 => text[1] # LF)
    BY <1>2, <1>5 DEF AtStart, StripsSeam
  <1>10. ~ AtStart(e) => KeepsLeft(t, w)
    BY <1>1, <1>2, <1>4, <1>9, InsertKeepsLeft
  <1>11. idx < InfoFromStr(t).chars => KeepsRight(t, w)
    <2>1. SUFFICES ASSUME idx < InfoFromStr(t).chars PROVE KeepsRight(t, w)
      OBVIOUS
    <2>2. j # Len(t)
      BY <1>3, <1>4, <2>1
    <2>. QED  BY <1>1, <1>2, <1>4, <2>2, InsertKeepsRight
  <1>12. IsText(w) /\ Len(w) # 0
    <2>1. w \in Text /\ Utf8(w) /\ Len(w) = Len(t) + Len(text)
      BY <1>1, <1>2, <1>4, InsertStrFacts
    <2>2. Len(t) + Len(text) # 0
      BY <1>1, <1>2, TextFacts
    <2>. QED  BY <2>1, <2>2 DEF IsText
  <1>13. w = Effect(t, idx, e, r.seam)
    BY <1>2, <1>8 DEF Effect, j
  <1>. HIDE DEF w
  <1>14. Put(LeafLevel, r, w)
    <2>1. w \in Text /\ Utf8(w)
      BY <1>12 DEF IsText
    <2>. QED  BY <1>7, <1>8, <1>12, <2>1, LeafPut
  <1>15. \E a, x, b, k : EditedAt(t, idx, e, r.seam, w, a, x, b, k)
    <2>1. w \in Text
      BY <1>12 DEF IsText
    <2>. DEFINE seam == r.seam
    <2>2. seam => idx = 0 /\ e.kind = "text" /\ ~ e.atStart /\ e.text[1] = LF
      BY <1>8
    <2>3. w = Effect(t, idx, e, seam)
      BY <1>13
    <2>. HIDE DEF seam
    <2>4. \E a, x, b, k : EditedAt(t, idx, e, seam, w, a, x, b, k)
      BY <2>1, <2>2, <2>3, EditedWhole
    <2>. QED  BY <2>4 DEF seam
  <1>16. EditedTo(t, idx, e, r.seam, w)
    BY <1>10, <1>11, <1>12, <1>15 DEF EditedTo
  <1>. QED  BY <1>14, <1>16 DEF EditDone, r

LEMMA LfLeaf ==
  ASSUME NEW t, <<Leaf(t), t>> \in LeafLevel, NEW idx \in 0..InfoFromStr(t).chars,
         NEW e, NEW left, IsLfEdit(e, left)
  PROVE  EditDone(LeafLevel, t, idx, e, EditLeafLf(t, InfoFromStr(t), e))
  <1>. DEFINE r == EditLeafLf(t, InfoFromStr(t), e)
              w == Append(t, LF)
              s == <<LF>>
  <1>1. t \in Text /\ Utf8(t) /\ Len(t) # 0 /\ IsText(t)
    BY LeafMember DEF IsText
  <1>2. e = LfEdit(left) /\ left \in Text /\ e.kind = "lf"
    BY DEF IsLfEdit, LfEdit
  <1>3. EditRight(r, w) /\ r.seam = FALSE
    BY <1>1, <1>2, EditLeafLfRight
  <1>4. IsResult(r) /\ LeavesFit(r)
    BY EditLeafLfShape, LfEditFits
  <1>. HIDE DEF r
  <1>5. s \in Text /\ Len(s) = 1 /\ s[1] = LF
    BY DEF Text, Byte
  <1>6. w = t \o s
    BY <1>1, AppendIsConcat DEF Text, Byte
  <1>7. Utf8(s)
    <2>1. Following(LF) = 0 /\ LF # Cont
      BY DEF Following, LF, Lead2, Lead4, Cont
    <2>. HIDE DEF s
    <2>. QED  BY <1>5, <2>1 DEF Utf8
  <1>. HIDE DEF s, w
  <1>8. w \in Text /\ Utf8(w) /\ IsText(w) /\ Len(w) # 0
    <2>1. w \in Text /\ Len(w) = Len(t) + Len(s)
      BY <1>1, <1>5, <1>6, ConcatFacts
    <2>2. Utf8(w)
      BY <1>1, <1>5, <1>6, <1>7, Utf8Concat
    <2>3. Len(w) # 0
      BY <1>1, <1>5, <2>1, TextFacts
    <2>. QED  BY <2>1, <2>2, <2>3 DEF IsText
  <1>9. KeepsLeft(t, w)
    <2>1. ASSUME NEW l \in Text, Meets(l, t) PROVE Meets(l, t \o s)
      BY <1>1, <1>5, <2>1, MeetsConcat
    <2>. QED  BY <1>6, <2>1 DEF KeepsLeft
  <1>10. KeepsRight(t, w)
    <2>1. ASSUME NEW l \in Text, Utf8(l) PROVE Meets(t \o s, l)
      <3>1. Len(l) # 0 => l[1] # Cont
        BY <2>1, FirstByte
      <3>2. Meets(s, l)
        BY <1>5, <3>1 DEF Meets, SeamIsBreak, CutAllowed, LF, CR
      <3>. QED  BY <1>1, <1>5, <3>2, MeetsConcat
    <2>. QED  BY <1>6, <2>1 DEF KeepsRight
  <1>11. w = Effect(t, idx, e, r.seam)
    BY <1>2 DEF Effect, w
  <1>12. Put(LeafLevel, r, w)
    BY <1>3, <1>4, <1>8, LeafPut
  <1>13. \E a, x, b, k : EditedAt(t, idx, e, r.seam, w, a, x, b, k)
    <2>. DEFINE seam == r.seam
    <2>1. seam => idx = 0 /\ e.kind = "text" /\ ~ e.atStart /\ e.text[1] = LF
      BY <1>3
    <2>2. w = Effect(t, idx, e, seam)
      BY <1>11
    <2>. HIDE DEF seam
    <2>3. \E a, x, b, k : EditedAt(t, idx, e, seam, w, a, x, b, k)
      BY <1>8, <2>1, <2>2, EditedWhole
    <2>. QED  BY <2>3 DEF seam
  <1>14. EditedTo(t, idx, e, r.seam, w)
    BY <1>8, <1>9, <1>10, <1>13 DEF EditedTo
  <1>. QED  BY <1>12, <1>14 DEF EditDone, r

-----------------------------------------------------------------------------
(* An edit of a part of a text *)

LEMMA KeepsLeftIn ==
  ASSUME NEW a \in Text, NEW x \in Text, NEW b \in Text, NEW u \in Text,
         Len(x) # 0, Len(u) # 0, KeepsLeft(x, u)
  PROVE  KeepsLeft(a \o (x \o b), a \o (u \o b))
  <1>. DEFINE xb == x \o b
              ub == u \o b
  <1>1. xb \in Text /\ ub \in Text
    BY ConcatFacts
  <1>2. ASSUME NEW l \in Text, Meets(l, xb) PROVE Meets(l, ub)
    <2>1. Meets(l, x)
      BY <1>2, MeetsConcat
    <2>2. Meets(l, u)
      BY <2>1 DEF KeepsLeft
    <2>. QED  BY <2>2, MeetsConcat
  <1>. HIDE DEF xb, ub
  <1>3. ASSUME NEW l \in Text, Meets(l, a \o xb) PROVE Meets(l, a \o ub)
    <2>1. CASE Len(a) # 0
      BY <1>1, <1>3, <2>1, MeetsConcat
    <2>2. CASE Len(a) = 0
      <3>1. a = <<>>
        BY <2>2, EmptyText
      <3>2. a \o xb = xb /\ a \o ub = ub
        BY <1>1, <3>1, ConcatEmptySeq DEF Text
      <3>. QED  BY <1>2, <1>3, <3>2
    <2>. QED  BY <2>1, <2>2
  <1>. QED  BY <1>3 DEF KeepsLeft, xb, ub

LEMMA KeepsRightIn ==
  ASSUME NEW a \in Text, NEW x \in Text, NEW b \in Text, NEW u \in Text,
         Len(x) # 0, Len(u) # 0, Len(b) # 0 \/ KeepsRight(x, u)
  PROVE  KeepsRight(a \o (x \o b), a \o (u \o b))
  <1>. DEFINE ax == a \o x
              au == a \o u
  <1>1. ax \in Text /\ au \in Text
    BY ConcatFacts
  <1>2. a \o (x \o b) = ax \o b /\ a \o (u \o b) = au \o b
    BY ZenonT(60), TextAssoc
  <1>3. \A r \in Text : (Meets(ax, r) <=> Meets(x, r)) /\ (Meets(au, r) <=> Meets(u, r))
    BY MeetsConcat
  <1>. HIDE DEF ax, au
  <1>4. ASSUME NEW r \in Text, Utf8(r), Meets(ax \o b, r) PROVE Meets(au \o b, r)
    <2>1. CASE Len(b) # 0
      BY <1>1, <1>4, <2>1, MeetsConcat
    <2>2. CASE Len(b) = 0
      <3>1. b = <<>>
        BY <2>2, EmptyText
      <3>2. ax \o b = ax /\ au \o b = au
        BY <1>1, <3>1, ConcatEmptySeq DEF Text
      <3>3. KeepsRight(x, u)
        BY <2>2
      <3>. QED  BY <1>3, <1>4, <3>2, <3>3 DEF KeepsRight
    <2>. QED  BY <2>1, <2>2
  <1>. QED  BY <1>2, <1>4 DEF KeepsRight

\* The middle of a text, and the middle of that.
IsNested(a, c, x, d, b) == a \o ((c \o (x \o d)) \o b) = (a \o c) \o (x \o (d \o b))

LEMMA NestedParts ==
  ASSUME NEW a \in Text, NEW c \in Text, NEW x \in Text, NEW d \in Text, NEW b \in Text
  PROVE  IsNested(a, c, x, d, b)
  <1>. DEFINE xd == x \o d
              db == d \o b
              e  == x \o db
  <1>1. xd \in Text /\ db \in Text
    BY ConcatFacts
  <1>2. xd \o b = x \o db
    BY SMTT(60), TextAssoc
  <1>3. e \in Text
    BY <1>1, ConcatFacts
  <1>. HIDE DEF xd, db
  <1>4. (c \o xd) \o b = c \o (xd \o b)
    BY ZenonT(60), <1>1, TextAssoc
  <1>. HIDE DEF e
  <1>5. a \o (c \o e) = (a \o c) \o e
    BY ZenonT(60), <1>3, TextAssoc
  <1>. QED  BY <1>2, <1>4, <1>5 DEF e, xd, db, IsNested

LEMMA EditedAtAbove ==
  ASSUME NEW a, IsText(a), NEW u, IsText(u), NEW b, IsText(b),
         NEW i, NEW e, NEW seam, NEW w, NEW c, NEW x, NEW d, NEW k,
         EditedAt(u, i, e, seam, w, c, x, d, k),
         Len(b) = 0 \/ i < InfoFromStr(u).chars
  PROVE  EditedAt(a \o (u \o b), InfoFromStr(a).chars + i, e, seam, a \o (w \o b),
                  a \o c, x, d \o b, k)
  <1>. DEFINE y == Effect(x, k, e, seam)
  <1>1. /\ IsText(c) /\ IsText(d) /\ <<Leaf(x), x>> \in LeafLevel
        /\ u = c \o (x \o d) /\ w = c \o (y \o d) /\ y \in Text
        /\ k \in 0..InfoFromStr(x).chars /\ i = InfoFromStr(c).chars + k
        /\ Len(d) = 0 \/ k < InfoFromStr(x).chars
        /\ seam => k = 0 /\ e.kind = "text" /\ ~ e.atStart /\ e.text[1] = LF
    BY DEF EditedAt
  <1>. HIDE DEF y
  <1>2. /\ a \in Text /\ b \in Text /\ c \in Text /\ d \in Text /\ x \in Text
        /\ Utf8(a) /\ Utf8(b) /\ Utf8(c) /\ Utf8(d)
    BY <1>1, LeafMember DEF IsText
  <1>3. a \o (u \o b) = (a \o c) \o (x \o (d \o b)) /\ a \o (w \o b) = (a \o c) \o (y \o (d \o b))
    <2>1. IsNested(a, c, x, d, b) /\ IsNested(a, c, y, d, b)
      BY <1>1, <1>2, NestedParts
    <2>. QED  BY <1>1, <2>1 DEF IsNested
  <1>4. IsText(a \o c) /\ IsText(d \o b) /\ Len(d \o b) = Len(d) + Len(b)
    BY <1>2, ConcatFacts, Utf8Concat DEF IsText
  <1>5. /\ InfoFromStr(a \o c).chars = InfoFromStr(a).chars + InfoFromStr(c).chars
        /\ InfoFromStr(a).chars \in Nat /\ InfoFromStr(c).chars \in Nat
    BY <1>2, CharsOfConcat
  <1>6. InfoFromStr(x).chars \in Nat /\ Len(d) \in Nat /\ Len(b) \in Nat
    BY <1>2, InfoTyped, TextFacts DEF TextInfo
  <1>7. k \in Nat
    BY <1>1, <1>6
  <1>8. InfoFromStr(a).chars + i = InfoFromStr(a \o c).chars + k
    BY <1>1, <1>5, <1>7
  <1>9. Len(d \o b) = 0 \/ k < InfoFromStr(x).chars
    <2>1. SUFFICES ASSUME ~ (k < InfoFromStr(x).chars) PROVE Len(d \o b) = 0
      OBVIOUS
    <2>2. Len(d) = 0 /\ k = InfoFromStr(x).chars
      BY <1>1, <1>6, <1>7, <2>1
    <2>3. d = <<>> /\ x \o d = x
      BY <1>2, <2>2, EmptyText, ConcatEmptySeq DEF Text
    <2>4. u = c \o x
      BY <1>1, <2>3
    <2>5. InfoFromStr(u).chars = InfoFromStr(c).chars + InfoFromStr(x).chars
      BY <1>2, <2>4, CharsOfConcat
    <2>6. Len(b) = 0
      BY <1>1, <1>5, <1>6, <2>2, <2>5
    <2>. QED  BY <1>4, <2>2, <2>6
  <1>. QED  BY <1>1, <1>3, <1>4, <1>8, <1>9 DEF EditedAt, y

\* What an edit makes of a child's text, in the text of the whole node.
LEMMA EditedAbove ==
  ASSUME NEW a, IsText(a), NEW x, IsText(x), Len(x) # 0, NEW b, IsText(b),
         Meets(a, x), Meets(x, b), NEW k \in 0..InfoFromStr(x).chars,
         Len(b) = 0 \/ k < InfoFromStr(x).chars,
         NEW e, AtStart(e) => Len(a) = 0,
         NEW seam, NEW u, EditedTo(x, k, e, seam, u)
  PROVE  /\ Len(u) # 0 /\ Meets(a, u) /\ Meets(u, b)
         /\ EditedTo(a \o (x \o b), InfoFromStr(a).chars + k, e, seam, a \o (u \o b))
  <1>. DEFINE t == a \o (x \o b)
              w == a \o (u \o b)
              idx == InfoFromStr(a).chars + k
  <1>1. /\ IsText(u) /\ Len(u) # 0
        /\ ~ AtStart(e) => KeepsLeft(x, u)
        /\ k < InfoFromStr(x).chars => KeepsRight(x, u)
    BY DEF EditedTo
  <1>2. /\ a \in Text /\ Utf8(a) /\ x \in Text /\ Utf8(x)
        /\ b \in Text /\ Utf8(b) /\ u \in Text /\ Utf8(u)
    BY <1>1 DEF IsText
  <1>3. Meets(a, u)
    BY <1>1, <1>2 DEF Meets, KeepsLeft
  <1>4. Meets(u, b)
    BY <1>1, <1>2 DEF Meets, KeepsRight
  <1>5. IsText(w) /\ Len(w) # 0
    <2>. DEFINE ub == u \o b
    <2>1. ub \in Text /\ Utf8(ub) /\ Len(ub) = Len(u) + Len(b)
      BY <1>2, ConcatFacts, Utf8Concat
    <2>. HIDE DEF ub
    <2>2. a \o ub \in Text /\ Utf8(a \o ub) /\ Len(a \o ub) = Len(a) + Len(ub)
      BY <1>2, <2>1, ConcatFacts, Utf8Concat
    <2>3. Len(a) \in Nat /\ Len(u) \in Nat /\ Len(b) \in Nat
      BY <1>2, TextFacts
    <2>4. Len(a \o ub) # 0
      BY <1>1, <2>1, <2>2, <2>3
    <2>. QED  BY <2>2, <2>4 DEF IsText, ub
  <1>6. \E a1, x1, b1, k1 : EditedAt(t, idx, e, seam, w, a1, x1, b1, k1)
    <2>1. PICK c, y, d, k1 : EditedAt(x, k, e, seam, u, c, y, d, k1)
      BY DEF EditedTo
    <2>2. EditedAt(t, idx, e, seam, w, a \o c, y, d \o b, k1)
      BY <2>1, EditedAtAbove
    <2>. QED  BY <2>2
  <1>7. ~ AtStart(e) => KeepsLeft(t, w)
    BY <1>1, <1>2, KeepsLeftIn
  <1>8. idx < InfoFromStr(t).chars => KeepsRight(t, w)
    <2>1. SUFFICES ASSUME idx < InfoFromStr(t).chars PROVE Len(b) # 0 \/ KeepsRight(x, u)
      BY <1>1, <1>2, KeepsRightIn
    <2>2. SUFFICES ASSUME Len(b) = 0 PROVE k < InfoFromStr(x).chars
      BY <1>1
    <2>3. b = <<>> /\ x \o b = x
      BY <1>2, <2>2, EmptyText, ConcatEmptySeq DEF Text
    <2>4. InfoFromStr(t).chars = InfoFromStr(a).chars + InfoFromStr(x).chars
          /\ InfoFromStr(a).chars \in Nat /\ InfoFromStr(x).chars \in Nat
      BY <1>2, <2>3, CharsOfConcat
    <2>5. k \in Nat
      BY <2>4
    <2>. QED  BY <2>1, <2>4, <2>5
  <1>. HIDE DEF t, w, idx
  <1>9. EditedTo(t, idx, e, seam, w)
    BY <1>5, <1>6, <1>7, <1>8 DEF EditedTo
  <1>. QED  BY <1>1, <1>3, <1>4, <1>9 DEF t, w, idx

\* The edit of a node, from the edit of its child.
LEMMA EditUp ==
  ASSUME NEW X, IsPairs(X), Sound(X), NEW c, NEW t, Row(X, c, t), Len(c) <= MAX_CHILDREN,
         NEW i \in 1..Len(c), NEW idx, NEW a, NEW x, NEW b, NEW k,
         Found(X, c, i, t, idx, a, x, b, k),
         NEW e, AtStart(e) => idx = 0, NEW r, EditDone(X, x, k, e, r)
  PROVE  EditDone(Above(X), t, idx, e, AfterChildEdit(c, i, InfoFromStr(t), r))
  <1>. DEFINE y == AfterChildEdit(c, i, InfoFromStr(t), r)
  <1>1. PICK u : EditedTo(x, k, e, r.seam, u) /\ Put(X, r, u)
    BY DEF EditDone
  <1>2. /\ AtChild(X, c, i, t, a, x, b)
        /\ k \in 0..InfoFromStr(x).chars
        /\ idx = InfoFromStr(a).chars + k
        /\ Len(b) = 0 \/ k < InfoFromStr(x).chars
        /\ idx = 0 => Len(a) = 0
    BY DEF Found
  <1>3. IsText(a) /\ IsText(b) /\ <<c[i].node, x>> \in X /\ t = a \o (x \o b)
        /\ Meets(a, x) /\ Meets(x, b)
    BY <1>2 DEF AtChild, Row
  <1>4. IsText(x) /\ Len(x) # 0
    BY <1>3 DEF Sound
  <1>5. AtStart(e) => Len(a) = 0
    BY <1>2
  <1>. DEFINE w == a \o (u \o b)
              seam == r.seam
  <1>6. EditedTo(x, k, e, seam, u)
    BY <1>1
  <1>. HIDE DEF seam
  <1>7. /\ Len(u) # 0 /\ Meets(a, u) /\ Meets(u, b)
        /\ EditedTo(a \o (x \o b), InfoFromStr(a).chars + k, e, seam, a \o (u \o b))
    BY <1>2, <1>3, <1>4, <1>5, <1>6, EditedAbove
  <1>8. EditedTo(t, idx, e, seam, w)
    BY <1>2, <1>3, <1>7
  <1>9. Put(Above(X), y, w) /\ y.seam = r.seam
    BY <1>1, <1>2, <1>7, PutAbove
  <1>. HIDE DEF y, w
  <1>10. EditedTo(t, idx, e, y.seam, w)
    BY <1>8, <1>9 DEF seam
  <1>. QED  BY <1>9, <1>10 DEF EditDone, y

-----------------------------------------------------------------------------
(* The edit of a whole tree *)

IsEdit(e) ==
  \/ \E text, atStart : IsTextEdit(e, text, atStart)
  \/ \E left : IsLfEdit(e, left)

\* A call for a char of a sound tree of text t, h levels high.
IsCall(call, t, h, e) ==
  /\ <<call.node, t>> \in Level[h] /\ call.info = InfoFromStr(t)
  /\ call.idx \in 0..InfoFromStr(t).chars
  /\ AtStart(e) => call.idx = 0

\* f has the calls down to level m, and then the results up to it.
Calls(f, n, idx, info, m) ==
  f = [k \in 0..m |-> IF k = 0 THEN EditCall(n, idx, info) ELSE CallBelow(f[k - 1])]

Results(f, call, h, e, m) ==
  f = [k \in 0..m |-> IF k = 0 THEN EditLeaf(call[h], e) ELSE AfterCall(call[h - k], f[k - 1])]

LEMMA CallsExist ==
  ASSUME NEW n, NEW idx, NEW info, NEW m \in Nat
  PROVE  \E f : Calls(f, n, idx, info, m)
  <1>. DEFINE T == {k \in Nat : \E f : Calls(f, n, idx, info, k)}
  <1>1. 0 \in T
    <2>. DEFINE f == [k \in 0..0 |-> EditCall(n, idx, info)]
    <2>1. f = [k \in 0..0 |-> IF k = 0 THEN EditCall(n, idx, info) ELSE CallBelow(f[k - 1])]
      OBVIOUS
    <2>. QED  BY <2>1 DEF Calls
  <1>2. ASSUME NEW j \in Nat, j \in T PROVE j + 1 \in T
    <2>1. PICK f : Calls(f, n, idx, info, j)
      BY <1>2
    <2>. DEFINE b == CallBelow(f[j])
                g == [k \in 0..(j + 1) |-> IF k = j + 1 THEN b ELSE f[k]]
    <2>2. ASSUME NEW k \in 0..(j + 1)
          PROVE  g[k] = IF k = 0 THEN EditCall(n, idx, info) ELSE CallBelow(g[k - 1])
      <3>1. CASE k = j + 1
        <4>1. g[k] = b /\ g[k - 1] = f[j] /\ k # 0
          BY <3>1
        <4>. QED  BY <3>1, <4>1
      <3>2. CASE k # j + 1
        <4>1. k \in 0..j /\ g[k] = f[k]
          BY <3>2
        <4>2. CASE k = 0
          BY <2>1, <4>1, <4>2 DEF Calls
        <4>3. CASE k # 0
          <5>1. k - 1 \in 0..(j + 1) /\ k - 1 # j + 1
            BY <4>1, <4>3
          <5>2. g[k - 1] = f[k - 1]
            BY <5>1
          <5>. QED  BY <2>1, <4>1, <4>3, <5>2 DEF Calls
        <4>. QED  BY <4>2, <4>3
      <3>. QED  BY <3>1, <3>2
    <2>3. g = [k \in 0..(j + 1) |-> IF k = 0 THEN EditCall(n, idx, info) ELSE CallBelow(g[k - 1])]
      BY <2>2
    <2>4. Calls(g, n, idx, info, j + 1)
      BY <2>3 DEF Calls
    <2>. QED  BY <2>4
  <1>3. Nat \subseteq T
    <2>. HIDE DEF T
    <2>. QED  BY <1>1, <1>2, SetInduction
  <1>. QED  BY <1>3

LEMMA ResultsExist ==
  ASSUME NEW call, NEW h \in Nat, NEW e, NEW m \in Nat
  PROVE  \E f : Results(f, call, h, e, m)
  <1>. DEFINE T == {k \in Nat : \E f : Results(f, call, h, e, k)}
  <1>1. 0 \in T
    <2>. DEFINE f == [k \in 0..0 |-> EditLeaf(call[h], e)]
    <2>1. f = [k \in 0..0 |-> IF k = 0 THEN EditLeaf(call[h], e) ELSE AfterCall(call[h - k], f[k - 1])]
      OBVIOUS
    <2>. QED  BY <2>1 DEF Results
  <1>2. ASSUME NEW j \in Nat, j \in T PROVE j + 1 \in T
    <2>1. PICK f : Results(f, call, h, e, j)
      BY <1>2
    <2>. DEFINE b == AfterCall(call[h - (j + 1)], f[j])
                g == [k \in 0..(j + 1) |-> IF k = j + 1 THEN b ELSE f[k]]
    <2>2. ASSUME NEW k \in 0..(j + 1)
          PROVE  g[k] = IF k = 0 THEN EditLeaf(call[h], e) ELSE AfterCall(call[h - k], g[k - 1])
      <3>1. CASE k = j + 1
        <4>1. g[k] = b /\ g[k - 1] = f[j] /\ k # 0
          BY <3>1
        <4>. QED  BY <3>1, <4>1
      <3>2. CASE k # j + 1
        <4>1. k \in 0..j /\ g[k] = f[k]
          BY <3>2
        <4>2. CASE k = 0
          BY <2>1, <4>1, <4>2 DEF Results
        <4>3. CASE k # 0
          <5>1. k - 1 \in 0..(j + 1) /\ k - 1 # j + 1
            BY <4>1, <4>3
          <5>2. g[k - 1] = f[k - 1]
            BY <5>1
          <5>. QED  BY <2>1, <4>1, <4>3, <5>2 DEF Results
        <4>. QED  BY <4>2, <4>3
      <3>. QED  BY <3>1, <3>2
    <2>3. g = [k \in 0..(j + 1) |-> IF k = 0 THEN EditLeaf(call[h], e) ELSE AfterCall(call[h - k], g[k - 1])]
      BY <2>2
    <2>4. Results(g, call, h, e, j + 1)
      BY <2>3 DEF Results
    <2>. QED  BY <2>4
  <1>3. Nat \subseteq T
    <2>. HIDE DEF T
    <2>. QED  BY <1>1, <1>2, SetInduction
  <1>. QED  BY <1>3

LEMMA EditLeafDone ==
  ASSUME NEW e, IsEdit(e), NEW call, NEW t, IsCall(call, t, 0, e)
  PROVE  EditDone(Level[0], t, call.idx, e, EditLeaf(call, e))
  <1>1. /\ <<call.node, t>> \in LeafLevel /\ call.info = InfoFromStr(t)
        /\ call.idx \in 0..InfoFromStr(t).chars
    BY LevelStep DEF IsCall
  <1>2. call.node = Leaf(t) /\ <<Leaf(t), t>> \in LeafLevel
    BY <1>1, LeafMember
  <1>3. call.node.text = t
    BY <1>2 DEF Leaf
  <1>. DEFINE idx == call.idx
  <1>4. idx \in 0..InfoFromStr(t).chars
    BY <1>1
  <1>. HIDE DEF idx
  <1>5. CASE \E text, atStart : IsTextEdit(e, text, atStart)
    <2>1. PICK text, atStart : IsTextEdit(e, text, atStart)
      BY <1>5
    <2>2. e.kind = "text"
      BY <2>1 DEF IsTextEdit, TextEdit
    <2>3. EditLeaf(call, e) = EditLeafText(t, idx, InfoFromStr(t), e)
      BY <1>1, <1>3, <2>2 DEF EditLeaf, idx
    <2>4. EditDone(LeafLevel, t, idx, e, EditLeafText(t, idx, InfoFromStr(t), e))
      BY <1>2, <1>4, <2>1, TextLeafSeam, TextLeafWhole
    <2>. QED  BY <2>3, <2>4, LevelStep DEF idx
  <1>6. CASE \E left : IsLfEdit(e, left)
    <2>1. PICK left : IsLfEdit(e, left)
      BY <1>6
    <2>2. e.kind = "lf"
      BY <2>1 DEF IsLfEdit, LfEdit
    <2>3. EditLeaf(call, e) = EditLeafLf(t, InfoFromStr(t), e)
      BY <1>1, <1>3, <2>2 DEF EditLeaf
    <2>4. EditDone(LeafLevel, t, idx, e, EditLeafLf(t, InfoFromStr(t), e))
      BY <1>2, <1>4, <2>1, LfLeaf
    <2>. QED  BY <2>3, <2>4, LevelStep DEF idx
  <1>. QED  BY <1>5, <1>6 DEF IsEdit

LEMMA EditNodeDone ==
  ASSUME NEW h \in Nat, NEW e, NEW call, NEW t, IsCall(call, t, h + 1, e),
         NEW r, \A x : IsCall(CallBelow(call), x, h, e) =>
                         EditDone(Level[h], x, CallBelow(call).idx, e, r)
  PROVE  EditDone(Level[h + 1], t, call.idx, e, AfterCall(call, r))
  <1>. DEFINE X == Level[h]
              d == call.node.children
              c == Compacted(d)
              idx == call.idx
              i == SearchCharIdx(c, idx)
              below == CallBelow(call)
  <1>1. Level[h + 1] = Above(X) /\ IsPairs(X) /\ Sound(X)
    BY LevelStep, LevelSound
  <1>2. /\ <<call.node, t>> \in Above(X) /\ call.info = InfoFromStr(t)
        /\ idx \in 0..InfoFromStr(t).chars /\ (AtStart(e) => idx = 0)
    BY <1>1 DEF IsCall
  <1>3. Row(X, d, t) /\ Len(d) \in 1..MAX_CHILDREN /\ MAX_CHILDREN \in Nat
    <2>. HIDE DEF X
    <2>. QED  BY <1>2, AboveParts, ChildBounds
  <1>4. Row(X, c, t) /\ Len(c) \in 1..Len(d)
    <2>1. Len(d) # 0 /\ Row(Level[h], d, t)
      BY <1>3
    <2>. HIDE DEF d
    <2>. QED  BY <2>1, CompactedRight
  <1>5. Len(c) <= MAX_CHILDREN /\ Len(c) # 0
    BY <1>3, <1>4
  <1>6. /\ below.node = c[i].node /\ below.info = c[i].info
        /\ below.idx = idx - PrefixInfo(c, i - 1).chars
    BY DEF CallBelow, CallInChildren, CallOnChild, EditCall
  <1>7. AfterCall(call, r) = AfterChildEdit(c, i, InfoFromStr(t), r)
    BY <1>2 DEF AfterCall, AfterEdit
  <1>. HIDE DEF X, c, idx, below
  <1>8. i \in 1..Len(c) /\ \E a, x, b : Found(X, c, i, t, idx, a, x, b, below.idx)
    BY <1>1, <1>2, <1>4, <1>5, <1>6, ChildFound
  <1>. HIDE DEF i
  <1>9. PICK a, x, b : Found(X, c, i, t, idx, a, x, b, below.idx)
    BY <1>8
  <1>10. IsCall(below, x, h, e)
    <2>1. /\ AtChild(X, c, i, t, a, x, b) /\ below.idx \in 0..InfoFromStr(x).chars
          /\ idx = InfoFromStr(a).chars + below.idx
      BY <1>9 DEF Found
    <2>2. <<c[i].node, x>> \in X /\ c[i].info = InfoFromStr(x) /\ Row(X, Before(c, i), a)
      BY <2>1 DEF AtChild
    <2>3. a \in Text /\ x \in Text
      BY <1>1, <2>2 DEF Row, IsText, Sound
    <2>4. InfoFromStr(a).chars \in Nat /\ InfoFromStr(x).chars \in Nat
      BY <2>3, InfoTyped DEF TextInfo
    <2>5. idx = 0 => below.idx = 0
      BY <2>1, <2>4
    <2>. QED  BY <1>2, <1>6, <2>1, <2>2, <2>5 DEF IsCall, X
  <1>11. EditDone(X, x, below.idx, e, r)
    BY <1>10 DEF X, below
  <1>. DEFINE k == below.idx
  <1>12. Found(X, c, i, t, idx, a, x, b, k) /\ EditDone(X, x, k, e, r)
    BY <1>9, <1>11
  <1>. HIDE DEF k
  <1>13. EditDone(Above(X), t, idx, e, AfterChildEdit(c, i, InfoFromStr(t), r))
    BY <1>1, <1>2, <1>4, <1>5, <1>8, <1>12, EditUp
  <1>. QED  BY <1>1, <1>7, <1>13 DEF idx

\* edit_chunk_at_char, on every sound tree of any height: the tree or the two trees it
\* leaves are sound, with summaries that are right, and have the text of before with
\* the edit made in one leaf, the one that has the char.
THEOREM EditAlongRight ==
  ASSUME NEW h \in Nat, NEW n, NEW t, <<n, t>> \in Level[h],
         NEW idx \in 0..InfoFromStr(t).chars,
         NEW e, IsEdit(e), AtStart(e) => idx = 0
  PROVE  EditDone(Level[h], t, idx, e, EditAlong(n, h, idx, InfoFromStr(t), e))
  <1>. DEFINE info == InfoFromStr(t)
              call == CHOOSE f : Calls(f, n, idx, info, h)
              result == CHOOSE f : Results(f, call, h, e, h)
  <1>1. EditAlong(n, h, idx, info, e) = result[h]
    BY DEF EditAlong, Calls, Results
  <1>2. Calls(call, n, idx, info, h)
    BY CallsExist
  <1>. HIDE DEF call
  <1>3. Results(result, call, h, e, h)
    BY ResultsExist
  <1>. HIDE DEF result
  <1>4. call[0] = EditCall(n, idx, info) /\ result[0] = EditLeaf(call[h], e)
    BY <1>2, <1>3 DEF Calls, Results
  <1>5. ASSUME NEW k \in Nat, k < h
        PROVE  /\ result[k + 1] = AfterCall(call[h - (k + 1)], result[k])
               /\ call[h - k] = CallBelow(call[h - (k + 1)])
    <2>1. /\ k + 1 \in 0..h /\ k + 1 # 0 /\ (k + 1) - 1 = k
          /\ h - k \in 0..h /\ h - k # 0 /\ (h - k) - 1 = h - (k + 1)
      BY <1>5
    <2>2. result[k + 1] = AfterCall(call[h - (k + 1)], result[(k + 1) - 1])
      BY <1>3, <2>1 DEF Results
    <2>3. call[h - k] = CallBelow(call[(h - k) - 1])
      BY <1>2, <2>1 DEF Calls
    <2>. QED  BY <2>1, <2>2, <2>3
  <1>. DEFINE Done(k) == \A x : IsCall(call[h - k], x, k, e) =>
                           EditDone(Level[k], x, call[h - k].idx, e, result[k])
              T == {k \in Nat : k <= h => Done(k)}
  <1>6. 0 \in T
    <2>1. h - 0 = h
      OBVIOUS
    <2>2. Done(0)
      BY <1>4, <2>1, EditLeafDone
    <2>. QED  BY <2>2
  <1>7. ASSUME NEW k \in Nat, k \in T PROVE k + 1 \in T
    <2>. SUFFICES ASSUME k + 1 <= h PROVE Done(k + 1)
      OBVIOUS
    <2>1. k < h /\ k <= h
      OBVIOUS
    <2>. DEFINE above == call[h - (k + 1)]
                r == result[k]
    <2>2. result[k + 1] = AfterCall(above, r) /\ call[h - k] = CallBelow(above)
      BY <1>5, <2>1
    <2>3. \A x : IsCall(CallBelow(above), x, k, e) =>
                   EditDone(Level[k], x, CallBelow(above).idx, e, r)
      BY <1>7, <2>1, <2>2
    <2>. HIDE DEF above, r
    <2>4. ASSUME NEW x, IsCall(above, x, k + 1, e)
          PROVE  EditDone(Level[k + 1], x, above.idx, e, AfterCall(above, r))
      BY <2>3, <2>4, EditNodeDone
    <2>. QED  BY <2>2, <2>4 DEF above
  <1>8. Nat \subseteq T
    <2>. HIDE DEF T
    <2>. QED  BY <1>6, <1>7, SetInduction
  <1>9. Done(h)
    BY <1>8
  <1>10. h - h = 0 /\ call[0].node = n /\ call[0].info = info /\ call[0].idx = idx
    BY <1>4 DEF EditCall
  <1>11. IsCall(call[h - h], t, h, e)
    BY <1>10 DEF IsCall
  <1>. QED  BY <1>1, <1>9, <1>10, <1>11

-----------------------------------------------------------------------------
(* What the two edits of an insertion make of a rope's root *)

LEMMA PairConcat ==
  ASSUME NEW S, NEW x \in S, NEW y \in S
  PROVE  <<x>> \o <<y>> = <<x, y>>
  <1>. DEFINE a == <<x>>
              b == <<y>>
              c == <<x, y>>
  <1>1. /\ a \in Seq(S) /\ b \in Seq(S) /\ c \in Seq(S)
        /\ Len(a) = 1 /\ Len(b) = 1 /\ Len(c) = 2
        /\ a[1] = x /\ b[1] = y /\ c[1] = x /\ c[2] = y
    OBVIOUS
  <1>. HIDE DEF a, b, c
  <1>2. /\ a \o b \in Seq(S) /\ Len(a \o b) = Len(a) + Len(b)
        /\ \A i \in 1..(Len(a) + Len(b)) :
             (a \o b)[i] = IF i <= Len(a) THEN a[i] ELSE b[i - Len(a)]
    BY <1>1, ConcatProperties
  <1>3. Len(a \o b) = 2 /\ (a \o b)[1] = x /\ (a \o b)[2] = y
    BY <1>1, <1>2
  <1>4. \A i \in 1..Len(c) : (a \o b)[i] = c[i]
    <2>1. \A i \in 1..2 : i = 1 \/ i = 2
      OBVIOUS
    <2>. QED  BY <1>1, <1>3, <2>1
  <1>5. a \o b = c
    BY <1>1, <1>2, <1>3, <1>4, SeqEqual
  <1>. QED  BY <1>5 DEF a, b, c

\* The root after an edit is a sound tree, one level higher when it was split.
LEMMA RerootedRight ==
  ASSUME NEW h \in Nat, NEW r, NEW w, Put(Level[h], r, w)
  PROVE  /\ <<Rerooted(r), w>> \in Level[IF r.residual = <<>> THEN h ELSE h + 1]
         /\ r.info = NodeInfo(r.node)
  <1>. DEFINE X == Level[h]
              N == Nodes(X)
              K == Kids(X)
              s == r.residual
  <1>1. IsPairs(X) /\ Sound(X) /\ Level[h + 1] = Above(X)
    BY LevelSound, LevelStep
  <1>2. /\ s \in Seq(K) /\ Edited(r) \in K /\ Len(s) <= 1
        /\ Row(X, <<Edited(r)>> \o s, w)
    BY DEF Put, EditResults
  <1>. HIDE DEF X
  <1>3. Edited(r).node = r.node /\ Edited(r).info = r.info
    BY DEF Edited
  <1>4. r.info = NodeInfo(r.node)
    BY <1>1, <1>2, <1>3, KidsParts
  <1>. HIDE DEF K
  <1>5. <<Edited(r)>> \in Seq(K) /\ Len(<<Edited(r)>>) = 1
    BY <1>2
  <1>6. CASE s = <<>>
    <2>1. <<Edited(r)>> \o s = <<Edited(r)>>
      BY <1>5, <1>6, ConcatEmptySeq
    <2>2. <<r.node, w>> \in X
      BY <1>2, <1>3, <2>1, RowOneParts
    <2>3. Rerooted(r) = r.node
      BY <1>6 DEF Rerooted
    <2>. QED  BY <1>4, <1>6, <2>2, <2>3 DEF X
  <1>7. CASE s # <<>>
    <2>. DEFINE m == s[1]
                p == <<Edited(r), m>>
    <2>1. Len(s) = 1 /\ s = <<m>> /\ m \in K
      <3>1. Len(s) \in Nat /\ Len(s) # 0
        BY <1>2, <1>7, EmptySeq, LenProperties
      <3>2. Len(s) = 1
        BY <1>2, <3>1
      <3>3. m \in K
        <4>1. 1 \in 1..Len(s)
          BY <3>2
        <4>. QED  BY <1>2, <4>1, ElementOfSeq
      <3>. HIDE DEF s
      <3>4. \A i \in 1..Len(s) : s[i] = <<s[1]>>[i]
        BY <3>2
      <3>5. <<s[1]>> \in Seq(K) /\ Len(<<s[1]>>) = 1
        BY <3>3
      <3>6. s = <<s[1]>>
        BY <1>2, <3>2, <3>4, <3>5, SeqEqual
      <3>. QED  BY <3>2, <3>3, <3>6
    <2>2. <<Edited(r)>> \o s = p
      <3>. HIDE DEF s, m
      <3>1. s = <<m>>
        BY <2>1
      <3>2. <<Edited(r)>> \o <<m>> = <<Edited(r), m>>
        BY <1>2, <2>1, PairConcat
      <3>. QED  BY <3>1, <3>2
    <2>3. Row(X, p, w)
      BY <1>2, <2>2
    <2>4. Len(p) \in 1..MAX_CHILDREN
      <3>1. Len(p) = 2
        OBVIOUS
      <3>. QED  BY <3>1, ChildBounds
    <2>5. <<Internal(p), w>> \in Above(X)
      <3>. HIDE DEF p
      <3>. QED  BY <2>3, <2>4, AboveMember
    <2>6. Rerooted(r) = Internal(p)
      BY <1>7 DEF Rerooted, Edited
    <2>. QED  BY <1>1, <1>4, <1>7, <2>5, <2>6
  <1>. QED  BY <1>6, <1>7

\* The text x of a part, edited at its char k, is all of the text edited at char idx.
LEMMA EditedIsInserted ==
  ASSUME NEW t, NEW idx, NEW e, NEW seam \in BOOLEAN, NEW w, NEW a, NEW x, NEW b, NEW k,
         EditedAt(t, idx, e, seam, w, a, x, b, k),
         NEW text, NEW atStart, IsTextEdit(e, text, atStart)
  PROVE  /\ w = InsertStr(t, CharToByteIdx(t, idx), IF seam THEN Tail(text) ELSE text)
         /\ seam => ~ atStart /\ text[1] = LF
  <1>. DEFINE s == IF seam THEN Tail(text) ELSE text
              j == CharToByteIdx(t, idx)
              i == CharToByteIdx(x, k)
  <1>1. /\ IsText(a) /\ IsText(b) /\ IsText(x) /\ t = a \o (x \o b)
        /\ w = a \o (Effect(x, k, e, seam) \o b)
        /\ k \in 0..InfoFromStr(x).chars /\ idx = InfoFromStr(a).chars + k
        /\ seam => k = 0 /\ e.kind = "text" /\ ~ e.atStart /\ e.text[1] = LF
    BY LeafMember DEF EditedAt, IsText
  <1>2. /\ e.kind = "text" /\ e.text = text /\ e.atStart = atStart
        /\ text \in Text /\ Utf8(text) /\ Len(text) # 0
    BY DEF IsTextEdit, TextEdit, IsText
  <1>3. seam => ~ atStart /\ text[1] = LF
    BY <1>1, <1>2
  <1>4. s \in Text
    BY <1>2, <1>3, WithoutLf
  <1>5. Effect(x, k, e, seam) = InsertStr(x, i, s)
    BY <1>2 DEF Effect
  <1>6. IsCharInMiddle(t, idx, a, x, b, k)
    BY <1>1 DEF IsCharInMiddle
  <1>7. IsInMiddle(t, j, a, x, b, i)
    BY <1>6, CharInPart
  <1>. HIDE DEF s, j, i
  <1>8. InsertStr(t, j, s) = a \o (InsertStr(x, i, s) \o b)
    BY <1>4, <1>7, InsertInPart
  <1>9. w = InsertStr(t, j, s)
    BY <1>1, <1>5, <1>8
  <1>. QED  BY <1>3, <1>9 DEF s, j

\* insert_internal's first edit, on every sound tree of any height: the root is a sound
\* tree, of the text with the inserted one at the char given, but for an LF at its
\* start that is left for the chunk before.
THEOREM InsertAlongRight ==
  ASSUME NEW h \in Nat, NEW n, NEW t, <<n, t>> \in Level[h],
         NEW idx \in 0..InfoFromStr(t).chars,
         NEW text, NEW atStart, NEW e, IsTextEdit(e, text, atStart), atStart => idx = 0,
         NEW r, r = EditAlong(n, h, idx, NodeInfo(n), e)
  PROVE  /\ <<Rerooted(r), InsertStr(t, CharToByteIdx(t, idx),
                                     IF r.seam THEN Tail(text) ELSE text)>>
              \in Level[IF r.residual = <<>> THEN h ELSE h + 1]
         /\ r.seam => ~ atStart /\ text[1] = LF
  <1>. DEFINE y == EditAlong(n, h, idx, InfoFromStr(t), e)
  <1>1. IsEdit(e) /\ (AtStart(e) => idx = 0)
    BY DEF IsEdit, IsTextEdit, AtStart, TextEdit
  <1>2. r = y
    <2>1. NodeInfo(n) = InfoFromStr(t)
      BY LevelSound DEF Sound
    <2>. QED  BY <2>1
  <1>3. EditDone(Level[h], t, idx, e, y)
    BY <1>1, EditAlongRight
  <1>. HIDE DEF y
  <1>4. PICK w : EditedTo(t, idx, e, r.seam, w) /\ Put(Level[h], r, w)
    BY <1>2, <1>3 DEF EditDone
  <1>. DEFINE seam == r.seam
  <1>5. PICK a, x, b, k : EditedAt(t, idx, e, seam, w, a, x, b, k)
    BY <1>4 DEF EditedTo
  <1>6. seam \in BOOLEAN
    BY <1>4 DEF Put, EditResults
  <1>. HIDE DEF seam
  <1>7. /\ w = InsertStr(t, CharToByteIdx(t, idx), IF seam THEN Tail(text) ELSE text)
        /\ seam => ~ atStart /\ text[1] = LF
    BY <1>5, <1>6, EditedIsInserted
  <1>8. <<Rerooted(r), w>> \in Level[IF r.residual = <<>> THEN h ELSE h + 1]
    BY <1>4, RerootedRight
  <1>. QED  BY <1>7, <1>8 DEF seam

\* The second edit: the LF goes in at the end of the leaf that has the char given.
THEOREM PushLfAlongRight ==
  ASSUME NEW h \in Nat, NEW n, NEW t, <<n, t>> \in Level[h],
         NEW idx \in 0..InfoFromStr(t).chars, NEW left, NEW e, IsLfEdit(e, left),
         NEW r, r = EditAlong(n, h, idx, NodeInfo(n), e)
  PROVE  \E a, x, b, k :
           /\ t = a \o (x \o b) /\ <<Leaf(x), x>> \in LeafLevel
           /\ idx = InfoFromStr(a).chars + k /\ k \in 0..InfoFromStr(x).chars
           /\ Len(b) = 0 \/ k < InfoFromStr(x).chars
           /\ <<Rerooted(r), a \o (Append(x, LF) \o b)>>
                \in Level[IF r.residual = <<>> THEN h ELSE h + 1]
  <1>. DEFINE y == EditAlong(n, h, idx, InfoFromStr(t), e)
  <1>1. IsEdit(e) /\ ~ AtStart(e) /\ e.kind # "text"
    BY DEF IsEdit, IsLfEdit, AtStart, LfEdit
  <1>2. r = y
    <2>1. NodeInfo(n) = InfoFromStr(t)
      BY LevelSound DEF Sound
    <2>. QED  BY <2>1
  <1>3. EditDone(Level[h], t, idx, e, y)
    BY <1>1, EditAlongRight
  <1>. HIDE DEF y
  <1>4. PICK w : EditedTo(t, idx, e, r.seam, w) /\ Put(Level[h], r, w)
    BY <1>2, <1>3 DEF EditDone
  <1>5. PICK a, x, b, k : EditedAt(t, idx, e, r.seam, w, a, x, b, k)
    BY <1>4 DEF EditedTo
  <1>6. /\ t = a \o (x \o b) /\ <<Leaf(x), x>> \in LeafLevel
        /\ idx = InfoFromStr(a).chars + k /\ k \in 0..InfoFromStr(x).chars
        /\ Len(b) = 0 \/ k < InfoFromStr(x).chars
        /\ w = a \o (Append(x, LF) \o b)
    BY <1>1, <1>5 DEF EditedAt, Effect
  <1>7. <<Rerooted(r), w>> \in Level[IF r.residual = <<>> THEN h ELSE h + 1]
    BY <1>4, RerootedRight
  <1>. QED  BY <1>6, <1>7

-----------------------------------------------------------------------------
(* Grafting a tree onto the edge of another *)

\* The result r of append_at_depth: one tree of X, or two, with the text w between them.
GrownRight(X, r, w) ==
  \/ r.residual = <<>> /\ <<r.node, w>> \in X
  \/ \E m, u, v : /\ r.residual = <<m>> /\ <<r.node, u>> \in X /\ <<m, v>> \in X
                  /\ w = u \o v /\ Meets(u, v)

\* Of prepend_at_depth: the second tree is the one before.
GrownLeft(X, r, w) ==
  \/ r.residual = <<>> /\ <<r.node, w>> \in X
  \/ \E m, u, v : /\ r.residual = <<m>> /\ <<r.node, v>> \in X /\ <<m, u>> \in X
                  /\ w = u \o v /\ Meets(u, v)

LEMMA FittingGrown ==
  ASSUME NEW X, NEW d, NEW w, Row(X, d, w), Len(d) \in 1..MAX_CHILDREN
  PROVE  GrownRight(Above(X), Fitting(d), w) /\ GrownLeft(Above(X), Fitting(d), w)
  BY AboveMember DEF GrownRight, GrownLeft, Fitting

LEMMA HalvesGrown ==
  ASSUME NEW X, NEW d, NEW w, Row(X, d, w), NEW h, Halves(h, d, Kids(X))
  PROVE  GrownRight(Above(X), KeepLeft(h), w) /\ GrownLeft(Above(X), KeepRight(h), w)
  <1>. DEFINE h1 == h[1]
              h2 == h[2]
              l  == Internal(h1)
              m  == Internal(h2)
  <1>1. /\ h1 \in Seq(Kids(X)) /\ h2 \in Seq(Kids(X)) /\ h1 \o h2 = d
        /\ Len(h1) \in 1..MAX_CHILDREN /\ Len(h2) \in 1..MAX_CHILDREN
    <2>1. Len(h1) \in MIN_CHILDREN..MAX_CHILDREN /\ Len(h2) \in MIN_CHILDREN..MAX_CHILDREN
      BY DEF Halves
    <2>2. MAX_CHILDREN \in Nat /\ MIN_CHILDREN \in Nat /\ MIN_CHILDREN >= 1
      BY ChildBounds
    <2>3. Len(h1) \in 1..MAX_CHILDREN /\ Len(h2) \in 1..MAX_CHILDREN
      BY <2>1, <2>2
    <2>. QED  BY <2>3 DEF Halves
  <1>2. KeepLeft(h) = [node |-> l, residual |-> <<m>>]
        /\ KeepRight(h) = [node |-> m, residual |-> <<l>>]
    BY DEF KeepLeft, KeepRight
  <1>. HIDE DEF h1, h2
  <1>3. PICK u, v : InRows(X, h1, h2, w, u, v)
    BY <1>1, RowParts
  <1>4. w = u \o v /\ Row(X, h1, u) /\ Row(X, h2, v) /\ Meets(u, v)
    BY <1>3 DEF InRows
  <1>5. <<l, u>> \in Above(X) /\ <<m, v>> \in Above(X)
    BY <1>1, <1>4, AboveMember
  <1>. DEFINE y == KeepLeft(h)
              z == KeepRight(h)
  <1>6. y.node = l /\ y.residual = <<m>> /\ z.node = m /\ z.residual = <<l>>
    BY <1>2
  <1>. HIDE DEF l, m, y, z
  <1>7. GrownRight(Above(X), y, w)
    BY <1>4, <1>5, <1>6 DEF GrownRight
  <1>8. GrownLeft(Above(X), z, w)
    BY <1>4, <1>5, <1>6 DEF GrownLeft
  <1>. QED  BY <1>7, <1>8 DEF y, z

\* Two rows put together, in one node or in two.
LEMMA TwoRowsGrown ==
  ASSUME NEW X, NEW c, NEW t, Row(X, c, t), Len(c) \in 1..MAX_CHILDREN,
         NEW d, NEW u, Row(X, d, u), Len(d) \in 1..MAX_CHILDREN, Meets(t, u)
  PROVE  /\ Len(c) + Len(d) <= MAX_CHILDREN =>
              /\ GrownRight(Above(X), Fitting(c \o d), t \o u)
              /\ GrownLeft(Above(X), Fitting(c \o d), t \o u)
         /\ Len(c) + Len(d) > MAX_CHILDREN =>
              /\ GrownRight(Above(X), KeepLeft(DistributeWith(c, d)), t \o u)
              /\ GrownLeft(Above(X), KeepRight(DistributeWith(c, d)), t \o u)
  <1>. DEFINE K == Kids(X)
              e == c \o d
              w == t \o u
              h == DistributeWith(c, d)
  <1>1. c \in Seq(K) /\ d \in Seq(K) /\ MAX_CHILDREN \in Nat
    BY ChildBounds DEF Row
  <1>2. Row(X, e, w)
    BY RowBoth
  <1>3. Len(e) = Len(c) + Len(d)
    BY <1>1, ConcatProperties
  <1>4. Len(c) \in Nat /\ Len(d) \in Nat /\ Len(c) >= 1 /\ Len(c) <= MAX_CHILDREN
        /\ Len(d) <= MAX_CHILDREN
    BY <1>1
  <1>5. Len(c) + Len(d) > MAX_CHILDREN => Halves(h, e, K)
    BY <1>1, <1>4, DistributeRight
  <1>6. Len(c) + Len(d) <= MAX_CHILDREN => Len(e) \in 1..MAX_CHILDREN
    BY <1>1, <1>3, <1>4
  <1>. HIDE DEF e, h, w
  <1>7. Len(c) + Len(d) <= MAX_CHILDREN =>
          GrownRight(Above(X), Fitting(e), w) /\ GrownLeft(Above(X), Fitting(e), w)
    BY <1>2, <1>6, FittingGrown
  <1>8. Len(c) + Len(d) > MAX_CHILDREN =>
          GrownRight(Above(X), KeepLeft(h), w) /\ GrownLeft(Above(X), KeepRight(h), w)
    BY <1>2, <1>5, HalvesGrown
  <1>. QED  BY <1>7, <1>8 DEF e, h, w

\* At the target depth.
LEMMA SiblingsGrown ==
  ASSUME NEW m \in Nat, NEW n, NEW t, <<n, t>> \in Level[m],
         NEW o, NEW u, <<o, u>> \in Level[m]
  PROVE  /\ Meets(t, u) => GrownRight(Level[m], AppendSibling(n, o), t \o u)
         /\ Meets(u, t) => GrownLeft(Level[m], PrependSibling(n, o), u \o t)
  <1>1. CASE m = 0
    <2>1. <<n, t>> \in LeafLevel /\ <<o, u>> \in LeafLevel
      BY <1>1, LevelStep
    <2>2. n.leaf = TRUE /\ o.leaf = TRUE
      <3>1. n = Leaf(t) /\ o = Leaf(u)
        BY <2>1, LeafMember
      <3>. QED  BY <3>1 DEF Leaf
    <2>3. AppendSibling(n, o) = [node |-> n, residual |-> <<o>>]
          /\ PrependSibling(n, o) = [node |-> n, residual |-> <<o>>]
      BY <2>2 DEF AppendSibling, PrependSibling
    <2>. DEFINE r == [node |-> n, residual |-> <<o>>]
    <2>4. r.node = n /\ r.residual = <<o>>
      OBVIOUS
    <2>. HIDE DEF r
    <2>5. Meets(t, u) => GrownRight(Level[m], r, t \o u)
      BY <2>4 DEF GrownRight
    <2>6. Meets(u, t) => GrownLeft(Level[m], r, u \o t)
      BY <2>4 DEF GrownLeft
    <2>. QED  BY <2>3, <2>5, <2>6 DEF r
  <1>2. CASE m # 0
    <2>. DEFINE k == m - 1
                X == Level[k]
                c == n.children
                d == o.children
    <2>1. k \in Nat /\ Level[m] = Above(X)
      <3>1. k \in Nat /\ k + 1 = m
        BY <1>2
      <3>2. Level[k + 1] = Above(Level[k])
        BY <3>1, LevelStep
      <3>. QED  BY <3>1, <3>2
    <2>. HIDE DEF X
    <2>2. /\ n.leaf = FALSE /\ Row(X, c, t) /\ Len(c) \in 1..MAX_CHILDREN
          /\ o.leaf = FALSE /\ Row(X, d, u) /\ Len(d) \in 1..MAX_CHILDREN
      BY <2>1, AboveParts
    <2>3. /\ Len(c) + Len(d) <= MAX_CHILDREN \/ Len(c) + Len(d) > MAX_CHILDREN
          /\ Len(d) + Len(c) = Len(c) + Len(d)
          /\ ~ (Len(c) + Len(d) <= MAX_CHILDREN /\ Len(c) + Len(d) > MAX_CHILDREN)
      <3>1. Len(c) \in Nat /\ Len(d) \in Nat /\ MAX_CHILDREN \in Nat
        BY <2>2, ChildBounds
      <3>. HIDE DEF c, d
      <3>. QED  BY <3>1
    <2>4. CASE Len(c) + Len(d) <= MAX_CHILDREN
      <3>1. ~ (Len(c) + Len(d) > MAX_CHILDREN) /\ Len(d) + Len(c) <= MAX_CHILDREN
        BY <2>3, <2>4
      <3>2. AppendSibling(n, o) = Fitting(c \o d) /\ PrependSibling(n, o) = Fitting(d \o c)
        BY <2>2, <2>4, <3>1 DEF AppendSibling, PrependSibling, HasRoomFor
      <3>. HIDE DEF c, d
      <3>3. Meets(t, u) => GrownRight(Above(X), Fitting(c \o d), t \o u)
        BY <2>2, <2>4, TwoRowsGrown
      <3>4. Meets(u, t) => GrownLeft(Above(X), Fitting(d \o c), u \o t)
        BY <2>2, <3>1, TwoRowsGrown
      <3>. QED  BY <2>1, <3>2, <3>3, <3>4
    <2>5. CASE Len(c) + Len(d) > MAX_CHILDREN
      <3>1. ~ (Len(c) + Len(d) <= MAX_CHILDREN) /\ Len(d) + Len(c) > MAX_CHILDREN
        BY <2>3, <2>5
      <3>2. /\ AppendSibling(n, o) = KeepLeft(DistributeWith(c, d))
            /\ PrependSibling(n, o) = KeepRight(DistributeWith(d, c))
        BY <2>2, <2>5, <3>1 DEF AppendSibling, PrependSibling, HasRoomFor
      <3>. HIDE DEF c, d
      <3>3. Meets(t, u) => GrownRight(Above(X), KeepLeft(DistributeWith(c, d)), t \o u)
        BY <2>2, <2>5, TwoRowsGrown
      <3>4. Meets(u, t) => GrownLeft(Above(X), KeepRight(DistributeWith(d, c)), u \o t)
        BY <2>2, <3>1, TwoRowsGrown
      <3>. QED  BY <2>1, <3>2, <3>3, <3>4
    <2>. QED  BY <2>3, <2>4, <2>5
  <1>. QED  BY <1>1, <1>2

\* The child at either end of a row.
LEMMA EndChildren ==
  ASSUME NEW K, NEW c \in Seq(K), Len(c) # 0
  PROVE  /\ Len(c) \in 1..Len(c) /\ 1 \in 1..Len(c)
         /\ Last(c) = c[Len(c)] /\ Head(c) = c[1]
         /\ After(c, Len(c)) = <<>> /\ Before(c, 1) = <<>>
  <1>1. Len(c) \in Nat
    BY LenProperties
  <1>2. Len(c) \in 1..Len(c) /\ 1 \in 1..Len(c)
    BY <1>1
  <1>3. Last(c) = c[Len(c)] /\ Head(c) = c[1]
    BY DEF Last
  <1>4. SubSeq(c, Len(c) + 1, Len(c)) = <<>>
    BY <1>1, CutChildren, EmptySeq
  <1>5. SubSeq(c, 1, 1 - 1) = <<>>
    <2>1. 0 \in 0..Len(c) /\ 1 - 1 = 0
      BY <1>1
    <2>. DEFINE z == 0
    <2>2. z \in 0..Len(c)
      BY <2>1
    <2>. HIDE DEF z
    <2>3. SubSeq(c, 1, z) \in Seq(K) /\ Len(SubSeq(c, 1, z)) = z
      BY <2>2, CutChildren
    <2>4. SubSeq(c, 1, z) = <<>>
      BY <2>3, EmptySeq DEF z
    <2>. QED  BY <2>1, <2>4 DEF z
  <1>. QED  BY <1>2, <1>3, <1>4, <1>5 DEF After, Before

\* Above the target depth, on the right.
LEMMA WithLastGrown ==
  ASSUME NEW X, IsPairs(X), Sound(X), NEW c, NEW t, Row(X, c, t), Len(c) \in 1..MAX_CHILDREN,
         NEW a, NEW x, NEW b, AtChild(X, c, Len(c), t, a, x, b),
         NEW u \in Text, NEW r, GrownRight(X, r, x \o u)
  PROVE  GrownRight(Above(X), WithLast(c, r), t \o u)
  <1>. DEFINE K == Kids(X)
              i == Len(c)
              y == x \o u
              k == Child(r.node)
              d == [c EXCEPT ![i] = k]
  <1>1. c \in Seq(K) /\ Len(c) # 0 /\ MAX_CHILDREN \in Nat /\ Len(c) \in Nat
    BY ChildBounds DEF Row
  <1>2. i \in 1..Len(c) /\ After(c, i) = <<>>
    BY <1>1, EndChildren
  <1>3. /\ Row(X, Before(c, i), a) /\ Row(X, After(c, i), b) /\ <<c[i].node, x>> \in X
        /\ t = a \o (x \o b) /\ Meets(a, x)
    BY DEF AtChild
  <1>4. /\ b = <<>> /\ a \in Text /\ x \in Text /\ Len(x) # 0 /\ b \in Text
    BY <1>2, <1>3, RowOfNone DEF Row, IsText, Sound
  <1>5. y \in Text /\ Len(y) # 0
    <2>1. y \in Text /\ Len(y) = Len(x) + Len(u) /\ Len(x) \in Nat /\ Len(u) \in Nat
      BY <1>4, ConcatFacts, TextFacts
    <2>. QED  BY <1>4, <2>1
  <1>6. Meets(a, y)
    BY <1>3, <1>4, MeetsConcat
  <1>7. t \o u = a \o y
    <2>1. x \o b = x
      BY <1>4, ConcatEmptySeq DEF Text
    <2>2. t = a \o x
      BY <1>3, <2>1
    <2>3. (a \o x) \o u = a \o (x \o u)
      BY SMTT(60), <1>4, TextAssoc
    <2>. QED  BY <2>2, <2>3
  <1>. HIDE DEF i
  <1>8. ASSUME k \in K
        PROVE  d \in Seq(K) /\ Len(d) = Len(c) /\ d = Before(c, i) \o (<<k>> \o After(c, i))
    <2>. HIDE DEF k, K
    <2>1. IsReplaced(d, c, i, k, K)
      BY <1>1, <1>2, <1>8, ReplaceChild
    <2>. QED  BY <2>1 DEF IsReplaced
  <1>9. WithLast(c, r) = AppendResidual(d, r.residual)
    BY DEF WithLast, i
  <1>10. ASSUME NEW p, <<r.node, p>> \in X, Meets(a, p)
         PROVE  Row(X, d, a \o p) /\ k \in K /\ p \in Text /\ Len(p) # 0
    <2>1. p \in Text /\ Len(p) # 0 /\ k \in K /\ Row(X, <<k>>, p)
      BY <1>10, RowOne, KidsMember DEF Sound, IsText
    <2>. HIDE DEF k, K
    <2>2. Meets(p, b)
      BY <1>4, EmptyText DEF Meets
    <2>. DEFINE e == <<k>>
    <2>3. Row(X, e, p) /\ AtChild(X, c, i, t, a, x, b)
      BY <2>1 DEF i
    <2>. HIDE DEF e
    <2>4. Row(X, Before(c, i) \o (e \o After(c, i)), a \o (p \o b))
      BY <1>10, <2>1, <2>2, <2>3, RowReplace
    <2>5. p \o b = p
      BY <1>4, <2>1, ConcatEmptySeq DEF Text
    <2>. QED  BY <1>8, <2>1, <2>4, <2>5 DEF e
  <1>11. CASE r.residual = <<>> /\ <<r.node, y>> \in X
    <2>1. Row(X, d, a \o y) /\ k \in K
      BY <1>6, <1>10, <1>11
    <2>2. Len(d) \in 1..MAX_CHILDREN
      BY <1>8, <2>1
    <2>3. AppendResidual(d, r.residual) = Fitting(d)
      BY <1>11 DEF AppendResidual
    <2>. HIDE DEF d, y
    <2>. QED  BY <1>7, <1>9, <2>1, <2>2, <2>3, FittingGrown
  <1>12. CASE \E m, p, q : /\ r.residual = <<m>> /\ <<r.node, p>> \in X /\ <<m, q>> \in X
                           /\ y = p \o q /\ Meets(p, q)
    <2>1. PICK m, p, q : /\ r.residual = <<m>> /\ <<r.node, p>> \in X /\ <<m, q>> \in X
                         /\ y = p \o q /\ Meets(p, q)
      BY <1>12
    <2>2. /\ p \in Text /\ Len(p) # 0 /\ q \in Text /\ Len(q) # 0
          /\ Row(X, <<Child(m)>>, q) /\ Child(m) \in K
      BY <2>1, RowOne, KidsMember DEF Sound, IsText
    <2>3. Meets(a, p)
      <3>. HIDE DEF y
      <3>1. Meets(a, p \o q)
        BY <1>6, <2>1
      <3>. QED  BY <1>4, <2>2, <3>1, MeetsConcat
    <2>4. Row(X, d, a \o p) /\ d \in Seq(K) /\ Len(d) = Len(c)
      BY <1>8, <1>10, <2>1, <2>3
    <2>5. Meets(a \o p, q)
      BY <1>4, <2>1, <2>2, MeetsConcat
    <2>. DEFINE g == Child(m)
                ap == a \o p
                s == Append(d, g)
    <2>6. r.residual[1] = m /\ r.residual # <<>>
      BY <2>1
    <2>. HIDE DEF d, y, K, g, ap
    <2>7. g \in K /\ Row(X, <<g>>, q) /\ Row(X, d, ap) /\ Meets(ap, q)
      BY <2>2, <2>4, <2>5 DEF g, ap
    <2>8. s = d \o <<g>> /\ Len(s) = Len(d) + 1
      BY <2>4, <2>7, AppendIsConcat, AppendProperties
    <2>9. Row(X, d \o <<g>>, ap \o q)
      BY <2>7, RowBoth
    <2>10. ap \o q = t \o u
      <3>1. (a \o p) \o q = a \o (p \o q)
        BY SMTT(60), <1>4, <2>2, TextAssoc
      <3>2. a \o (p \o q) = t \o u
        BY <1>7, <2>1 DEF y
      <3>. QED  BY <3>1, <3>2 DEF ap
    <2>. HIDE DEF s
    <2>11. Row(X, s, t \o u)
      BY <2>8, <2>9, <2>10
    <2>12. CASE Len(d) < MAX_CHILDREN
      <3>1. AppendResidual(d, r.residual) = Fitting(s)
        <4>1. ~ (Len(d) >= MAX_CHILDREN)
          BY <1>1, <2>4, <2>12
        <4>. QED  BY <2>6, <2>12, <4>1 DEF AppendResidual, s, g
      <3>2. Len(s) \in 1..MAX_CHILDREN
        BY <1>1, <2>4, <2>8, <2>12
      <3>. QED  BY <1>9, <2>11, <3>1, <3>2, FittingGrown
    <2>13. CASE ~ (Len(d) < MAX_CHILDREN)
      <3>1. Len(d) >= MAX_CHILDREN /\ Len(d) = MAX_CHILDREN
        BY <1>1, <2>4, <2>13
      <3>. DEFINE h == PushSplit(d, g)
      <3>2. AppendResidual(d, r.residual) = KeepLeft(h)
        BY <2>6, <2>13, <3>1 DEF AppendResidual, g
      <3>3. Halves(h, s, K)
        BY <2>4, <2>7, <3>1, PushSplitRight DEF s
      <3>. HIDE DEF h
      <3>. QED  BY <1>9, <2>11, <3>2, <3>3, HalvesGrown DEF K
    <2>. QED  BY <2>12, <2>13
  <1>. QED  BY <1>11, <1>12 DEF GrownRight

LEMMA InsertFirst ==
  ASSUME NEW K, NEW d \in Seq(K), NEW g \in K
  PROVE  InsertAt(d, 1, g) = <<g>> \o d
  <1>. DEFINE o == SubSeq(d, 1, 1 - 1)
              m == <<g>>
              s == SubSeq(d, 1, Len(d))
  <1>1. InsertAt(d, 1, g) = (o \o m) \o s
    BY DEF InsertAt
  <1>2. Len(d) \in Nat /\ Len(d) \in 0..Len(d)
    BY LenProperties
  <1>3. s = d
    <2>1. s \in Seq(K) /\ Len(s) = Len(d)
      BY <1>2, CutChildren
    <2>2. \A i \in 1..Len(d) : s[i] = d[i]
      <3>1. \A i \in 1..(Len(d) - 1 + 1) : s[i] = d[1 + i - 1]
        BY <1>2, SubSeqProperties
      <3>2. Len(d) - 1 + 1 = Len(d) /\ \A i \in 1..Len(d) : 1 + i - 1 = i
        BY <1>2
      <3>. QED  BY <3>1, <3>2
    <2>. HIDE DEF s
    <2>. QED  BY <2>1, <2>2, SeqEqual
  <1>4. o = <<>>
    <2>. DEFINE z == 0
    <2>1. z \in 0..Len(d) /\ 1 - 1 = z
      BY <1>2
    <2>. HIDE DEF z
    <2>2. SubSeq(d, 1, z) \in Seq(K) /\ Len(SubSeq(d, 1, z)) = z
      BY <2>1, CutChildren
    <2>3. SubSeq(d, 1, z) = <<>>
      BY <2>2, EmptySeq DEF z
    <2>. QED  BY <2>1, <2>3
  <1>5. m \in Seq(K)
    OBVIOUS
  <1>. HIDE DEF o, m, s
  <1>6. <<>> \o m = m
    BY <1>5, ConcatEmptySeq
  <1>. QED  BY <1>1, <1>3, <1>4, <1>6 DEF m

\* And on the left.
LEMMA WithFirstGrown ==
  ASSUME NEW X, IsPairs(X), Sound(X), NEW c, NEW t, Row(X, c, t), Len(c) \in 1..MAX_CHILDREN,
         NEW a, NEW x, NEW b, AtChild(X, c, 1, t, a, x, b),
         NEW u \in Text, NEW r, GrownLeft(X, r, u \o x)
  PROVE  GrownLeft(Above(X), WithFirst(c, r), u \o t)
  <1>. DEFINE K == Kids(X)
              i == 1
              y == u \o x
              k == Child(r.node)
              d == [c EXCEPT ![i] = k]
  <1>1. c \in Seq(K) /\ Len(c) # 0 /\ MAX_CHILDREN \in Nat /\ Len(c) \in Nat
    BY ChildBounds DEF Row
  <1>2. i \in 1..Len(c) /\ Before(c, i) = <<>>
    BY <1>1, EndChildren
  <1>3. /\ Row(X, Before(c, i), a) /\ Row(X, After(c, i), b) /\ <<c[i].node, x>> \in X
        /\ t = a \o (x \o b) /\ Meets(x, b)
    BY DEF AtChild
  <1>4. /\ a = <<>> /\ a \in Text /\ x \in Text /\ Len(x) # 0 /\ b \in Text
    BY <1>2, <1>3, RowOfNone DEF Row, IsText, Sound
  <1>5. y \in Text
    BY <1>4, ConcatFacts
  <1>6. Meets(y, b)
    BY <1>3, <1>4, MeetsConcat
  <1>7. u \o t = y \o b /\ \A v \in Text : a \o v = v
    <2>1. \A v \in Text : a \o v = v
      BY <1>4, ConcatEmptySeq DEF Text
    <2>2. x \o b \in Text
      BY <1>4, ConcatFacts
    <2>3. t = x \o b
      BY <1>3, <2>1, <2>2
    <2>. QED  BY <1>4, <2>1, <2>3, TextAssoc
  <1>. HIDE DEF i
  <1>8. ASSUME k \in K
        PROVE  d \in Seq(K) /\ Len(d) = Len(c) /\ d = Before(c, i) \o (<<k>> \o After(c, i))
    <2>. HIDE DEF k, K
    <2>1. IsReplaced(d, c, i, k, K)
      BY <1>1, <1>2, <1>8, ReplaceChild
    <2>. QED  BY <2>1 DEF IsReplaced
  <1>9. WithFirst(c, r) = PrependResidual(d, r.residual)
    BY DEF WithFirst, i
  <1>10. ASSUME NEW p, <<r.node, p>> \in X, Meets(p, b)
         PROVE  Row(X, d, p \o b) /\ k \in K /\ p \in Text /\ Len(p) # 0
    <2>1. p \in Text /\ Len(p) # 0 /\ k \in K /\ Row(X, <<k>>, p)
      BY <1>10, RowOne, KidsMember DEF Sound, IsText
    <2>. HIDE DEF k, K
    <2>2. Meets(a, p)
      BY <1>4, EmptyText DEF Meets
    <2>. DEFINE e == <<k>>
    <2>3. Row(X, e, p) /\ AtChild(X, c, i, t, a, x, b)
      BY <2>1 DEF i
    <2>. HIDE DEF e
    <2>4. Row(X, Before(c, i) \o (e \o After(c, i)), a \o (p \o b))
      BY <1>10, <2>1, <2>2, <2>3, RowReplace
    <2>5. p \o b \in Text
      BY <1>4, <2>1, ConcatFacts
    <2>. QED  BY <1>7, <1>8, <2>1, <2>4, <2>5 DEF e
  <1>11. CASE r.residual = <<>> /\ <<r.node, y>> \in X
    <2>1. Row(X, d, y \o b) /\ k \in K
      BY <1>6, <1>10, <1>11
    <2>2. Len(d) \in 1..MAX_CHILDREN
      BY <1>8, <2>1
    <2>3. PrependResidual(d, r.residual) = Fitting(d)
      BY <1>11 DEF PrependResidual
    <2>. HIDE DEF d, y
    <2>. QED  BY <1>7, <1>9, <2>1, <2>2, <2>3, FittingGrown
  <1>12. CASE \E m, p, q : /\ r.residual = <<m>> /\ <<r.node, q>> \in X /\ <<m, p>> \in X
                           /\ y = p \o q /\ Meets(p, q)
    <2>1. PICK m, p, q : /\ r.residual = <<m>> /\ <<r.node, q>> \in X /\ <<m, p>> \in X
                         /\ y = p \o q /\ Meets(p, q)
      BY <1>12
    <2>2. /\ q \in Text /\ Len(q) # 0 /\ p \in Text /\ Len(p) # 0
          /\ Row(X, <<Child(m)>>, p) /\ Child(m) \in K
      BY <2>1, RowOne, KidsMember DEF Sound, IsText
    <2>3. Meets(q, b)
      <3>. HIDE DEF y
      <3>1. Meets(p \o q, b)
        BY <1>6, <2>1
      <3>. QED  BY <1>4, <2>2, <3>1, MeetsConcat
    <2>4. Row(X, d, q \o b) /\ d \in Seq(K) /\ Len(d) = Len(c)
      BY <1>8, <1>10, <2>1, <2>3
    <2>5. Meets(p, q \o b)
      BY <1>4, <2>1, <2>2, MeetsConcat
    <2>. DEFINE g == Child(m)
                qb == q \o b
                s == <<g>> \o d
    <2>6. r.residual[1] = m /\ r.residual # <<>>
      BY <2>1
    <2>. HIDE DEF d, y, K, g, qb
    <2>7. g \in K /\ Row(X, <<g>>, p) /\ Row(X, d, qb) /\ Meets(p, qb)
      BY <2>2, <2>4, <2>5 DEF g, qb
    <2>8. Len(s) = Len(d) + 1
      <3>1. <<g>> \in Seq(K) /\ Len(<<g>>) = 1
        BY <2>7
      <3>2. Len(s) = Len(<<g>>) + Len(d)
        BY <2>4, <3>1, ConcatProperties
      <3>. HIDE DEF s
      <3>. QED  BY <1>1, <2>4, <3>1, <3>2
    <2>9. Row(X, s, p \o qb)
      BY <2>7, RowBoth
    <2>10. p \o qb = u \o t
      <3>0. p \in Text /\ q \in Text /\ b \in Text
        BY <1>4, <2>2
      <3>1. (p \o q) \o b = p \o (q \o b)
        BY ZenonT(60), <3>0, TextAssoc
      <3>2. (p \o q) \o b = u \o t
        BY <1>7, <2>1 DEF y
      <3>. QED  BY <3>1, <3>2 DEF qb
    <2>11. InsertAt(d, 1, g) = s
      BY <2>4, <2>7, InsertFirst
    <2>. HIDE DEF s
    <2>12. Row(X, s, u \o t)
      BY <2>9, <2>10
    <2>13. CASE Len(d) < MAX_CHILDREN
      <3>1. PrependResidual(d, r.residual) = Fitting(s)
        <4>1. ~ (Len(d) >= MAX_CHILDREN)
          BY <1>1, <2>4, <2>13
        <4>. QED  BY <2>6, <2>13, <4>1 DEF PrependResidual, s, g
      <3>2. Len(s) \in 1..MAX_CHILDREN
        BY <1>1, <2>4, <2>8, <2>13
      <3>. QED  BY <1>9, <2>12, <3>1, <3>2, FittingGrown
    <2>14. CASE ~ (Len(d) < MAX_CHILDREN)
      <3>1. Len(d) >= MAX_CHILDREN /\ Len(d) = MAX_CHILDREN /\ 1 \in 1..(Len(d) + 1)
        BY <1>1, <2>4, <2>14
      <3>. DEFINE h == InsertSplit(d, 1, g)
      <3>2. PrependResidual(d, r.residual) = KeepRight(h)
        BY <2>6, <2>14, <3>1 DEF PrependResidual, g
      <3>3. Halves(h, s, K)
        <4>1. Halves(h, InsertAt(d, 1, g), K)
          BY <2>4, <2>7, <3>1, InsertSplitRight
        <4>. QED  BY <2>11, <4>1
      <3>. HIDE DEF h
      <3>. QED  BY <1>9, <2>12, <3>2, <3>3, HalvesGrown DEF K
    <2>. QED  BY <2>13, <2>14
  <1>. QED  BY <1>11, <1>12 DEF GrownLeft

\* f has the nodes down the right edge, and then the results back up it.
AppendAtDepthEdge(f, n, m) ==
  f = [k \in 0..m |-> IF k = 0 THEN n ELSE Last(ChildrenAbove(f[k - 1])).node]

AppendAtDepthResults(f, edge, o, h, m) ==
  f = [k \in 0..m |-> IF k = 0 THEN AppendSibling(edge[h], o) ELSE WithLast(edge[h - k].children, f[k - 1])]

LEMMA AppendAtDepthEdgeExists ==
  ASSUME NEW n, NEW m \in Nat
  PROVE  \E f : AppendAtDepthEdge(f, n, m)
  <1>. DEFINE T == {k \in Nat : \E f : AppendAtDepthEdge(f, n, k)}
  <1>1. 0 \in T
    <2>. DEFINE f == [k \in 0..0 |-> n]
    <2>1. f = [k \in 0..0 |-> IF k = 0 THEN n ELSE Last(ChildrenAbove(f[k - 1])).node]
      OBVIOUS
    <2>. QED  BY <2>1 DEF AppendAtDepthEdge
  <1>2. ASSUME NEW j \in Nat, j \in T PROVE j + 1 \in T
    <2>1. PICK f : AppendAtDepthEdge(f, n, j)
      BY <1>2
    <2>. DEFINE b == Last(ChildrenAbove(f[j])).node
                g == [k \in 0..(j + 1) |-> IF k = j + 1 THEN b ELSE f[k]]
    <2>2. ASSUME NEW k \in 0..(j + 1)
          PROVE  g[k] = IF k = 0 THEN n ELSE Last(ChildrenAbove(g[k - 1])).node
      <3>1. CASE k = j + 1
        <4>1. g[k] = b /\ g[k - 1] = f[j] /\ k # 0
          BY <3>1
        <4>. QED  BY <3>1, <4>1
      <3>2. CASE k # j + 1
        <4>1. k \in 0..j /\ g[k] = f[k]
          BY <3>2
        <4>2. CASE k = 0
          BY SMTT(60), <2>1, <4>1, <4>2 DEF AppendAtDepthEdge
        <4>3. CASE k # 0
          <5>1. k - 1 \in 0..(j + 1) /\ k - 1 # j + 1
            BY <4>1, <4>3
          <5>2. g[k - 1] = f[k - 1]
            BY <5>1
          <5>. QED  BY <2>1, <4>1, <4>3, <5>2 DEF AppendAtDepthEdge
        <4>. QED  BY <4>2, <4>3
      <3>. QED  BY <3>1, <3>2
    <2>3. g = [k \in 0..(j + 1) |-> IF k = 0 THEN n ELSE Last(ChildrenAbove(g[k - 1])).node]
      BY <2>2
    <2>4. AppendAtDepthEdge(g, n, j + 1)
      BY <2>3 DEF AppendAtDepthEdge
    <2>. QED  BY <2>4
  <1>3. Nat \subseteq T
    <2>. HIDE DEF T
    <2>. QED  BY <1>1, <1>2, SetInduction
  <1>. QED  BY <1>3

LEMMA AppendAtDepthResultsExist ==
  ASSUME NEW edge, NEW o, NEW h \in Nat, NEW m \in Nat
  PROVE  \E f : AppendAtDepthResults(f, edge, o, h, m)
  <1>. DEFINE T == {k \in Nat : \E f : AppendAtDepthResults(f, edge, o, h, k)}
  <1>1. 0 \in T
    <2>. DEFINE f == [k \in 0..0 |-> AppendSibling(edge[h], o)]
    <2>1. f = [k \in 0..0 |-> IF k = 0 THEN AppendSibling(edge[h], o) ELSE WithLast(edge[h - k].children, f[k - 1])]
      OBVIOUS
    <2>. QED  BY <2>1 DEF AppendAtDepthResults
  <1>2. ASSUME NEW j \in Nat, j \in T PROVE j + 1 \in T
    <2>1. PICK f : AppendAtDepthResults(f, edge, o, h, j)
      BY <1>2
    <2>. DEFINE b == WithLast(edge[h - (j + 1)].children, f[j])
                g == [k \in 0..(j + 1) |-> IF k = j + 1 THEN b ELSE f[k]]
    <2>2. ASSUME NEW k \in 0..(j + 1)
          PROVE  g[k] = IF k = 0 THEN AppendSibling(edge[h], o) ELSE WithLast(edge[h - k].children, g[k - 1])
      <3>1. CASE k = j + 1
        <4>1. g[k] = b /\ g[k - 1] = f[j] /\ k # 0
          BY <3>1
        <4>. QED  BY <3>1, <4>1
      <3>2. CASE k # j + 1
        <4>1. k \in 0..j /\ g[k] = f[k]
          BY <3>2
        <4>2. CASE k = 0
          BY <2>1, <4>1, <4>2 DEF AppendAtDepthResults
        <4>3. CASE k # 0
          <5>1. k - 1 \in 0..(j + 1) /\ k - 1 # j + 1
            BY <4>1, <4>3
          <5>2. g[k - 1] = f[k - 1]
            BY <5>1
          <5>. QED  BY <2>1, <4>1, <4>3, <5>2 DEF AppendAtDepthResults
        <4>. QED  BY <4>2, <4>3
      <3>. QED  BY <3>1, <3>2
    <2>3. g = [k \in 0..(j + 1) |-> IF k = 0 THEN AppendSibling(edge[h], o) ELSE WithLast(edge[h - k].children, g[k - 1])]
      BY <2>2
    <2>4. AppendAtDepthResults(g, edge, o, h, j + 1)
      BY <2>3 DEF AppendAtDepthResults
    <2>. QED  BY <2>4
  <1>3. Nat \subseteq T
    <2>. HIDE DEF T
    <2>. QED  BY <1>1, <1>2, SetInduction
  <1>. QED  BY <1>3

LEMMA AppendAtDepthNodeGrown ==
  ASSUME NEW h \in Nat, NEW n, NEW t, <<n, t>> \in Level[h + 1], NEW u \in Text, Meets(t, u),
         NEW r, \A x : <<Last(ChildrenAbove(n)).node, x>> \in Level[h] /\ Meets(x, u) =>
                         GrownRight(Level[h], r, x \o u)
  PROVE  GrownRight(Level[h + 1], WithLast(n.children, r), t \o u)
  <1>. DEFINE X == Level[h]
              c == n.children
              i == Len(c)
  <1>1. Level[h + 1] = Above(X) /\ IsPairs(X) /\ Sound(X)
    BY LevelStep, LevelSound
  <1>. HIDE DEF X
  <1>2. n.leaf = FALSE /\ Row(X, c, t) /\ Len(c) \in 1..MAX_CHILDREN
    BY <1>1, AboveParts
  <1>3. c \in Seq(Kids(X)) /\ Len(c) # 0
    BY <1>2 DEF Row
  <1>4. i \in 1..Len(c) /\ Last(c) = c[i]
    BY <1>3, EndChildren
  <1>5. Last(ChildrenAbove(n)).node = c[i].node
    BY <1>2, <1>4 DEF ChildrenAbove
  <1>. HIDE DEF c, i
  <1>6. PICK a, x, b : AtChild(X, c, i, t, a, x, b)
    BY <1>1, <1>2, <1>4, RowChild
  <1>7. /\ <<c[i].node, x>> \in X /\ t = a \o (x \o b)
        /\ Row(X, Before(c, i), a) /\ Row(X, After(c, i), b)
    BY <1>6 DEF AtChild
  <1>8. /\ a \in Text /\ x \in Text /\ b \in Text /\ Len(x) # 0
    BY <1>1, <1>7 DEF Row, IsText, Sound
  <1>9. After(c, i) = <<>>
    BY <1>3, EndChildren DEF i
  <1>10. t = a \o x
    <2>1. b = <<>>
      BY <1>7, <1>9, RowOfNone
    <2>. QED  BY <1>7, <1>8, <2>1, ConcatEmptySeq DEF Text
  <1>11. Meets(x, u)
    BY <1>8, <1>10, MeetsConcat
  <1>12. GrownRight(X, r, x \o u)
    BY <1>5, <1>7, <1>11 DEF X
  <1>13. GrownRight(Above(X), WithLast(c, r), t \o u)
    <2>1. AtChild(X, c, Len(c), t, a, x, b)
      BY <1>6 DEF i
    <2>. QED  BY <1>1, <1>2, <1>12, <2>1, WithLastGrown
  <1>. QED  BY <1>1, <1>13 DEF c

\* append_at_depth, on sound trees of any height, when the other's leaves come
\* at the same depth: one sound tree or two of that height, with both texts.
THEOREM AppendAtDepthRight ==
  ASSUME NEW m \in Nat, NEW depth \in Nat, NEW n, NEW t, <<n, t>> \in Level[m + depth],
         NEW o, NEW u, <<o, u>> \in Level[m], Meets(t, u)
  PROVE  GrownRight(Level[m + depth], AppendAtDepth(n, o, depth), t \o u)
  <1>. DEFINE h == depth
              edge == CHOOSE f : AppendAtDepthEdge(f, n, h)
              result == CHOOSE f : AppendAtDepthResults(f, edge, o, h, h)
  <1>1. AppendAtDepth(n, o, h) = result[h]
    BY DEF AppendAtDepth, AppendAtDepthEdge, AppendAtDepthResults
  <1>2. AppendAtDepthEdge(edge, n, h)
    BY AppendAtDepthEdgeExists
  <1>. HIDE DEF edge
  <1>3. AppendAtDepthResults(result, edge, o, h, h)
    BY AppendAtDepthResultsExist
  <1>. HIDE DEF result
  <1>4. edge[0] = n /\ result[0] = AppendSibling(edge[h], o)
    BY <1>2, <1>3 DEF AppendAtDepthEdge, AppendAtDepthResults
  <1>5. ASSUME NEW k \in Nat, k < h
        PROVE  /\ result[k + 1] = WithLast(edge[h - (k + 1)].children, result[k])
               /\ edge[h - k] = Last(ChildrenAbove(edge[h - (k + 1)])).node
    <2>1. /\ k + 1 \in 0..h /\ k + 1 # 0 /\ (k + 1) - 1 = k
          /\ h - k \in 0..h /\ h - k # 0 /\ (h - k) - 1 = h - (k + 1)
      BY <1>5
    <2>2. result[k + 1] = WithLast(edge[h - (k + 1)].children, result[(k + 1) - 1])
      BY <1>3, <2>1 DEF AppendAtDepthResults
    <2>3. edge[h - k] = Last(ChildrenAbove(edge[(h - k) - 1])).node
      BY <1>2, <2>1 DEF AppendAtDepthEdge
    <2>. QED  BY <2>1, <2>2, <2>3
  <1>6. u \in Text
    BY LevelSound DEF Sound, IsText
  <1>. DEFINE Done(k) == \A x : <<edge[h - k], x>> \in Level[m + k] /\ Meets(x, u) =>
                           GrownRight(Level[m + k], result[k], x \o u)
              T == {k \in Nat : k <= h => Done(k)}
  <1>7. 0 \in T
    <2>1. h - 0 = h /\ m + 0 = m
      OBVIOUS
    <2>2. ASSUME NEW x, <<edge[h], x>> \in Level[m], Meets(x, u)
          PROVE  GrownRight(Level[m], AppendSibling(edge[h], o), x \o u)
      BY <2>2, SiblingsGrown
    <2>3. Done(0)
      BY <1>4, <2>1, <2>2
    <2>. QED  BY <2>3
  <1>8. ASSUME NEW k \in Nat, k \in T PROVE k + 1 \in T
    <2>. SUFFICES ASSUME k + 1 <= h PROVE Done(k + 1)
      OBVIOUS
    <2>1. k < h /\ k <= h /\ m + k \in Nat /\ m + (k + 1) = (m + k) + 1
      OBVIOUS
    <2>. DEFINE above == edge[h - (k + 1)]
                r == result[k]
                j == m + k
    <2>2. result[k + 1] = WithLast(above.children, r)
          /\ edge[h - k] = Last(ChildrenAbove(above)).node
      BY <1>5, <2>1
    <2>3. \A x : <<Last(ChildrenAbove(above)).node, x>> \in Level[j] /\ Meets(x, u) =>
                   GrownRight(Level[j], r, x \o u)
      BY <1>8, <2>1, <2>2
    <2>4. j \in Nat /\ m + (k + 1) = j + 1
      BY <2>1
    <2>. HIDE DEF above, r, j
    <2>5. ASSUME NEW x, <<above, x>> \in Level[j + 1], Meets(x, u)
          PROVE  GrownRight(Level[j + 1], WithLast(above.children, r), x \o u)
      BY <1>6, <2>3, <2>4, <2>5, AppendAtDepthNodeGrown
    <2>. QED  BY <2>2, <2>4, <2>5 DEF above
  <1>9. Nat \subseteq T
    <2>. HIDE DEF T
    <2>. QED  BY <1>7, <1>8, SetInduction
  <1>10. Done(h)
    BY <1>9
  <1>11. h - h = 0
    OBVIOUS
  <1>. QED  BY <1>1, <1>4, <1>10, <1>11

\* f has the nodes down the left edge, and then the results back up it.
PrependAtDepthEdge(f, n, m) ==
  f = [k \in 0..m |-> IF k = 0 THEN n ELSE Head(ChildrenAbove(f[k - 1])).node]

PrependAtDepthResults(f, edge, o, h, m) ==
  f = [k \in 0..m |-> IF k = 0 THEN PrependSibling(edge[h], o) ELSE WithFirst(edge[h - k].children, f[k - 1])]

LEMMA PrependAtDepthEdgeExists ==
  ASSUME NEW n, NEW m \in Nat
  PROVE  \E f : PrependAtDepthEdge(f, n, m)
  <1>. DEFINE T == {k \in Nat : \E f : PrependAtDepthEdge(f, n, k)}
  <1>1. 0 \in T
    <2>. DEFINE f == [k \in 0..0 |-> n]
    <2>1. f = [k \in 0..0 |-> IF k = 0 THEN n ELSE Head(ChildrenAbove(f[k - 1])).node]
      OBVIOUS
    <2>. QED  BY <2>1 DEF PrependAtDepthEdge
  <1>2. ASSUME NEW j \in Nat, j \in T PROVE j + 1 \in T
    <2>1. PICK f : PrependAtDepthEdge(f, n, j)
      BY <1>2
    <2>. DEFINE b == Head(ChildrenAbove(f[j])).node
                g == [k \in 0..(j + 1) |-> IF k = j + 1 THEN b ELSE f[k]]
    <2>2. ASSUME NEW k \in 0..(j + 1)
          PROVE  g[k] = IF k = 0 THEN n ELSE Head(ChildrenAbove(g[k - 1])).node
      <3>1. CASE k = j + 1
        <4>1. g[k] = b /\ g[k - 1] = f[j] /\ k # 0
          BY <3>1
        <4>. QED  BY <3>1, <4>1
      <3>2. CASE k # j + 1
        <4>1. k \in 0..j /\ g[k] = f[k]
          BY <3>2
        <4>2. CASE k = 0
          BY SMTT(60), <2>1, <4>1, <4>2 DEF PrependAtDepthEdge
        <4>3. CASE k # 0
          <5>1. k - 1 \in 0..(j + 1) /\ k - 1 # j + 1
            BY <4>1, <4>3
          <5>2. g[k - 1] = f[k - 1]
            BY <5>1
          <5>. QED  BY <2>1, <4>1, <4>3, <5>2 DEF PrependAtDepthEdge
        <4>. QED  BY <4>2, <4>3
      <3>. QED  BY <3>1, <3>2
    <2>3. g = [k \in 0..(j + 1) |-> IF k = 0 THEN n ELSE Head(ChildrenAbove(g[k - 1])).node]
      BY <2>2
    <2>4. PrependAtDepthEdge(g, n, j + 1)
      BY <2>3 DEF PrependAtDepthEdge
    <2>. QED  BY <2>4
  <1>3. Nat \subseteq T
    <2>. HIDE DEF T
    <2>. QED  BY <1>1, <1>2, SetInduction
  <1>. QED  BY <1>3

LEMMA PrependAtDepthResultsExist ==
  ASSUME NEW edge, NEW o, NEW h \in Nat, NEW m \in Nat
  PROVE  \E f : PrependAtDepthResults(f, edge, o, h, m)
  <1>. DEFINE T == {k \in Nat : \E f : PrependAtDepthResults(f, edge, o, h, k)}
  <1>1. 0 \in T
    <2>. DEFINE f == [k \in 0..0 |-> PrependSibling(edge[h], o)]
    <2>1. f = [k \in 0..0 |-> IF k = 0 THEN PrependSibling(edge[h], o) ELSE WithFirst(edge[h - k].children, f[k - 1])]
      OBVIOUS
    <2>. QED  BY <2>1 DEF PrependAtDepthResults
  <1>2. ASSUME NEW j \in Nat, j \in T PROVE j + 1 \in T
    <2>1. PICK f : PrependAtDepthResults(f, edge, o, h, j)
      BY <1>2
    <2>. DEFINE b == WithFirst(edge[h - (j + 1)].children, f[j])
                g == [k \in 0..(j + 1) |-> IF k = j + 1 THEN b ELSE f[k]]
    <2>2. ASSUME NEW k \in 0..(j + 1)
          PROVE  g[k] = IF k = 0 THEN PrependSibling(edge[h], o) ELSE WithFirst(edge[h - k].children, g[k - 1])
      <3>1. CASE k = j + 1
        <4>1. g[k] = b /\ g[k - 1] = f[j] /\ k # 0
          BY <3>1
        <4>. QED  BY <3>1, <4>1
      <3>2. CASE k # j + 1
        <4>1. k \in 0..j /\ g[k] = f[k]
          BY <3>2
        <4>2. CASE k = 0
          BY <2>1, <4>1, <4>2 DEF PrependAtDepthResults
        <4>3. CASE k # 0
          <5>1. k - 1 \in 0..(j + 1) /\ k - 1 # j + 1
            BY <4>1, <4>3
          <5>2. g[k - 1] = f[k - 1]
            BY <5>1
          <5>. QED  BY <2>1, <4>1, <4>3, <5>2 DEF PrependAtDepthResults
        <4>. QED  BY <4>2, <4>3
      <3>. QED  BY <3>1, <3>2
    <2>3. g = [k \in 0..(j + 1) |-> IF k = 0 THEN PrependSibling(edge[h], o) ELSE WithFirst(edge[h - k].children, g[k - 1])]
      BY <2>2
    <2>4. PrependAtDepthResults(g, edge, o, h, j + 1)
      BY <2>3 DEF PrependAtDepthResults
    <2>. QED  BY <2>4
  <1>3. Nat \subseteq T
    <2>. HIDE DEF T
    <2>. QED  BY <1>1, <1>2, SetInduction
  <1>. QED  BY <1>3

LEMMA PrependAtDepthNodeGrown ==
  ASSUME NEW h \in Nat, NEW n, NEW t, <<n, t>> \in Level[h + 1], NEW u \in Text, Meets(u, t),
         NEW r, \A x : <<Head(ChildrenAbove(n)).node, x>> \in Level[h] /\ Meets(u, x) =>
                         GrownLeft(Level[h], r, u \o x)
  PROVE  GrownLeft(Level[h + 1], WithFirst(n.children, r), u \o t)
  <1>. DEFINE X == Level[h]
              c == n.children
              i == 1
  <1>1. Level[h + 1] = Above(X) /\ IsPairs(X) /\ Sound(X)
    BY LevelStep, LevelSound
  <1>. HIDE DEF X
  <1>2. n.leaf = FALSE /\ Row(X, c, t) /\ Len(c) \in 1..MAX_CHILDREN
    BY <1>1, AboveParts
  <1>3. c \in Seq(Kids(X)) /\ Len(c) # 0
    BY <1>2 DEF Row
  <1>4. i \in 1..Len(c) /\ Head(c) = c[i]
    BY <1>3, EndChildren
  <1>5. Head(ChildrenAbove(n)).node = c[i].node
    BY <1>2, <1>4 DEF ChildrenAbove
  <1>. HIDE DEF c, i
  <1>6. PICK a, x, b : AtChild(X, c, i, t, a, x, b)
    BY <1>1, <1>2, <1>4, RowChild
  <1>7. /\ <<c[i].node, x>> \in X /\ t = a \o (x \o b)
        /\ Row(X, Before(c, i), a) /\ Row(X, After(c, i), b)
    BY <1>6 DEF AtChild
  <1>8. /\ a \in Text /\ x \in Text /\ b \in Text /\ Len(x) # 0
    BY <1>1, <1>7 DEF Row, IsText, Sound
  <1>9. Before(c, i) = <<>>
    BY <1>3, EndChildren DEF i
  <1>10. t = x \o b
    <2>1. a = <<>>
      BY <1>7, <1>9, RowOfNone
    <2>2. x \o b \in Text
      BY <1>8, ConcatFacts
    <2>. QED  BY <1>7, <2>1, <2>2, ConcatEmptySeq DEF Text
  <1>11. Meets(u, x)
    BY <1>8, <1>10, MeetsConcat
  <1>12. GrownLeft(X, r, u \o x)
    BY <1>5, <1>7, <1>11 DEF X
  <1>13. GrownLeft(Above(X), WithFirst(c, r), u \o t)
    <2>1. AtChild(X, c, 1, t, a, x, b)
      BY <1>6 DEF i
    <2>. QED  BY <1>1, <1>2, <1>12, <2>1, WithFirstGrown
  <1>. QED  BY <1>1, <1>13 DEF c

\* prepend_at_depth, on sound trees of any height, when the other's leaves come
\* at the same depth: one sound tree or two of that height, with both texts.
THEOREM PrependAtDepthRight ==
  ASSUME NEW m \in Nat, NEW depth \in Nat, NEW n, NEW t, <<n, t>> \in Level[m + depth],
         NEW o, NEW u, <<o, u>> \in Level[m], Meets(u, t)
  PROVE  GrownLeft(Level[m + depth], PrependAtDepth(n, o, depth), u \o t)
  <1>. DEFINE h == depth
              edge == CHOOSE f : PrependAtDepthEdge(f, n, h)
              result == CHOOSE f : PrependAtDepthResults(f, edge, o, h, h)
  <1>1. PrependAtDepth(n, o, h) = result[h]
    BY DEF PrependAtDepth, PrependAtDepthEdge, PrependAtDepthResults
  <1>2. PrependAtDepthEdge(edge, n, h)
    BY PrependAtDepthEdgeExists
  <1>. HIDE DEF edge
  <1>3. PrependAtDepthResults(result, edge, o, h, h)
    BY PrependAtDepthResultsExist
  <1>. HIDE DEF result
  <1>4. edge[0] = n /\ result[0] = PrependSibling(edge[h], o)
    BY <1>2, <1>3 DEF PrependAtDepthEdge, PrependAtDepthResults
  <1>5. ASSUME NEW k \in Nat, k < h
        PROVE  /\ result[k + 1] = WithFirst(edge[h - (k + 1)].children, result[k])
               /\ edge[h - k] = Head(ChildrenAbove(edge[h - (k + 1)])).node
    <2>1. /\ k + 1 \in 0..h /\ k + 1 # 0 /\ (k + 1) - 1 = k
          /\ h - k \in 0..h /\ h - k # 0 /\ (h - k) - 1 = h - (k + 1)
      BY <1>5
    <2>2. result[k + 1] = WithFirst(edge[h - (k + 1)].children, result[(k + 1) - 1])
      BY <1>3, <2>1 DEF PrependAtDepthResults
    <2>3. edge[h - k] = Head(ChildrenAbove(edge[(h - k) - 1])).node
      BY <1>2, <2>1 DEF PrependAtDepthEdge
    <2>. QED  BY <2>1, <2>2, <2>3
  <1>6. u \in Text
    BY LevelSound DEF Sound, IsText
  <1>. DEFINE Done(k) == \A x : <<edge[h - k], x>> \in Level[m + k] /\ Meets(u, x) =>
                           GrownLeft(Level[m + k], result[k], u \o x)
              T == {k \in Nat : k <= h => Done(k)}
  <1>7. 0 \in T
    <2>1. h - 0 = h /\ m + 0 = m
      OBVIOUS
    <2>2. ASSUME NEW x, <<edge[h], x>> \in Level[m], Meets(u, x)
          PROVE  GrownLeft(Level[m], PrependSibling(edge[h], o), u \o x)
      BY <2>2, SiblingsGrown
    <2>3. Done(0)
      BY <1>4, <2>1, <2>2
    <2>. QED  BY <2>3
  <1>8. ASSUME NEW k \in Nat, k \in T PROVE k + 1 \in T
    <2>. SUFFICES ASSUME k + 1 <= h PROVE Done(k + 1)
      OBVIOUS
    <2>1. k < h /\ k <= h /\ m + k \in Nat /\ m + (k + 1) = (m + k) + 1
      OBVIOUS
    <2>. DEFINE above == edge[h - (k + 1)]
                r == result[k]
                j == m + k
    <2>2. result[k + 1] = WithFirst(above.children, r)
          /\ edge[h - k] = Head(ChildrenAbove(above)).node
      BY <1>5, <2>1
    <2>3. \A x : <<Head(ChildrenAbove(above)).node, x>> \in Level[j] /\ Meets(u, x) =>
                   GrownLeft(Level[j], r, u \o x)
      BY <1>8, <2>1, <2>2
    <2>4. j \in Nat /\ m + (k + 1) = j + 1
      BY <2>1
    <2>. HIDE DEF above, r, j
    <2>5. ASSUME NEW x, <<above, x>> \in Level[j + 1], Meets(u, x)
          PROVE  GrownLeft(Level[j + 1], WithFirst(above.children, r), u \o x)
      BY <1>6, <2>3, <2>4, <2>5, PrependAtDepthNodeGrown
    <2>. QED  BY <2>2, <2>4, <2>5 DEF above
  <1>9. Nat \subseteq T
    <2>. HIDE DEF T
    <2>. QED  BY <1>7, <1>8, SetInduction
  <1>10. Done(h)
    BY <1>9
  <1>11. h - h = 0
    OBVIOUS
  <1>. QED  BY <1>1, <1>4, <1>10, <1>11

-----------------------------------------------------------------------------
(* Splitting a tree *)

\* The two parts of a tree of text t, cut at its char ch: the first has the chars
\* before it, the second the others.  (The two may halve a CRLF.)
IsCut(X, parts, t, ch) ==
  \E u, v : /\ <<parts[1], u>> \in X /\ <<parts[2], v>> \in X
            /\ t = u \o v /\ InfoFromStr(u).chars = ch

\* A char strictly inside a text.
IsInside(ch, t) == ch \in 1..(InfoFromStr(t).chars - 1)

LEMMA PairCut ==
  ASSUME NEW X, NEW l, NEW r, NEW y, y = <<l, r>>, NEW u, NEW v,
         <<l, u>> \in X, <<r, v>> \in X, NEW t, t = u \o v,
         NEW ch, InfoFromStr(u).chars = ch
  PROVE  IsCut(X, y, t, ch)
  <1>1. y[1] = l /\ y[2] = r
    OBVIOUS
  <1>. QED  BY <1>1 DEF IsCut

LEMMA LeafCut ==
  ASSUME NEW t, <<Leaf(t), t>> \in LeafLevel, NEW ch, IsInside(ch, t)
  PROVE  IsCut(LeafLevel, Leaves(CutAt(t, CharToByteIdx(t, ch))), t, ch)
  <1>. DEFINE j == CharToByteIdx(t, ch)
              u == Slice(t, 0, j)
              v == From(t, j)
              n == InfoFromStr(t).chars
  <1>1. t \in Text /\ Utf8(t) /\ Len(t) # 0 /\ NotOverfull(t)
    BY LeafMember
  <1>2. Len(t) \in Nat /\ MAX_BYTES \in Nat /\ n \in Nat
    BY <1>1, TextFacts, LeafBoundsAssumption, InfoTyped DEF TextInfo
  <1>3. ch \in Nat /\ ch # 0 /\ ch < n
    <2>. HIDE DEF n
    <2>. QED  BY <1>2 DEF IsInside, n
  <1>4. /\ j \in 0..Len(t) /\ IsBoundary(j, t)
        /\ InfoFromStr(Slice(t, 0, j)).chars = Min2(ch, n)
        /\ j = Len(t) <=> ch >= n
    BY <1>1, <1>3, CharToByte
  <1>5. Min2(ch, n) = ch /\ ~ (ch >= n)
    <2>. HIDE DEF n
    <2>. QED  BY <1>2, <1>3 DEF Min2
  <1>6. InfoFromStr(u).chars = ch /\ j # Len(t)
    BY <1>4, <1>5
  <1>7. j # 0
    <2>1. InfoFromStr(Slice(t, 0, 0)).chars = 0
      BY <1>1, <1>2, CharsBeforeFacts
    <2>. HIDE DEF j
    <2>. QED  BY <1>3, <1>6, <2>1
  <1>. HIDE DEF j
  <1>8. u \in Text /\ v \in Text /\ u \o v = t /\ Len(u) = j /\ Len(v) = Len(t) - j
    BY <1>1, <1>4, PartsFacts
  <1>9. Utf8(u) /\ Utf8(v)
    BY <1>1, <1>4, Utf8Parts
  <1>10. Leaves(CutAt(t, j)) = <<Leaf(u), Leaf(v)>>
    BY DEF Leaves, CutAt
  <1>. HIDE DEF u, v
  <1>11. Len(u) # 0 /\ NotOverfull(u) /\ Len(v) # 0 /\ NotOverfull(v)
    BY <1>1, <1>2, <1>4, <1>6, <1>7, <1>8 DEF NotOverfull
  <1>12. <<Leaf(u), u>> \in LeafLevel /\ <<Leaf(v), v>> \in LeafLevel
    BY <1>8, <1>9, <1>11, LeafMember
  <1>. DEFINE l == Leaf(u)
              r == Leaf(v)
              y == Leaves(CutAt(t, j))
  <1>13. y = <<l, r>> /\ <<l, u>> \in LeafLevel /\ <<r, v>> \in LeafLevel /\ t = u \o v
    BY <1>8, <1>10, <1>12
  <1>. HIDE DEF l, r, y
  <1>14. IsCut(LeafLevel, y, t, ch)
    BY <1>6, <1>13, PairCut
  <1>. QED  BY <1>14 DEF y, j

\* Cut between two children.
LEMMA CutBetween ==
  ASSUME NEW X, IsPairs(X), Sound(X), NEW c, Len(c) \in 1..MAX_CHILDREN,
         NEW i \in 1..Len(c), i # 1, NEW t, Row(X, c, t), NEW a, NEW x, NEW b,
         AtChild(X, c, i, t, a, x, b)
  PROVE  IsCut(Above(X), SplitChildren(c, i - 1), t, InfoFromStr(a).chars)
  <1>. DEFINE K == Kids(X)
              j == i - 1
              l == SubSeq(c, 1, j)
              r == SubSeq(c, j + 1, Len(c))
              k == c[i]
  <1>1. c \in Seq(K) /\ Len(c) \in Nat /\ MAX_CHILDREN \in Nat /\ i \in Nat
    BY ChildBounds DEF Row
  <1>2. j \in 0..Len(c) /\ j \in 1..(Len(c) - 1) /\ j + 1 = i
    BY <1>1
  <1>3. SplitChildren(c, j) = <<Internal(l), Internal(r)>>
    BY DEF SplitChildren, Internals, SplitOffChildren
  <1>4. /\ Row(X, Before(c, i), a) /\ Row(X, After(c, i), b) /\ <<k.node, x>> \in X
        /\ t = a \o (x \o b) /\ Meets(x, b)
    BY DEF AtChild
  <1>5. l = Before(c, i)
    BY DEF Before
  <1>. HIDE DEF j
  <1>6. Len(l) = j /\ Len(r) = Len(c) - j
    BY <1>1, <1>2, CutChildren
  <1>7. r = <<k>> \o After(c, i)
    <2>1. SubSeq(c, j + 1, Len(c)) = <<c[j + 1]>> \o SubSeq(c, (j + 1) + 1, Len(c))
      BY <1>1, <1>2, RestOf
    <2>. QED  BY <1>2, <2>1 DEF After
  <1>8. k \in K
    BY <1>1, ElementOfSeq
  <1>. HIDE DEF l, r, k
  <1>9. Row(X, <<k>>, x)
    <2>1. k = Child(k.node)
      BY <1>8, KidsParts
    <2>2. Row(X, <<Child(k.node)>>, x)
      BY <1>4, RowOne
    <2>. QED  BY <2>1, <2>2
  <1>10. Row(X, r, x \o b)
    BY <1>4, <1>7, <1>9, RowBoth
  <1>11. Row(X, l, a)
    BY <1>4, <1>5
  <1>12. Len(l) \in 1..MAX_CHILDREN /\ Len(r) \in 1..MAX_CHILDREN
    BY <1>1, <1>2, <1>6
  <1>13. <<Internal(l), a>> \in Above(X) /\ <<Internal(r), x \o b>> \in Above(X)
    BY <1>10, <1>11, <1>12, AboveMember
  <1>. DEFINE U == Above(X)
              nl == Internal(l)
              nr == Internal(r)
              y == SplitChildren(c, j)
              xb == x \o b
              ch == InfoFromStr(a).chars
  <1>14. y = <<nl, nr>> /\ <<nl, a>> \in U /\ <<nr, xb>> \in U /\ t = a \o xb
    BY <1>3, <1>4, <1>13
  <1>15. InfoFromStr(a).chars = ch
    OBVIOUS
  <1>. HIDE DEF U, nl, nr, y, xb, ch
  <1>16. IsCut(U, y, t, ch)
    BY <1>14, <1>15, PairCut
  <1>. QED  BY <1>16 DEF j, U, y, ch

\* Cut in a child.
LEMMA CutAround ==
  ASSUME NEW X, IsPairs(X), Sound(X), NEW c, Len(c) \in 1..MAX_CHILDREN,
         NEW i \in 1..Len(c), NEW t, Row(X, c, t), NEW a, NEW x, NEW b,
         AtChild(X, c, i, t, a, x, b), NEW parts, NEW k, IsCut(X, parts, x, k)
  PROVE  IsCut(Above(X), SplitAround(c, i, parts), t, InfoFromStr(a).chars + k)
  <1>. DEFINE K == Kids(X)
              p == Child(parts[1])
              q == Child(parts[2])
              l == Before(c, i) \o <<p>>
              r == <<q>> \o After(c, i)
  <1>1. c \in Seq(K) /\ Len(c) \in Nat /\ MAX_CHILDREN \in Nat /\ i \in Nat
    BY ChildBounds DEF Row
  <1>2. /\ Row(X, Before(c, i), a) /\ Row(X, After(c, i), b)
        /\ t = a \o (x \o b) /\ Meets(a, x) /\ Meets(x, b)
    BY DEF AtChild
  <1>3. PICK u, v : /\ <<parts[1], u>> \in X /\ <<parts[2], v>> \in X
                    /\ x = u \o v /\ InfoFromStr(u).chars = k
    BY DEF IsCut
  <1>4. /\ u \in Text /\ Len(u) # 0 /\ v \in Text /\ Len(v) # 0
        /\ p \in K /\ q \in K /\ Row(X, <<p>>, u) /\ Row(X, <<q>>, v)
    BY <1>3, RowOne, KidsMember DEF Sound, IsText
  <1>5. a \in Text /\ b \in Text
    BY <1>2 DEF Row, IsText
  <1>6. Meets(a, u) /\ Meets(v, b)
    <2>1. Meets(a, u \o v) /\ Meets(u \o v, b)
      BY <1>2, <1>3
    <2>. QED  BY <1>4, <1>5, <2>1, MeetsConcat
  <1>7. IsAround(Before(c, i), After(c, i), c, i, K)
    <2>. HIDE DEF K
    <2>. QED  BY <1>1, AroundParts
  <1>8. /\ Before(c, i) \in Seq(K) /\ Len(Before(c, i)) = i - 1
        /\ After(c, i) \in Seq(K) /\ Len(After(c, i)) = Len(c) - i
    BY <1>7 DEF IsAround
  <1>9. SplitAround(c, i, parts) = <<Internal(l), Internal(r)>>
    <2>1. Append(Before(c, i), p) = l
      BY <1>4, <1>8, AppendIsConcat
    <2>. QED  BY <2>1 DEF SplitAround, Before, After
  <1>10. Len(l) \in 1..MAX_CHILDREN /\ Len(r) \in 1..MAX_CHILDREN
    <2>. DEFINE s == <<p>>
                w == <<q>>
    <2>1. s \in Seq(K) /\ w \in Seq(K) /\ Len(s) = 1 /\ Len(w) = 1
      BY <1>4
    <2>2. l = Before(c, i) \o s /\ r = w \o After(c, i)
      OBVIOUS
    <2>. HIDE DEF s, w, K, l, r
    <2>3. Len(l) = Len(Before(c, i)) + Len(s) /\ Len(r) = Len(w) + Len(After(c, i))
      BY <1>8, <2>1, <2>2, ConcatProperties
    <2>4. Len(l) = i /\ Len(r) = Len(c) - i + 1
      BY <1>1, <1>8, <2>1, <2>3
    <2>. QED  BY <1>1, <2>4
  <1>11. Row(X, l, a \o u) /\ Row(X, r, v \o b)
    <2>. DEFINE s == <<p>>
                w == <<q>>
    <2>1. Row(X, s, u) /\ Row(X, w, v)
      BY <1>4
    <2>. HIDE DEF s, w
    <2>2. Row(X, Before(c, i) \o s, a \o u) /\ Row(X, w \o After(c, i), v \o b)
      BY <1>2, <1>6, <2>1, RowBoth
    <2>. QED  BY <2>2 DEF s, w
  <1>. HIDE DEF l, r
  <1>12. <<Internal(l), a \o u>> \in Above(X) /\ <<Internal(r), v \o b>> \in Above(X)
    BY <1>10, <1>11, AboveMember
  <1>13. t = (a \o u) \o (v \o b)
    <2>. DEFINE vb == v \o b
    <2>1. vb \in Text /\ (u \o v) \o b = u \o vb
      BY ZenonT(60), <1>4, <1>5, ConcatFacts, TextAssoc
    <2>. HIDE DEF vb
    <2>2. (a \o u) \o vb = a \o (u \o vb)
      BY ZenonT(60), <1>4, <1>5, <2>1, TextAssoc
    <2>. QED  BY <1>2, <1>3, <2>1, <2>2 DEF vb
  <1>14. InfoFromStr(a \o u).chars = InfoFromStr(a).chars + k
    BY <1>3, <1>4, <1>5, CharsOfConcat
  <1>. DEFINE U == Above(X)
              nl == Internal(l)
              nr == Internal(r)
              y == SplitAround(c, i, parts)
              au == a \o u
              vb == v \o b
              ch == InfoFromStr(a).chars + k
  <1>15. y = <<nl, nr>> /\ <<nl, au>> \in U /\ <<nr, vb>> \in U /\ t = au \o vb
    BY <1>9, <1>12, <1>13
  <1>16. InfoFromStr(au).chars = ch
    BY <1>14
  <1>. HIDE DEF U, nl, nr, y, au, vb, ch
  <1>17. IsCut(U, y, t, ch)
    BY <1>15, <1>16, PairCut
  <1>. QED  BY <1>17 DEF U, y, ch

LEMMA SplitNodeCut ==
  ASSUME NEW h \in Nat, NEW call, NEW t, <<call.node, t>> \in Level[h + 1],
         IsInside(call.ch, t), NEW parts,
         \A x : <<SplitBelow(call).node, x>> \in Level[h] /\ IsInside(SplitBelow(call).ch, x) =>
                  IsCut(Level[h], parts, x, SplitBelow(call).ch)
  PROVE  IsCut(Level[h + 1], SplitAfter(call, parts), t, call.ch)
  <1>. DEFINE X == Level[h]
              c == call.node.children
              ch == call.ch
              i == SearchCharIdx(c, ch)
              k == ch - PrefixInfo(c, i - 1).chars
  <1>1. Level[h + 1] = Above(X) /\ IsPairs(X) /\ Sound(X)
    BY LevelStep, LevelSound
  <1>2. Row(X, c, t) /\ Len(c) \in 1..MAX_CHILDREN /\ Len(c) # 0
    <2>1. <<call.node, t>> \in Above(X)
      BY <1>1
    <2>. HIDE DEF X
    <2>2. Row(X, c, t) /\ Len(c) \in 1..MAX_CHILDREN
      BY <2>1, AboveParts
    <2>. HIDE DEF c
    <2>3. Len(c) # 0
      BY <2>2, ChildBounds
    <2>. QED  BY <2>2, <2>3
  <1>3. SplitBelow(call).node = c[i].node /\ SplitBelow(call).ch = k
    BY DEF SplitBelow, SplitOfChild, SplitCall
  <1>4. SplitAfter(call, parts) = SplitAtChild(c, i, k, parts)
    BY DEF SplitAfter, SplitInChild
  <1>5. /\ InfoFromStr(t).chars \in Nat
        /\ ch \in 0..InfoFromStr(t).chars /\ ch > 0 /\ ch < InfoFromStr(t).chars
    <2>1. InfoFromStr(t).chars \in Nat
      BY <1>2, InfoTyped DEF Row, IsText, TextInfo
    <2>. HIDE DEF ch
    <2>2. IsInside(ch, t)
      BY DEF ch
    <2>. QED  BY <2>1, <2>2 DEF IsInside
  <1>. HIDE DEF X, c, ch
  <1>6. /\ i \in 1..Len(c)
        /\ \E a, x, b : Found(X, c, i, t, ch, a, x, b, k)
    BY <1>1, <1>2, <1>5, ChildFound
  <1>7. PICK a, x, b : Found(X, c, i, t, ch, a, x, b, k)
    BY <1>6
  <1>. HIDE DEF i, k
  <1>8. /\ AtChild(X, c, i, t, a, x, b) /\ k \in 0..InfoFromStr(x).chars
        /\ ch = InfoFromStr(a).chars + k
        /\ Len(b) = 0 \/ k < InfoFromStr(x).chars
    BY <1>7 DEF Found
  <1>9. /\ <<c[i].node, x>> \in X /\ c[i].info = InfoFromStr(x) /\ t = a \o (x \o b)
        /\ Row(X, Before(c, i), a) /\ Row(X, After(c, i), b)
    BY <1>8 DEF AtChild
  <1>10. a \in Text /\ x \in Text /\ b \in Text
    BY <1>1, <1>9 DEF Row, IsText, Sound
  <1>11. InfoFromStr(a).chars \in Nat /\ InfoFromStr(x).chars \in Nat /\ k \in Nat
    <2>1. InfoFromStr(a).chars \in Nat /\ InfoFromStr(x).chars \in Nat
      BY <1>10, InfoTyped DEF TextInfo
    <2>. QED  BY <1>8, <2>1
  <1>12. k < InfoFromStr(x).chars
    <2>1. SUFFICES ASSUME Len(b) = 0 PROVE k < InfoFromStr(x).chars
      BY <1>8
    <2>2. x \o b = x
      BY <1>10, <2>1, EmptyText, ConcatEmptySeq DEF Text
    <2>3. InfoFromStr(t).chars = InfoFromStr(a).chars + InfoFromStr(x).chars
      BY <1>9, <1>10, <2>2, CharsOfConcat
    <2>. QED  BY <1>5, <1>8, <1>11, <2>3
  <1>13. CASE k = 0
    <2>1. ch = InfoFromStr(a).chars /\ SplitAtChild(c, i, k, parts) = SplitChildren(c, i - 1)
      BY <1>8, <1>11, <1>13 DEF SplitAtChild
    <2>2. i # 1
      <3>1. SUFFICES ASSUME i = 1 PROVE FALSE
        OBVIOUS
      <3>2. Before(c, i) = <<>>
        BY <1>2, <3>1, EndChildren DEF Row
      <3>3. a = <<>>
        BY <1>9, <3>2, RowOfNone
      <3>4. InfoFromStr(a).chars = 0
        BY <3>3, InfoOfNothing DEF InfoNew
      <3>. QED  BY <1>5, <2>1, <3>4
    <2>3. IsCut(Above(X), SplitChildren(c, i - 1), t, InfoFromStr(a).chars)
      BY <1>1, <1>2, <1>6, <1>8, <2>2, CutBetween
    <2>. QED  BY <1>1, <1>4, <2>1, <2>3 DEF ch
  <1>14. CASE k # 0
    <2>1. SplitAtChild(c, i, k, parts) = SplitAround(c, i, parts)
      BY <1>9, <1>11, <1>12, <1>14 DEF SplitAtChild
    <2>2. IsInside(k, x)
      BY <1>11, <1>12, <1>14 DEF IsInside
    <2>3. IsCut(X, parts, x, k)
      BY <1>3, <1>9, <2>2 DEF X
    <2>4. IsCut(Above(X), SplitAround(c, i, parts), t, InfoFromStr(a).chars + k)
      BY <1>1, <1>2, <1>6, <1>8, <2>3, CutAround
    <2>. QED  BY <1>1, <1>4, <1>8, <2>1, <2>4 DEF ch
  <1>. QED  BY <1>13, <1>14

\* f has the calls down to level m, and then the parts up to it.
SplitCalls(f, n, ch, m) ==
  f = [k \in 0..m |-> IF k = 0 THEN SplitCall(n, ch) ELSE SplitBelow(f[k - 1])]

SplitResults(f, call, h, m) ==
  f = [k \in 0..m |-> IF k = 0 THEN SplitLeafAt(call[h]) ELSE SplitAfter(call[h - k], f[k - 1])]

LEMMA SplitCallsExist ==
  ASSUME NEW n, NEW ch, NEW m \in Nat
  PROVE  \E f : SplitCalls(f, n, ch, m)
  <1>. DEFINE T == {k \in Nat : \E f : SplitCalls(f, n, ch, k)}
  <1>1. 0 \in T
    <2>. DEFINE f == [k \in 0..0 |-> SplitCall(n, ch)]
    <2>1. f = [k \in 0..0 |-> IF k = 0 THEN SplitCall(n, ch) ELSE SplitBelow(f[k - 1])]
      OBVIOUS
    <2>. QED  BY <2>1 DEF SplitCalls
  <1>2. ASSUME NEW j \in Nat, j \in T PROVE j + 1 \in T
    <2>1. PICK f : SplitCalls(f, n, ch, j)
      BY <1>2
    <2>. DEFINE b == SplitBelow(f[j])
                g == [k \in 0..(j + 1) |-> IF k = j + 1 THEN b ELSE f[k]]
    <2>2. ASSUME NEW k \in 0..(j + 1)
          PROVE  g[k] = IF k = 0 THEN SplitCall(n, ch) ELSE SplitBelow(g[k - 1])
      <3>1. CASE k = j + 1
        <4>1. g[k] = b /\ g[k - 1] = f[j] /\ k # 0
          BY <3>1
        <4>. QED  BY <3>1, <4>1
      <3>2. CASE k # j + 1
        <4>1. k \in 0..j /\ g[k] = f[k]
          BY <3>2
        <4>2. CASE k = 0
          BY <2>1, <4>1, <4>2 DEF SplitCalls
        <4>3. CASE k # 0
          <5>1. k - 1 \in 0..(j + 1) /\ k - 1 # j + 1
            BY <4>1, <4>3
          <5>2. g[k - 1] = f[k - 1]
            BY <5>1
          <5>. QED  BY <2>1, <4>1, <4>3, <5>2 DEF SplitCalls
        <4>. QED  BY <4>2, <4>3
      <3>. QED  BY <3>1, <3>2
    <2>3. g = [k \in 0..(j + 1) |-> IF k = 0 THEN SplitCall(n, ch) ELSE SplitBelow(g[k - 1])]
      BY <2>2
    <2>4. SplitCalls(g, n, ch, j + 1)
      BY <2>3 DEF SplitCalls
    <2>. QED  BY <2>4
  <1>3. Nat \subseteq T
    <2>. HIDE DEF T
    <2>. QED  BY <1>1, <1>2, SetInduction
  <1>. QED  BY <1>3

LEMMA SplitResultsExist ==
  ASSUME NEW call, NEW h \in Nat, NEW m \in Nat
  PROVE  \E f : SplitResults(f, call, h, m)
  <1>. DEFINE T == {k \in Nat : \E f : SplitResults(f, call, h, k)}
  <1>1. 0 \in T
    <2>. DEFINE f == [k \in 0..0 |-> SplitLeafAt(call[h])]
    <2>1. f = [k \in 0..0 |-> IF k = 0 THEN SplitLeafAt(call[h]) ELSE SplitAfter(call[h - k], f[k - 1])]
      OBVIOUS
    <2>. QED  BY <2>1 DEF SplitResults
  <1>2. ASSUME NEW j \in Nat, j \in T PROVE j + 1 \in T
    <2>1. PICK f : SplitResults(f, call, h, j)
      BY <1>2
    <2>. DEFINE b == SplitAfter(call[h - (j + 1)], f[j])
                g == [k \in 0..(j + 1) |-> IF k = j + 1 THEN b ELSE f[k]]
    <2>2. ASSUME NEW k \in 0..(j + 1)
          PROVE  g[k] = IF k = 0 THEN SplitLeafAt(call[h]) ELSE SplitAfter(call[h - k], g[k - 1])
      <3>1. CASE k = j + 1
        <4>1. g[k] = b /\ g[k - 1] = f[j] /\ k # 0
          BY <3>1
        <4>. QED  BY <3>1, <4>1
      <3>2. CASE k # j + 1
        <4>1. k \in 0..j /\ g[k] = f[k]
          BY <3>2
        <4>2. CASE k = 0
          BY <2>1, <4>1, <4>2 DEF SplitResults
        <4>3. CASE k # 0
          <5>1. k - 1 \in 0..(j + 1) /\ k - 1 # j + 1
            BY <4>1, <4>3
          <5>2. g[k - 1] = f[k - 1]
            BY <5>1
          <5>. QED  BY <2>1, <4>1, <4>3, <5>2 DEF SplitResults
        <4>. QED  BY <4>2, <4>3
      <3>. QED  BY <3>1, <3>2
    <2>3. g = [k \in 0..(j + 1) |-> IF k = 0 THEN SplitLeafAt(call[h]) ELSE SplitAfter(call[h - k], g[k - 1])]
      BY <2>2
    <2>4. SplitResults(g, call, h, j + 1)
      BY <2>3 DEF SplitResults
    <2>. QED  BY <2>4
  <1>3. Nat \subseteq T
    <2>. HIDE DEF T
    <2>. QED  BY <1>1, <1>2, SetInduction
  <1>. QED  BY <1>3

\* split, of every sound tree of any height, at a char strictly inside it: two sound
\* trees of the same height, with the chars before it and the others.
THEOREM SplitAlongRight ==
  ASSUME NEW h \in Nat, NEW n, NEW t, <<n, t>> \in Level[h], NEW ch, IsInside(ch, t)
  PROVE  IsCut(Level[h], SplitAlong(n, h, ch), t, ch)
  <1>. DEFINE call == CHOOSE f : SplitCalls(f, n, ch, h)
              result == CHOOSE f : SplitResults(f, call, h, h)
  <1>1. SplitAlong(n, h, ch) = result[h]
    BY DEF SplitAlong, SplitCalls, SplitResults
  <1>2. SplitCalls(call, n, ch, h)
    BY SplitCallsExist
  <1>. HIDE DEF call
  <1>3. SplitResults(result, call, h, h)
    BY SplitResultsExist
  <1>. HIDE DEF result
  <1>4. call[0] = SplitCall(n, ch) /\ result[0] = SplitLeafAt(call[h])
    BY <1>2, <1>3 DEF SplitCalls, SplitResults
  <1>5. ASSUME NEW k \in Nat, k < h
        PROVE  /\ result[k + 1] = SplitAfter(call[h - (k + 1)], result[k])
               /\ call[h - k] = SplitBelow(call[h - (k + 1)])
    <2>1. /\ k + 1 \in 0..h /\ k + 1 # 0 /\ (k + 1) - 1 = k
          /\ h - k \in 0..h /\ h - k # 0 /\ (h - k) - 1 = h - (k + 1)
      BY <1>5
    <2>2. result[k + 1] = SplitAfter(call[h - (k + 1)], result[(k + 1) - 1])
      BY <1>3, <2>1 DEF SplitResults
    <2>3. call[h - k] = SplitBelow(call[(h - k) - 1])
      BY <1>2, <2>1 DEF SplitCalls
    <2>. QED  BY <2>1, <2>2, <2>3
  <1>. DEFINE Done(k) == \A x : <<call[h - k].node, x>> \in Level[k] /\ IsInside(call[h - k].ch, x)
                           => IsCut(Level[k], result[k], x, call[h - k].ch)
              T == {k \in Nat : k <= h => Done(k)}
  <1>6. 0 \in T
    <2>1. h - 0 = h
      OBVIOUS
    <2>2. ASSUME NEW x, <<call[h].node, x>> \in Level[0], IsInside(call[h].ch, x)
          PROVE  IsCut(Level[0], SplitLeafAt(call[h]), x, call[h].ch)
      <3>1. <<call[h].node, x>> \in LeafLevel
        BY <2>2, LevelStep
      <3>2. call[h].node = Leaf(x) /\ <<Leaf(x), x>> \in LeafLevel
        BY <3>1, LeafMember
      <3>. DEFINE d == call[h].ch
      <3>3. SplitLeafAt(call[h]) = Leaves(CutAt(x, CharToByteIdx(x, d)))
        BY <3>2 DEF SplitLeafAt, Leaf
      <3>4. IsInside(d, x)
        BY <2>2
      <3>. HIDE DEF d
      <3>5. IsCut(LeafLevel, Leaves(CutAt(x, CharToByteIdx(x, d))), x, d)
        BY <3>2, <3>4, LeafCut
      <3>. QED  BY <3>3, <3>5, LevelStep DEF d
    <2>3. Done(0)
      BY <1>4, <2>1, <2>2
    <2>. QED  BY <2>3
  <1>7. ASSUME NEW k \in Nat, k \in T PROVE k + 1 \in T
    <2>. SUFFICES ASSUME k + 1 <= h PROVE Done(k + 1)
      OBVIOUS
    <2>1. k < h /\ k <= h
      OBVIOUS
    <2>. DEFINE above == call[h - (k + 1)]
                r == result[k]
    <2>2. result[k + 1] = SplitAfter(above, r) /\ call[h - k] = SplitBelow(above)
      BY <1>5, <2>1
    <2>3. \A x : <<SplitBelow(above).node, x>> \in Level[k] /\ IsInside(SplitBelow(above).ch, x)
                   => IsCut(Level[k], r, x, SplitBelow(above).ch)
      BY <1>7, <2>1, <2>2
    <2>. HIDE DEF above, r
    <2>4. ASSUME NEW x, <<above.node, x>> \in Level[k + 1], IsInside(above.ch, x)
          PROVE  IsCut(Level[k + 1], SplitAfter(above, r), x, above.ch)
      BY <2>3, <2>4, SplitNodeCut
    <2>. QED  BY <2>2, <2>4 DEF above
  <1>8. Nat \subseteq T
    <2>. HIDE DEF T
    <2>. QED  BY <1>6, <1>7, SetInduction
  <1>9. Done(h)
    BY <1>8
  <1>10. h - h = 0 /\ call[0].node = n /\ call[0].ch = ch
    BY <1>4 DEF SplitCall
  <1>. QED  BY <1>1, <1>9, <1>10
===============================================================================
