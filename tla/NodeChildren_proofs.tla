-------------------------- MODULE NodeChildren_proofs --------------------------
(***************************************************************************)
(* The child array of a node, for every sequence of children: what the     *)
(* searches return, what a split or a redistribution keeps, and that the   *)
(* summary a node keeps stays the sum of its children's when one of them   *)
(* has been edited.                                                        *)
(***************************************************************************)
EXTENDS NodeEdits_proofs

-----------------------------------------------------------------------------
(* The summary of the first children *)

\* Children of any kind, with a summary each.
AreKids(K) == \A k \in K : k.info \in TextInfo

LEMMA AddTyped ==
  ASSUME NEW x \in TextInfo, NEW y \in TextInfo
  PROVE  InfoAdd(x, y) \in TextInfo /\ InfoSub(x, y) \in TextInfo
  BY DEF InfoAdd, InfoSub, TextInfo

LEMMA NewTyped == InfoNew \in TextInfo
  BY DEF InfoNew, TextInfo

\* Adding up summaries: the order and the grouping are of no account, and
\* what is subtracted can be added again.
LEMMA AddRules ==
  ASSUME NEW x \in TextInfo, NEW y \in TextInfo, NEW z \in TextInfo
  PROVE  /\ InfoAdd(InfoNew, x) = x
         /\ InfoAdd(x, InfoNew) = x
         /\ InfoAdd(InfoAdd(x, y), z) = InfoAdd(x, InfoAdd(y, z))
         /\ InfoAdd(x, y) = InfoAdd(y, x)
         /\ InfoSub(InfoAdd(x, y), y) = x
  <1>1. /\ InfoAdd(InfoNew, x) \in TextInfo
        /\ InfoAdd(x, InfoNew) \in TextInfo
        /\ InfoAdd(InfoAdd(x, y), z) \in TextInfo
        /\ InfoAdd(x, InfoAdd(y, z)) \in TextInfo
        /\ InfoAdd(x, y) \in TextInfo
        /\ InfoAdd(y, x) \in TextInfo
        /\ InfoSub(InfoAdd(x, y), y) \in TextInfo
    BY AddTyped, NewTyped
  <1>2. x.bytes \in Int /\ x.chars \in Int /\ x.utf16 \in Int /\ x.line_breaks \in Int
    BY DEF TextInfo
  <1>3. y.bytes \in Int /\ y.chars \in Int /\ y.utf16 \in Int /\ y.line_breaks \in Int
    BY DEF TextInfo
  <1>4. z.bytes \in Int /\ z.chars \in Int /\ z.utf16 \in Int /\ z.line_breaks \in Int
    BY DEF TextInfo
  <1>5. InfoAdd(InfoNew, x) = x
    BY <1>1, <1>2, SameInfo DEF InfoAdd, InfoNew
  <1>6. InfoAdd(x, InfoNew) = x
    BY <1>1, <1>2, SameInfo DEF InfoAdd, InfoNew
  <1>7. InfoAdd(InfoAdd(x, y), z) = InfoAdd(x, InfoAdd(y, z))
    BY <1>2, <1>3, <1>4 DEF InfoAdd
  <1>8. InfoAdd(x, y) = InfoAdd(y, x)
    BY <1>2, <1>3 DEF InfoAdd
  <1>9. InfoSub(InfoAdd(x, y), y) = x
    BY <1>1, <1>2, <1>3, SameInfo DEF InfoAdd, InfoSub
  <1>. QED  BY <1>5, <1>6, <1>7, <1>8, <1>9

\* PrefixInfo adds one summary after the other.
LEMMA PrefixFacts ==
  ASSUME NEW K, AreKids(K), NEW c \in Seq(K)
  PROVE  /\ PrefixInfo(c, 0) = InfoNew
         /\ \A i \in 1..Len(c) : PrefixInfo(c, i) = InfoAdd(PrefixInfo(c, i - 1), c[i].info)
         /\ \A i \in 0..Len(c) : PrefixInfo(c, i) \in TextInfo
  <1>. DEFINE N == Len(c)
              F == [k \in 1..N |-> [x \in TextInfo |-> InfoAdd(x, c[k].info)]]
              s == CHOOSE s : s = [k \in 0..N |-> IF k = 0 THEN InfoNew ELSE InfoAdd(s[k - 1], c[k].info)]
  <1>1. N \in Nat /\ \A k \in 1..N : c[k] \in K
    BY LenProperties
  <1>2. \A k \in 1..N : c[k].info \in TextInfo
    BY <1>1 DEF AreKids
  <1>. HIDE DEF N
  <1>3. IsStep(F, N, TextInfo)
    BY <1>2, AddTyped DEF IsStep
  <1>4. \A k \in 1..N : \A x \in TextInfo : F[k][x] = InfoAdd(x, c[k].info)
    OBVIOUS
  <1>5. PICK g : Iterates(g, N, TextInfo, InfoNew, F)
    <2>. HIDE DEF F
    <2>. QED  BY <1>1, <1>3, NewTyped, Recursion
  <1>. HIDE DEF F
  <1>6. g \in [0..N -> TextInfo] /\ g[0] = InfoNew /\ \A n \in 1..N : g[n] = F[n][g[n - 1]]
    BY <1>5 DEF Iterates
  <1>7. \A n \in 1..N : g[n] = InfoAdd(g[n - 1], c[n].info)
    <2>. SUFFICES ASSUME NEW n \in 1..N PROVE g[n] = InfoAdd(g[n - 1], c[n].info)
      OBVIOUS
    <2>1. n - 1 \in 0..N
      BY <1>1
    <2>2. g[n - 1] \in TextInfo
      BY <1>6, <2>1
    <2>. QED  BY <1>4, <1>6, <2>2
  <1>8. g = [k \in 0..N |-> IF k = 0 THEN InfoNew ELSE InfoAdd(g[k - 1], c[k].info)]
    <2>. DEFINE h == [k \in 0..N |-> IF k = 0 THEN InfoNew ELSE InfoAdd(g[k - 1], c[k].info)]
    <2>1. \A k \in 0..N : g[k] = h[k]
      <3>. SUFFICES ASSUME NEW k \in 0..N PROVE g[k] = h[k]
        OBVIOUS
      <3>1. CASE k = 0
        BY <1>6, <3>1
      <3>2. CASE k # 0
        BY <1>1, <1>7, <3>2
      <3>. QED  BY <3>1, <3>2
    <2>. QED  BY <1>6, <2>1
  <1>9. s = [k \in 0..N |-> IF k = 0 THEN InfoNew ELSE InfoAdd(s[k - 1], c[k].info)]
    BY <1>8
  <1>10. \A i : PrefixInfo(c, i) = s[i]
    BY DEF PrefixInfo, N
  <1>. HIDE DEF s
  <1>11. s[0] = InfoNew /\ \A k \in 1..N : s[k] = InfoAdd(s[k - 1], c[k].info)
    BY <1>1, <1>9
  <1>12. \A i \in 0..N : s[i] \in TextInfo
    <2>. DEFINE T == {i \in 0..N : s[i] \in TextInfo}
    <2>1. 0 \in T
      BY <1>1, <1>11, NewTyped
    <2>2. \A n \in 0..N : n # N /\ n \in T => n + 1 \in T
      <3>. SUFFICES ASSUME NEW n \in 0..N, n # N, n \in T PROVE n + 1 \in T
        OBVIOUS
      <3>1. n + 1 \in 1..N /\ (n + 1) - 1 = n
        BY <1>1
      <3>2. s[n + 1] = InfoAdd(s[n], c[n + 1].info)
        BY <1>11, <3>1
      <3>3. s[n + 1] \in TextInfo
        BY <1>2, <3>1, <3>2, AddTyped
      <3>. QED  BY <3>1, <3>3
    <2>3. 0..N \subseteq T
      <3>. HIDE DEF T
      <3>. QED  BY <1>1, <2>1, <2>2, BoundedInduction
    <2>. QED  BY <2>3
  <1>. QED  BY <1>10, <1>11, <1>12 DEF N

LEMMA KidsFacts ==
  ASSUME NEW K, AreKids(K), NEW c \in Seq(K)
  PROVE  Len(c) \in Nat /\ \A i \in 1..Len(c) : c[i] \in K /\ c[i].info \in TextInfo
  BY LenProperties DEF AreKids

AgreeUpTo(c, d, n) == \A i \in 1..n : c[i] = d[i]

LEMMA PrefixSame ==
  ASSUME NEW K, AreKids(K), NEW c \in Seq(K), NEW d \in Seq(K), NEW n \in Nat,
         n <= Len(c), n <= Len(d), AgreeUpTo(c, d, n)
  PROVE  \A i \in 0..n : PrefixInfo(c, i) = PrefixInfo(d, i)
  <1>. DEFINE T == {i \in 0..n : PrefixInfo(c, i) = PrefixInfo(d, i)}
  <1>1. Len(c) \in Nat /\ Len(d) \in Nat
    BY KidsFacts
  <1>2. /\ PrefixInfo(c, 0) = InfoNew
        /\ \A i \in 1..Len(c) : PrefixInfo(c, i) = InfoAdd(PrefixInfo(c, i - 1), c[i].info)
    BY PrefixFacts
  <1>3. /\ PrefixInfo(d, 0) = InfoNew
        /\ \A i \in 1..Len(d) : PrefixInfo(d, i) = InfoAdd(PrefixInfo(d, i - 1), d[i].info)
    BY PrefixFacts
  <1>4. 0 \in T
    BY <1>2, <1>3
  <1>5. \A i \in 0..n : i # n /\ i \in T => i + 1 \in T
    <2>. SUFFICES ASSUME NEW i \in 0..n, i # n, i \in T PROVE i + 1 \in T
      OBVIOUS
    <2>1. i + 1 \in 1..n /\ i + 1 \in 1..Len(c) /\ i + 1 \in 1..Len(d) /\ (i + 1) - 1 = i
      BY <1>1
    <2>2. c[i + 1] = d[i + 1]
      BY <2>1 DEF AgreeUpTo
    <2>3. PrefixInfo(c, i + 1) = InfoAdd(PrefixInfo(c, i), c[i + 1].info)
      BY <1>2, <2>1
    <2>4. PrefixInfo(d, i + 1) = InfoAdd(PrefixInfo(d, i), d[i + 1].info)
      BY <1>3, <2>1
    <2>. QED  BY <2>1, <2>2, <2>3, <2>4
  <1>6. 0..n \subseteq T
    <2>. HIDE DEF T
    <2>. QED  BY <1>4, <1>5, BoundedInduction
  <1>. QED  BY <1>6

\* The summary of an array in two parts is the sum of theirs.
LEMMA CombinedConcat ==
  ASSUME NEW K, AreKids(K), NEW c \in Seq(K), NEW d \in Seq(K)
  PROVE  CombinedInfo(c \o d) = InfoAdd(CombinedInfo(c), CombinedInfo(d))
  <1>. DEFINE b == c \o d
              m == Len(c)
              n == Len(d)
              x == CombinedInfo(c)
              T == {j \in 0..n : PrefixInfo(b, m + j) = InfoAdd(x, PrefixInfo(d, j))}
  <1>1. b \in Seq(K) /\ Len(b) = m + n /\ \A i \in 1..(m + n) : b[i] = IF i <= m THEN c[i] ELSE d[i - m]
    BY ConcatProperties
  <1>2. m \in Nat /\ n \in Nat /\ \A i \in 1..n : d[i].info \in TextInfo
    BY KidsFacts
  <1>. HIDE DEF b
  <1>3. \A i \in 1..(m + n) : PrefixInfo(b, i) = InfoAdd(PrefixInfo(b, i - 1), b[i].info)
    BY <1>1, PrefixFacts
  <1>4. /\ PrefixInfo(d, 0) = InfoNew
        /\ \A i \in 1..n : PrefixInfo(d, i) = InfoAdd(PrefixInfo(d, i - 1), d[i].info)
        /\ \A i \in 0..n : PrefixInfo(d, i) \in TextInfo
    BY PrefixFacts
  <1>5. x \in TextInfo
    BY <1>2, PrefixFacts DEF CombinedInfo
  <1>6. PrefixInfo(b, m) = x
    <2>1. AgreeUpTo(b, c, m)
      BY <1>1, <1>2 DEF AgreeUpTo
    <2>2. m <= Len(b) /\ m <= Len(c)
      BY <1>1, <1>2
    <2>. HIDE DEF m
    <2>3. \A i \in 0..m : PrefixInfo(b, i) = PrefixInfo(c, i)
      BY <1>1, <1>2, <2>1, <2>2, PrefixSame
    <2>. QED  BY <1>2, <2>3 DEF CombinedInfo, m
  <1>. HIDE DEF x, m, n
  <1>7. 0 \in T
    <2>1. m + 0 = m
      BY <1>2
    <2>2. InfoAdd(x, InfoNew) = x
      BY <1>5, AddRules
    <2>. QED  BY <1>2, <1>4, <1>6, <2>1, <2>2
  <1>8. \A j \in 0..n : j # n /\ j \in T => j + 1 \in T
    <2>. SUFFICES ASSUME NEW j \in 0..n, j # n, j \in T PROVE j + 1 \in T
      OBVIOUS
    <2>. DEFINE k == m + j + 1
    <2>1. k \in 1..(m + n) /\ k - 1 = m + j /\ ~ (k <= m) /\ k - m = j + 1 /\ m + (j + 1) = k
          /\ j + 1 \in 1..n /\ (j + 1) - 1 = j
      BY <1>2
    <2>2. b[k] = d[j + 1]
      BY <1>1, <2>1
    <2>3. PrefixInfo(b, k) = InfoAdd(PrefixInfo(b, m + j), d[j + 1].info)
      BY <1>3, <2>1, <2>2
    <2>4. PrefixInfo(b, m + j) = InfoAdd(x, PrefixInfo(d, j))
      OBVIOUS
    <2>5. PrefixInfo(d, j + 1) = InfoAdd(PrefixInfo(d, j), d[j + 1].info)
      BY <1>4, <2>1
    <2>6. PrefixInfo(d, j) \in TextInfo /\ d[j + 1].info \in TextInfo
      BY <1>2, <1>4, <2>1
    <2>7. InfoAdd(InfoAdd(x, PrefixInfo(d, j)), d[j + 1].info) =
          InfoAdd(x, InfoAdd(PrefixInfo(d, j), d[j + 1].info))
      BY <1>5, <2>6, AddRules
    <2>. HIDE DEF k
    <2>8. PrefixInfo(b, m + (j + 1)) = InfoAdd(x, PrefixInfo(d, j + 1))
      BY <2>1, <2>3, <2>4, <2>5, <2>7
    <2>. QED  BY <2>1, <2>8
  <1>9. 0..n \subseteq T
    <2>. HIDE DEF T
    <2>. QED  BY <1>2, <1>7, <1>8, BoundedInduction
  <1>10. PrefixInfo(b, m + n) = InfoAdd(x, PrefixInfo(d, n))
    BY <1>2, <1>9
  <1>. QED  BY <1>1, <1>10 DEF CombinedInfo, b, m, n, x

LEMMA CombinedSingle ==
  ASSUME NEW K, AreKids(K), NEW k \in K
  PROVE  <<k>> \in Seq(K) /\ Len(<<k>>) = 1 /\ CombinedInfo(<<k>>) = k.info
  <1>. DEFINE c == <<k>>
  <1>1. c \in Seq(K) /\ Len(c) = 1 /\ c[1] = k
    OBVIOUS
  <1>2. k.info \in TextInfo
    BY DEF AreKids
  <1>. HIDE DEF c
  <1>3. PrefixInfo(c, 0) = InfoNew /\ PrefixInfo(c, 1) = InfoAdd(PrefixInfo(c, 0), c[1].info)
    BY <1>1, PrefixFacts
  <1>4. CombinedInfo(c) = k.info
    BY <1>1, <1>2, <1>3, AddRules DEF CombinedInfo
  <1>. QED  BY <1>1, <1>4 DEF c

\* A child among the others: what is before it, it, and what is after it.
LEMMA AroundChild ==
  ASSUME NEW K, NEW c \in Seq(K), NEW i \in 1..Len(c)
  PROVE  /\ SubSeq(c, 1, i - 1) \in Seq(K)
         /\ SubSeq(c, i + 1, Len(c)) \in Seq(K)
         /\ Len(SubSeq(c, 1, i - 1)) = i - 1
         /\ Len(SubSeq(c, i + 1, Len(c))) = Len(c) - i
         /\ \A k \in 1..(i - 1) : SubSeq(c, 1, i - 1)[k] = c[k]
         /\ \A k \in 1..(Len(c) - i) : SubSeq(c, i + 1, Len(c))[k] = c[i + k]
         /\ c = SubSeq(c, 1, i - 1) \o (<<c[i]>> \o SubSeq(c, i + 1, Len(c)))
  <1>. DEFINE n == Len(c)
              l == SubSeq(c, 1, i - 1)
              r == SubSeq(c, i + 1, n)
              m == <<c[i]>>
              d == l \o (m \o r)
  <1>1. n \in Nat /\ \A k \in 1..n : c[k] \in K
    BY LenProperties
  <1>. HIDE DEF n
  <1>2. l \in Seq(K) /\ Len(l) = i - 1 /\ \A k \in 1..(i - 1) : l[k] = c[k]
    <2>1. 1 \in Int /\ i - 1 \in Int /\ \A k \in 1..(i - 1) : c[k] \in K
      BY <1>1 DEF n
    <2>2. /\ l \in Seq(K)
          /\ Len(l) = IF 1 <= i - 1 THEN (i - 1) - 1 + 1 ELSE 0
          /\ \A k \in 1..((i - 1) - 1 + 1) : l[k] = c[1 + k - 1]
      BY <2>1, SubSeqProperties
    <2>. QED  BY <1>1, <2>2 DEF n
  <1>3. r \in Seq(K) /\ Len(r) = n - i /\ \A k \in 1..(n - i) : r[k] = c[i + k]
    <2>1. i + 1 \in Int /\ n \in Int /\ \A k \in (i + 1)..n : c[k] \in K
      BY <1>1 DEF n
    <2>2. /\ r \in Seq(K)
          /\ Len(r) = IF i + 1 <= n THEN n - (i + 1) + 1 ELSE 0
          /\ \A k \in 1..(n - (i + 1) + 1) : r[k] = c[(i + 1) + k - 1]
      BY <2>1, SubSeqProperties
    <2>. QED  BY <1>1, <2>2 DEF n
  <1>4. m \in Seq(K) /\ Len(m) = 1 /\ m[1] = c[i]
    BY <1>1 DEF n
  <1>. HIDE DEF l, r, m
  <1>5. /\ m \o r \in Seq(K)
        /\ Len(m \o r) = 1 + (n - i)
        /\ \A k \in 1..(1 + (n - i)) : (m \o r)[k] = IF k <= 1 THEN m[k] ELSE r[k - 1]
    <2>1. /\ m \o r \in Seq(K)
          /\ Len(m \o r) = Len(m) + Len(r)
          /\ \A k \in 1..(Len(m) + Len(r)) : (m \o r)[k] = IF k <= Len(m) THEN m[k] ELSE r[k - Len(m)]
      BY <1>3, <1>4, ConcatProperties
    <2>. QED  BY <2>1, <1>3, <1>4
  <1>. DEFINE q == m \o r
  <1>. HIDE DEF q
  <1>6. /\ d \in Seq(K)
        /\ Len(d) = (i - 1) + (1 + (n - i))
        /\ \A k \in 1..((i - 1) + (1 + (n - i))) : d[k] = IF k <= i - 1 THEN l[k] ELSE q[k - (i - 1)]
    <2>1. q \in Seq(K) /\ Len(q) = 1 + (n - i)
      BY <1>5 DEF q
    <2>2. /\ l \o q \in Seq(K)
          /\ Len(l \o q) = Len(l) + Len(q)
          /\ \A k \in 1..(Len(l) + Len(q)) : (l \o q)[k] = IF k <= Len(l) THEN l[k] ELSE q[k - Len(l)]
      BY <1>2, <2>1, ConcatProperties
    <2>3. d = l \o q
      BY DEF q
    <2>. QED  BY <2>1, <2>2, <2>3, <1>2
  <1>. HIDE DEF d
  <1>7. Len(d) = n /\ i \in 1..n
    BY <1>1, <1>6 DEF n
  <1>8. \A k \in 1..(1 + (n - i)) : q[k] = IF k <= 1 THEN m[k] ELSE r[k - 1]
    BY <1>5 DEF q
  <1>9. ASSUME NEW k \in 1..n PROVE c[k] = d[k]
    <2>0. k \in 1..((i - 1) + (1 + (n - i))) /\ i \in Int /\ n \in Int /\ k \in Int
      BY <1>1, <1>7
    <2>1. CASE k < i
      <3>1. k \in 1..(i - 1) /\ k <= i - 1
        BY <2>0, <2>1
      <3>. QED  BY <1>2, <1>6, <2>0, <3>1
    <2>2. CASE k = i
      <3>1. k - (i - 1) = 1 /\ ~ (k <= i - 1) /\ k \in 1..((i - 1) + (1 + (n - i)))
        BY <1>1, <1>7, <2>2
      <3>2. d[k] = q[1]
        BY <1>6, <3>1
      <3>3. q[1] = m[1]
        BY <1>1, <1>7, <1>8
      <3>. QED  BY <1>4, <2>2, <3>2, <3>3
    <2>3. CASE k > i
      <3>. DEFINE j == k - (i - 1)
      <3>1. j \in 1..(1 + (n - i)) /\ ~ (j <= 1) /\ ~ (k <= i - 1) /\ j - 1 = k - i
            /\ k - i \in 1..(n - i) /\ i + (k - i) = k /\ k \in 1..((i - 1) + (1 + (n - i)))
        BY <1>1, <1>7, <2>3
      <3>2. d[k] = q[j]
        BY <1>6, <3>1
      <3>. HIDE DEF j
      <3>3. d[k] = r[k - i]
        BY <1>8, <3>1, <3>2
      <3>. QED  BY <1>3, <3>1, <3>3
    <2>. QED  BY <1>7, <2>1, <2>2, <2>3
  <1>10. c = d
    BY <1>6, <1>7, <1>9, SeqEqual DEF n
  <1>. QED  BY <1>2, <1>3, <1>10 DEF d, l, m, r, n

\* Another child in the place of one.
Replaced(d, c, i, x, K) ==
  /\ d \in Seq(K)
  /\ Len(d) = Len(c)
  /\ CombinedInfo(d) = InfoAdd(InfoSub(CombinedInfo(c), c[i].info), x.info)

LEMMA SumAround ==
  ASSUME NEW a \in TextInfo, NEW b \in TextInfo, NEW x \in TextInfo, NEW y \in TextInfo
  PROVE  InfoAdd(a, InfoAdd(y, b)) = InfoAdd(InfoSub(InfoAdd(a, InfoAdd(x, b)), x), y)
  BY DEF InfoAdd, InfoSub, TextInfo

LEMMA SumBetween ==
  ASSUME NEW a \in TextInfo, NEW b \in TextInfo, NEW x \in TextInfo
  PROVE  InfoAdd(InfoAdd(a, x), b) = InfoAdd(InfoAdd(a, b), x)
  BY DEF InfoAdd, TextInfo

LEMMA CombinedAround ==
  ASSUME NEW K, AreKids(K), NEW c \in Seq(K), NEW i \in 1..Len(c)
  PROVE  CombinedInfo(c) = InfoAdd(CombinedInfo(SubSeq(c, 1, i - 1)),
                              InfoAdd(c[i].info, CombinedInfo(SubSeq(c, i + 1, Len(c)))))
  <1>. DEFINE l == SubSeq(c, 1, i - 1)
              r == SubSeq(c, i + 1, Len(c))
              m == <<c[i]>>
              q == m \o r
  <1>1. l \in Seq(K) /\ r \in Seq(K) /\ c = l \o q
    BY AroundChild
  <1>2. c[i] \in K
    BY KidsFacts
  <1>3. m \in Seq(K) /\ CombinedInfo(m) = c[i].info
    BY <1>2, CombinedSingle
  <1>. HIDE DEF l, r, m
  <1>4. q \in Seq(K)
    BY <1>1, <1>3, ConcatProperties
  <1>5. CombinedInfo(q) = InfoAdd(CombinedInfo(m), CombinedInfo(r))
    BY <1>1, <1>3, CombinedConcat
  <1>. HIDE DEF q
  <1>6. CombinedInfo(l \o q) = InfoAdd(CombinedInfo(l), CombinedInfo(q))
    BY <1>1, <1>4, CombinedConcat
  <1>. QED  BY <1>1, <1>3, <1>5, <1>6 DEF l, r

LEMMA CombinedTyped ==
  ASSUME NEW K, AreKids(K), NEW c \in Seq(K)
  PROVE  CombinedInfo(c) \in TextInfo
  BY KidsFacts, PrefixFacts DEF CombinedInfo

LEMMA SetChild ==
  ASSUME NEW K, AreKids(K), NEW c \in Seq(K), NEW i \in 1..Len(c), NEW x \in K
  PROVE  Replaced([c EXCEPT ![i] = x], c, i, x, K)
  <1>. DEFINE d == [c EXCEPT ![i] = x]
              n == Len(c)
              l == SubSeq(c, 1, i - 1)
              r == SubSeq(c, i + 1, n)
              ld == SubSeq(d, 1, i - 1)
              rd == SubSeq(d, i + 1, Len(d))
  <1>1. d \in Seq(K) /\ Len(d) = n /\ d[i] = x /\ \A k \in 1..n : k # i => d[k] = c[k]
    BY LenProperties
  <1>2. n \in Nat /\ i \in 1..n
    BY KidsFacts
  <1>. HIDE DEF d
  <1>3. /\ l \in Seq(K) /\ Len(l) = i - 1 /\ \A k \in 1..(i - 1) : l[k] = c[k]
        /\ r \in Seq(K) /\ Len(r) = n - i /\ \A k \in 1..(n - i) : r[k] = c[i + k]
    BY AroundChild
  <1>4. i \in 1..Len(d)
    BY <1>1
  <1>5. /\ ld \in Seq(K) /\ Len(ld) = i - 1 /\ \A k \in 1..(i - 1) : ld[k] = d[k]
        /\ rd \in Seq(K) /\ Len(rd) = Len(d) - i /\ \A k \in 1..(Len(d) - i) : rd[k] = d[i + k]
    BY <1>1, <1>4, AroundChild
  <1>6. CombinedInfo(c) = InfoAdd(CombinedInfo(l), InfoAdd(c[i].info, CombinedInfo(r)))
    BY CombinedAround
  <1>7. CombinedInfo(d) = InfoAdd(CombinedInfo(ld), InfoAdd(d[i].info, CombinedInfo(rd)))
    BY <1>1, <1>4, CombinedAround
  <1>. HIDE DEF l, r, ld, rd, n
  <1>8. l = ld
    <2>1. \A k \in 1..(i - 1) : k \in 1..n /\ k # i
      BY <1>2
    <2>2. \A k \in 1..Len(l) : l[k] = ld[k]
      BY <1>1, <1>3, <1>5, <2>1
    <2>. QED  BY <1>3, <1>5, <2>2, SeqEqual
  <1>9. r = rd
    <2>1. \A k \in 1..(n - i) : i + k \in 1..n /\ i + k # i
      BY <1>2
    <2>2. \A k \in 1..Len(r) : r[k] = rd[k]
      BY <1>1, <1>3, <1>5, <2>1
    <2>. QED  BY <1>1, <1>3, <1>5, <2>2, SeqEqual
  <1>10. CombinedInfo(l) \in TextInfo /\ CombinedInfo(r) \in TextInfo
    BY <1>3, CombinedTyped
  <1>11. c[i].info \in TextInfo /\ x.info \in TextInfo
    BY KidsFacts DEF AreKids
  <1>12. CombinedInfo(d) = InfoAdd(InfoSub(CombinedInfo(c), c[i].info), x.info)
    <2>. DEFINE a == CombinedInfo(l)
                b == CombinedInfo(r)
                y == c[i].info
                z == x.info
    <2>1. CombinedInfo(c) = InfoAdd(a, InfoAdd(y, b)) /\ CombinedInfo(d) = InfoAdd(a, InfoAdd(z, b))
      BY <1>1, <1>6, <1>7, <1>8, <1>9
    <2>2. a \in TextInfo /\ b \in TextInfo /\ y \in TextInfo /\ z \in TextInfo
      BY <1>10, <1>11
    <2>. HIDE DEF a, b, y, z
    <2>3. InfoAdd(a, InfoAdd(z, b)) = InfoAdd(InfoSub(InfoAdd(a, InfoAdd(y, b)), y), z)
      BY <2>2, SumAround
    <2>. QED  BY <2>1, <2>3 DEF y, z
  <1>. QED  BY <1>1, <1>12 DEF Replaced, d, n

\* One child more.
Inserted(d, c, i, x, K) ==
  /\ d \in Seq(K)
  /\ Len(d) = Len(c) + 1
  /\ CombinedInfo(d) = InfoAdd(CombinedInfo(c), x.info)

\* The two parts of an array.
LEMMA CutChildren ==
  ASSUME NEW K, NEW c \in Seq(K), NEW i \in 0..Len(c)
  PROVE  /\ SubSeq(c, 1, i) \in Seq(K) /\ Len(SubSeq(c, 1, i)) = i
         /\ SubSeq(c, i + 1, Len(c)) \in Seq(K) /\ Len(SubSeq(c, i + 1, Len(c))) = Len(c) - i
         /\ SubSeq(c, 1, i) \o SubSeq(c, i + 1, Len(c)) = c
  <1>1. /\ Slice(c, 0, i) \in Seq(K) /\ Len(Slice(c, 0, i)) = i
        /\ From(c, i) \in Seq(K) /\ Len(From(c, i)) = Len(c) - i
        /\ Slice(c, 0, i) \o From(c, i) = c
    BY CutFacts
  <1>2. Slice(c, 0, i) = SubSeq(c, 1, i) /\ From(c, i) = SubSeq(c, i + 1, Len(c))
    BY DEF Slice, From
  <1>. QED  BY <1>1, <1>2

LEMMA InsertAtFacts ==
  ASSUME NEW K, AreKids(K), NEW c \in Seq(K), NEW i \in 1..(Len(c) + 1), NEW x \in K
  PROVE  Inserted(InsertAt(c, i, x), c, i, x, K)
  <1>. DEFINE n == Len(c)
              l == SubSeq(c, 1, i - 1)
              r == SubSeq(c, i, n)
              m == <<x>>
              q == l \o m
              d == q \o r
  <1>1. n \in Nat
    BY KidsFacts
  <1>2. /\ l \in Seq(K) /\ Len(l) = i - 1
        /\ r \in Seq(K) /\ Len(r) = n - (i - 1)
        /\ l \o r = c
    <2>. DEFINE j == i - 1
    <2>1. j \in 0..Len(c) /\ j + 1 = i
      BY <1>1
    <2>. HIDE DEF j
    <2>2. /\ SubSeq(c, 1, j) \in Seq(K) /\ Len(SubSeq(c, 1, j)) = j
          /\ SubSeq(c, j + 1, Len(c)) \in Seq(K) /\ Len(SubSeq(c, j + 1, Len(c))) = Len(c) - j
          /\ SubSeq(c, 1, j) \o SubSeq(c, j + 1, Len(c)) = c
      BY <2>1, CutChildren
    <2>. QED  BY <2>1, <2>2 DEF j
  <1>3. m \in Seq(K) /\ Len(m) = 1 /\ CombinedInfo(m) = x.info
    BY CombinedSingle
  <1>. HIDE DEF l, r, m, n
  <1>4. q \in Seq(K) /\ Len(q) = (i - 1) + 1
    <2>1. q \in Seq(K) /\ Len(q) = Len(l) + Len(m)
      BY <1>2, <1>3, ConcatProperties
    <2>. QED  BY <1>2, <1>3, <2>1
  <1>5. CombinedInfo(q) = InfoAdd(CombinedInfo(l), CombinedInfo(m))
    BY <1>2, <1>3, CombinedConcat
  <1>. HIDE DEF q
  <1>6. d \in Seq(K) /\ Len(d) = Len(q) + Len(r)
    BY <1>2, <1>4, ConcatProperties
  <1>7. CombinedInfo(d) = InfoAdd(CombinedInfo(q), CombinedInfo(r))
    BY <1>2, <1>4, CombinedConcat
  <1>8. CombinedInfo(c) = InfoAdd(CombinedInfo(l), CombinedInfo(r))
    BY <1>2, CombinedConcat
  <1>9. CombinedInfo(l) \in TextInfo /\ CombinedInfo(r) \in TextInfo /\ x.info \in TextInfo
    BY <1>2, CombinedTyped DEF AreKids
  <1>10. InfoAdd(InfoAdd(CombinedInfo(l), x.info), CombinedInfo(r)) =
         InfoAdd(InfoAdd(CombinedInfo(l), CombinedInfo(r)), x.info)
    <2>. DEFINE a == CombinedInfo(l)
                b == CombinedInfo(r)
                z == x.info
    <2>1. a \in TextInfo /\ b \in TextInfo /\ z \in TextInfo
      BY <1>9
    <2>. HIDE DEF a, b, z
    <2>2. InfoAdd(InfoAdd(a, z), b) = InfoAdd(InfoAdd(a, b), z)
      BY <2>1, SumBetween
    <2>. QED  BY <2>2 DEF a, b, z
  <1>11. InsertAt(c, i, x) = d
    BY DEF InsertAt, d, q, l, m, r, n
  <1>12. Len(d) = n + 1
    BY <1>1, <1>2, <1>4, <1>6
  <1>. HIDE DEF d
  <1>. QED  BY <1>3, <1>5, <1>6, <1>7, <1>8, <1>10, <1>11, <1>12 DEF Inserted, n

-----------------------------------------------------------------------------
(* Searches *)

\* The least number from "from" up to n - 1 in T, n when there is none.
LeastOrLast(T, from, n) ==
  LET hits == {i \in from..(n - 1) : i \in T}
  IN  IF hits = {} THEN n ELSE Min(hits)

IsLeastOrLast(j, T, from, n) ==
  /\ j \in from..n
  /\ \A k \in from..(j - 1) : k \notin T
  /\ j = n \/ j \in T

LEMMA LeastOrLastFacts ==
  ASSUME NEW T, NEW n \in Nat, NEW from \in 1..n
  PROVE  IsLeastOrLast(LeastOrLast(T, from, n), T, from, n)
  <1>. DEFINE hits == {i \in from..(n - 1) : i \in T}
  <1>1. hits \in SUBSET Nat
    OBVIOUS
  <1>2. LeastOrLast(T, from, n) = IF hits = {} THEN n ELSE Min(hits)
    BY DEF LeastOrLast
  <1>3. CASE hits = {}
    <2>1. \A k \in from..(n - 1) : k \notin T
      BY <1>3
    <2>. QED  BY <1>2, <1>3, <2>1 DEF IsLeastOrLast
  <1>4. CASE hits # {}
    <2>. DEFINE j == Min(hits)
    <2>1. j \in hits /\ \A x \in hits : j <= x
      <3>. HIDE DEF hits
      <3>. QED  BY <1>1, <1>4, MinFacts
    <2>. HIDE DEF j
    <2>2. j \in from..n /\ j \in T /\ j \in from..(n - 1)
      BY <2>1
    <2>3. \A k \in from..(j - 1) : k \notin T
      <3>. SUFFICES ASSUME NEW k \in from..(j - 1), k \in T PROVE FALSE
        OBVIOUS
      <3>1. k \in hits
        BY <2>2
      <3>. QED  BY <2>1, <2>2, <3>1
    <2>4. LeastOrLast(T, from, n) = j
      BY <1>2, <1>4 DEF j
    <2>. QED  BY <2>2, <2>3, <2>4 DEF IsLeastOrLast
  <1>. QED  BY <1>3, <1>4

\* search_byte_idx: the child found is the one that holds byte b, the last one
\* when b is past the end.
THEOREM SearchByteIdxRight ==
  ASSUME NEW K, AreKids(K), NEW c \in Seq(K), c # <<>>, NEW b \in Nat
  PROVE  LET i == SearchByteIdx(c, b)
         IN  /\ i \in 1..Len(c)
             /\ PrefixInfo(c, i - 1).bytes <= b
             /\ i = Len(c) \/ b < PrefixInfo(c, i).bytes
  <1>. DEFINE n == Len(c)
              T == {k \in 1..n : b < PrefixInfo(c, k).bytes}
              i == SearchByteIdx(c, b)
  <1>1. n \in Nat /\ 1 \in 1..n
    BY EmptySeq, KidsFacts
  <1>2. PrefixInfo(c, 0).bytes = 0 /\ \A k \in 0..n : PrefixInfo(c, k).bytes \in Int
    BY PrefixFacts DEF InfoNew, TextInfo
  <1>3. i = LeastOrLast(T, 1, n)
    <2>1. {k \in 1..(n - 1) : b < PrefixInfo(c, k).bytes} = {k \in 1..(n - 1) : k \in T}
      BY <1>1
    <2>. QED  BY <2>1 DEF SearchByteIdx, FirstChild, LeastOrLast
  <1>. HIDE DEF n, T, i
  <1>4. IsLeastOrLast(i, T, 1, n)
    BY <1>1, <1>3, LeastOrLastFacts
  <1>5. i \in 1..n /\ (\A k \in 1..(i - 1) : k \notin T) /\ (i = n \/ i \in T)
    BY <1>4 DEF IsLeastOrLast
  <1>6. PrefixInfo(c, i - 1).bytes <= b
    <2>1. CASE i = 1
      BY <1>2, <2>1
    <2>2. CASE i # 1
      <3>1. i - 1 \in 1..(i - 1) /\ i - 1 \in 1..n /\ i - 1 \in 0..n
        BY <1>1, <1>5, <2>2
      <3>2. ~ (b < PrefixInfo(c, i - 1).bytes)
        BY <1>5, <3>1 DEF T
      <3>. QED  BY <1>2, <3>1, <3>2
    <2>. QED  BY <2>1, <2>2
  <1>7. i = n \/ b < PrefixInfo(c, i).bytes
    BY <1>5 DEF T
  <1>. QED  BY <1>5, <1>6, <1>7 DEF n, i

\* search_char_idx: the same for a char.
THEOREM SearchCharIdxRight ==
  ASSUME NEW K, AreKids(K), NEW c \in Seq(K), c # <<>>, NEW ch \in Nat
  PROVE  LET i == SearchCharIdx(c, ch)
         IN  /\ i \in 1..Len(c)
             /\ PrefixInfo(c, i - 1).chars <= ch
             /\ i = Len(c) \/ ch < PrefixInfo(c, i).chars
  <1>. DEFINE n == Len(c)
              T == {k \in 1..n : ch < PrefixInfo(c, k).chars}
              i == SearchCharIdx(c, ch)
  <1>1. n \in Nat /\ 1 \in 1..n
    BY EmptySeq, KidsFacts
  <1>2. PrefixInfo(c, 0).chars = 0 /\ \A k \in 0..n : PrefixInfo(c, k).chars \in Int
    BY PrefixFacts DEF InfoNew, TextInfo
  <1>3. i = LeastOrLast(T, 1, n)
    <2>1. {k \in 1..(n - 1) : ch < PrefixInfo(c, k).chars} = {k \in 1..(n - 1) : k \in T}
      BY <1>1
    <2>. QED  BY <2>1 DEF SearchCharIdx, FirstChild, LeastOrLast
  <1>. HIDE DEF n, T, i
  <1>4. IsLeastOrLast(i, T, 1, n)
    BY <1>1, <1>3, LeastOrLastFacts
  <1>5. i \in 1..n /\ (\A k \in 1..(i - 1) : k \notin T) /\ (i = n \/ i \in T)
    BY <1>4 DEF IsLeastOrLast
  <1>6. PrefixInfo(c, i - 1).chars <= ch
    <2>1. CASE i = 1
      BY <1>2, <2>1
    <2>2. CASE i # 1
      <3>1. i - 1 \in 1..(i - 1) /\ i - 1 \in 1..n /\ i - 1 \in 0..n
        BY <1>1, <1>5, <2>2
      <3>2. ~ (ch < PrefixInfo(c, i - 1).chars)
        BY <1>5, <3>1 DEF T
      <3>. QED  BY <1>2, <3>1, <3>2
    <2>. QED  BY <2>1, <2>2
  <1>7. i = n \/ ch < PrefixInfo(c, i).chars
    BY <1>5 DEF T
  <1>. QED  BY <1>5, <1>6, <1>7 DEF n, i

\* search_char_idx_range: for a range of chars that is not empty and not past
\* the end, the first child is the one with its first char, the second the one
\* with its last char, and the two are in order.  (remove_char_range works on
\* the children between them as wholes.)
THEOREM SearchCharIdxRangeRight ==
  ASSUME NEW K, AreKids(K), NEW c \in Seq(K), c # <<>>,
         NEW s \in Nat, NEW e \in Nat, s < e, e <= CombinedInfo(c).chars
  PROVE  LET l == SearchCharIdxRange(c, s, e)[1]
             r == SearchCharIdxRange(c, s, e)[2]
         IN  /\ l \in 1..Len(c) /\ r \in l..Len(c)
             /\ PrefixInfo(c, l - 1).chars <= s /\ s < PrefixInfo(c, l).chars
             /\ PrefixInfo(c, r - 1).chars < e /\ e <= PrefixInfo(c, r).chars
  <1>. DEFINE n == Len(c)
              T == {k \in 1..n : e <= PrefixInfo(c, k).chars}
              l == SearchCharIdxRange(c, s, e)[1]
              r == SearchCharIdxRange(c, s, e)[2]
  <1>1. n \in Nat /\ \A k \in 0..n : PrefixInfo(c, k).chars \in Int
    BY KidsFacts, PrefixFacts DEF TextInfo
  <1>2. e <= PrefixInfo(c, n).chars
    BY DEF CombinedInfo
  <1>3. l = SearchCharIdx(c, s)
    BY DEF SearchCharIdxRange
  <1>4. /\ l \in 1..n
        /\ PrefixInfo(c, l - 1).chars <= s
        /\ l = n \/ s < PrefixInfo(c, l).chars
    BY <1>3, SearchCharIdxRight
  <1>5. r = LeastOrLast(T, l, n)
    <2>1. {k \in l..(n - 1) : e <= PrefixInfo(c, k).chars} = {k \in l..(n - 1) : k \in T}
      BY <1>1, <1>4
    <2>. QED  BY <1>3, <2>1 DEF SearchCharIdxRange, FirstChild, LeastOrLast
  <1>. HIDE DEF n, T, l, r
  <1>6. IsLeastOrLast(r, T, l, n)
    BY <1>1, <1>4, <1>5, LeastOrLastFacts
  <1>7. r \in l..n /\ (\A k \in l..(r - 1) : k \notin T) /\ (r = n \/ r \in T)
    BY <1>6 DEF IsLeastOrLast
  <1>8. s < PrefixInfo(c, l).chars
    <2>1. l \in 0..n
      BY <1>1, <1>4
    <2>2. PrefixInfo(c, l).chars \in Int
      BY <1>1, <2>1
    <2>3. CASE l = n
      BY <1>2, <2>2, <2>3
    <2>. QED  BY <1>4, <2>3
  <1>9. e <= PrefixInfo(c, r).chars
    BY <1>2, <1>7 DEF T
  <1>10. PrefixInfo(c, r - 1).chars < e
    <2>0. r - 1 \in 0..n /\ l - 1 \in 0..n
      BY <1>1, <1>4, <1>7
    <2>a. PrefixInfo(c, r - 1).chars \in Int
      BY <1>1, <2>0
    <2>1. CASE r = l
      BY <1>4, <2>1, <2>a
    <2>2. CASE r # l
      <3>1. r - 1 \in l..(r - 1) /\ r - 1 \in 1..n
        BY <1>1, <1>4, <1>7, <2>2
      <3>2. ~ (e <= PrefixInfo(c, r - 1).chars)
        BY <1>7, <3>1 DEF T
      <3>. QED  BY <2>a, <3>2
    <2>. QED  BY <2>1, <2>2
  <1>. QED  BY <1>4, <1>7, <1>8, <1>9, <1>10 DEF n, l, r

\* search_line_break_idx: the child found is the one after whose end the first l
\* line breaks have been seen, for the first time.
THEOREM SearchLineBreakIdxRight ==
  ASSUME NEW K, AreKids(K), NEW c \in Seq(K), c # <<>>, NEW b \in Nat
  PROVE  LET i == SearchLineBreakIdx(c, b)
         IN  /\ i \in 1..Len(c)
             /\ i = 1 \/ PrefixInfo(c, i - 1).line_breaks < b
             /\ i = Len(c) \/ b <= PrefixInfo(c, i).line_breaks
  <1>. DEFINE n == Len(c)
              T == {k \in 1..n : b <= PrefixInfo(c, k).line_breaks}
              i == SearchLineBreakIdx(c, b)
  <1>1. n \in Nat /\ 1 \in 1..n
    BY EmptySeq, KidsFacts
  <1>2. \A k \in 0..n : PrefixInfo(c, k).line_breaks \in Int
    BY PrefixFacts DEF TextInfo
  <1>3. i = LeastOrLast(T, 1, n)
    <2>1. {k \in 1..(n - 1) : b <= PrefixInfo(c, k).line_breaks} = {k \in 1..(n - 1) : k \in T}
      BY <1>1
    <2>. QED  BY <2>1 DEF SearchLineBreakIdx, FirstChild, LeastOrLast
  <1>. HIDE DEF n, T, i
  <1>4. IsLeastOrLast(i, T, 1, n)
    BY <1>1, <1>3, LeastOrLastFacts
  <1>5. i \in 1..n /\ (\A k \in 1..(i - 1) : k \notin T) /\ (i = n \/ i \in T)
    BY <1>4 DEF IsLeastOrLast
  <1>6. i = 1 \/ PrefixInfo(c, i - 1).line_breaks < b
    <2>1. CASE i = 1
      BY <2>1
    <2>2. CASE i # 1
      <3>1. i - 1 \in 1..(i - 1) /\ i - 1 \in 1..n /\ i - 1 \in 0..n
        BY <1>1, <1>5, <2>2
      <3>2. ~ (b <= PrefixInfo(c, i - 1).line_breaks)
        BY <1>5, <3>1 DEF T
      <3>. QED  BY <1>2, <3>1, <3>2
    <2>. QED  BY <2>1, <2>2
  <1>7. i = n \/ b <= PrefixInfo(c, i).line_breaks
    BY <1>5 DEF T
  <1>. QED  BY <1>5, <1>6, <1>7 DEF n, i

-----------------------------------------------------------------------------
(* Moving children between arrays *)

LEMMA ChildBounds ==
  /\ MAX_CHILDREN \in Nat /\ MAX_CHILDREN >= 3
  /\ MIN_CHILDREN = MAX_CHILDREN \div 2 /\ MIN_CHILDREN \in Nat
  BY ChildBoundsAssumption

\* Two arrays that hold the children c, each of a size the tree allows.
Halves(h, c, K) ==
  /\ h[1] \in Seq(K) /\ h[2] \in Seq(K)
  /\ h[1] \o h[2] = c
  /\ Len(h[1]) \in MIN_CHILDREN..MAX_CHILDREN
  /\ Len(h[2]) \in MIN_CHILDREN..MAX_CHILDREN

\* distribute: when two arrays cannot be merged in one, each of the two that take
\* their place has room, and none is undersized.
THEOREM DistributeRight ==
  ASSUME NEW K, NEW l \in Seq(K), NEW r \in Seq(K),
         Len(l) <= MAX_CHILDREN, Len(r) <= MAX_CHILDREN, Len(l) + Len(r) > MAX_CHILDREN
  PROVE  Halves(DistributeWith(l, r), l \o r, K)
  <1>. DEFINE c == l \o r
              n == Len(l) + Len(r)
              i == n - (n \div 2)
  <1>1. c \in Seq(K) /\ Len(c) = n
    BY ConcatProperties
  <1>2. n \in Nat /\ n > MAX_CHILDREN /\ n <= 2 * MAX_CHILDREN
    BY LenProperties, ChildBounds
  <1>3. DistributeWith(l, r) = <<SubSeq(c, 1, i), SubSeq(c, i + 1, Len(c))>>
    <2>. DEFINE half == (Len(l) + Len(r)) \div 2
                j == Len(l) + Len(r) - half
    <2>1. DistributeWith(l, r) = <<SubSeq(c, 1, j), SubSeq(c, j + 1, Len(c))>>
      BY Zenon DEF DistributeWith, SplitOffChildren
    <2>2. Len(l) \in Nat /\ Len(r) \in Nat /\ half \in Int
      BY LenProperties
    <2>3. j = (Len(l) + Len(r)) - half
      <3>. HIDE DEF half
      <3>. QED  BY <2>2
    <2>4. j = i
      BY Zenon, <2>3
    <2>. QED  BY Zenon, <2>1, <2>4
  <1>. HIDE DEF c, n
  <1>4. i \in 0..n /\ i \in MIN_CHILDREN..MAX_CHILDREN /\ n - i \in MIN_CHILDREN..MAX_CHILDREN
    BY <1>2, ChildBounds
  <1>. HIDE DEF i
  <1>5. /\ SubSeq(c, 1, i) \in Seq(K) /\ Len(SubSeq(c, 1, i)) = i
        /\ SubSeq(c, i + 1, Len(c)) \in Seq(K) /\ Len(SubSeq(c, i + 1, Len(c))) = Len(c) - i
        /\ SubSeq(c, 1, i) \o SubSeq(c, i + 1, Len(c)) = c
    BY <1>1, <1>4, CutChildren
  <1>6. Halves(<<SubSeq(c, 1, i), SubSeq(c, i + 1, Len(c))>>, c, K)
    BY <1>1, <1>4, <1>5 DEF Halves
  <1>. QED  BY <1>3, <1>6 DEF c

\* push_split, of a full array.
LEMMA PushSplitRight ==
  ASSUME NEW K, NEW c \in Seq(K), Len(c) = MAX_CHILDREN, NEW x \in K
  PROVE  Halves(PushSplit(c, x), Append(c, x), K)
  <1>. DEFINE i == (Len(c) + 1) - ((Len(c) + 1) \div 2)
              a == SubSeq(c, 1, i)
              b == SubSeq(c, i + 1, Len(c))
              m == <<x>>
  <1>1. i \in 0..Len(c) /\ i \in MIN_CHILDREN..MAX_CHILDREN
        /\ (Len(c) - i) + 1 \in MIN_CHILDREN..MAX_CHILDREN /\ Len(c) - i \in Nat
    BY ChildBounds
  <1>2. PushSplit(c, x) = <<a, Append(b, x)>>
    BY DEF PushSplit
  <1>. HIDE DEF i
  <1>3. a \in Seq(K) /\ Len(a) = i /\ b \in Seq(K) /\ Len(b) = Len(c) - i /\ a \o b = c
    BY <1>1, CutChildren
  <1>4. m \in Seq(K)
    OBVIOUS
  <1>. HIDE DEF a, b
  <1>5. Append(b, x) \in Seq(K) /\ Len(Append(b, x)) = (Len(c) - i) + 1
    BY <1>3, AppendProperties
  <1>6. Append(b, x) = b \o m /\ Append(c, x) = c \o m
    BY <1>3, AppendIsConcat
  <1>7. a \o Append(b, x) = Append(c, x)
    <2>. HIDE DEF m
    <2>0. \A s, t, u \in Seq(K) : (s \o t) \o u = s \o (t \o u)
      BY SMTT(60), ConcatAssociative
    <2>1. a \o (b \o m) = (a \o b) \o m
      BY ZenonT(60), <1>3, <1>4, <2>0
    <2>. QED  BY <1>3, <1>6, <2>1
  <1>8. Halves(<<a, Append(b, x)>>, Append(c, x), K)
    BY <1>1, <1>3, <1>5, <1>7 DEF Halves
  <1>. QED  BY <1>2, <1>8

InsertedElem(c, i, x, k) == IF k < i THEN c[k] ELSE IF k = i THEN x ELSE c[k - 1]

LEMMA InsertAtElems ==
  ASSUME NEW K, NEW c \in Seq(K), NEW i \in 1..(Len(c) + 1), NEW x \in K
  PROVE  /\ InsertAt(c, i, x) \in Seq(K)
         /\ Len(InsertAt(c, i, x)) = Len(c) + 1
         /\ \A k \in 1..(Len(c) + 1) : InsertAt(c, i, x)[k] = InsertedElem(c, i, x, k)
  <1>. DEFINE n == Len(c)
              l == SubSeq(c, 1, i - 1)
              r == SubSeq(c, i, n)
              m == <<x>>
              q == l \o m
              d == q \o r
  <1>1. n \in Nat /\ \A k \in 1..n : c[k] \in K
    BY LenProperties
  <1>2. l \in Seq(K) /\ Len(l) = i - 1 /\ \A k \in 1..(i - 1) : l[k] = c[k]
    <2>1. 1 \in Int /\ i - 1 \in Int /\ \A k \in 1..(i - 1) : c[k] \in K
      BY <1>1
    <2>2. /\ l \in Seq(K)
          /\ Len(l) = IF 1 <= i - 1 THEN (i - 1) - 1 + 1 ELSE 0
          /\ \A k \in 1..((i - 1) - 1 + 1) : l[k] = c[1 + k - 1]
      BY <2>1, SubSeqProperties
    <2>. QED  BY <1>1, <2>2
  <1>3. r \in Seq(K) /\ Len(r) = n - (i - 1) /\ \A k \in 1..(n - (i - 1)) : r[k] = c[i + k - 1]
    <2>1. i \in Int /\ n \in Int /\ \A k \in i..n : c[k] \in K
      BY <1>1
    <2>2. /\ r \in Seq(K)
          /\ Len(r) = IF i <= n THEN n - i + 1 ELSE 0
          /\ \A k \in 1..(n - i + 1) : r[k] = c[i + k - 1]
      BY <2>1, SubSeqProperties
    <2>. QED  BY <1>1, <2>2
  <1>4. m \in Seq(K) /\ Len(m) = 1 /\ m[1] = x
    OBVIOUS
  <1>. HIDE DEF l, r, m
  <1>5. q \in Seq(K) /\ Len(q) = i /\ \A k \in 1..i : q[k] = IF k <= i - 1 THEN l[k] ELSE m[k - (i - 1)]
    <2>1. /\ q \in Seq(K) /\ Len(q) = Len(l) + Len(m)
          /\ \A k \in 1..(Len(l) + Len(m)) : q[k] = IF k <= Len(l) THEN l[k] ELSE m[k - Len(l)]
      BY <1>2, <1>4, ConcatProperties
    <2>2. Len(l) + Len(m) = i
      BY <1>2, <1>4
    <2>. QED  BY <1>2, <2>1, <2>2
  <1>. HIDE DEF q
  <1>6. d \in Seq(K) /\ Len(d) = n + 1 /\ \A k \in 1..(n + 1) : d[k] = IF k <= i THEN q[k] ELSE r[k - i]
    <2>1. /\ d \in Seq(K) /\ Len(d) = Len(q) + Len(r)
          /\ \A k \in 1..(Len(q) + Len(r)) : d[k] = IF k <= Len(q) THEN q[k] ELSE r[k - Len(q)]
      BY <1>3, <1>5, ConcatProperties
    <2>2. Len(q) + Len(r) = n + 1
      BY <1>1, <1>3, <1>5
    <2>. QED  BY <1>5, <2>1, <2>2
  <1>. HIDE DEF d
  <1>7. ASSUME NEW k \in 1..(n + 1) PROVE d[k] = InsertedElem(c, i, x, k)
    <2>1. CASE k < i
      <3>1. k \in 1..(i - 1) /\ k \in 1..i /\ k <= i /\ k <= i - 1
        BY <1>1, <2>1
      <3>2. d[k] = q[k] /\ q[k] = l[k] /\ l[k] = c[k]
        BY <1>2, <1>5, <1>6, <3>1
      <3>. QED  BY <2>1, <3>2 DEF InsertedElem
    <2>2. CASE k = i
      <3>1. k \in 1..i /\ k <= i /\ ~ (k <= i - 1) /\ k - (i - 1) = 1 /\ ~ (k < i)
        BY <1>1, <2>2
      <3>2. d[k] = q[k] /\ q[k] = m[1]
        BY <1>5, <1>6, <3>1
      <3>. QED  BY <1>4, <2>2, <3>1, <3>2 DEF InsertedElem
    <2>3. CASE k > i
      <3>1. ~ (k <= i) /\ k - i \in 1..(n - (i - 1)) /\ i + (k - i) - 1 = k - 1 /\ ~ (k < i) /\ k # i
        BY <1>1, <2>3
      <3>2. d[k] = r[k - i] /\ r[k - i] = c[k - 1]
        BY <1>3, <1>6, <3>1
      <3>. QED  BY <3>1, <3>2 DEF InsertedElem
    <2>. QED  BY <1>1, <2>1, <2>2, <2>3
  <1>8. InsertAt(c, i, x) = d
    BY DEF InsertAt, d, q, l, m, r
  <1>. QED  BY <1>6, <1>7, <1>8

\* What is inserted before the last one, and then the last one.
LEMMA InsertBeforeLast ==
  ASSUME NEW K, NEW c \in Seq(K), NEW i \in 1..Len(c), NEW x \in K
  PROVE  /\ InsertAt(Front(c), i, x) \in Seq(K)
         /\ Len(InsertAt(Front(c), i, x)) = Len(c)
         /\ Last(c) \in K
         /\ Append(InsertAt(Front(c), i, x), Last(c)) = InsertAt(c, i, x)
  <1>. DEFINE n == Len(c)
              f == SubSeq(c, 1, n - 1)
              g == InsertAt(f, i, x)
              y == c[n]
              d == Append(g, y)
              e == InsertAt(c, i, x)
  <1>1. n \in Nat /\ i \in 1..n /\ \A k \in 1..n : c[k] \in K
    BY LenProperties
  <1>2. f \in Seq(K) /\ Len(f) = n - 1 /\ \A k \in 1..(n - 1) : f[k] = c[k]
    <2>1. 1 \in Int /\ n - 1 \in Int /\ \A k \in 1..(n - 1) : c[k] \in K
      BY <1>1
    <2>2. /\ f \in Seq(K)
          /\ Len(f) = IF 1 <= n - 1 THEN (n - 1) - 1 + 1 ELSE 0
          /\ \A k \in 1..((n - 1) - 1 + 1) : f[k] = c[1 + k - 1]
      BY <2>1, SubSeqProperties
    <2>. HIDE DEF f, n
    <2>3. (n - 1) - 1 + 1 = n - 1 /\ n >= 1 /\ \A k \in 1..(n - 1) : 1 + k - 1 = k
      BY <1>1
    <2>4. Len(f) = n - 1
      BY <1>1, <2>2, <2>3
    <2>. QED  BY <2>2, <2>3, <2>4
  <1>3. e \in Seq(K) /\ Len(e) = n + 1 /\ \A k \in 1..(n + 1) : e[k] = InsertedElem(c, i, x, k)
    <2>1. i \in 1..(Len(c) + 1)
      BY <1>1
    <2>. QED  BY <2>1, InsertAtElems
  <1>4. y \in K
    BY <1>1
  <1>5. Front(c) = f /\ Last(c) = y
    BY DEF Front, Last
  <1>. HIDE DEF n, f, y, e
  <1>6. g \in Seq(K) /\ Len(g) = n /\ \A k \in 1..n : g[k] = InsertedElem(f, i, x, k)
    <2>1. i \in 1..(Len(f) + 1) /\ Len(f) + 1 = n
      BY <1>1, <1>2
    <2>2. /\ g \in Seq(K) /\ Len(g) = Len(f) + 1
          /\ \A k \in 1..(Len(f) + 1) : g[k] = InsertedElem(f, i, x, k)
      BY <1>2, <2>1, InsertAtElems
    <2>. QED  BY <2>1, <2>2
  <1>. HIDE DEF g
  <1>7. d \in Seq(K) /\ Len(d) = n + 1 /\ (\A k \in 1..n : d[k] = g[k]) /\ d[n + 1] = y
    BY <1>4, <1>6, AppendProperties
  <1>. HIDE DEF d
  <1>8. ASSUME NEW k \in 1..(n + 1) PROVE d[k] = e[k]
    <2>1. CASE k = n + 1
      <3>1. ~ (k < i) /\ k # i /\ k - 1 = n
        BY <1>1, <2>1
      <3>2. e[k] = c[n]
        BY <1>3, <3>1 DEF InsertedElem
      <3>. QED  BY <1>7, <2>1, <3>2 DEF y
    <2>2. CASE k # n + 1
      <3>1. k \in 1..n
        BY <1>1, <2>2
      <3>2. d[k] = InsertedElem(f, i, x, k)
        BY <1>6, <1>7, <3>1
      <3>3. InsertedElem(f, i, x, k) = InsertedElem(c, i, x, k)
        <4>1. CASE k < i
          BY <1>1, <1>2, <3>1, <4>1 DEF InsertedElem
        <4>2. CASE k = i
          BY <1>1, <4>2 DEF InsertedElem
        <4>3. CASE k > i
          <5>1. k - 1 \in 1..(n - 1) /\ ~ (k < i) /\ k # i
            BY <1>1, <3>1, <4>3
          <5>. QED  BY <1>2, <5>1 DEF InsertedElem
        <4>. QED  BY <1>1, <3>1, <4>1, <4>2, <4>3
      <3>. QED  BY <1>3, <3>2, <3>3
    <2>. QED  BY <2>1, <2>2
  <1>9. d = e
    BY <1>3, <1>7, <1>8, SeqEqual
  <1>. QED  BY <1>4, <1>5, <1>6, <1>9 DEF d, e, g, n

\* insert_split, of a full array: the two arrays hold its children and the new
\* one, at its place.
THEOREM InsertSplitRight ==
  ASSUME NEW K, NEW c \in Seq(K), Len(c) = MAX_CHILDREN,
         NEW i \in 1..(Len(c) + 1), NEW x \in K
  PROVE  Halves(InsertSplit(c, i, x), InsertAt(c, i, x), K)
  <1>1. Len(c) \in Nat
    BY LenProperties
  <1>2. CASE i <= Len(c)
    <2>. DEFINE g == InsertAt(Front(c), i, x)
                y == Last(c)
    <2>1. i \in 1..Len(c)
      BY <1>1, <1>2
    <2>2. g \in Seq(K) /\ Len(g) = Len(c) /\ y \in K /\ Append(g, y) = InsertAt(c, i, x)
      BY <2>1, InsertBeforeLast
    <2>3. InsertSplit(c, i, x) = PushSplit(g, y)
      BY <1>2 DEF InsertSplit
    <2>. HIDE DEF g, y
    <2>4. Halves(PushSplit(g, y), Append(g, y), K)
      BY <2>2, PushSplitRight
    <2>. QED  BY <2>2, <2>3, <2>4
  <1>3. CASE ~ (i <= Len(c))
    <2>1. i = Len(c) + 1
      BY <1>1, <1>3
    <2>. DEFINE d == Append(c, x)
                e == InsertAt(c, i, x)
    <2>2. d \in Seq(K) /\ Len(d) = Len(c) + 1 /\ (\A k \in 1..Len(c) : d[k] = c[k]) /\ d[Len(c) + 1] = x
      BY AppendProperties
    <2>3. e \in Seq(K) /\ Len(e) = Len(c) + 1 /\ \A k \in 1..(Len(c) + 1) : e[k] = InsertedElem(c, i, x, k)
      BY InsertAtElems
    <2>4. \A k \in 1..(Len(c) + 1) : InsertedElem(c, i, x, k) = IF k = Len(c) + 1 THEN x ELSE c[k]
      BY <1>1, <2>1 DEF InsertedElem
    <2>. HIDE DEF d, e
    <2>5. \A k \in 1..(Len(c) + 1) : d[k] = e[k]
      BY <1>1, <2>2, <2>3, <2>4
    <2>6. d = e
      BY <2>2, <2>3, <2>5, SeqEqual
    <2>7. InsertSplit(c, i, x) = PushSplit(c, x)
      BY <1>3 DEF InsertSplit
    <2>. QED  BY <2>6, <2>7, PushSplitRight DEF d, e
  <1>. QED  BY <1>2, <1>3

-----------------------------------------------------------------------------
(* A node one of whose children has been edited *)

\* What the edit of a child may return: the edited child, and at most one more
\* that follows it.  (N is the set of nodes.)
EditResults(N, K) ==
  {r \in [node : N, info : TextInfo, residual : Seq(K), seam : BOOLEAN] :
     Edited(r) \in K /\ Len(r.residual) <= 1}

\* The children c with the i-th one edited, and its residual put after it.
EditedChildren(c, i, r) ==
  LET d == [c EXCEPT ![i] = Edited(r)]
  IN  IF r.residual = <<>> THEN d ELSE InsertAt(d, i + 1, r.residual[1])

\* The result x has the children c, in one node that is not too large or in two
\* of which neither is undersized, and the summary of each.
HoldsAll(x, c, K) ==
  \/ /\ x.node = Internal(c) /\ x.residual = <<>>
     /\ Len(c) <= MAX_CHILDREN
     /\ x.info = NodeInfo(x.node)
  \/ \E h : /\ Halves(h, c, K)
            /\ x.node = Internal(h[1])
            /\ x.residual = <<Child(Internal(h[2]))>>
            /\ x.info = NodeInfo(x.node)

LEMMA InternalFacts ==
  ASSUME NEW c
  PROVE  Internal(c).leaf = FALSE /\ NodeInfo(Internal(c)) = CombinedInfo(c)
  BY DEF Internal, NodeInfo

LEMMA AddResidualNone ==
  ASSUME NEW N, NEW K, NEW r \in EditResults(N, K), r.residual = <<>>,
         NEW d \in Seq(K), Len(d) <= MAX_CHILDREN, NEW i, NEW info, info = CombinedInfo(d)
  PROVE  HoldsAll(AddResidual(d, i, r, info), d, K) /\ AddResidual(d, i, r, info).seam = r.seam
  <1>. DEFINE x == [r EXCEPT !.node = Internal(d), !.info = info]
              n == Internal(d)
  <1>1. AddResidual(d, i, r, info) = x
    BY DEF AddResidual
  <1>2. NodeInfo(n) = info
    BY InternalFacts
  <1>. HIDE DEF n
  <1>3. x.node = n /\ x.info = info /\ x.residual = <<>> /\ x.seam = r.seam
    <2>1. r \in [node : N, info : TextInfo, residual : Seq(K), seam : BOOLEAN]
      BY DEF EditResults
    <2>2. /\ [r EXCEPT !.node = n, !.info = info].node = n
          /\ [r EXCEPT !.node = n, !.info = info].info = info
          /\ [r EXCEPT !.node = n, !.info = info].residual = r.residual
          /\ [r EXCEPT !.node = n, !.info = info].seam = r.seam
      BY <2>1
    <2>. QED  BY <2>2 DEF n
  <1>. HIDE DEF x
  <1>4. HoldsAll(x, d, K)
    BY <1>2, <1>3 DEF HoldsAll, n
  <1>. QED  BY <1>1, <1>3, <1>4

LEMMA AddResidualOne ==
  ASSUME NEW N, NEW K, AreKids(K), NEW r \in EditResults(N, K), r.residual # <<>>,
         NEW d \in Seq(K), Len(d) <= MAX_CHILDREN, NEW i \in 1..Len(d),
         NEW info, info = CombinedInfo(d)
  PROVE  /\ HoldsAll(AddResidual(d, i, r, info), InsertAt(d, i + 1, r.residual[1]), K)
         /\ AddResidual(d, i, r, info).seam = r.seam
  <1>. DEFINE k == r.residual[1]
              e == InsertAt(d, i + 1, k)
              j == i + 1
              y == AddResidual(d, i, r, info)
  <1>1. r \in [node : N, info : TextInfo, residual : Seq(K), seam : BOOLEAN] /\ Len(r.residual) <= 1
    BY DEF EditResults
  <1>2. k \in K
    <2>1. Len(r.residual) \in Nat \ {0}
      BY <1>1, EmptySeq
    <2>2. 1 \in 1..Len(r.residual)
      BY <2>1
    <2>. QED  BY <1>1, <2>2, LenProperties
  <1>3. j \in 1..(Len(d) + 1) /\ Len(d) \in Nat /\ j = i + 1
    BY LenProperties
  <1>. HIDE DEF k, j
  <1>4. Inserted(InsertAt(d, j, k), d, j, k, K)
    BY <1>2, <1>3, InsertAtFacts
  <1>5. e \in Seq(K) /\ Len(e) = Len(d) + 1 /\ CombinedInfo(e) = InfoAdd(CombinedInfo(d), k.info)
    BY <1>3, <1>4 DEF Inserted
  <1>6. CASE Len(d) < MAX_CHILDREN
    <2>. DEFINE x == [r EXCEPT !.node = Internal(e), !.info = InfoAdd(info, k.info), !.residual = <<>>]
                n == Internal(e)
    <2>1. y = x
      <3>1. /\ ~ (r.residual = <<>>)
            /\ r.residual # <<>> /\ Len(d) < MAX_CHILDREN
            /\ ~ (r.residual # <<>> /\ Len(d) >= MAX_CHILDREN)
        BY <1>3, <1>6, ChildBounds
      <3>. QED  BY <3>1 DEF AddResidual, k
    <2>2. NodeInfo(n) = CombinedInfo(e)
      BY InternalFacts
    <2>. HIDE DEF n
    <2>3. x.node = n /\ x.info = InfoAdd(info, k.info) /\ x.residual = <<>> /\ x.seam = r.seam
      <3>. DEFINE z == InfoAdd(info, k.info)
      <3>. HIDE DEF z
      <3>1. /\ [r EXCEPT !.node = n, !.info = z, !.residual = <<>>].node = n
            /\ [r EXCEPT !.node = n, !.info = z, !.residual = <<>>].info = z
            /\ [r EXCEPT !.node = n, !.info = z, !.residual = <<>>].residual = <<>>
            /\ [r EXCEPT !.node = n, !.info = z, !.residual = <<>>].seam = r.seam
        BY <1>1
      <3>. QED  BY <3>1 DEF n, z
    <2>4. Len(e) <= MAX_CHILDREN
      BY <1>3, <1>5, <1>6, ChildBounds
    <2>. HIDE DEF x, y, e
    <2>5. HoldsAll(x, e, K)
      BY <1>5, <2>2, <2>3, <2>4 DEF HoldsAll, n
    <2>. QED  BY <2>1, <2>3, <2>5 DEF y, e, k
  <1>7. CASE Len(d) >= MAX_CHILDREN
    <2>. DEFINE h == InsertSplit(d, j, k)
                x == SplitEdit(r, h)
                n == Internal(h[1])
    <2>1. y = x
      <3>1. /\ ~ (r.residual = <<>>)
            /\ ~ (r.residual # <<>> /\ Len(d) < MAX_CHILDREN)
            /\ r.residual # <<>> /\ Len(d) >= MAX_CHILDREN
        BY <1>3, <1>7, ChildBounds
      <3>. QED  BY <1>3, <3>1 DEF AddResidual, k
    <2>2. Halves(h, e, K)
      <3>1. Len(d) = MAX_CHILDREN
        BY <1>3, <1>7, ChildBounds
      <3>2. Halves(InsertSplit(d, j, k), InsertAt(d, j, k), K)
        BY <1>2, <1>3, <3>1, InsertSplitRight
      <3>. QED  BY <1>3, <3>2
    <2>. HIDE DEF h
    <2>3. NodeInfo(n) = CombinedInfo(h[1])
      BY InternalFacts
    <2>4. /\ x.node = n /\ x.info = CombinedInfo(h[1])
          /\ x.residual = <<Child(Internal(h[2]))>> /\ x.seam = r.seam
      <3>. DEFINE z == CombinedInfo(h[1])
                  o == <<Child(Internal(h[2]))>>
      <3>0. x = [r EXCEPT !.node = n, !.info = z, !.residual = o]
        BY DEF SplitEdit
      <3>. HIDE DEF z, o, n, x
      <3>1. /\ [r EXCEPT !.node = n, !.info = z, !.residual = o].node = n
            /\ [r EXCEPT !.node = n, !.info = z, !.residual = o].info = z
            /\ [r EXCEPT !.node = n, !.info = z, !.residual = o].residual = o
            /\ [r EXCEPT !.node = n, !.info = z, !.residual = o].seam = r.seam
        BY <1>1
      <3>. QED  BY <3>0, <3>1 DEF z, o
    <2>. HIDE DEF x, y, e
    <2>5. HoldsAll(x, e, K)
      BY <2>2, <2>3, <2>4 DEF HoldsAll, n
    <2>. QED  BY <2>1, <2>4, <2>5 DEF y, e, k
  <1>. QED  BY <1>3, <1>6, <1>7, ChildBounds

\* When a child has been edited, its node holds the same children but for that
\* one and its residual, in their order.  The summary, from which the old child's
\* is subtracted and to which the new one's is added, is the sum of what the node
\* holds.  A node without room for the residual is split in two, neither
\* undersized, and the second one's summary is right too.
THEOREM AfterChildEditRight ==
  ASSUME NEW N, NEW K, AreKids(K), NEW c \in Seq(K), Len(c) <= MAX_CHILDREN,
         NEW i \in 1..Len(c), NEW r \in EditResults(N, K)
  PROVE  /\ HoldsAll(AfterChildEdit(c, i, CombinedInfo(c), r), EditedChildren(c, i, r), K)
         /\ AfterChildEdit(c, i, CombinedInfo(c), r).seam = r.seam
  <1>. DEFINE k == Edited(r)
              d == [c EXCEPT ![i] = k]
              info == InfoAdd(InfoSub(CombinedInfo(c), c[i].info), r.info)
  <1>1. k \in K /\ k.info = r.info
    BY DEF EditResults, Edited
  <1>. HIDE DEF k
  <1>2. Replaced([c EXCEPT ![i] = k], c, i, k, K)
    BY <1>1, SetChild
  <1>3. d \in Seq(K) /\ Len(d) = Len(c) /\ CombinedInfo(d) = info
    BY <1>1, <1>2 DEF Replaced
  <1>4. AfterChildEdit(c, i, CombinedInfo(c), r) = AddResidual(d, i, r, info)
    BY DEF AfterChildEdit, k
  <1>5. EditedChildren(c, i, r) = IF r.residual = <<>> THEN d ELSE InsertAt(d, i + 1, r.residual[1])
    BY DEF EditedChildren, k
  <1>. HIDE DEF d, info
  <1>6. CASE r.residual = <<>>
    BY <1>3, <1>4, <1>5, <1>6, AddResidualNone
  <1>7. CASE r.residual # <<>>
    <2>1. i \in 1..Len(d) /\ Len(d) <= MAX_CHILDREN /\ info = CombinedInfo(d)
      BY <1>3
    <2>2. /\ HoldsAll(AddResidual(d, i, r, info), InsertAt(d, i + 1, r.residual[1]), K)
          /\ AddResidual(d, i, r, info).seam = r.seam
      BY <1>3, <1>7, <2>1, AddResidualOne
    <2>. QED  BY <1>4, <1>5, <1>7, <2>2
  <1>. QED  BY <1>6, <1>7

-----------------------------------------------------------------------------
(* Merging neighbours *)

\* One child less.
Dropped(d, c, j, K) ==
  /\ d \in Seq(K)
  /\ Len(d) = Len(c) - 1
  /\ \A k \in 1..(j - 1) : d[k] = c[k]
  /\ CombinedInfo(d) = InfoSub(CombinedInfo(c), c[j].info)

LEMMA SumWithout ==
  ASSUME NEW a \in TextInfo, NEW b \in TextInfo, NEW x \in TextInfo
  PROVE  InfoAdd(a, b) = InfoSub(InfoAdd(a, InfoAdd(x, b)), x)
  BY DEF InfoAdd, InfoSub, TextInfo

LEMMA RemoveAtFacts ==
  ASSUME NEW K, AreKids(K), NEW c \in Seq(K), NEW j \in 1..Len(c)
  PROVE  Dropped(RemoveAt(c, j), c, j, K)
  <1>. DEFINE n == Len(c)
              l == SubSeq(c, 1, j - 1)
              r == SubSeq(c, j + 1, n)
              d == l \o r
              a == CombinedInfo(l)
              b == CombinedInfo(r)
              x == c[j].info
  <1>1. /\ l \in Seq(K) /\ Len(l) = j - 1 /\ \A k \in 1..(j - 1) : l[k] = c[k]
        /\ r \in Seq(K) /\ Len(r) = n - j
    BY AroundChild
  <1>2. n \in Nat /\ x \in TextInfo
    BY KidsFacts
  <1>3. CombinedInfo(c) = InfoAdd(a, InfoAdd(x, b))
    BY CombinedAround
  <1>4. RemoveAt(c, j) = d
    BY DEF RemoveAt
  <1>. HIDE DEF l, r, n, x
  <1>5. /\ d \in Seq(K) /\ Len(d) = Len(l) + Len(r)
        /\ \A k \in 1..(Len(l) + Len(r)) : d[k] = IF k <= Len(l) THEN l[k] ELSE r[k - Len(l)]
    BY <1>1, ConcatProperties
  <1>6. CombinedInfo(d) = InfoAdd(a, b)
    BY <1>1, CombinedConcat
  <1>7. a \in TextInfo /\ b \in TextInfo
    BY <1>1, CombinedTyped
  <1>. HIDE DEF d, a, b
  <1>8. InfoAdd(a, b) = InfoSub(InfoAdd(a, InfoAdd(x, b)), x)
    BY <1>2, <1>7, SumWithout
  <1>9. Len(d) = n - 1
    BY <1>1, <1>2, <1>5
  <1>10. j \in 1..n
    BY DEF n
  <1>11. \A k \in 1..(j - 1) : d[k] = c[k]
    <2>. SUFFICES ASSUME NEW k \in 1..(j - 1) PROVE d[k] = c[k]
      OBVIOUS
    <2>1. k \in 1..(Len(l) + Len(r)) /\ k <= Len(l)
      BY <1>1, <1>2, <1>10
    <2>. QED  BY <1>1, <1>5, <2>1
  <1>. QED  BY <1>3, <1>4, <1>5, <1>6, <1>8, <1>9, <1>11 DEF Dropped, n, x

\* Two summaries taken from a sum and one added, or two.
LEMMA SumMerged ==
  ASSUME NEW s \in TextInfo, NEW y \in TextInfo, NEW z \in TextInfo, NEW w \in TextInfo
  PROVE  InfoSub(InfoAdd(InfoSub(s, y), w), z) = InfoAdd(s, InfoSub(w, InfoAdd(y, z)))
  <1>1. s.bytes \in Int /\ s.chars \in Int /\ s.utf16 \in Int /\ s.line_breaks \in Int
    BY DEF TextInfo
  <1>2. y.bytes \in Int /\ y.chars \in Int /\ y.utf16 \in Int /\ y.line_breaks \in Int
    BY DEF TextInfo
  <1>3. z.bytes \in Int /\ z.chars \in Int /\ z.utf16 \in Int /\ z.line_breaks \in Int
    BY DEF TextInfo
  <1>4. w.bytes \in Int /\ w.chars \in Int /\ w.utf16 \in Int /\ w.line_breaks \in Int
    BY DEF TextInfo
  <1>. QED  BY <1>1, <1>2, <1>3, <1>4 DEF InfoAdd, InfoSub

LEMMA SumShared ==
  ASSUME NEW s \in TextInfo, NEW u \in TextInfo, NEW v \in TextInfo,
         NEW w \in TextInfo, NEW z \in TextInfo
  PROVE  InfoAdd(InfoSub(InfoAdd(InfoSub(s, u), w), v), z) =
         InfoAdd(s, InfoSub(InfoAdd(w, z), InfoAdd(u, v)))
  <1>1. s.bytes \in Int /\ s.chars \in Int /\ s.utf16 \in Int /\ s.line_breaks \in Int
    BY DEF TextInfo
  <1>2. u.bytes \in Int /\ u.chars \in Int /\ u.utf16 \in Int /\ u.line_breaks \in Int
    BY DEF TextInfo
  <1>3. v.bytes \in Int /\ v.chars \in Int /\ v.utf16 \in Int /\ v.line_breaks \in Int
    BY DEF TextInfo
  <1>4. w.bytes \in Int /\ w.chars \in Int /\ w.utf16 \in Int /\ w.line_breaks \in Int
    BY DEF TextInfo
  <1>5. z.bytes \in Int /\ z.chars \in Int /\ z.utf16 \in Int /\ z.line_breaks \in Int
    BY DEF TextInfo
  <1>. QED  BY <1>1, <1>2, <1>3, <1>4, <1>5 DEF InfoAdd, InfoSub

\* The summary after two neighbours have become one, or two others.
LEMMA MergedSum ==
  ASSUME NEW K, AreKids(K), NEW c \in Seq(K), NEW i \in 1..(Len(c) - 1),
         NEW n, Child(n).info \in TextInfo
  PROVE  /\ Len(Merged(c, i, n).children) = Len(c) - 1
         /\ Merged(c, i, n).children[i] = Child(n)
         /\ CombinedInfo(Merged(c, i, n).children) =
              InfoAdd(CombinedInfo(c), InfoSub(Child(n).info, InfoAdd(c[i].info, c[i + 1].info)))
  <1>. DEFINE x == Child(n)
              L == K \cup {x}
              d == [c EXCEPT ![i] = x]
              e == RemoveAt(d, i + 1)
              j == i + 1
  <1>1. AreKids(L) /\ x \in L /\ c \in Seq(L)
    <2>1. c \in [1..Len(c) -> K] /\ Len(c) \in Nat
      BY LenProperties
    <2>2. c \in [1..Len(c) -> L]
      BY <2>1
    <2>3. c \in Seq(L)
      BY <2>1, <2>2
    <2>. QED  BY <2>3 DEF AreKids
  <1>2. Len(c) \in Nat /\ i \in 1..Len(c) /\ j \in 1..Len(c) /\ i \in 1..(j - 1) /\ j # i
    BY KidsFacts
  <1>3. c[i].info \in TextInfo /\ c[j].info \in TextInfo
    BY <1>2, KidsFacts
  <1>. HIDE DEF L
  <1>4. Replaced(d, c, i, x, L)
    BY <1>1, <1>2, SetChild
  <1>5. d[i] = x /\ d[j] = c[j]
    BY <1>2, LenProperties
  <1>. HIDE DEF x
  <1>6. d \in Seq(L) /\ Len(d) = Len(c)
        /\ CombinedInfo(d) = InfoAdd(InfoSub(CombinedInfo(c), c[i].info), x.info)
    BY <1>4 DEF Replaced
  <1>7. Merged(c, i, n).children = e
    BY DEF Merged, x
  <1>. HIDE DEF d
  <1>8. j \in 1..Len(d)
    BY <1>2, <1>6
  <1>. HIDE DEF j
  <1>9. Dropped(RemoveAt(d, j), d, j, L)
    BY <1>1, <1>6, <1>8, RemoveAtFacts
  <1>10. e = RemoveAt(d, j)
    BY DEF j
  <1>. HIDE DEF e
  <1>11. Len(e) = Len(d) - 1 /\ e[i] = d[i] /\ CombinedInfo(e) = InfoSub(CombinedInfo(d), d[j].info)
    BY <1>2, <1>9, <1>10 DEF Dropped
  <1>12. CombinedInfo(c) \in TextInfo
    BY CombinedTyped
  <1>13. CombinedInfo(e) = InfoAdd(CombinedInfo(c), InfoSub(x.info, InfoAdd(c[i].info, c[j].info)))
    <2>. DEFINE s == CombinedInfo(c)
                y == c[i].info
                z == c[j].info
                w == x.info
    <2>1. s \in TextInfo /\ y \in TextInfo /\ z \in TextInfo /\ w \in TextInfo
      BY <1>3, <1>12 DEF x
    <2>2. CombinedInfo(e) = InfoSub(InfoAdd(InfoSub(s, y), w), z)
      BY <1>5, <1>6, <1>11
    <2>. HIDE DEF s, y, z, w
    <2>3. InfoSub(InfoAdd(InfoSub(s, y), w), z) = InfoAdd(s, InfoSub(w, InfoAdd(y, z)))
      BY <2>1, SumMerged
    <2>. QED  BY <2>2, <2>3 DEF s, y, z, w
  <1>. QED  BY <1>5, <1>6, <1>7, <1>11, <1>13 DEF x, j

LEMMA SharedSum ==
  ASSUME NEW K, AreKids(K), NEW c \in Seq(K), NEW i \in 1..(Len(c) - 1),
         NEW p, Child(p[1]).info \in TextInfo, Child(p[2]).info \in TextInfo
  PROVE  /\ Len(Shared(c, i, p).children) = Len(c)
         /\ Shared(c, i, p).children[i] = Child(p[1])
         /\ Shared(c, i, p).children[i + 1] = Child(p[2])
         /\ CombinedInfo(Shared(c, i, p).children) =
              InfoAdd(CombinedInfo(c),
                      InfoSub(InfoAdd(Child(p[1]).info, Child(p[2]).info),
                              InfoAdd(c[i].info, c[i + 1].info)))
  <1>. DEFINE x == Child(p[1])
              y == Child(p[2])
              L == K \cup {x, y}
              d == [c EXCEPT ![i] = x]
              j == i + 1
              e == [d EXCEPT ![j] = y]
  <1>1. AreKids(L) /\ x \in L /\ y \in L /\ c \in Seq(L)
    <2>1. c \in [1..Len(c) -> K] /\ Len(c) \in Nat
      BY LenProperties
    <2>2. c \in [1..Len(c) -> L]
      BY <2>1
    <2>3. c \in Seq(L)
      BY <2>1, <2>2
    <2>. QED  BY <2>3 DEF AreKids
  <1>2. Len(c) \in Nat /\ i \in 1..Len(c) /\ j \in 1..Len(c) /\ j # i
    BY KidsFacts
  <1>3. c[i].info \in TextInfo /\ c[j].info \in TextInfo
    BY <1>2, KidsFacts
  <1>. HIDE DEF L
  <1>4. Replaced(d, c, i, x, L)
    BY <1>1, <1>2, SetChild
  <1>5. d[i] = x /\ d[j] = c[j]
    BY <1>2, LenProperties
  <1>6. d \in Seq(L) /\ Len(d) = Len(c)
        /\ CombinedInfo(d) = InfoAdd(InfoSub(CombinedInfo(c), c[i].info), x.info)
    BY <1>4 DEF Replaced
  <1>7. Shared(c, i, p).children = e
    BY DEF Shared
  <1>. HIDE DEF d, x, y
  <1>8. j \in 1..Len(d)
    BY <1>2, <1>6
  <1>. HIDE DEF j
  <1>9. Replaced(e, d, j, y, L)
    BY <1>1, <1>6, <1>8, SetChild
  <1>10. e[i] = x /\ e[j] = y
    BY <1>2, <1>5, <1>6, LenProperties
  <1>11. Len(e) = Len(d) /\ CombinedInfo(e) = InfoAdd(InfoSub(CombinedInfo(d), d[j].info), y.info)
    BY <1>9 DEF Replaced
  <1>. HIDE DEF e
  <1>12. CombinedInfo(c) \in TextInfo
    BY CombinedTyped
  <1>13. CombinedInfo(e) = InfoAdd(CombinedInfo(c), InfoSub(InfoAdd(x.info, y.info), InfoAdd(c[i].info, c[j].info)))
    <2>. DEFINE s == CombinedInfo(c)
                u == c[i].info
                v == c[j].info
                w == x.info
                z == y.info
    <2>1. s \in TextInfo /\ u \in TextInfo /\ v \in TextInfo /\ w \in TextInfo /\ z \in TextInfo
      BY <1>3, <1>12 DEF x, y
    <2>2. CombinedInfo(e) = InfoAdd(InfoSub(InfoAdd(InfoSub(s, u), w), v), z)
      BY <1>5, <1>6, <1>11
    <2>. HIDE DEF s, u, v, w, z
    <2>3. InfoAdd(InfoSub(InfoAdd(InfoSub(s, u), w), v), z) = InfoAdd(s, InfoSub(InfoAdd(w, z), InfoAdd(u, v)))
      BY <2>1, SumShared
    <2>. QED  BY <2>2, <2>3 DEF s, u, v, w, z
  <1>. QED  BY <1>6, <1>7, <1>10, <1>11, <1>13 DEF x, y, j

LEMMA SumBreaks ==
  ASSUME NEW s \in TextInfo, NEW u \in TextInfo, NEW v \in TextInfo, NEW n \in Int
  PROVE  InfoAdd(s, InfoSub(AddBreaks(InfoAdd(u, v), n), InfoAdd(u, v))) = AddBreaks(s, n)
  <1>. DEFINE a == AddBreaks(InfoAdd(u, v), n)
              e == InfoAdd(s, InfoSub(a, InfoAdd(u, v)))
              f == AddBreaks(s, n)
  <1>1. s.bytes \in Int /\ s.chars \in Int /\ s.utf16 \in Int /\ s.line_breaks \in Int
    BY DEF TextInfo
  <1>2. u.bytes \in Int /\ u.chars \in Int /\ u.utf16 \in Int /\ u.line_breaks \in Int
    BY DEF TextInfo
  <1>3. v.bytes \in Int /\ v.chars \in Int /\ v.utf16 \in Int /\ v.line_breaks \in Int
    BY DEF TextInfo
  <1>4. a = [bytes |-> u.bytes + v.bytes, chars |-> u.chars + v.chars,
             utf16 |-> u.utf16 + v.utf16, line_breaks |-> (u.line_breaks + v.line_breaks) + n]
    BY SumForm
  <1>. HIDE DEF a
  <1>5. f \in TextInfo /\ f.bytes = s.bytes /\ f.chars = s.chars /\ f.utf16 = s.utf16
        /\ f.line_breaks = s.line_breaks + n
    BY DEF AddBreaks, TextInfo
  <1>6. e \in TextInfo /\ e.bytes = s.bytes /\ e.chars = s.chars /\ e.utf16 = s.utf16
        /\ e.line_breaks = s.line_breaks + n
    BY <1>1, <1>2, <1>3, <1>4 DEF InfoAdd, InfoSub, TextInfo
  <1>. HIDE DEF e, f
  <1>7. e = f
    BY <1>5, <1>6, SameInfo
  <1>. QED  BY <1>7 DEF a, e, f

LEMMA PushStr ==
  ASSUME NEW l \in Text, NEW r \in Text
  PROVE  PushStrSplit(l, r) = SplitNearMiddle(l \o r)
  <1>1. Len(l) \in Nat /\ Len(l) \in 0..Len(l)
    BY TextFacts
  <1>2. Slice(l, 0, Len(l)) \o From(l, Len(l)) = l /\ From(l, Len(l)) \in Text
        /\ Len(From(l, Len(l))) = 0 /\ Slice(l, 0, Len(l)) \in Text
    <2>1. Len(l) - Len(l) = 0
      BY <1>1
    <2>. QED  BY ZenonT(60), <1>1, <2>1, CutFacts DEF Text
  <1>3. From(l, Len(l)) = <<>>
    BY <1>2, EmptySeq DEF Text
  <1>4. Slice(l, 0, Len(l)) = l
    BY <1>2, <1>3, ConcatEmptySeq DEF Text
  <1>5. InsertStr(l, Len(l), r) = l \o r
    <2>1. l \o r \in Text
      BY ConcatFacts
    <2>2. InsertStr(l, Len(l), r) = (l \o r) \o <<>>
      BY <1>3, <1>4 DEF InsertStr
    <2>. HIDE DEF Text
    <2>3. (l \o r) \o <<>> = l \o r
      BY <2>1, ConcatEmptySeq DEF Text
    <2>. QED  BY <2>2, <2>3
  <1>. QED  BY <1>5 DEF PushStrSplit, InsertStrSplit

\* A line break less when the CRLF that lay across two texts is in one.
JoinedBreak(t1, t2) == IF Joins(t1, t2) THEN -1 ELSE 0

\* The texts h[1] and h[2] are t1 and t2, cut elsewhere.
Recut(h, t1, t2) ==
  /\ h[1] \in Text /\ h[2] \in Text
  /\ h[1] \o h[2] = t1 \o t2
  /\ Utf8(h[1]) /\ Utf8(h[2])
  /\ Len(h[1]) # 0 /\ Len(h[2]) # 0 => SeamIsBreak(h[1], h[2])

LEMMA RecutFacts ==
  ASSUME NEW t1 \in Text, NEW t2 \in Text, Utf8(t1), Utf8(t2)
  PROVE  LET h == PushStrSplit(t1, t2)
         IN  /\ Recut(h, t1, t2)
             /\ InfoAdd(InfoFromStr(h[1]), InfoFromStr(h[2])) =
                  AddBreaks(InfoAdd(InfoFromStr(t1), InfoFromStr(t2)), JoinedBreak(t1, t2))
             /\ Len(t1 \o t2) < 2 * MAX_BYTES => NotOverfull(h[1]) /\ NotOverfull(h[2])
  <1>. DEFINE h == PushStrSplit(t1, t2)
              w == t1 \o t2
              l == h[1]
              r == h[2]
  <1>1. w \in Text /\ Utf8(w)
    BY ConcatFacts, Utf8Concat
  <1>2. h = SplitNearMiddle(w)
    BY PushStr
  <1>3. InfoFromStr(w) = AddBreaks(InfoAdd(InfoFromStr(t1), InfoFromStr(t2)), JoinedBreak(t1, t2))
    BY InfoOfConcat DEF JoinedBreak
  <1>. HIDE DEF w, h
  <1>4. l \in Text /\ r \in Text /\ l \o r = w /\ IsBreak(Len(l), w)
    BY <1>1, <1>2, SplitInHalf
  <1>5. Len(w) < 2 * MAX_BYTES => Len(l) < MAX_BYTES + 4 /\ Len(r) < MAX_BYTES + 4
    BY <1>1, <1>2, HalvesSize
  <1>. HIDE DEF l, r
  <1>6. Utf8(l) /\ Utf8(r)
    BY <1>1, <1>4, Utf8OfParts
  <1>7. Len(l) # 0 /\ Len(r) # 0 => SeamIsBreak(l, r)
    BY <1>4, ConcatBreaks
  <1>8. ~ Joins(l, r)
    BY <1>7 DEF Joins, SeamIsBreak, CutAllowed
  <1>9. InfoAdd(InfoFromStr(l), InfoFromStr(r)) = InfoFromStr(w)
    <2>. DEFINE a == InfoFromStr(l)
                b == InfoFromStr(r)
    <2>1. InfoFromStr(l \o r) = AddBreaks(InfoAdd(a, b), 0)
      BY <1>4, <1>8, InfoOfConcat
    <2>2. a \in TextInfo /\ b \in TextInfo
      BY <1>4, InfoTyped
    <2>. HIDE DEF a, b
    <2>3. AddBreaks(InfoAdd(a, b), 0) = InfoAdd(a, b)
      <3>1. a.bytes \in Int /\ a.chars \in Int /\ a.utf16 \in Int /\ a.line_breaks \in Int
        BY <2>2 DEF TextInfo
      <3>2. b.bytes \in Int /\ b.chars \in Int /\ b.utf16 \in Int /\ b.line_breaks \in Int
        BY <2>2 DEF TextInfo
      <3>3. AddBreaks(InfoAdd(a, b), 0) =
              [bytes |-> a.bytes + b.bytes, chars |-> a.chars + b.chars,
               utf16 |-> a.utf16 + b.utf16, line_breaks |-> (a.line_breaks + b.line_breaks) + 0]
        BY <2>2, SumForm
      <3>4. (a.line_breaks + b.line_breaks) + 0 = a.line_breaks + b.line_breaks
        BY <3>1, <3>2
      <3>. QED  BY <3>3, <3>4 DEF InfoAdd
    <2>. QED  BY <1>4, <2>1, <2>3 DEF a, b
  <1>10. Recut(h, t1, t2)
    BY <1>4, <1>6, <1>7 DEF Recut, l, r, w
  <1>. QED  BY <1>3, <1>5, <1>9, <1>10 DEF NotOverfull, h, l, r, w

\* Leaves i and i + 1 of c, with the texts t1 and t2, as x leaves them.
LeavesMerged(x, c, i, t1, t2) ==
  /\ CombinedInfo(x.children) = AddBreaks(CombinedInfo(c), JoinedBreak(t1, t2))
  /\ x.merged => /\ Len(x.children) = Len(c) - 1
                 /\ x.children[i] = Child(Leaf(t1 \o t2))
                 /\ Len(t1 \o t2) <= MAX_BYTES
  /\ ~ x.merged =>
       \E h : /\ Recut(h, t1, t2)
              /\ Len(x.children) = Len(c)
              /\ x.children[i] = Child(Leaf(h[1])) /\ x.children[i + 1] = Child(Leaf(h[2]))
              /\ Len(t1 \o t2) < 2 * MAX_BYTES => NotOverfull(h[1]) /\ NotOverfull(h[2])

LEMMA LeafChild ==
  ASSUME NEW t
  PROVE  Child(Leaf(t)).info = InfoFromStr(t)
  BY DEF Child, Leaf, NodeInfo

\* merge_distribute, of leaves: the two texts are one, or are cut in two at a place
\* that is in no code point and no CRLF.  The summary of the node stays as it was,
\* but for the line break of a CRLF that lay across the two leaves: that one is
\* counted once now, and is what the seam flag of a removal has recounted above.
THEOREM MergeLeavesRight ==
  ASSUME NEW K, AreKids(K), NEW c \in Seq(K), NEW i \in 1..(Len(c) - 1),
         NEW t1 \in Text, NEW t2 \in Text, Utf8(t1), Utf8(t2),
         c[i] = Child(Leaf(t1)), c[i + 1] = Child(Leaf(t2))
  PROVE  LeavesMerged(MergeLeaves(c, i, t1, t2), c, i, t1, t2)
  <1>. DEFINE w == t1 \o t2
              u == InfoFromStr(t1)
              v == InfoFromStr(t2)
              s == CombinedInfo(c)
              b == JoinedBreak(t1, t2)
              x == MergeLeaves(c, i, t1, t2)
  <1>1. u \in TextInfo /\ v \in TextInfo /\ c[i].info = u /\ c[i + 1].info = v
    BY InfoTyped, LeafChild
  <1>2. w \in Text /\ Len(w) = Len(t1) + Len(t2)
    BY ConcatFacts
  <1>3. InfoFromStr(w) = AddBreaks(InfoAdd(u, v), b)
    BY InfoOfConcat DEF JoinedBreak
  <1>4. InfoFromStr(w) \in TextInfo
    BY <1>2, InfoTyped
  <1>5. s \in TextInfo /\ b \in Int
    BY CombinedTyped DEF JoinedBreak
  <1>. HIDE DEF u, v, s, b
  <1>6. InfoAdd(s, InfoSub(AddBreaks(InfoAdd(u, v), b), InfoAdd(u, v))) = AddBreaks(s, b)
    BY <1>1, <1>5, SumBreaks
  <1>7. CASE Len(t1) + Len(t2) <= MAX_BYTES
    <2>. DEFINE n == Leaf(w)
    <2>1. x = Merged(c, i, n)
      BY <1>7 DEF MergeLeaves
    <2>2. Child(n).info = InfoFromStr(w)
      BY LeafChild
    <2>. HIDE DEF n, w
    <2>3. /\ Len(Merged(c, i, n).children) = Len(c) - 1
          /\ Merged(c, i, n).children[i] = Child(n)
          /\ CombinedInfo(Merged(c, i, n).children) =
               InfoAdd(CombinedInfo(c), InfoSub(Child(n).info, InfoAdd(c[i].info, c[i + 1].info)))
      BY <1>4, <2>2, MergedSum
    <2>4. Merged(c, i, n).merged = TRUE
      BY DEF Merged
    <2>. HIDE DEF x
    <2>5. CombinedInfo(x.children) = AddBreaks(s, b)
      BY <1>1, <1>3, <1>6, <2>1, <2>2, <2>3 DEF s
    <2>6. Len(w) <= MAX_BYTES
      BY <1>2, <1>7
    <2>7. LeavesMerged(x, c, i, t1, t2)
      BY <2>1, <2>3, <2>4, <2>5, <2>6 DEF LeavesMerged, n, w, s, b
    <2>. QED  BY <2>7 DEF x
  <1>8. CASE ~ (Len(t1) + Len(t2) <= MAX_BYTES)
    <2>. DEFINE h == PushStrSplit(t1, t2)
                p == Leaves(h)
    <2>1. x = Shared(c, i, p)
      BY <1>8 DEF MergeLeaves
    <2>2. /\ Recut(h, t1, t2)
          /\ InfoAdd(InfoFromStr(h[1]), InfoFromStr(h[2])) = AddBreaks(InfoAdd(u, v), b)
          /\ Len(w) < 2 * MAX_BYTES => NotOverfull(h[1]) /\ NotOverfull(h[2])
      BY RecutFacts DEF u, v, b
    <2>. HIDE DEF h
    <2>3. p[1] = Leaf(h[1]) /\ p[2] = Leaf(h[2])
      BY DEF Leaves
    <2>. HIDE DEF p
    <2>4. Child(p[1]).info = InfoFromStr(h[1]) /\ Child(p[2]).info = InfoFromStr(h[2])
      BY <2>3, LeafChild
    <2>5. Child(p[1]).info \in TextInfo /\ Child(p[2]).info \in TextInfo
      BY <2>2, <2>4, InfoTyped DEF Recut
    <2>6. /\ Len(Shared(c, i, p).children) = Len(c)
          /\ Shared(c, i, p).children[i] = Child(p[1])
          /\ Shared(c, i, p).children[i + 1] = Child(p[2])
          /\ CombinedInfo(Shared(c, i, p).children) =
               InfoAdd(CombinedInfo(c),
                       InfoSub(InfoAdd(Child(p[1]).info, Child(p[2]).info),
                               InfoAdd(c[i].info, c[i + 1].info)))
      BY <2>5, SharedSum
    <2>7. Shared(c, i, p).merged = FALSE
      BY DEF Shared
    <2>. HIDE DEF x
    <2>8. CombinedInfo(x.children) = AddBreaks(s, b)
      BY <1>1, <1>6, <2>1, <2>2, <2>4, <2>6 DEF s
    <2>9. LeavesMerged(x, c, i, t1, t2)
      BY <2>1, <2>2, <2>3, <2>6, <2>7, <2>8 DEF LeavesMerged, w, s, b
    <2>. QED  BY <2>9 DEF x
  <1>. QED  BY <1>7, <1>8

\* merge_distribute, of internal nodes: the children are in one node or in two
\* of which neither is undersized, and the summary stays as it was.
InternalsMerged(x, c, i, c1, c2, K) ==
  /\ CombinedInfo(x.children) = CombinedInfo(c)
  /\ x.merged => /\ Len(x.children) = Len(c) - 1
                 /\ x.children[i] = Child(Internal(c1 \o c2))
                 /\ Len(c1 \o c2) <= MAX_CHILDREN
  /\ ~ x.merged =>
       \E h : /\ Halves(h, c1 \o c2, K)
              /\ Len(x.children) = Len(c)
              /\ x.children[i] = Child(Internal(h[1]))
              /\ x.children[i + 1] = Child(Internal(h[2]))

LEMMA SumSame ==
  ASSUME NEW s \in TextInfo, NEW u \in TextInfo
  PROVE  InfoAdd(s, InfoSub(u, u)) = s
  <1>1. InfoAdd(s, InfoSub(u, u)) \in TextInfo
    BY AddTyped
  <1>2. s.bytes \in Int /\ s.chars \in Int /\ s.utf16 \in Int /\ s.line_breaks \in Int
    BY DEF TextInfo
  <1>3. u.bytes \in Int /\ u.chars \in Int /\ u.utf16 \in Int /\ u.line_breaks \in Int
    BY DEF TextInfo
  <1>. QED  BY <1>1, <1>2, <1>3, SameInfo DEF InfoAdd, InfoSub

LEMMA InternalChild ==
  ASSUME NEW c
  PROVE  Child(Internal(c)).info = CombinedInfo(c)
  BY DEF Child, Internal, NodeInfo

THEOREM MergeInternalsRight ==
  ASSUME NEW K, AreKids(K), NEW c \in Seq(K), NEW i \in 1..(Len(c) - 1),
         NEW c1 \in Seq(K), NEW c2 \in Seq(K), Len(c1) <= MAX_CHILDREN, Len(c2) <= MAX_CHILDREN,
         c[i] = Child(Internal(c1)), c[i + 1] = Child(Internal(c2))
  PROVE  InternalsMerged(MergeInternals(c, i, c1, c2), c, i, c1, c2, K)
  <1>. DEFINE w == c1 \o c2
              u == CombinedInfo(c1)
              v == CombinedInfo(c2)
              s == CombinedInfo(c)
              x == MergeInternals(c, i, c1, c2)
  <1>1. u \in TextInfo /\ v \in TextInfo /\ s \in TextInfo /\ c[i].info = u /\ c[i + 1].info = v
    BY CombinedTyped, InternalChild
  <1>2. w \in Seq(K) /\ Len(w) = Len(c1) + Len(c2)
    BY ConcatProperties
  <1>3. CombinedInfo(w) = InfoAdd(u, v)
    BY CombinedConcat
  <1>. HIDE DEF u, v, s
  <1>4. InfoAdd(u, v) \in TextInfo
    BY <1>1, AddTyped
  <1>5. InfoAdd(s, InfoSub(InfoAdd(u, v), InfoAdd(u, v))) = s
    BY <1>1, <1>4, SumSame
  <1>6. Len(c1) \in Nat /\ Len(c2) \in Nat
    BY LenProperties
  <1>7. CASE Len(c1) + Len(c2) <= MAX_CHILDREN
    <2>. DEFINE n == Internal(w)
    <2>1. x = Merged(c, i, n)
      BY <1>7 DEF MergeInternals
    <2>2. Child(n).info = CombinedInfo(w)
      BY InternalChild
    <2>. HIDE DEF n, w
    <2>3. /\ Len(Merged(c, i, n).children) = Len(c) - 1
          /\ Merged(c, i, n).children[i] = Child(n)
          /\ CombinedInfo(Merged(c, i, n).children) =
               InfoAdd(CombinedInfo(c), InfoSub(Child(n).info, InfoAdd(c[i].info, c[i + 1].info)))
      BY ZenonT(60), <1>3, <1>4, <2>2, MergedSum
    <2>4. Merged(c, i, n).merged = TRUE
      BY DEF Merged
    <2>. HIDE DEF x
    <2>5. CombinedInfo(x.children) = s
      BY <1>1, <1>3, <1>5, <2>1, <2>2, <2>3 DEF s
    <2>6. Len(w) <= MAX_CHILDREN
      BY <1>2, <1>7
    <2>7. InternalsMerged(x, c, i, c1, c2, K)
      BY <2>1, <2>3, <2>4, <2>5, <2>6 DEF InternalsMerged, n, w, s
    <2>. QED  BY <2>7 DEF x
  <1>8. CASE ~ (Len(c1) + Len(c2) <= MAX_CHILDREN)
    <2>. DEFINE h == DistributeWith(c1, c2)
                p == Internals(h)
    <2>1. x = Shared(c, i, p)
      BY <1>8 DEF MergeInternals
    <2>2. Halves(h, w, K)
      <3>1. Len(c1) + Len(c2) > MAX_CHILDREN
        BY <1>6, <1>8, ChildBounds
      <3>. QED  BY <3>1, DistributeRight
    <2>. HIDE DEF h
    <2>3. p[1] = Internal(h[1]) /\ p[2] = Internal(h[2])
      BY DEF Internals
    <2>. HIDE DEF p
    <2>4. Child(p[1]).info = CombinedInfo(h[1]) /\ Child(p[2]).info = CombinedInfo(h[2])
      BY <2>3, InternalChild
    <2>5. h[1] \in Seq(K) /\ h[2] \in Seq(K) /\ h[1] \o h[2] = w
      BY <2>2 DEF Halves
    <2>6. Child(p[1]).info \in TextInfo /\ Child(p[2]).info \in TextInfo
      BY <2>4, <2>5, CombinedTyped
    <2>7. /\ Len(Shared(c, i, p).children) = Len(c)
          /\ Shared(c, i, p).children[i] = Child(p[1])
          /\ Shared(c, i, p).children[i + 1] = Child(p[2])
          /\ CombinedInfo(Shared(c, i, p).children) =
               InfoAdd(CombinedInfo(c),
                       InfoSub(InfoAdd(Child(p[1]).info, Child(p[2]).info),
                               InfoAdd(c[i].info, c[i + 1].info)))
      BY <2>6, SharedSum
    <2>8. Shared(c, i, p).merged = FALSE
      BY DEF Shared
    <2>9. InfoAdd(CombinedInfo(h[1]), CombinedInfo(h[2])) = InfoAdd(u, v)
      <3>. DEFINE a == h[1]
                  b == h[2]
      <3>1. a \in Seq(K) /\ b \in Seq(K) /\ a \o b = w
        BY <2>5
      <3>. HIDE DEF a, b, w
      <3>2. CombinedInfo(a \o b) = InfoAdd(CombinedInfo(a), CombinedInfo(b))
        BY <3>1, CombinedConcat
      <3>. QED  BY <1>3, <3>1, <3>2 DEF a, b
    <2>. HIDE DEF x
    <2>10. CombinedInfo(x.children) = s
      BY <1>1, <1>5, <2>1, <2>4, <2>7, <2>9 DEF s
    <2>11. InternalsMerged(x, c, i, c1, c2, K)
      BY <2>1, <2>2, <2>3, <2>7, <2>8, <2>10 DEF InternalsMerged, w, s
    <2>. QED  BY <2>11 DEF x
  <1>. QED  BY <1>7, <1>8
=============================================================================
