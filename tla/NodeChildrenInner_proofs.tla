----------------------- MODULE NodeChildrenInner_proofs -----------------------
(***************************************************************************)
(* Proofs about the child array, for every capacity and any number of      *)
(* arrays, nodes and infos: it is safe, and it implements ChildSeq, a      *)
(* vector of items: each call and each step of the calling code is a step  *)
(* of the vector, or none.                                                 *)
(***************************************************************************)
EXTENDS NodeChildrenInner, SequenceTheorems, TLAPS

-----------------------------------------------------------------------------
(* What is in the slots in use *)

\* The slots in use of an array that exists are those before its length.
LEMMA UsedRange ==
  ASSUME NEW a \in live, len[a] \in 0..MAX_LEN
  PROVE  Used(a) = 0..(len[a] - 1)
  BY CapacityAssumption DEF Used, Slots

-----------------------------------------------------------------------------
(* Type correctness *)

\* An item is read from used slots only, so it is a proper one.
LEMMA ItemAtType ==
  ASSUME TypeOK, UsedInitialized, NEW a \in Arrays, NEW i \in Used(a)
  PROVE  /\ ItemAt(a, i) \in Item
         /\ ItemAt(a, i)[2] = nodes[a][i]
         /\ nodes[a][i] \in Arc
         /\ info[a][i] \in Info
  <1>1. i \in Slots
    BY DEF Used
  <1>2. nodes[a][i] \in Arc /\ info[a][i] \in Info
    BY <1>1 DEF TypeOK, UsedInitialized
  <1>. QED  BY <1>2 DEF ItemAt, Item

\* The inductive invariant: no part of it is preserved without the others.
\* Ownership is what keeps a push from giving a reference a second owner, and
\* initialization what lets an item that is read be one that was written.
IInv ==
  /\ TypeOK
  /\ UsedInitialized
  /\ OwnedOnce
  /\ NothingDangles
  /\ NothingLeaks

-----------------------------------------------------------------------------
(* push and insert put an item at a position, pop and remove take one from *)
(* a position.  What they do to the slots in use is stated once for both.  *)

PutEffect(a, idx, it) ==
  /\ a \in live /\ it \in hand
  /\ len[a] < MAX_LEN /\ idx \in 0..len[a]
  /\ nodes' \in [Arrays -> [Slots -> Arc \cup {Uninit}]]
  /\ info' \in [Arrays -> [Slots -> Info \cup {Uninit}]]
  /\ \A b \in Arrays \ {a} : nodes'[b] = nodes[b] /\ info'[b] = info[b]
  /\ \A k \in 0..len[a] :
       /\ nodes'[a][k] = IF k < idx THEN nodes[a][k]
                         ELSE IF k = idx THEN it[2] ELSE nodes[a][k - 1]
       /\ info'[a][k] = IF k < idx THEN info[a][k]
                        ELSE IF k = idx THEN it[1] ELSE info[a][k - 1]
  /\ len'  = [len EXCEPT ![a] = len[a] + 1]
  /\ hand' = hand \ {it}
  /\ UNCHANGED <<live, alive>>

TakeEffect(a, idx) ==
  /\ a \in live
  /\ len[a] > 0 /\ idx \in 0..(len[a] - 1)
  /\ nodes' \in [Arrays -> [Slots -> Arc \cup {Uninit}]]
  /\ info' \in [Arrays -> [Slots -> Info \cup {Uninit}]]
  /\ \A b \in Arrays \ {a} : nodes'[b] = nodes[b] /\ info'[b] = info[b]
  /\ \A k \in 0..(len[a] - 2) :
       /\ nodes'[a][k] = IF k < idx THEN nodes[a][k] ELSE nodes[a][k + 1]
       /\ info'[a][k] = IF k < idx THEN info[a][k] ELSE info[a][k + 1]
  /\ len'  = [len EXCEPT ![a] = len[a] - 1]
  /\ hand' = hand \cup {ItemAt(a, idx)}
  /\ UNCHANGED <<live, alive>>

\* A push puts the item after the last one.
LEMMA PushEffect ==
  ASSUME TypeOK, NEW a \in Arrays, NEW it \in Item, Push(a, it)
  PROVE  PutEffect(a, len[a], it)
  <1>. DEFINE n  == len[a]
              ns == Written(nodes[a], n, it[2])
              fs == Written(info[a], n, it[1])
  <1>1. n \in 0..MAX_LEN /\ \A k \in 0..n : k \in Slots /\ (k < n \/ k = n)
    BY CapacityAssumption DEF TypeOK, Push, Slots
  <1>2. it[1] \in Info \cup {Uninit} /\ it[2] \in Arc \cup {Uninit}
    BY DEF Item
  <1>3. /\ ns \in [Slots -> Arc \cup {Uninit}]
        /\ \A k \in Slots : ns[k] = IF k = n THEN it[2] ELSE nodes[a][k]
    BY <1>2 DEF TypeOK, Written
  <1>4. /\ fs \in [Slots -> Info \cup {Uninit}]
        /\ \A k \in Slots : fs[k] = IF k = n THEN it[1] ELSE info[a][k]
    BY <1>2 DEF TypeOK, Written
  <1>5. nodes' = [nodes EXCEPT ![a] = ns] /\ info' = [info EXCEPT ![a] = fs]
    BY DEF Push
  <1>. HIDE DEF ns, fs
  <1>6. /\ nodes' \in [Arrays -> [Slots -> Arc \cup {Uninit}]]
        /\ nodes'[a] = ns
        /\ \A b \in Arrays \ {a} : nodes'[b] = nodes[b]
    BY <1>3, <1>5 DEF TypeOK
  <1>7. /\ info' \in [Arrays -> [Slots -> Info \cup {Uninit}]]
        /\ info'[a] = fs
        /\ \A b \in Arrays \ {a} : info'[b] = info[b]
    BY <1>4, <1>5 DEF TypeOK
  <1>8. \A k \in 0..n :
          /\ nodes'[a][k] = IF k < n THEN nodes[a][k]
                            ELSE IF k = n THEN it[2] ELSE nodes[a][k - 1]
          /\ info'[a][k] = IF k < n THEN info[a][k]
                           ELSE IF k = n THEN it[1] ELSE info[a][k - 1]
    BY <1>1, <1>3, <1>4, <1>6, <1>7
  <1>. QED
    BY <1>1, <1>6, <1>7, <1>8 DEF Push, PutEffect

SlotArray(s, S) == s \in [Slots -> S]

\* t is s with v put at idx, or with what was there taken out; n slots are in use.
HasPut(t, s, S, n, idx, v) ==
  /\ SlotArray(t, S)
  /\ \A k \in 0..n : t[k] = IF k < idx THEN s[k] ELSE IF k = idx THEN v ELSE s[k - 1]

HasTaken(t, s, S, n, idx) ==
  /\ SlotArray(t, S)
  /\ \A k \in 0..(n - 2) : t[k] = IF k < idx THEN s[k] ELSE s[k + 1]

RoomAt(idx, n)  == n \in 0..MAX_LEN /\ n < MAX_LEN /\ idx \in 0..n
InUse(idx, n)   == n \in 1..MAX_LEN /\ idx \in 0..(n - 1)

\* insert moves the slots from idx on up by one and writes the one at idx.
LEMMA ShiftedSlots ==
  ASSUME NEW S, NEW s, SlotArray(s, S), NEW n, NEW idx, RoomAt(idx, n), NEW v, v \in S
  PROVE  HasPut(Shifted(s, idx, n, v), s, S, n, idx, v)
  <1>0. s \in [Slots -> S] /\ n \in 0..MAX_LEN /\ n < MAX_LEN /\ idx \in 0..n
    BY DEF SlotArray, RoomAt
  <1>. DEFINE c == CopyWithin(s, idx, idx + 1, n - idx)
  <1>1. c = [i \in Slots |-> IF i \in (idx + 1)..((idx + 1) + (n - idx) - 1)
                             THEN s[(i - (idx + 1)) + idx] ELSE s[i]]
    BY DEF CopyWithin
  <1>2. ASSUME NEW i \in Slots
        PROVE  /\ i \in (idx + 1)..((idx + 1) + (n - idx) - 1) <=> i \in (idx + 1)..n
               /\ (i - (idx + 1)) + idx = i - 1
               /\ i \in (idx + 1)..n => i - 1 \in Slots
    BY <1>0, <1>2, CapacityAssumption DEF Slots
  <1>. HIDE DEF c
  <1>3. c \in [Slots -> S] /\ \A i \in Slots : c[i] = IF i \in (idx + 1)..n THEN s[i - 1] ELSE s[i]
    BY <1>0, <1>1, <1>2
  <1>4. idx \in Slots /\ 0..n \subseteq Slots
    BY <1>0, CapacityAssumption DEF Slots
  <1>5. Shifted(s, idx, n, v) = Written(c, idx, v)
    BY Zenon DEF Shifted, c
  <1>6. Shifted(s, idx, n, v) \in [Slots -> S]
    BY <1>3, <1>4, <1>5 DEF Written
  <1>7. ASSUME NEW k \in 0..n
        PROVE  Shifted(s, idx, n, v)[k] = IF k < idx THEN s[k] ELSE IF k = idx THEN v ELSE s[k - 1]
    <2>1. k \in Slots /\ (k \in (idx + 1)..n <=> ~ (k < idx) /\ k # idx)
      BY <1>0, <1>4
    <2>. QED  BY <1>3, <1>4, <1>5, <2>1 DEF Written
  <1>. QED  BY <1>6, <1>7 DEF HasPut, SlotArray

\* remove moves the slots after idx down by one.
LEMMA ClosedSlots ==
  ASSUME NEW S, NEW s, SlotArray(s, S), NEW n, NEW idx, InUse(idx, n)
  PROVE  HasTaken(Closed(s, idx, n), s, S, n, idx)
  <1>0. s \in [Slots -> S] /\ n \in 1..MAX_LEN /\ idx \in 0..(n - 1)
    BY DEF SlotArray, InUse
  <1>. DEFINE c == Closed(s, idx, n)
  <1>1. c = [i \in Slots |-> IF i \in idx..(idx + (n - idx - 1) - 1)
                             THEN s[(i - idx) + (idx + 1)] ELSE s[i]]
    BY DEF Closed, CopyWithin
  <1>2. ASSUME NEW i \in Slots
        PROVE  /\ i \in idx..(idx + (n - idx - 1) - 1) <=> i \in idx..(n - 2)
               /\ (i - idx) + (idx + 1) = i + 1
               /\ i \in idx..(n - 2) => i + 1 \in Slots
    BY <1>0, <1>2, CapacityAssumption DEF Slots
  <1>. HIDE DEF c
  <1>3. c \in [Slots -> S] /\ \A i \in Slots : c[i] = IF i \in idx..(n - 2) THEN s[i + 1] ELSE s[i]
    BY <1>0, <1>1, <1>2
  <1>4. ASSUME NEW k \in 0..(n - 2)
        PROVE  c[k] = IF k < idx THEN s[k] ELSE s[k + 1]
    <2>1. k \in Slots /\ (k \in idx..(n - 2) <=> ~ (k < idx))
      BY <1>0, CapacityAssumption DEF Slots
    <2>. QED  BY <1>3, <2>1
  <1>. QED  BY <1>3, <1>4 DEF c, HasTaken, SlotArray

\* The bit copies of insert put the item at idx and move the rest up by one.
LEMMA InsertEffect ==
  ASSUME TypeOK, NEW a \in Arrays, NEW it \in Item, NEW idx \in Slots,
         Insert(a, idx, it)
  PROVE  PutEffect(a, idx, it)
  <1>. DEFINE n  == len[a]
              ns == Shifted(nodes[a], idx, n, it[2])
              fs == Shifted(info[a], idx, n, it[1])
  <1>0. nodes[a] \in [Slots -> Arc \cup {Uninit}] /\ info[a] \in [Slots -> Info \cup {Uninit}]
    BY DEF TypeOK
  <1>1. n \in 0..MAX_LEN /\ n < MAX_LEN /\ idx \in 0..n
    BY CapacityAssumption DEF TypeOK, Insert, Slots
  <1>2. it[1] \in Info \cup {Uninit} /\ it[2] \in Arc \cup {Uninit}
    BY DEF Item
  <1>3. /\ ns \in [Slots -> Arc \cup {Uninit}]
        /\ \A k \in 0..n : ns[k] =
             IF k < idx THEN nodes[a][k] ELSE IF k = idx THEN it[2] ELSE nodes[a][k - 1]
    <2>. DEFINE S == Arc \cup {Uninit}
                s == nodes[a]
    <2>1. SlotArray(s, S) /\ RoomAt(idx, n) /\ it[2] \in S
      BY <1>0, <1>1, <1>2 DEF SlotArray, RoomAt
    <2>. HIDE DEF S, s, n
    <2>2. HasPut(Shifted(s, idx, n, it[2]), s, S, n, idx, it[2])
      BY <2>1, ShiftedSlots
    <2>. QED  BY Zenon, <2>2 DEF S, s, HasPut, SlotArray
  <1>4. /\ fs \in [Slots -> Info \cup {Uninit}]
        /\ \A k \in 0..n : fs[k] =
             IF k < idx THEN info[a][k] ELSE IF k = idx THEN it[1] ELSE info[a][k - 1]
    <2>. DEFINE S == Info \cup {Uninit}
                s == info[a]
    <2>1. SlotArray(s, S) /\ RoomAt(idx, n) /\ it[1] \in S
      BY <1>0, <1>1, <1>2 DEF SlotArray, RoomAt
    <2>. HIDE DEF S, s, n
    <2>2. HasPut(Shifted(s, idx, n, it[1]), s, S, n, idx, it[1])
      BY <2>1, ShiftedSlots
    <2>. QED  BY Zenon, <2>2 DEF S, s, HasPut, SlotArray
  <1>5. nodes' = [nodes EXCEPT ![a] = ns] /\ info' = [info EXCEPT ![a] = fs]
    BY DEF Insert
  <1>. HIDE DEF ns, fs
  <1>6. /\ nodes' \in [Arrays -> [Slots -> Arc \cup {Uninit}]]
        /\ nodes'[a] = ns
        /\ \A b \in Arrays \ {a} : nodes'[b] = nodes[b]
    BY <1>3, <1>5 DEF TypeOK
  <1>7. /\ info' \in [Arrays -> [Slots -> Info \cup {Uninit}]]
        /\ info'[a] = fs
        /\ \A b \in Arrays \ {a} : info'[b] = info[b]
    BY <1>4, <1>5 DEF TypeOK
  <1>. QED
    BY <1>1, <1>3, <1>4, <1>6, <1>7 DEF Insert, PutEffect

\* A pop takes the last item.
LEMMA PopEffect ==
  ASSUME TypeOK, NEW a \in Arrays, Pop(a)
  PROVE  TakeEffect(a, len[a] - 1)
  BY CapacityAssumption DEF TypeOK, Pop, TakeEffect

\* The bit copies of remove take item idx and move the rest down by one.
LEMMA RemoveEffect ==
  ASSUME TypeOK, NEW a \in Arrays, NEW idx \in Slots, Remove(a, idx)
  PROVE  TakeEffect(a, idx)
  <1>. DEFINE n  == len[a]
              ns == Closed(nodes[a], idx, n)
              fs == Closed(info[a], idx, n)
  <1>0. nodes[a] \in [Slots -> Arc \cup {Uninit}] /\ info[a] \in [Slots -> Info \cup {Uninit}]
    BY DEF TypeOK
  <1>1. n \in 1..MAX_LEN /\ idx \in 0..(n - 1)
    BY CapacityAssumption DEF TypeOK, Remove, Slots
  <1>3. /\ ns \in [Slots -> Arc \cup {Uninit}]
        /\ \A k \in 0..(n - 2) : ns[k] = IF k < idx THEN nodes[a][k] ELSE nodes[a][k + 1]
    <2>. DEFINE S == Arc \cup {Uninit}
                s == nodes[a]
    <2>1. SlotArray(s, S) /\ InUse(idx, n)
      BY <1>0, <1>1 DEF SlotArray, InUse
    <2>. HIDE DEF S, s, n
    <2>2. HasTaken(Closed(s, idx, n), s, S, n, idx)
      BY <2>1, ClosedSlots
    <2>. QED  BY Zenon, <2>2 DEF S, s, HasTaken, SlotArray
  <1>4. /\ fs \in [Slots -> Info \cup {Uninit}]
        /\ \A k \in 0..(n - 2) : fs[k] = IF k < idx THEN info[a][k] ELSE info[a][k + 1]
    <2>. DEFINE S == Info \cup {Uninit}
                s == info[a]
    <2>1. SlotArray(s, S) /\ InUse(idx, n)
      BY <1>0, <1>1 DEF SlotArray, InUse
    <2>. HIDE DEF S, s, n
    <2>2. HasTaken(Closed(s, idx, n), s, S, n, idx)
      BY <2>1, ClosedSlots
    <2>. QED  BY Zenon, <2>2 DEF S, s, HasTaken, SlotArray
  <1>5. nodes' = [nodes EXCEPT ![a] = ns] /\ info' = [info EXCEPT ![a] = fs]
    BY DEF Remove
  <1>. HIDE DEF ns, fs
  <1>6. /\ nodes' \in [Arrays -> [Slots -> Arc \cup {Uninit}]]
        /\ nodes'[a] = ns
        /\ \A b \in Arrays \ {a} : nodes'[b] = nodes[b]
    BY <1>3, <1>5 DEF TypeOK
  <1>7. /\ info' \in [Arrays -> [Slots -> Info \cup {Uninit}]]
        /\ info'[a] = fs
        /\ \A b \in Arrays \ {a} : info'[b] = info[b]
    BY <1>4, <1>5 DEF TypeOK
  <1>. QED
    BY <1>1, <1>3, <1>4, <1>6, <1>7 DEF Remove, TakeEffect

-----------------------------------------------------------------------------
(* The invariant holds after an item is put or taken                       *)

\* The invariant holds after an item moved from the caller into an array.
LEMMA PutInv ==
  ASSUME IInv, NEW a \in Arrays, NEW it \in Item, NEW idx, PutEffect(a, idx, it)
  PROVE  IInv'
  <1>. DEFINE src(b, k) == IF b = a /\ k > idx THEN k - 1 ELSE k
  <1>1. /\ Used(a) = 0..(len[a] - 1) /\ Used(a)' = 0..len[a]
        /\ len[a] \in 0..MAX_LEN /\ idx \in 0..len[a] /\ len[a] < MAX_LEN
    BY CapacityAssumption DEF IInv, TypeOK, PutEffect, Used, Slots
  <1>2. \A b \in Arrays \ {a} : Used(b)' = Used(b)
    BY DEF IInv, TypeOK, PutEffect, Used
  \* Every slot in use but idx holds what one slot, and no other, held before.
  <1>3. ASSUME NEW b \in Arrays, NEW k \in Used(b)', ~ (b = a /\ k = idx)
        PROVE  /\ src(b, k) \in Used(b)
               /\ nodes'[b][k] = nodes[b][src(b, k)]
               /\ info'[b][k] = info[b][src(b, k)]
    <2>1. CASE b = a
      BY <1>1, <1>3, <2>1 DEF PutEffect
    <2>2. CASE b # a
      BY <1>2, <1>3, <2>2 DEF PutEffect
    <2>. QED  BY <2>1, <2>2
  <1>4. ASSUME NEW b \in Arrays, NEW j \in Used(b)
        PROVE  \E k \in Used(b)' : nodes'[b][k] = nodes[b][j]
    <2>1. CASE b = a
      <3>1. j \in 0..(len[a] - 1)
        BY <1>1, <2>1
      <3>2. CASE j < idx
        <4>1. j \in 0..len[a] /\ nodes'[a][j] = nodes[a][j]
          BY <1>1, <3>1, <3>2 DEF PutEffect
        <4>. QED  BY <1>1, <2>1, <4>1
      <3>3. CASE j >= idx
        <4>1. /\ j + 1 \in 0..len[a] /\ ~ (j + 1 < idx) /\ j + 1 # idx
              /\ (j + 1) - 1 = j
          BY <1>1, <3>1, <3>3
        <4>2. nodes'[a][j + 1] = nodes[a][j]
          BY <4>1 DEF PutEffect
        <4>. QED  BY <1>1, <2>1, <4>1, <4>2
      <3>. QED  BY <1>1, <3>1, <3>2, <3>3
    <2>2. CASE b # a
      BY <1>2, <1>4, <2>2 DEF PutEffect
    <2>. QED  BY <2>1, <2>2
  <1>5. /\ idx \in Used(a)'
        /\ nodes'[a][idx] = it[2] /\ info'[a][idx] = it[1]
    BY <1>1 DEF PutEffect
  <1>6. it \in hand /\ hand' = hand \ {it} /\ alive' = alive
    BY DEF PutEffect
  <1>7. it[2] \in Arc /\ it[1] \in Info
    BY DEF Item
  <1>8. \A b, c \in Arrays : \A k \in Used(b)', j \in Used(c)' :
          b = c /\ src(b, k) = src(c, j) /\ ~ (b = a /\ k = idx)
            /\ ~ (c = a /\ j = idx) => k = j
    BY <1>1 DEF Used, Slots
  <1>. HIDE DEF src
  <1>9. TypeOK'
    <2>1. len' \in [Arrays -> 0..MAX_LEN]
      BY <1>1, CapacityAssumption DEF IInv, TypeOK, PutEffect
    <2>. QED  BY <2>1 DEF IInv, TypeOK, PutEffect
  <1>10. UsedInitialized'
    BY <1>3, <1>5, <1>7, UninitAssumption DEF IInv, UsedInitialized
  <1>11. OwnedOnce'
    <2>1. ASSUME NEW b \in Arrays, NEW c \in Arrays,
                 NEW k \in Used(b)', NEW j \in Used(c)', nodes'[b][k] = nodes'[c][j]
          PROVE  b = c /\ k = j
      <3>1. CASE ~ (b = a /\ k = idx) /\ ~ (c = a /\ j = idx)
        BY <1>3, <1>8, <2>1, <3>1 DEF IInv, OwnedOnce
      <3>2. CASE b = a /\ k = idx /\ ~ (c = a /\ j = idx)
        BY <1>3, <1>5, <1>6, <2>1, <3>2 DEF IInv, OwnedOnce
      <3>3. CASE ~ (b = a /\ k = idx) /\ c = a /\ j = idx
        BY <1>3, <1>5, <1>6, <2>1, <3>3 DEF IInv, OwnedOnce
      <3>. QED  BY <3>1, <3>2, <3>3
    <2>2. ASSUME NEW b \in Arrays, NEW k \in Used(b)', NEW other \in hand'
          PROVE  nodes'[b][k] # other[2]
      <3>1. CASE b = a /\ k = idx
        BY <1>5, <1>6, <3>1 DEF IInv, OwnedOnce
      <3>2. CASE ~ (b = a /\ k = idx)
        BY <1>3, <1>6, <3>2 DEF IInv, OwnedOnce
      <3>. QED  BY <3>1, <3>2
    <2>3. \A it1, it2 \in hand' : it1[2] = it2[2] => it1 = it2
      BY <1>6 DEF IInv, OwnedOnce
    <2>. QED  BY <2>1, <2>2, <2>3 DEF OwnedOnce
  <1>12. NothingDangles'
    BY <1>3, <1>5, <1>6 DEF IInv, NothingDangles
  <1>13. NothingLeaks'
    <2>. SUFFICES ASSUME NEW r \in alive
                  PROVE  \/ \E b \in Arrays : \E k \in Used(b)' : nodes'[b][k] = r
                         \/ \E other \in hand' : other[2] = r
      BY <1>6 DEF NothingLeaks
    <2>1. CASE \E b \in Arrays : \E j \in Used(b) : nodes[b][j] = r
      BY <1>4, <2>1
    <2>2. CASE \E other \in hand : other[2] = r
      BY <1>5, <1>6, <2>2
    <2>. QED  BY <2>1, <2>2 DEF IInv, NothingLeaks
  <1>. QED
    BY <1>9, <1>10, <1>11, <1>12, <1>13 DEF IInv

\* The invariant holds after an item moved from an array to the caller.
LEMMA TakeInv ==
  ASSUME IInv, NEW a \in Arrays, NEW idx, TakeEffect(a, idx)
  PROVE  IInv'
  <1>. DEFINE it == ItemAt(a, idx)
              src(b, k) == IF b = a /\ k >= idx THEN k + 1 ELSE k
  <1>1. /\ Used(a) = 0..(len[a] - 1) /\ Used(a)' = 0..(len[a] - 2)
        /\ len[a] \in 1..MAX_LEN /\ idx \in 0..(len[a] - 1)
    BY CapacityAssumption DEF IInv, TypeOK, TakeEffect, Used, Slots
  <1>2. \A b \in Arrays \ {a} : Used(b)' = Used(b)
    BY DEF IInv, TypeOK, TakeEffect, Used
  \* Every slot in use holds what one slot other than idx held before.
  <1>3. ASSUME NEW b \in Arrays, NEW k \in Used(b)'
        PROVE  /\ src(b, k) \in Used(b) /\ ~ (b = a /\ src(b, k) = idx)
               /\ nodes'[b][k] = nodes[b][src(b, k)]
               /\ info'[b][k] = info[b][src(b, k)]
    <2>1. CASE b = a
      BY <1>1, <1>3, <2>1 DEF TakeEffect
    <2>2. CASE b # a
      BY <1>2, <1>3, <2>2 DEF TakeEffect
    <2>. QED  BY <2>1, <2>2
  <1>4. ASSUME NEW b \in Arrays, NEW j \in Used(b), ~ (b = a /\ j = idx)
        PROVE  \E k \in Used(b)' : nodes'[b][k] = nodes[b][j]
    <2>1. CASE b = a
      <3>1. j \in 0..(len[a] - 1) /\ j # idx
        BY <1>1, <1>4, <2>1
      <3>2. CASE j < idx
        BY <1>1, <2>1, <3>1, <3>2 DEF TakeEffect
      <3>3. CASE j > idx
        <4>1. j - 1 \in 0..(len[a] - 2) /\ ~ (j - 1 < idx) /\ (j - 1) + 1 = j
          BY <1>1, <3>1, <3>3
        <4>2. nodes'[a][j - 1] = nodes[a][j]
          BY <4>1 DEF TakeEffect
        <4>. QED  BY <1>1, <2>1, <4>1, <4>2
      <3>. QED  BY <1>1, <3>1, <3>2, <3>3
    <2>2. CASE b # a
      BY <1>2, <1>4, <2>2 DEF TakeEffect
    <2>. QED  BY <2>1, <2>2
  <1>5. /\ idx \in Used(a)
        /\ it \in Item /\ it[2] = nodes[a][idx]
    BY <1>1, ItemAtType DEF IInv
  <1>6. hand' = hand \cup {it} /\ alive' = alive
    BY DEF TakeEffect
  <1>7. \A b, c \in Arrays : \A k \in Used(b)', j \in Used(c)' :
          b = c /\ src(b, k) = src(c, j) => k = j
    BY <1>1 DEF Used, Slots
  <1>. HIDE DEF src, it
  <1>8. TypeOK'
    <2>1. len' \in [Arrays -> 0..MAX_LEN]
      BY <1>1, CapacityAssumption DEF IInv, TypeOK, TakeEffect
    <2>2. hand' \subseteq Item
      BY <1>5, <1>6 DEF IInv, TypeOK
    <2>. QED  BY <2>1, <2>2 DEF IInv, TypeOK, TakeEffect
  <1>9. UsedInitialized'
    BY <1>3 DEF IInv, UsedInitialized
  <1>10. OwnedOnce'
    <2>1. ASSUME NEW b \in Arrays, NEW c \in Arrays,
                 NEW k \in Used(b)', NEW j \in Used(c)', nodes'[b][k] = nodes'[c][j]
          PROVE  b = c /\ k = j
      BY <1>3, <1>7, <2>1 DEF IInv, OwnedOnce
    <2>2. ASSUME NEW b \in Arrays, NEW k \in Used(b)', NEW other \in hand'
          PROVE  nodes'[b][k] # other[2]
      <3>1. CASE other = it
        BY <1>3, <1>5, <3>1 DEF IInv, OwnedOnce
      <3>2. CASE other \in hand
        BY <1>3, <3>2 DEF IInv, OwnedOnce
      <3>. QED  BY <1>6, <3>1, <3>2
    <2>3. \A it1, it2 \in hand' : it1[2] = it2[2] => it1 = it2
      BY <1>5, <1>6 DEF IInv, OwnedOnce
    <2>. QED  BY <2>1, <2>2, <2>3 DEF OwnedOnce
  <1>11. NothingDangles'
    BY <1>3, <1>5, <1>6 DEF IInv, NothingDangles
  <1>12. NothingLeaks'
    <2>. SUFFICES ASSUME NEW r \in alive
                  PROVE  \/ \E b \in Arrays : \E k \in Used(b)' : nodes'[b][k] = r
                         \/ \E other \in hand' : other[2] = r
      BY <1>6 DEF NothingLeaks
    <2>1. CASE r = nodes[a][idx]
      BY <1>5, <1>6, <2>1
    <2>2. CASE r # nodes[a][idx] /\ \E b \in Arrays : \E j \in Used(b) : nodes[b][j] = r
      BY <1>4, <2>2
    <2>3. CASE \E other \in hand : other[2] = r
      BY <1>6, <2>3
    <2>. QED  BY <2>1, <2>2, <2>3 DEF IInv, NothingLeaks
  <1>. QED
    BY <1>8, <1>9, <1>10, <1>11, <1>12 DEF IInv

-----------------------------------------------------------------------------
(* The invariant holds after the other actions                             *)

\* The slots of a new array are slots.
LEMMA BlankType ==
  /\ Blank \in [Slots -> Arc \cup {Uninit}]
  /\ Blank \in [Slots -> Info \cup {Uninit}]
  BY DEF Blank

\* A new array owns nothing.
LEMMA NewInv ==
  ASSUME IInv, NEW a \in Arrays, New(a)
  PROVE  IInv'
  <1>1. \A b \in Arrays : Used(b)' = Used(b)
    <2>1. Used(a)' = {} /\ Used(a) = {}
      BY DEF IInv, TypeOK, New, Used, Slots
    <2>2. \A b \in Arrays \ {a} : Used(b)' = Used(b)
      BY DEF IInv, TypeOK, New, Used
    <2>. QED  BY <2>1, <2>2
  <1>2. \A b \in Arrays : \A k \in Used(b) :
          nodes'[b][k] = nodes[b][k] /\ info'[b][k] = info[b][k]
    BY DEF IInv, TypeOK, New, Used
  <1>3. TypeOK'
    <2>1. len' \in [Arrays -> 0..MAX_LEN]
      BY CapacityAssumption DEF IInv, TypeOK, New
    <2>2. /\ nodes' \in [Arrays -> [Slots -> Arc \cup {Uninit}]]
          /\ info' \in [Arrays -> [Slots -> Info \cup {Uninit}]]
      BY BlankType DEF IInv, TypeOK, New
    <2>. QED  BY <2>1, <2>2 DEF IInv, TypeOK, New
  <1>4. hand' = hand /\ alive' = alive
    BY DEF New
  <1>5. UsedInitialized' /\ OwnedOnce'
    BY <1>1, <1>2, <1>4 DEF IInv, UsedInitialized, OwnedOnce
  <1>6. NothingDangles' /\ NothingLeaks'
    BY <1>1, <1>2, <1>4 DEF IInv, NothingDangles, NothingLeaks
  <1>. QED
    BY <1>3, <1>5, <1>6 DEF IInv

\* The destructor drops what the array owned, which nothing else did.
LEMMA DropInv ==
  ASSUME IInv, NEW a \in Arrays, Drop(a)
  PROVE  IInv'
  <1>1. \A b \in Arrays : Used(b)' = IF b = a THEN {} ELSE Used(b)
    BY DEF IInv, TypeOK, Drop, Used
  <1>2. \A b \in Arrays \ {a} : nodes'[b] = nodes[b] /\ info'[b] = info[b]
    BY DEF IInv, TypeOK, Drop
  <1>3. hand' = hand /\ alive' = alive \ {nodes[a][i] : i \in Used(a)}
    BY DEF Drop, Dropped
  <1>4. TypeOK'
    <2>1. len' \in [Arrays -> 0..MAX_LEN]
      BY CapacityAssumption DEF IInv, TypeOK, Drop
    <2>2. /\ nodes' \in [Arrays -> [Slots -> Arc \cup {Uninit}]]
          /\ info' \in [Arrays -> [Slots -> Info \cup {Uninit}]]
      BY BlankType DEF IInv, TypeOK, Drop
    <2>. QED  BY <1>3, <2>1, <2>2 DEF IInv, TypeOK, Drop
  <1>5. UsedInitialized' /\ OwnedOnce'
    BY <1>1, <1>2, <1>3 DEF IInv, UsedInitialized, OwnedOnce
  \* Only references that a owned are dropped, and it was their one owner.
  <1>6. NothingDangles'
    BY <1>1, <1>2, <1>3 DEF IInv, NothingDangles, OwnedOnce
  <1>7. NothingLeaks'
    BY <1>1, <1>2, <1>3 DEF IInv, NothingLeaks
  <1>. QED
    BY <1>4, <1>5, <1>6, <1>7 DEF IInv

\* A clone owns references of its own.
LEMMA CloneInv ==
  ASSUME IInv, NEW a \in Arrays, NEW b \in Arrays, Clone(a, b)
  PROVE  IInv'
  <1>1. PICK refs \in ClonedRefs(a) :
          /\ nodes' = [nodes EXCEPT ![b] =
                         [i \in Slots |-> IF i \in Used(a) THEN refs[i] ELSE Uninit]]
          /\ alive' = alive \cup {refs[i] : i \in Used(a)}
    BY DEF Clone
  <1>2. /\ refs \in [Used(a) -> Arc \ alive]
        /\ \A i, j \in Used(a) : refs[i] = refs[j] => i = j
    BY DEF ClonedRefs
  <1>3. a # b /\ Used(b) = {} /\ Used(a) \subseteq Slots
    BY DEF Clone, Used
  <1>4. \A c \in Arrays : Used(c)' = IF c = b THEN Used(a) ELSE Used(c)
    BY DEF IInv, TypeOK, Clone, Used
  <1>5. /\ \A c \in Arrays \ {b} : nodes'[c] = nodes[c] /\ info'[c] = info[c]
        /\ \A k \in Used(a) : nodes'[b][k] = refs[k] /\ info'[b][k] = info[a][k]
    BY <1>1, <1>3 DEF IInv, TypeOK, Clone
  <1>6. hand' = hand
    BY DEF Clone
  <1>7. TypeOK'
    <2>1. len' \in [Arrays -> 0..MAX_LEN]
      BY DEF IInv, TypeOK, Clone
    <2>2. nodes' \in [Arrays -> [Slots -> Arc \cup {Uninit}]]
      BY <1>1, <1>2, <1>3 DEF IInv, TypeOK
    <2>3. info' \in [Arrays -> [Slots -> Info \cup {Uninit}]]
      BY <1>3 DEF IInv, TypeOK, Clone
    <2>4. alive' \subseteq Arc
      BY <1>1, <1>2 DEF IInv, TypeOK
    <2>. QED  BY <1>6, <2>1, <2>2, <2>3, <2>4 DEF IInv, TypeOK, Clone
  <1>8. UsedInitialized'
    BY <1>2, <1>3, <1>4, <1>5, UninitAssumption DEF IInv, UsedInitialized
  \* The new references were not alive, so nothing owned them.
  <1>9. OwnedOnce'
    <2>1. ASSUME NEW c \in Arrays, NEW d \in Arrays,
                 NEW k \in Used(c)', NEW j \in Used(d)', nodes'[c][k] = nodes'[d][j]
          PROVE  c = d /\ k = j
      <3>1. CASE c # b /\ d # b
        BY <1>4, <1>5, <2>1, <3>1 DEF IInv, OwnedOnce
      <3>2. CASE c = b /\ d = b
        BY <1>2, <1>4, <1>5, <2>1, <3>2
      <3>3. CASE c = b /\ d # b
        BY <1>2, <1>4, <1>5, <2>1, <3>3 DEF IInv, NothingDangles
      <3>4. CASE c # b /\ d = b
        BY <1>2, <1>4, <1>5, <2>1, <3>4 DEF IInv, NothingDangles
      <3>. QED  BY <3>1, <3>2, <3>3, <3>4
    <2>2. ASSUME NEW c \in Arrays, NEW k \in Used(c)', NEW it \in hand'
          PROVE  nodes'[c][k] # it[2]
      BY <1>2, <1>4, <1>5, <1>6 DEF IInv, OwnedOnce, NothingDangles
    <2>. QED  BY <1>6, <2>1, <2>2 DEF IInv, OwnedOnce
  <1>10. NothingDangles'
    BY <1>1, <1>4, <1>5, <1>6 DEF IInv, NothingDangles
  <1>11. NothingLeaks'
    <2>. SUFFICES ASSUME NEW r \in alive'
                  PROVE  \/ \E c \in Arrays : \E k \in Used(c)' : nodes'[c][k] = r
                         \/ \E it \in hand' : it[2] = r
      BY DEF NothingLeaks
    <2>1. CASE \E k \in Used(a) : r = refs[k]
      BY <1>4, <1>5, <2>1
    <2>2. CASE \E c \in Arrays : \E k \in Used(c) : nodes[c][k] = r
      BY <1>3, <1>4, <1>5, <2>2
    <2>3. CASE \E it \in hand : it[2] = r
      BY <1>6, <2>3
    <2>. QED  BY <1>1, <2>1, <2>2, <2>3 DEF IInv, NothingLeaks
  <1>. QED
    BY <1>7, <1>8, <1>9, <1>10, <1>11 DEF IInv

\* A reference that is created is owned by the caller.
LEMMA NewItemInv ==
  ASSUME IInv, NEW it \in Item, NewItem(it)
  PROVE  IInv'
  <1>1. /\ it[2] \in Arc /\ it[2] \notin alive
        /\ hand' = hand \cup {it} /\ alive' = alive \cup {it[2]}
    BY DEF NewItem, NewRefs, Item
  <1>2. \A b \in Arrays : Used(b)' = Used(b)
    BY DEF NewItem, Used
  <1>3. nodes' = nodes /\ info' = info /\ len' = len /\ live' = live
    BY DEF NewItem
  <1>4. TypeOK' /\ UsedInitialized'
    BY <1>1, <1>2, <1>3 DEF IInv, TypeOK, UsedInitialized
  <1>5. OwnedOnce'
    BY <1>1, <1>2, <1>3 DEF IInv, OwnedOnce, NothingDangles
  <1>6. NothingDangles' /\ NothingLeaks'
    BY <1>1, <1>2, <1>3 DEF IInv, NothingDangles, NothingLeaks
  <1>. QED
    BY <1>4, <1>5, <1>6 DEF IInv

\* A reference that the caller drops was owned by nothing else.
LEMMA DropItemInv ==
  ASSUME IInv, NEW it \in Item, DropItem(it)
  PROVE  IInv'
  <1>1. it \in hand /\ hand' = hand \ {it} /\ alive' = alive \ {it[2]}
    BY DEF DropItem
  <1>2. \A b \in Arrays : Used(b)' = Used(b)
    BY DEF DropItem, Used
  <1>3. nodes' = nodes /\ info' = info /\ len' = len /\ live' = live
    BY DEF DropItem
  <1>4. TypeOK' /\ UsedInitialized'
    BY <1>1, <1>2, <1>3 DEF IInv, TypeOK, UsedInitialized
  <1>5. OwnedOnce'
    BY <1>1, <1>2, <1>3 DEF IInv, OwnedOnce
  <1>6. NothingDangles'
    BY <1>1, <1>2, <1>3 DEF IInv, OwnedOnce, NothingDangles
  <1>7. NothingLeaks'
    BY <1>1, <1>2, <1>3 DEF IInv, NothingLeaks
  <1>. QED
    BY <1>4, <1>5, <1>6, <1>7 DEF IInv

\* A child's info changes, and its reference may be replaced by a new one.
LEMMA EditInv ==
  ASSUME IInv, NEW a \in Arrays, NEW i \in Slots, NEW inf \in Info, Edit(a, i, inf)
  PROVE  IInv'
  <1>1. /\ i \in Used(a) /\ hand' = hand /\ live' = live /\ len' = len
        /\ info' \in [Arrays -> [Slots -> Info \cup {Uninit}]]
        /\ \A b \in Arrays, k \in Slots :
             info'[b][k] = IF b = a /\ k = i THEN inf ELSE info[b][k]
    BY DEF IInv, TypeOK, Edit, Written
  <1>2. \A b \in Arrays : Used(b)' = Used(b)
    BY <1>1 DEF Used
  <1>3. \A b \in Arrays : Used(b) \subseteq Slots
    BY DEF Used
  <1>4. CASE nodes' = nodes /\ alive' = alive
    <2>1. TypeOK' /\ UsedInitialized'
      BY <1>1, <1>2, <1>3, <1>4, UninitAssumption DEF IInv, TypeOK, UsedInitialized
    <2>2. OwnedOnce' /\ NothingDangles' /\ NothingLeaks'
      BY <1>1, <1>2, <1>4 DEF IInv, OwnedOnce, NothingDangles, NothingLeaks
    <2>. QED  BY <2>1, <2>2 DEF IInv
  <1>5. ASSUME NEW r \in NewRefs,
               nodes' = [nodes EXCEPT ![a] = Written(nodes[a], i, r)],
               alive' = (alive \ {nodes[a][i]}) \cup {r}
        PROVE  IInv'
    <2>1. r \in Arc /\ r \notin alive
      BY DEF NewRefs
    <2>2. /\ nodes' \in [Arrays -> [Slots -> Arc \cup {Uninit}]]
          /\ \A b \in Arrays, k \in Slots :
               nodes'[b][k] = IF b = a /\ k = i THEN r ELSE nodes[b][k]
      BY <1>5, <2>1 DEF IInv, TypeOK, Written
    <2>3. TypeOK' /\ UsedInitialized'
      <3>1. TypeOK'
        BY <1>1, <1>5, <2>1, <2>2 DEF IInv, TypeOK
      <3>2. ASSUME NEW b \in Arrays, NEW k \in Used(b)
            PROVE  nodes'[b][k] # Uninit /\ info'[b][k] # Uninit
        BY <1>1, <1>3, <2>1, <2>2, UninitAssumption DEF IInv, UsedInitialized
      <3>. QED  BY <1>2, <3>1, <3>2 DEF UsedInitialized
    <2>4. OwnedOnce'
      <3>1. ASSUME NEW b \in Arrays, NEW c \in Arrays,
                   NEW k \in Used(b), NEW j \in Used(c), nodes'[b][k] = nodes'[c][j]
            PROVE  b = c /\ k = j
        BY <1>3, <2>1, <2>2, <3>1 DEF IInv, OwnedOnce, NothingDangles
      <3>2. ASSUME NEW b \in Arrays, NEW k \in Used(b), NEW it \in hand
            PROVE  nodes'[b][k] # it[2]
        BY <1>3, <2>1, <2>2 DEF IInv, OwnedOnce, NothingDangles
      <3>. QED  BY <1>1, <1>2, <3>1, <3>2 DEF IInv, OwnedOnce
    <2>5. NothingDangles'
      BY <1>1, <1>2, <1>3, <1>5, <2>1, <2>2 DEF IInv, OwnedOnce, NothingDangles
    <2>6. NothingLeaks'
      BY <1>1, <1>2, <1>3, <1>5, <2>2 DEF IInv, NothingLeaks
    <2>. QED  BY <2>3, <2>4, <2>5, <2>6 DEF IInv
  <1>. QED
    BY <1>4, <1>5 DEF Edit

-----------------------------------------------------------------------------
(* The theorems *)

\* Every call, and every step of the calling code, keeps the invariant.
THEOREM Inductive == IInv /\ [Next]_vars => IInv'
  <1>. SUFFICES ASSUME IInv, [Next]_vars PROVE IInv'
    OBVIOUS
  <1>1. ASSUME NEW a \in Arrays, New(a) \/ Drop(a) PROVE IInv'
    BY <1>1, NewInv, DropInv
  <1>2. ASSUME NEW a \in Arrays, NEW it \in Item, Push(a, it) PROVE IInv'
    <2>1. PutEffect(a, len[a], it)
      BY <1>2, PushEffect DEF IInv
    <2>. QED  BY <2>1, PutInv
  <1>3. ASSUME NEW a \in Arrays, NEW it \in Item, NEW idx \in Slots, Insert(a, idx, it)
        PROVE IInv'
    <2>1. PutEffect(a, idx, it)
      BY <1>3, InsertEffect DEF IInv
    <2>. QED  BY <2>1, PutInv
  <1>4. ASSUME NEW a \in Arrays, Pop(a) PROVE IInv'
    <2>1. TakeEffect(a, len[a] - 1)
      BY <1>4, PopEffect DEF IInv
    <2>. QED  BY <2>1, TakeInv
  <1>5. ASSUME NEW a \in Arrays, NEW idx \in Slots, Remove(a, idx) PROVE IInv'
    <2>1. TakeEffect(a, idx)
      BY <1>5, RemoveEffect DEF IInv
    <2>. QED  BY <2>1, TakeInv
  <1>6. ASSUME NEW a \in Arrays, NEW b \in Arrays, Clone(a, b) PROVE IInv'
    BY <1>6, CloneInv
  <1>7. ASSUME NEW it \in Item, NewItem(it) \/ DropItem(it) PROVE IInv'
    BY <1>7, NewItemInv, DropItemInv
  <1>8. ASSUME NEW a \in Arrays, NEW i \in Slots, NEW inf \in Info, Edit(a, i, inf)
        PROVE IInv'
    BY <1>8, EditInv
  <1>9. CASE UNCHANGED vars
    <2>1. \A a \in Arrays : Used(a)' = Used(a)
      BY <1>9 DEF vars, Used
    <2>. QED
      BY <1>9, <2>1 DEF vars, IInv, TypeOK, UsedInitialized, OwnedOnce,
                        NothingDangles, NothingLeaks
  <1>. QED
    BY <1>1, <1>2, <1>3, <1>4, <1>5, <1>6, <1>7, <1>8, <1>9 DEF Next

\* Nothing exists at first.
THEOREM InitIInv == Init => IInv
  <1>. SUFFICES ASSUME Init PROVE IInv
    OBVIOUS
  <1>1. \A a \in Arrays : Used(a) = {}
    BY DEF Init, Used
  <1>2. TypeOK
    BY BlankType, CapacityAssumption DEF Init, TypeOK
  <1>. QED
    BY <1>1, <1>2 DEF Init, IInv, UsedInitialized, OwnedOnce, NothingDangles, NothingLeaks

\* The inductive invariant holds in every state.
THEOREM Invariance == Spec => []IInv
  BY InitIInv, Inductive, PTL DEF Spec

\* The state keeps its shape.
THEOREM TypeCorrect == Spec => []TypeOK
  <1>. IInv => TypeOK
    BY DEF IInv
  <1>. QED  BY Invariance, PTL

\* The accessors, which transmute the first len slots, never expose a slot
\* that nobody wrote.
THEOREM AccessorsSafe == Spec => []UsedInitialized
  <1>. IInv => UsedInitialized
    BY DEF IInv
  <1>. QED  BY Invariance, PTL

\* No reference ever has two owners, so none is dropped twice.
THEOREM NoDoubleOwner == Spec => []OwnedOnce
  <1>. IInv => OwnedOnce
    BY DEF IInv
  <1>. QED  BY Invariance, PTL

\* No owner ever holds a reference that was dropped.
THEOREM NoDangling == Spec => []NothingDangles
  <1>. IInv => NothingDangles
    BY DEF IInv
  <1>. QED  BY Invariance, PTL

\* No reference is ever left without an owner before it is dropped.
THEOREM NoLeak == Spec => []NothingLeaks
  <1>. IInv => NothingLeaks
    BY DEF IInv
  <1>. QED  BY Invariance, PTL

-----------------------------------------------------------------------------
(* Sequences by their items *)

LEMMA ConcatFacts ==
  ASSUME NEW S, NEW p \in Seq(S), NEW q \in Seq(S), NEW m, m = Len(p), NEW n, n = Len(q)
  PROVE  /\ p \o q \in Seq(S) /\ Len(p \o q) = m + n
         /\ \A i \in 1..m : (p \o q)[i] = p[i]
         /\ \A i \in 1..(m + n) : i > m => (p \o q)[i] = q[i - m]
  OBVIOUS

\* A sequence with one item put in.
LEMMA PutInSeq ==
  ASSUME NEW S, NEW s \in Seq(S), NEW x \in S, NEW n \in 0..Len(s),
         NEW r \in Seq(S), Len(r) = Len(s) + 1,
         \A k \in 1..Len(r) :
           r[k] = IF k <= n THEN s[k] ELSE IF k = n + 1 THEN x ELSE s[k - 1]
  PROVE  r = SubSeq(s, 1, n) \o <<x>> \o SubSeq(s, n + 1, Len(s))
  <1>. DEFINE p == SubSeq(s, 1, n)
              q == SubSeq(s, n + 1, Len(s))
  <1>1. p \in Seq(S) /\ Len(p) = n /\ \A i \in 1..n : p[i] = s[i]
    OBVIOUS
  <1>2. q \in Seq(S) /\ Len(q) = Len(s) - n /\ \A i \in 1..(Len(s) - n) : q[i] = s[n + i]
    OBVIOUS
  <1>3. <<x>> \in Seq(S) /\ Len(<<x>>) = 1 /\ <<x>>[1] = x
    OBVIOUS
  <1>. HIDE DEF p, q
  <1>4. /\ p \o <<x>> \in Seq(S) /\ Len(p \o <<x>>) = n + 1
        /\ \A i \in 1..(n + 1) : (p \o <<x>>)[i] = IF i <= n THEN s[i] ELSE x
    BY <1>1, <1>3
  <1>. DEFINE px == p \o <<x>>
  <1>. HIDE DEF px
  <1>5. /\ px \o q \in Seq(S) /\ Len(px \o q) = Len(s) + 1
        /\ \A i \in 1..(n + 1) : (px \o q)[i] = px[i]
        /\ \A i \in 1..(Len(s) + 1) : i > n + 1 => (px \o q)[i] = q[i - (n + 1)]
    <2>1. px \in Seq(S) /\ Len(px) = n + 1
      BY <1>4 DEF px
    <2>. DEFINE a == n + 1
                b == Len(s) - n
    <2>2. a + b = Len(s) + 1 /\ a = Len(px) /\ b = Len(q) /\ q \in Seq(S)
      BY <1>2, <2>1
    <2>. HIDE DEF a, b
    <2>3. /\ px \o q \in Seq(S) /\ Len(px \o q) = a + b
          /\ \A i \in 1..a : (px \o q)[i] = px[i]
          /\ \A i \in 1..(a + b) : i > a => (px \o q)[i] = q[i - a]
      BY <2>1, <2>2
    <2>. QED  BY <2>2, <2>3 DEF a
  <1>6. ASSUME NEW i \in 1..Len(r) PROVE r[i] = (px \o q)[i]
    <2>1. CASE i <= n + 1
      <3>1. (px \o q)[i] = px[i] /\ px[i] = IF i <= n THEN s[i] ELSE x
        BY <1>4, <1>5, <2>1 DEF px
      <3>. QED  BY <2>1, <3>1
    <2>2. CASE i > n + 1
      <3>1. i - (n + 1) \in 1..(Len(s) - n) /\ n + (i - (n + 1)) = i - 1
        BY <2>2
      <3>2. (px \o q)[i] = s[i - 1]
        BY <1>2, <1>5, <2>2, <3>1
      <3>. QED  BY <2>2, <3>2
    <2>3. i <= n + 1 \/ i > n + 1
      OBVIOUS
    <2>. QED  BY <2>1, <2>2, <2>3
  <1>7. r = px \o q
    BY <1>5, <1>6, SeqEqual
  <1>. QED  BY <1>7 DEF px, p, q

\* A sequence with one item taken out.
LEMMA TakeFromSeq ==
  ASSUME NEW S, NEW s \in Seq(S), NEW n \in 0..(Len(s) - 1),
         NEW r \in Seq(S), Len(r) = Len(s) - 1,
         \A k \in 1..Len(r) : r[k] = IF k <= n THEN s[k] ELSE s[k + 1]
  PROVE  r = SubSeq(s, 1, n) \o SubSeq(s, (n + 1) + 1, Len(s))
  <1>. DEFINE p == SubSeq(s, 1, n)
              q == SubSeq(s, (n + 1) + 1, Len(s))
  <1>1. p \in Seq(S) /\ Len(p) = n /\ \A i \in 1..n : p[i] = s[i]
    OBVIOUS
  <1>2. /\ q \in Seq(S) /\ Len(q) = Len(s) - n - 1
        /\ \A i \in 1..(Len(s) - n - 1) : q[i] = s[n + 1 + i]
    OBVIOUS
  <1>. HIDE DEF p, q
  <1>3. /\ p \o q \in Seq(S) /\ Len(p \o q) = Len(s) - 1
        /\ \A i \in 1..n : (p \o q)[i] = p[i]
        /\ \A i \in 1..(Len(s) - 1) : i > n => (p \o q)[i] = q[i - n]
    <2>1. n + (Len(s) - n - 1) = Len(s) - 1
      OBVIOUS
    <2>. QED  BY <1>1, <1>2, <2>1, ConcatFacts
  <1>4. ASSUME NEW i \in 1..Len(r) PROVE r[i] = (p \o q)[i]
    <2>1. CASE i <= n
      <3>1. i \in 1..n /\ (p \o q)[i] = p[i]
        BY <1>3, <2>1
      <3>. QED  BY <1>1, <2>1, <3>1
    <2>2. CASE i > n
      <3>1. i - n \in 1..(Len(s) - n - 1) /\ n + 1 + (i - n) = i + 1
        BY <2>2
      <3>2. (p \o q)[i] = s[i + 1]
        BY <1>2, <1>3, <2>2, <3>1
      <3>. QED  BY <2>2, <3>2
    <2>3. i <= n \/ i > n
      OBVIOUS
    <2>. QED  BY <2>1, <2>2, <2>3
  <1>5. r = p \o q
    BY <1>3, <1>4, SeqEqual
  <1>. QED  BY <1>5 DEF p, q

-----------------------------------------------------------------------------
(* The items of an array *)

\* An array that does not exist has no items.
DeadEmpty == \A a \in Arrays : a \notin live => len[a] = 0

LEMMA ItemsFacts ==
  ASSUME IInv, DeadEmpty, NEW a \in Arrays
  PROVE  /\ ItemsOf(a) \in Seq(Item) /\ Len(ItemsOf(a)) = len[a] /\ len[a] \in 0..MAX_LEN
         /\ \A k \in 1..len[a] : ItemsOf(a)[k] = ItemAt(a, k - 1) /\ ItemAt(a, k - 1) \in Item
  <1>1. len[a] \in 0..MAX_LEN
    BY DEF IInv, TypeOK
  <1>2. ASSUME NEW k \in 1..len[a] PROVE ItemAt(a, k - 1) \in Item
    <2>1. a \in live
      BY <1>1, CapacityAssumption DEF DeadEmpty
    <2>2. k - 1 \in Used(a)
      BY <1>1, <2>1, CapacityAssumption DEF Used, Slots
    <2>. QED  BY <2>2, ItemAtType DEF IInv
  <1>3. ItemsOf(a) \in [1..len[a] -> Item]
    BY <1>2 DEF ItemsOf
  <1>4. ItemsOf(a) \in Seq(Item) /\ Len(ItemsOf(a)) = len[a]
    BY <1>1, <1>3, CapacityAssumption
  <1>. QED  BY <1>1, <1>2, <1>4 DEF ItemsOf

LEMMA DeadEmptyInv ==
  ASSUME TypeOK, DeadEmpty, [Next]_vars
  PROVE  DeadEmpty'
  BY DEF TypeOK, DeadEmpty, Next, vars, New, Drop, Push, Insert, Pop, Remove, Clone,
         NewItem, DropItem, Edit

\* The items of every array, before and after a step.
Shaped == \A a \in Arrays :
  /\ ItemsOf(a) \in Seq(Item) /\ Len(ItemsOf(a)) = len[a] /\ len[a] \in 0..MAX_LEN
  /\ \A k \in 1..len[a] : ItemsOf(a)[k] = ItemAt(a, k - 1)

LEMMA Shape == IInv /\ DeadEmpty => Shaped
  BY ItemsFacts DEF Shaped

LEMMA ShapeNext == (IInv /\ DeadEmpty => Shaped)'
  BY Shape, PTL

\* The items stay as they are where the slots in use do.
LEMMA ItemsSame ==
  ASSUME Shaped, NEW b \in Arrays, len'[b] = len[b],
         \A k \in 0..(len[b] - 1) : nodes'[b][k] = nodes[b][k] /\ info'[b][k] = info[b][k]
  PROVE  ItemsOf(b)' = ItemsOf(b)
  <1>1. len[b] \in Nat
    BY CapacityAssumption DEF Shaped
  <1>2. \A k \in 1..len[b] : ItemAt(b, k - 1)' = ItemAt(b, k - 1)
    BY <1>1 DEF ItemAt
  <1>. QED  BY <1>2 DEF ItemsOf

-----------------------------------------------------------------------------
(* The steps *)

\* push and insert put an item into the vector.
LEMMA PutStep ==
  ASSUME Shaped, Shaped', NEW a \in Arrays, NEW it \in Item, NEW idx,
         len \in [Arrays -> 0..MAX_LEN], PutEffect(a, idx, it)
  PROVE  Vector!Next
  <1>. DEFINE s == ItemsOf(a)
              V == [b \in Arrays |-> ItemsOf(b)]
              r == SubSeq(s, 1, idx) \o <<it>> \o SubSeq(s, idx + 1, Len(s))
  <1>1. /\ s \in Seq(Item) /\ Len(s) = len[a] /\ len[a] \in Nat
        /\ \A k \in 1..len[a] : s[k] = ItemAt(a, k - 1)
    BY CapacityAssumption DEF Shaped
  <1>2. /\ len'[a] = len[a] + 1 /\ idx \in 0..len[a] /\ len[a] < MAX_LEN
        /\ \A b \in Arrays \ {a} : len'[b] = len[b]
        /\ it \in hand /\ hand' = hand \ {it}
    BY DEF PutEffect
  <1>3. /\ ItemsOf(a)' \in Seq(Item) /\ Len(ItemsOf(a)') = Len(s) + 1
        /\ \A k \in 1..(len[a] + 1) : ItemsOf(a)'[k] = ItemAt(a, k - 1)'
    BY <1>1, <1>2 DEF Shaped
  <1>4. ASSUME NEW k \in 1..(len[a] + 1)
        PROVE  ItemsOf(a)'[k] = IF k <= idx THEN s[k] ELSE IF k = idx + 1 THEN it ELSE s[k - 1]
    <2>1. /\ nodes'[a][k - 1] = IF k - 1 < idx THEN nodes[a][k - 1]
                                ELSE IF k - 1 = idx THEN it[2] ELSE nodes[a][(k - 1) - 1]
          /\ info'[a][k - 1] = IF k - 1 < idx THEN info[a][k - 1]
                               ELSE IF k - 1 = idx THEN it[1] ELSE info[a][(k - 1) - 1]
      <3>1. k - 1 \in 0..len[a]
        BY <1>1
      <3>. QED  BY <3>1 DEF PutEffect
    <2>2. ItemsOf(a)'[k] = <<info'[a][k - 1], nodes'[a][k - 1]>>
      BY <1>3 DEF ItemAt
    <2>3. CASE k <= idx
      <3>1. k - 1 < idx /\ k \in 1..len[a]
        BY <1>1, <1>2, <2>3
      <3>. QED  BY <1>1, <2>1, <2>2, <2>3, <3>1 DEF ItemAt
    <2>4. CASE k = idx + 1
      <3>1. k - 1 = idx /\ ~ (k <= idx) /\ it = <<it[1], it[2]>>
        BY <1>2, <2>4 DEF Item
      <3>. QED  BY <2>1, <2>2, <2>4, <3>1
    <2>5. CASE k > idx + 1
      <3>1. ~ (k - 1 < idx) /\ k - 1 # idx /\ k - 1 \in 1..len[a] /\ ~ (k <= idx) /\ k # idx + 1
        BY <1>1, <1>2, <2>5
      <3>. QED  BY <1>1, <2>1, <2>2, <3>1 DEF ItemAt
    <2>6. k <= idx \/ k = idx + 1 \/ k > idx + 1
      BY <1>1, <1>2
    <2>. QED  BY <2>3, <2>4, <2>5, <2>6
  <1>5. ItemsOf(a)' = r
    <2>. DEFINE t == ItemsOf(a)'
    <2>1. idx \in 0..Len(s) /\ t \in Seq(Item) /\ Len(t) = Len(s) + 1
      BY <1>1, <1>2, <1>3
    <2>2. \A k \in 1..Len(t) :
            t[k] = IF k <= idx THEN s[k] ELSE IF k = idx + 1 THEN it ELSE s[k - 1]
      BY <1>1, <1>3, <1>4
    <2>. HIDE DEF s, t
    <2>3. s \in Seq(Item)
      BY <1>1
    <2>. QED  BY <2>1, <2>2, <2>3, PutInSeq DEF t
  <1>6. \A b \in Arrays \ {a} : ItemsOf(b)' = ItemsOf(b)
    BY <1>2, ItemsSame DEF PutEffect
  <1>7. V' = [V EXCEPT ![a] = r]
    BY <1>5, <1>6
  <1>8. V[a] = s
    OBVIOUS
  <1>. HIDE DEF s
  <1>9. Vector!PutAt(a, idx, it)
    BY <1>1, <1>2, <1>7, <1>8 DEF Vector!PutAt, Vector!Becomes, Vector!Take, Vector!Drop
  <1>10. idx \in 0..Len(V[a])
    BY <1>1, <1>2, <1>8
  <1>. QED  BY <1>2, <1>9, <1>10 DEF Vector!Next

\* pop and remove take an item out of it.
LEMMA TakeStep ==
  ASSUME Shaped, Shaped', NEW a \in Arrays, NEW idx,
         len \in [Arrays -> 0..MAX_LEN], TakeEffect(a, idx)
  PROVE  Vector!Next
  <1>. DEFINE s == ItemsOf(a)
              V == [b \in Arrays |-> ItemsOf(b)]
              r == SubSeq(s, 1, idx) \o SubSeq(s, (idx + 1) + 1, Len(s))
  <1>1. /\ s \in Seq(Item) /\ Len(s) = len[a] /\ len[a] \in Nat
        /\ \A k \in 1..len[a] : s[k] = ItemAt(a, k - 1)
    BY CapacityAssumption DEF Shaped
  <1>2. /\ len'[a] = len[a] - 1 /\ idx \in 0..(len[a] - 1) /\ len[a] > 0
        /\ \A b \in Arrays \ {a} : len'[b] = len[b]
        /\ hand' = hand \cup {ItemAt(a, idx)}
    BY DEF TakeEffect
  <1>3. /\ ItemsOf(a)' \in Seq(Item) /\ Len(ItemsOf(a)') = Len(s) - 1
        /\ \A k \in 1..(len[a] - 1) : ItemsOf(a)'[k] = ItemAt(a, k - 1)'
    BY <1>1, <1>2 DEF Shaped
  <1>4. ASSUME NEW k \in 1..(len[a] - 1)
        PROVE  ItemsOf(a)'[k] = IF k <= idx THEN s[k] ELSE s[k + 1]
    <2>1. /\ nodes'[a][k - 1] = IF k - 1 < idx THEN nodes[a][k - 1] ELSE nodes[a][(k - 1) + 1]
          /\ info'[a][k - 1] = IF k - 1 < idx THEN info[a][k - 1] ELSE info[a][(k - 1) + 1]
      <3>1. k - 1 \in 0..(len[a] - 2)
        BY <1>1
      <3>. QED  BY <3>1 DEF TakeEffect
    <2>2. ItemsOf(a)'[k] = <<info'[a][k - 1], nodes'[a][k - 1]>>
      BY <1>3 DEF ItemAt
    <2>3. CASE k <= idx
      <3>1. k - 1 < idx /\ k \in 1..len[a]
        BY <1>1, <1>2, <2>3
      <3>. QED  BY <1>1, <2>1, <2>2, <2>3, <3>1 DEF ItemAt
    <2>4. CASE k > idx
      <3>1. ~ (k - 1 < idx) /\ k + 1 \in 1..len[a] /\ ~ (k <= idx) /\ (k - 1) + 1 = (k + 1) - 1
        BY <1>1, <1>2, <2>4
      <3>. QED  BY <1>1, <2>1, <2>2, <3>1 DEF ItemAt
    <2>5. k <= idx \/ k > idx
      BY <1>1, <1>2
    <2>. QED  BY <2>3, <2>4, <2>5
  <1>5. ItemsOf(a)' = r
    <2>. DEFINE t == ItemsOf(a)'
    <2>1. idx \in 0..(Len(s) - 1) /\ t \in Seq(Item) /\ Len(t) = Len(s) - 1
      BY <1>1, <1>2, <1>3
    <2>2. \A k \in 1..Len(t) : t[k] = IF k <= idx THEN s[k] ELSE s[k + 1]
      BY <1>1, <1>3, <1>4
    <2>. HIDE DEF s, t
    <2>3. s \in Seq(Item)
      BY <1>1
    <2>. QED  BY <2>1, <2>2, <2>3, TakeFromSeq DEF t
  <1>6. \A b \in Arrays \ {a} : ItemsOf(b)' = ItemsOf(b)
    BY <1>2, ItemsSame DEF TakeEffect
  <1>7. V' = [V EXCEPT ![a] = r]
    BY <1>5, <1>6
  <1>8. V[a] = s /\ s[idx + 1] = ItemAt(a, idx)
    <2>1. idx + 1 \in 1..len[a] /\ (idx + 1) - 1 = idx
      BY <1>1, <1>2
    <2>. QED  BY <1>1, <2>1
  <1>. HIDE DEF s
  <1>9. Vector!TakeAt(a, idx)
    BY <1>1, <1>2, <1>7, <1>8 DEF Vector!TakeAt, Vector!Becomes, Vector!Take, Vector!Drop
  <1>10. idx \in 0..(Len(V[a]) - 1)
    BY <1>1, <1>2, <1>8
  <1>. QED  BY <1>9, <1>10 DEF Vector!Next

\* Clone gives another array the same infos and references of its own.
LEMMA CloneStep ==
  ASSUME Shaped, Shaped', TypeOK, NEW a \in Arrays, NEW b \in Arrays, Clone(a, b)
  PROVE  Vector!Next
  <1>. DEFINE s == ItemsOf(a)
              V == [c \in Arrays |-> ItemsOf(c)]
  <1>1. PICK refs \in ClonedRefs(a) :
          nodes' = [nodes EXCEPT ![b] =
                      [i \in Slots |-> IF i \in Used(a) THEN refs[i] ELSE Uninit]]
    BY DEF Clone
  <1>. DEFINE t == [i \in 1..len[a] |-> refs[i - 1]]
  <1>2. /\ a \in live /\ a # b /\ hand' = hand /\ len'[b] = len[a]
        /\ \A c \in Arrays \ {b} : len'[c] = len[c] /\ nodes'[c] = nodes[c] /\ info'[c] = info[c]
        /\ info'[b] = [i \in Slots |-> IF i \in Used(a) THEN info[a][i] ELSE Uninit]
        /\ nodes'[b] = [i \in Slots |-> IF i \in Used(a) THEN refs[i] ELSE Uninit]
    BY <1>1 DEF Clone, TypeOK
  <1>3. Used(a) = 0..(len[a] - 1) /\ len[a] \in Nat /\ Used(a) \subseteq Slots
    BY <1>2, UsedRange, CapacityAssumption DEF TypeOK, Used
  <1>4. /\ refs \in [Used(a) -> Arc]
        /\ \A i \in Used(a) : refs[i][1] = nodes[a][i][1]
    BY DEF ClonedRefs
  <1>5. /\ Len(s) = len[a]
        /\ \A k \in 1..len[a] : k - 1 \in Used(a) /\ s[k] = <<info[a][k - 1], nodes[a][k - 1]>>
    BY <1>3 DEF Shaped, ItemAt
  <1>6. t \in [1..len[a] -> Arc] /\ \A i \in DOMAIN t : t[i][1] = s[i][2][1]
    BY SMTT(60), <1>4, <1>5
  <1>7. ItemsOf(b)' = [i \in 1..len[a] |-> <<s[i][1], t[i]>>]
    <2>1. \A k \in 1..len[a] : ItemAt(b, k - 1)' = <<s[k][1], t[k]>>
      BY SMTT(60), <1>2, <1>3, <1>5 DEF ItemAt
    <2>2. ItemsOf(b)' = [i \in 1..len[a] |-> ItemAt(b, i - 1)']
      BY <1>2 DEF ItemsOf
    <2>. HIDE DEF s, t
    <2>. QED  BY <2>1, <2>2
  <1>8. \A c \in Arrays \ {b} : ItemsOf(c)' = ItemsOf(c)
    BY <1>2, ItemsSame
  <1>9. V[a] = s /\ b \in Arrays \ {a}
    BY <1>2
  <1>. HIDE DEF s, t
  <1>10. V' = [V EXCEPT ![b] = [i \in 1..len[a] |-> <<s[i][1], t[i]>>]]
    BY <1>7, <1>8
  <1>11. Vector!Clone(a, b)
    <2>1. t \in [1..Len(V[a]) -> Vector!Arc] /\ \A i \in DOMAIN t : t[i][1] = V[a][i][2][1]
      BY <1>5, <1>6, <1>9 DEF Vector!Arc, Arc
    <2>2. Vector!Becomes(b, [i \in 1..Len(V[a]) |-> <<V[a][i][1], t[i]>>])
      BY <1>5, <1>9, <1>10 DEF Vector!Becomes
    <2>3. hand' = hand
      BY <1>2
    <2>. QED  BY <2>1, <2>2, <2>3 DEF Vector!Clone
  <1>. QED  BY <1>9, <1>11 DEF Vector!Next

\* An edit of a child replaces its item.
LEMMA EditStep ==
  ASSUME Shaped, Shaped', TypeOK, TypeOK', UsedInitialized',
         NEW a \in Arrays, NEW i \in Slots, NEW inf \in Info, Edit(a, i, inf)
  PROVE  Vector!Next
  <1>. DEFINE s == ItemsOf(a)
              V == [c \in Arrays |-> ItemsOf(c)]
  <1>1. /\ i \in Used(a) /\ hand' = hand /\ len' = len /\ live' = live
        /\ \A c \in Arrays, k \in Slots :
             info'[c][k] = IF c = a /\ k = i THEN inf ELSE info[c][k]
    BY DEF Edit, TypeOK, Written
  <1>2. \A c \in Arrays, k \in Slots : ~ (c = a /\ k = i) => nodes'[c][k] = nodes[c][k]
    BY DEF Edit, TypeOK, Written
  <1>3. PICK arc \in Arc : nodes'[a][i] = arc
    <2>1. i \in Used(a)'
      BY <1>1 DEF Used
    <2>. QED  BY <2>1 DEF TypeOK, UsedInitialized
  <1>. DEFINE it == <<inf, arc>>
  <1>4. /\ s \in Seq(Item) /\ Len(s) = len[a] /\ len[a] \in 0..MAX_LEN
        /\ \A k \in 1..len[a] : s[k] = <<info[a][k - 1], nodes[a][k - 1]>>
    BY DEF Shaped, ItemAt
  <1>5. i + 1 \in 1..len[a] /\ i \in 0..(len[a] - 1) /\ i \in Nat
    BY <1>1, <1>4, CapacityAssumption DEF Used, Slots
  <1>6. ItemsOf(a)' = [s EXCEPT ![i + 1] = it]
    <2>1. /\ ItemsOf(a)' \in Seq(Item) /\ Len(ItemsOf(a)') = len[a]
          /\ \A k \in 1..len[a] : ItemsOf(a)'[k] = <<info'[a][k - 1], nodes'[a][k - 1]>>
      BY <1>1 DEF Shaped, ItemAt
    <2>2. ASSUME NEW k \in 1..len[a]
          PROVE  ItemsOf(a)'[k] = IF k = i + 1 THEN it ELSE s[k]
      <3>1. k - 1 \in Slots /\ (k - 1 = i <=> k = i + 1)
        BY <1>4, <1>5, CapacityAssumption DEF Slots
      <3>. QED  BY ZenonT(60), <1>1, <1>2, <1>3, <1>4, <2>1, <3>1
    <2>. DEFINE r == ItemsOf(a)'
    <2>. HIDE DEF r, s, it
    <2>3. r \in Seq(Item) /\ Len(r) = len[a] /\ \A k \in 1..len[a] : r[k] = IF k = i + 1 THEN it ELSE s[k]
      BY <2>1, <2>2 DEF r
    <2>4. DOMAIN r = 1..len[a] /\ DOMAIN s = 1..len[a]
      BY <1>4, <2>3
    <2>5. r = [s EXCEPT ![i + 1] = it]
      BY <1>4, <1>5, <2>3, <2>4
    <2>. QED  BY <2>5 DEF r
  <1>7. \A c \in Arrays \ {a} : ItemsOf(c)' = ItemsOf(c)
    <2>1. ASSUME NEW c \in Arrays \ {a} PROVE ItemsOf(c)' = ItemsOf(c)
      <3>1. c \in Arrays /\ MAX_LEN \in Nat
        BY CapacityAssumption
      <3>2. len[c] \in 0..MAX_LEN
        BY <3>1 DEF Shaped
      <3>3. \A k \in 0..(len[c] - 1) : k \in Slots
        BY <3>1, <3>2 DEF Slots
      <3>. QED  BY <1>1, <1>2, <3>1, <3>3, ItemsSame
    <2>. QED  BY <2>1
  <1>8. V' = [V EXCEPT ![a] = [s EXCEPT ![i + 1] = it]] /\ V[a] = s
    BY <1>6, <1>7
  <1>9. i \in 0..(Len(V[a]) - 1) /\ it \in Item /\ it \in Vector!Item
    BY <1>4, <1>5, <1>8 DEF Item, Arc, Vector!Item, Vector!Arc
  <1>. HIDE DEF s, it
  <1>10. Vector!ReplaceAt(a, i, it)
    BY <1>1, <1>8 DEF Vector!ReplaceAt, Vector!Becomes
  <1>. QED  BY <1>9, <1>10 DEF Vector!Next

\* The destructor empties the vector.
LEMMA DropStep ==
  ASSUME Shaped, Shaped', len \in [Arrays -> 0..MAX_LEN], TypeOK, NEW a \in Arrays, Drop(a)
  PROVE  Vector!Next
  <1>. DEFINE V == [c \in Arrays |-> ItemsOf(c)]
  <1>1. /\ hand' = hand /\ len'[a] = 0
        /\ \A c \in Arrays \ {a} : len'[c] = len[c] /\ nodes'[c] = nodes[c] /\ info'[c] = info[c]
    BY DEF Drop, TypeOK
  <1>2. ItemsOf(a)' = <<>>
    <2>1. ItemsOf(a)' \in Seq(Item) /\ Len(ItemsOf(a)') = 0
      BY <1>1 DEF Shaped
    <2>. DEFINE t == ItemsOf(a)'
    <2>. HIDE DEF t
    <2>2. t \in Seq(Item) /\ Len(t) = 0
      BY <2>1 DEF t
    <2>3. t = <<>>
      BY <2>2
    <2>. QED  BY <2>3 DEF t
  <1>3. \A c \in Arrays \ {a} : ItemsOf(c)' = ItemsOf(c)
    BY <1>1, ItemsSame
  <1>4. V' = [V EXCEPT ![a] = <<>>]
    BY <1>2, <1>3
  <1>. QED  BY <1>1, <1>4 DEF Vector!Next, Vector!Becomes

\* A step that keeps the slots in use leaves the vectors as they are.
LEMMA VectorsSame ==
  ASSUME Shaped, TypeOK, DeadEmpty,
         \/ \E a \in Arrays : New(a)
         \/ \E it \in Item : NewItem(it) \/ DropItem(it)
         \/ UNCHANGED vars
  PROVE  [c \in Arrays |-> ItemsOf(c)]' = [c \in Arrays |-> ItemsOf(c)]
  <1>1. ASSUME NEW c \in Arrays PROVE ItemsOf(c)' = ItemsOf(c)
    <2>1. len'[c] = len[c]
      BY DEF New, NewItem, DropItem, vars, TypeOK, DeadEmpty
    <2>2. len[c] = 0 \/ (nodes'[c] = nodes[c] /\ info'[c] = info[c])
      BY DEF New, NewItem, DropItem, vars, TypeOK, DeadEmpty
    <2>3. \A k \in 0..(len[c] - 1) : nodes'[c][k] = nodes[c][k] /\ info'[c][k] = info[c][k]
      BY <2>2 DEF Shaped
    <2>. QED  BY <2>1, <2>3, ItemsSame
  <1>. QED  BY <1>1

\* Every step of the arrays is a step of the vectors or changes nothing of them.
LEMMA VectorStep ==
  ASSUME IInv, DeadEmpty, IInv', DeadEmpty', [Next]_vars
  PROVE  [Vector!Next]_Vector!vars
  <1>1. Shaped /\ TypeOK /\ TypeOK' /\ UsedInitialized' /\ len \in [Arrays -> 0..MAX_LEN]
    BY Shape DEF IInv, TypeOK
  <1>2. Shaped'
    BY ShapeNext
  <1>3. ASSUME NEW b \in Arrays, New(b) PROVE UNCHANGED Vector!vars
    BY <1>1, <1>3, VectorsSame DEF New, Vector!vars
  <1>4. ASSUME NEW a \in Arrays, Drop(a) PROVE Vector!Next
    BY <1>1, <1>2, <1>4, DropStep
  <1>5. ASSUME NEW a \in Arrays, NEW it \in Item, Push(a, it) PROVE Vector!Next
    <2>1. PutEffect(a, len[a], it)
      BY <1>1, <1>5, PushEffect
    <2>. QED  BY <1>1, <1>2, <2>1, PutStep
  <1>6. ASSUME NEW a \in Arrays, NEW it \in Item, NEW idx \in Slots, Insert(a, idx, it)
        PROVE  Vector!Next
    <2>1. PutEffect(a, idx, it)
      BY <1>1, <1>6, InsertEffect
    <2>. QED  BY <1>1, <1>2, <2>1, PutStep
  <1>7. ASSUME NEW a \in Arrays, Pop(a) PROVE Vector!Next
    <2>1. TakeEffect(a, len[a] - 1)
      BY <1>1, <1>7, PopEffect
    <2>. QED  BY <1>1, <1>2, <2>1, TakeStep
  <1>8. ASSUME NEW a \in Arrays, NEW idx \in Slots, Remove(a, idx) PROVE Vector!Next
    <2>1. TakeEffect(a, idx)
      BY <1>1, <1>8, RemoveEffect
    <2>. QED  BY <1>1, <1>2, <2>1, TakeStep
  <1>9. ASSUME NEW a \in Arrays, NEW b \in Arrays, Clone(a, b) PROVE Vector!Next
    BY <1>1, <1>2, <1>9, CloneStep
  <1>10. ASSUME NEW it \in Item, NewItem(it) \/ DropItem(it) PROVE Vector!Next
    <2>1. [a \in Arrays |-> ItemsOf(a)]' = [a \in Arrays |-> ItemsOf(a)]
      BY <1>1, <1>10, VectorsSame
    <2>2. hand' \in {hand \cup {it}, hand \ {it}} /\ it \in Vector!Item
      BY <1>10 DEF NewItem, DropItem, Item, Arc, Vector!Item, Vector!Arc
    <2>. QED  BY <2>1, <2>2 DEF Vector!Next
  <1>11. ASSUME NEW a \in Arrays, NEW i \in Slots, NEW inf \in Info, Edit(a, i, inf)
         PROVE  Vector!Next
    BY <1>1, <1>2, <1>11, EditStep
  <1>12. ASSUME UNCHANGED vars PROVE UNCHANGED Vector!vars
    BY <1>1, <1>12, VectorsSame DEF vars, Vector!vars
  <1>. QED  BY <1>3, <1>4, <1>5, <1>6, <1>7, <1>8, <1>9, <1>10, <1>11, <1>12 DEF Next

LEMMA VectorInit ==
  ASSUME Init
  PROVE  Vector!Init /\ DeadEmpty
  <1>1. \A a \in Arrays : len[a] = 0
    BY DEF Init
  <1>2. ASSUME NEW a \in Arrays PROVE ItemsOf(a) = <<>>
    <2>1. ItemsOf(a) = [i \in 1..0 |-> ItemAt(a, i - 1)]
      BY <1>1 DEF ItemsOf
    <2>. QED  BY <2>1
  <1>. QED  BY <1>1, <1>2 DEF Vector!Init, DeadEmpty, Init

\* The child array implements the vector it stands for: whatever slots push,
\* pop, insert, remove, clone, the destructor and the edits of a child move,
\* each of them changes the items of one array as a vector of items would,
\* and those of no other.
THEOREM Refinement == Spec => ImplementsVector
  <1>1. Init => IInv /\ DeadEmpty /\ Vector!Init
    BY InitIInv, VectorInit
  <1>2. IInv /\ DeadEmpty /\ [Next]_vars => (IInv /\ DeadEmpty)'
    BY Inductive, DeadEmptyInv DEF IInv
  <1>3. IInv /\ DeadEmpty /\ (IInv /\ DeadEmpty)' /\ [Next]_vars
          => [Vector!Next]_Vector!vars
    BY VectorStep
  <1>. QED  BY <1>1, <1>2, <1>3, PTL DEF Spec, ImplementsVector, Vector!Spec
=============================================================================
