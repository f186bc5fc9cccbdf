--------------------------- MODULE Sharing_proofs ---------------------------
(***************************************************************************)
(* Proofs about nodes shared between threads: for any number of threads    *)
(* and of nodes, any capacity and any height of the trees.                 *)
(***************************************************************************)
EXTENDS Sharing, Induction, FiniteSetTheorems, SequenceTheorems, TLAPS

-----------------------------------------------------------------------------
(* The inductive invariant *)

\* The node that is in a slot and in no other.
OnlyIn(s, n) == \A q \in Slot : ptr[q] = n <=> q = s

\* The call that a thread is in, and what it holds while it is in it.
Control(t) ==
  /\ pc[t] \in {"idle", "pull_up", "set_root"} => owned[t] = {}
  /\ pc[t] # "idle" => HasRope(t) /\ chain[t] = <<>>
  /\ chain[t] # <<>> => dying[t] = <<>>
  /\ pc[t] \in {"make_mut", "copy"} =>
       at[t] \in SlotsOf(t) /\ ptr[at[t]] # Null /\ ptr[at[t]] \notin owned[t]
  /\ pc[t] \notin {"make_mut", "copy"} => at[t] = Root(t)
  /\ ptr[Local(t)] # Null <=> pc[t] \in {"copy", "set_root"}

\* A node that may be mutated has one reference, among those of the thread.
Alone(t) == \A n \in owned[t] : \E s \in SlotsOf(t) : OnlyIn(s, n)

\* A copy under way has one reference; its children are those of the original
\* that were copied already, so that no reference is overwritten.
CopyUnderWay(t) ==
  pc[t] = "copy" =>
    /\ OnlyIn(Local(t), ptr[Local(t)])
    /\ height[ptr[Local(t)]] = height[ptr[at[t]]]
    /\ \A i \in Index :
         ptr[Child(ptr[Local(t)], i)] \in {Null, ptr[Child(ptr[at[t]], i)]}

\* A slice's nodes hang one below the other, from the root of the rope.
ChainHangs(t) ==
  /\ chain[t] # <<>> => chain[t][1] = ptr[Root(t)]
  /\ \A k \in 2..Len(chain[t]) :
       \E i \in Index : ptr[Child(chain[t][k - 1], i)] = chain[t][k]

\* The nodes that a thread destroys have no reference, and are destroyed once.
DyingDead(t) ==
  /\ \A k \in DOMAIN dying[t] : strong[dying[t][k]] = 0
  /\ \A k, l \in DOMAIN dying[t] : dying[t][k] = dying[t][l] => k = l

ThreadInv(t) == Control(t) /\ Alone(t) /\ CopyUnderWay(t) /\ ChainHangs(t) /\ DyingDead(t)

\* What a thread mutates, no other thread does, and nobody reads; what it
\* destroys, no other thread does.
Apart(t, u) ==
  /\ \A k \in DOMAIN chain[t] : chain[t][k] \notin owned[u]
  /\ t # u => owned[t] \cap owned[u] = {}
  /\ t # u => \A k \in DOMAIN dying[t] : \A l \in DOMAIN dying[u] : dying[t][k] # dying[u][l]

\* Every tree has its leaves at one depth.
Layered == \A n \in Node, i \in Index :
             ptr[Child(n, i)] # Null => height[n] = height[ptr[Child(n, i)]] + 1

FreeEmpty == \A n \in Free, i \in Index : ptr[Child(n, i)] = Null

IInv ==
  /\ TypeOK
  /\ CountsExact
  /\ Layered
  /\ FreeEmpty
  /\ \A t \in Thread : ThreadInv(t)
  /\ \A t, u \in Thread : Apart(t, u)

-----------------------------------------------------------------------------
(* Slots *)

\* Roots, locals and children are different slots.
LEMMA SlotFacts ==
  /\ \A t \in Thread : Root(t) \in Slot /\ Local(t) \in Slot
  /\ \A n \in Node, i \in Index : Child(n, i) \in Slot
  /\ \A t, u \in Thread : Root(t) # Local(u)
  /\ \A t, u \in Thread : t # u => Root(t) # Root(u) /\ Local(t) # Local(u)
  /\ \A t \in Thread, n \in Node, i \in Index : Root(t) # Child(n, i) /\ Local(t) # Child(n, i)
  /\ \A n, m \in Node, i, j \in Index : Child(n, i) = Child(m, j) => n = m /\ i = j
  /\ Index \subseteq Nat
  <1>1. \A t \in Thread, n \in Node : t # n
    BY SharingAssumption
  <1>. QED
    BY <1>1 DEF Root, Local, Child, Slot, ChildSlot, Index

LEMMA SlotsOfMember ==
  ASSUME NEW t \in Thread, NEW s
  PROVE  s \in SlotsOf(t) <=> s = Root(t) \/ \E n \in owned[t], i \in Index : s = Child(n, i)
  BY DEF SlotsOf, Child

LEMMA SlotsFinite == IsFiniteSet(Slot)
  <1>1. IsFiniteSet(Index)
    BY FS_Interval, SharingAssumption DEF Index
  <1>2. IsFiniteSet({"root", "local"})
    <2>1. IsFiniteSet({"root"})
      BY FS_Singleton
    <2>2. {"root", "local"} = {"root"} \cup {"local"}
      OBVIOUS
    <2>. QED  BY <2>1, <2>2, FS_AddElement
  <1>3. IsFiniteSet(Thread \X {"root", "local"}) /\ IsFiniteSet(ChildSlot)
    BY <1>1, <1>2, FS_Product, SharingAssumption DEF ChildSlot
  <1>. QED  BY <1>3, FS_Union DEF Slot

-----------------------------------------------------------------------------
(* Reference counts *)

HoldersIn(p, n) == {s \in Slot : p[s] = n}

Exact(p, c) == \A n \in Node : c[n] = Cardinality(HoldersIn(p, n))

References == [Slot -> Node \cup {Null}]

\* A reference in an empty slot adds one to the count of its node.
LEMMA AddRef ==
  ASSUME NEW p \in References, NEW c \in [Node -> Nat], Exact(p, c),
         NEW s \in Slot, p[s] = Null, NEW m \in Node
  PROVE  /\ [p EXCEPT ![s] = m] \in References
         /\ [c EXCEPT ![m] = c[m] + 1] \in [Node -> Nat]
         /\ Exact([p EXCEPT ![s] = m], [c EXCEPT ![m] = c[m] + 1])
  <1>. DEFINE q == [p EXCEPT ![s] = m]
              d == [c EXCEPT ![m] = c[m] + 1]
  <1>1. q \in References /\ d \in [Node -> Nat]
    BY DEF References
  <1>2. ASSUME NEW n \in Node PROVE d[n] = Cardinality(HoldersIn(q, n))
    <2>1. IsFiniteSet(HoldersIn(p, n))
      BY SlotsFinite, FS_Subset DEF HoldersIn
    <2>2. CASE n = m
      <3>1. HoldersIn(q, n) = HoldersIn(p, n) \cup {s} /\ s \notin HoldersIn(p, n)
        BY <2>2, SharingAssumption DEF HoldersIn, References
      <3>2. Cardinality(HoldersIn(q, n)) = Cardinality(HoldersIn(p, n)) + 1
        BY <2>1, <3>1, FS_AddElement
      <3>. QED  BY <2>2, <3>2 DEF Exact
    <2>3. CASE n # m
      <3>1. HoldersIn(q, n) = HoldersIn(p, n)
        BY <2>3, SharingAssumption DEF HoldersIn, References
      <3>. QED  BY <2>3, <3>1 DEF Exact
    <2>. QED  BY <2>2, <2>3
  <1>. QED  BY <1>1, <1>2 DEF Exact

\* A slot that is emptied takes one from it.
LEMMA DropRef ==
  ASSUME NEW p \in References, NEW c \in [Node -> Nat], Exact(p, c),
         NEW s \in Slot, p[s] \in Node
  PROVE  /\ [p EXCEPT ![s] = Null] \in References
         /\ c[p[s]] > 0
         /\ [c EXCEPT ![p[s]] = c[p[s]] - 1] \in [Node -> Nat]
         /\ Exact([p EXCEPT ![s] = Null], [c EXCEPT ![p[s]] = c[p[s]] - 1])
  <1>. DEFINE m == p[s]
              q == [p EXCEPT ![s] = Null]
              d == [c EXCEPT ![m] = c[m] - 1]
  <1>1. \A n \in Node : IsFiniteSet(HoldersIn(p, n))
    BY SlotsFinite, FS_Subset DEF HoldersIn
  <1>2. Cardinality(HoldersIn(q, m)) = Cardinality(HoldersIn(p, m)) - 1
    <2>1. HoldersIn(q, m) = HoldersIn(p, m) \ {s} /\ s \in HoldersIn(p, m)
      BY SharingAssumption DEF HoldersIn, References
    <2>. QED  BY ZenonT(60), <1>1, <2>1, FS_RemoveElement
  <1>3. c[m] > 0
    <2>1. IsFiniteSet(HoldersIn(q, m))
      BY SlotsFinite, FS_Subset DEF HoldersIn
    <2>2. Cardinality(HoldersIn(q, m)) \in Nat /\ Cardinality(HoldersIn(p, m)) \in Nat
      BY <1>1, <2>1, FS_CardinalityType
    <2>. QED  BY <1>2, <2>2 DEF Exact
  <1>4. q \in References /\ d \in [Node -> Nat]
    BY <1>3 DEF References
  <1>5. ASSUME NEW n \in Node PROVE d[n] = Cardinality(HoldersIn(q, n))
    <2>1. CASE n = m
      BY <1>2, <2>1 DEF Exact
    <2>2. CASE n # m
      <3>1. HoldersIn(q, n) = HoldersIn(p, n)
        BY <2>2, SharingAssumption DEF HoldersIn, References
      <3>. QED  BY <2>2, <3>1 DEF Exact
    <2>. QED  BY <2>1, <2>2
  <1>. QED  BY <1>3, <1>4, <1>5 DEF Exact

\* A reference that moves counts once.
LEMMA MoveRef ==
  ASSUME NEW p \in References, NEW c \in [Node -> Nat], Exact(p, c),
         NEW s \in Slot, p[s] \in Node, NEW r \in Slot, p[r] = Null
  PROVE  /\ [p EXCEPT ![r] = p[s], ![s] = Null] \in References
         /\ Exact([p EXCEPT ![r] = p[s], ![s] = Null], c)
  <1>. DEFINE m == p[s]
              q == [p EXCEPT ![r] = m]
              d == [c EXCEPT ![m] = c[m] + 1]
  <1>1. q \in References /\ d \in [Node -> Nat] /\ Exact(q, d)
    BY AddRef
  <1>2. q[s] = m /\ r # s
    BY SharingAssumption DEF References
  <1>. HIDE DEF q, d
  <1>3. /\ [q EXCEPT ![s] = Null] \in References
        /\ Exact([q EXCEPT ![s] = Null], [d EXCEPT ![m] = d[m] - 1])
    BY <1>1, <1>2, DropRef
  <1>4. [q EXCEPT ![s] = Null] = [p EXCEPT ![r] = p[s], ![s] = Null]
    BY <1>2 DEF q, References
  <1>5. [d EXCEPT ![m] = d[m] - 1] = c
    <2>1. d = [c EXCEPT ![m] = c[m] + 1] /\ d[m] = c[m] + 1
      BY DEF d
    <2>2. \A n \in Node : [d EXCEPT ![m] = d[m] - 1][n] = c[n]
      BY <2>1
    <2>3. [d EXCEPT ![m] = d[m] - 1] \in [Node -> Int] /\ c \in [Node -> Int]
      BY <1>1
    <2>. QED  BY <2>2, <2>3
  <1>. QED  BY <1>3, <1>4, <1>5

\* The counts of a state.
LEMMA CountFacts ==
  ASSUME TypeOK, CountsExact
  PROVE  /\ ptr \in References /\ Exact(ptr, strong)
         /\ \A s \in Slot : ptr[s] \in Node => strong[ptr[s]] > 0
         /\ \A s, q \in Slot : ptr[s] \in Node /\ ptr[q] = ptr[s] /\ q # s => strong[ptr[s]] > 1
  <1>1. ptr \in References /\ Exact(ptr, strong)
    BY DEF TypeOK, CountsExact, References, Exact, HoldersIn, Holders
  <1>2. ASSUME NEW s \in Slot, ptr[s] \in Node PROVE strong[ptr[s]] > 0
    BY <1>1, <1>2, DropRef DEF TypeOK
  <1>3. ASSUME NEW s \in Slot, NEW q \in Slot, ptr[s] \in Node, ptr[q] = ptr[s], q # s
        PROVE  strong[ptr[s]] > 1
    <2>. DEFINE n == ptr[s]
                p == [ptr EXCEPT ![s] = Null]
                c == [strong EXCEPT ![n] = strong[n] - 1]
    <2>1. p \in References /\ c \in [Node -> Nat] /\ Exact(p, c)
      BY <1>1, <1>3, DropRef DEF TypeOK
    <2>2. p[q] = n
      BY <1>3 DEF TypeOK
    <2>. HIDE DEF p, c
    <2>3. c[n] > 0
      BY <1>3, <2>1, <2>2, DropRef
    <2>. QED  BY <1>3, <2>3 DEF c, TypeOK
  <1>. QED  BY <1>1, <1>2, <1>3

-----------------------------------------------------------------------------
(* What the invariant says of nodes *)

\* What is in a slot is a node that is counted, neither free nor dying.
LEMMA HeldFacts ==
  ASSUME IInv, NEW s \in Slot, ptr[s] # Null
  PROVE  /\ ptr[s] \in Node
         /\ strong[ptr[s]] \in Nat /\ strong[ptr[s]] > 0
         /\ ptr[s] \notin Free
         /\ \A t \in Thread : \A k \in DOMAIN dying[t] : dying[t][k] # ptr[s]
  <1>1. ptr[s] \in Node
    BY DEF IInv, TypeOK
  <1>2. strong[ptr[s]] \in Nat /\ strong[ptr[s]] > 0
    BY <1>1, CountFacts DEF IInv, TypeOK
  <1>. QED  BY <1>1, <1>2 DEF IInv, ThreadInv, DyingDead, Free

\* Nothing refers to a node whose count is zero.
LEMMA Unheld ==
  ASSUME IInv, NEW n \in Node, strong[n] = 0
  PROVE  /\ \A s \in Slot : ptr[s] # n
         /\ \A t \in Thread : n \notin owned[t]
  <1>1. \A s \in Slot : ptr[s] # n
    BY HeldFacts, SharingAssumption
  <1>2. ASSUME NEW t \in Thread, n \in owned[t] PROVE FALSE
    <2>1. PICK s \in SlotsOf(t) : OnlyIn(s, n)
      BY <1>2 DEF IInv, ThreadInv, Alone
    <2>2. s \in Slot
      <3>1. owned[t] \subseteq Node
        BY DEF IInv, TypeOK
      <3>. QED  BY <3>1, SlotFacts, SlotsOfMember
    <2>. QED  BY <1>1, <2>1, <2>2 DEF OnlyIn
  <1>. QED  BY <1>1, <1>2

\* A slot that a thread's rope does not have holds no node that it may mutate.
LEMMA OwnedHere ==
  ASSUME IInv, NEW t \in Thread, NEW n \in owned[t]
  PROVE  /\ n \in Node
         /\ pc[t] \notin {"idle", "pull_up", "set_root"}
         /\ SlotsOf(t) \subseteq Slot
         /\ \A s \in Slot : ptr[s] = n => s \in SlotsOf(t)
         /\ \E s \in SlotsOf(t) : ptr[s] = n
  <1>1. owned[t] \subseteq Node
    BY DEF IInv, TypeOK
  <1>2. SlotsOf(t) \subseteq Slot
    BY <1>1, SlotFacts, SlotsOfMember
  <1>3. PICK s \in SlotsOf(t) : OnlyIn(s, n)
    BY DEF IInv, ThreadInv, Alone
  <1>. QED  BY <1>1, <1>2, <1>3 DEF IInv, ThreadInv, Control, OnlyIn

LEMMA SlotsOfApart ==
  ASSUME IInv, NEW t \in Thread, NEW u \in Thread, t # u
  PROVE  SlotsOf(t) \cap SlotsOf(u) = {}
  <1>1. owned[t] \subseteq Node /\ owned[u] \subseteq Node /\ owned[t] \cap owned[u] = {}
    BY DEF IInv, TypeOK, Apart
  <1>. QED  BY <1>1, SlotFacts, SlotsOfMember

\* The nodes that a thread alone refers to.
Sole(u) == owned[u] \cup {n \in Node : pc[u] = "copy" /\ n = ptr[Local(u)]}

LEMMA NotSole ==
  ASSUME IInv, NEW u \in Thread, NEW s \in Slot, s \notin SlotsOf(u), s # Local(u)
  PROVE  ptr[s] \notin Sole(u)
  <1>1. ptr[s] \notin owned[u]
    BY OwnedHere
  <1>2. pc[u] = "copy" => ptr[s] # ptr[Local(u)]
    BY SlotFacts DEF IInv, ThreadInv, CopyUnderWay, OnlyIn
  <1>. QED  BY <1>1, <1>2 DEF Sole

\* What a slice refers to is in a slot: the root, or a child of what it refers to.
LEMMA ChainFacts ==
  ASSUME IInv, NEW t \in Thread, NEW k \in DOMAIN chain[t]
  PROVE  /\ chain[t][k] \in Node
         /\ \E s \in Slot : ptr[s] = chain[t][k] /\ \A u \in Thread : s # Local(u)
         /\ strong[chain[t][k]] > 0
         /\ \A u \in Thread : chain[t][k] \notin Sole(u)
         /\ Last(chain[t]) = chain[t][Len(chain[t])] /\ Len(chain[t]) \in DOMAIN chain[t]
         /\ DOMAIN chain[t] = 1..Len(chain[t])
  <1>1. /\ chain[t][k] \in Node
        /\ k \in 1..Len(chain[t]) /\ Len(chain[t]) \in DOMAIN chain[t]
        /\ DOMAIN chain[t] = 1..Len(chain[t]) /\ chain[t] # <<>>
    BY DEF IInv, TypeOK
  <1>2. PICK s \in Slot : ptr[s] = chain[t][k] /\ \A u \in Thread : s # Local(u)
    <2>1. CASE k = 1
      BY <1>1, <2>1, SlotFacts DEF IInv, ThreadInv, ChainHangs
    <2>2. CASE k # 1
      <3>1. PICK i \in Index : ptr[Child(chain[t][k - 1], i)] = chain[t][k]
        BY <1>1, <2>2 DEF IInv, ThreadInv, ChainHangs
      <3>2. chain[t][k - 1] \in Node
        BY SMTT(60), <1>1, <2>2 DEF IInv, TypeOK
      <3>. QED  BY <3>1, <3>2, SlotFacts
    <2>. QED  BY <2>1, <2>2
  <1>3. strong[chain[t][k]] > 0
    BY <1>1, <1>2, HeldFacts, SharingAssumption
  <1>4. ASSUME NEW u \in Thread PROVE chain[t][k] \notin Sole(u)
    <2>1. chain[t][k] \notin owned[u]
      BY DEF IInv, Apart
    <2>2. pc[u] = "copy" => chain[t][k] # ptr[Local(u)]
      BY <1>2, SlotFacts DEF IInv, ThreadInv, CopyUnderWay, OnlyIn
    <2>. QED  BY <2>1, <2>2 DEF Sole
  <1>. QED  BY <1>1, <1>2, <1>3, <1>4 DEF Last

-----------------------------------------------------------------------------
(* Non-interference: a thread relies on some slots only, and nothing that  *)
(* leaves them alone and makes no reference to what it alone refers to can *)
(* disturb it.                                                             *)

Relied(u, q) ==
  \/ q = Local(u)
  \/ q = Root(u) /\ (pc[u] # "idle" \/ chain[u] # <<>>)
  \/ \E n \in owned[u], i \in Index : q = Child(n, i)
  \/ pc[u] = "copy" /\ \E i \in Index : q \in {Child(ptr[Local(u)], i), Child(ptr[at[u]], i)}
  \/ \E k \in DOMAIN chain[u], i \in Index : q = Child(chain[u][k], i)

\* The thread itself does nothing, or goes on in a destructor.
Still(u) ==
  /\ pc'[u] = pc[u] /\ at'[u] = at[u] /\ owned'[u] = owned[u] /\ chain'[u] = chain[u]
  /\ \/ dying'[u] = dying[u]
     \/ chain[u] = <<>> /\ DyingDead(u)'

Undisturbed(u) ==
  /\ \A q \in Slot : Relied(u, q) => ptr'[q] = ptr[q]
  /\ \A q \in Slot : ptr'[q] # ptr[q] => ptr'[q] \notin Sole(u)
  /\ \A q \in Slot : ptr[q] # Null => height'[ptr[q]] = height[ptr[q]]
  /\ \A k \in DOMAIN dying[u] : strong'[dying[u][k]] = 0

LEMMA ThreadFrame ==
  ASSUME IInv, NEW u \in Thread, Still(u), Undisturbed(u)
  PROVE  ThreadInv(u)'
  <1>1. SlotsOf(u)' = SlotsOf(u)
    BY DEF SlotsOf, Still, Root
  <1>2. ptr'[Local(u)] = ptr[Local(u)]
    BY SlotFacts DEF Undisturbed, Relied
  <1>3. pc[u] # "idle" \/ chain[u] # <<>> => ptr'[Root(u)] = ptr[Root(u)]
    BY SlotFacts DEF Undisturbed, Relied
  <1>4. pc[u] # "idle" => \A s \in SlotsOf(u) : s \in Slot /\ ptr'[s] = ptr[s]
    <2>1. owned[u] \subseteq Node
      BY DEF IInv, TypeOK
    <2>. QED  BY <2>1, <1>3, SlotFacts, SlotsOfMember DEF Undisturbed, Relied
  <1>5. Control(u)'
    BY <1>1, <1>2, <1>3, <1>4 DEF IInv, ThreadInv, Control, HasRope, Still, Root, Local
  <1>6. Alone(u)'
    <2>1. SUFFICES ASSUME NEW n \in owned[u] PROVE \E s \in SlotsOf(u) : OnlyIn(s, n)'
      BY <1>1 DEF Alone, Still
    <2>2. PICK s \in SlotsOf(u) : OnlyIn(s, n)
      BY DEF IInv, ThreadInv, Alone
    <2>3. pc[u] # "idle"
      BY OwnedHere
    <2>4. ptr'[s] = n
      BY <1>4, <2>2, <2>3 DEF OnlyIn
    <2>5. \A q \in Slot : ptr'[q] = n => q = s
      BY <2>2 DEF OnlyIn, Undisturbed, Sole
    <2>. QED  BY <2>4, <2>5 DEF OnlyIn
  <1>7. CopyUnderWay(u)'
    <2>1. SUFFICES ASSUME pc[u] = "copy"
                   PROVE  /\ OnlyIn(Local(u), ptr[Local(u)])'
                          /\ (height[ptr[Local(u)]] = height[ptr[at[u]]])'
                          /\ \A i \in Index :
                               (ptr[Child(ptr[Local(u)], i)] \in {Null, ptr[Child(ptr[at[u]], i)]})'
      BY DEF CopyUnderWay, Still
    <2>2. /\ ptr[Local(u)] \in Node /\ Local(u) \in Slot
          /\ at[u] \in Slot /\ ptr[at[u]] \in Node /\ ptr'[at[u]] = ptr[at[u]] /\ at'[u] = at[u]
      BY <1>4, <2>1, SlotFacts DEF IInv, ThreadInv, Control, TypeOK, Still
    <2>3. /\ OnlyIn(Local(u), ptr[Local(u)])
          /\ height[ptr[Local(u)]] = height[ptr[at[u]]]
          /\ \A i \in Index :
               ptr[Child(ptr[Local(u)], i)] \in {Null, ptr[Child(ptr[at[u]], i)]}
      BY <2>1 DEF IInv, ThreadInv, CopyUnderWay
    <2>4. Local(u)' = Local(u)
      BY DEF Local
    <2>5. ptr[Local(u)] \in Sole(u)
      BY <2>1, <2>2 DEF Sole
    <2>6. OnlyIn(Local(u), ptr[Local(u)])'
      BY <1>2, <2>2, <2>3, <2>4, <2>5 DEF OnlyIn, Undisturbed
    <2>7. height'[ptr'[Local(u)]] = height'[ptr'[at'[u]]]
      BY <1>2, <2>2, <2>3, SharingAssumption DEF Undisturbed
    <2>8. ASSUME NEW i \in Index
          PROVE  ptr'[Child(ptr'[Local(u)], i)] \in {Null, ptr'[Child(ptr'[at'[u]], i)]}
      <3>1. /\ ptr'[Child(ptr[Local(u)], i)] = ptr[Child(ptr[Local(u)], i)]
            /\ ptr'[Child(ptr[at[u]], i)] = ptr[Child(ptr[at[u]], i)]
        BY <2>1, <2>2, SlotFacts DEF Undisturbed, Relied
      <3>. QED  BY <1>2, <2>2, <2>3, <3>1
    <2>. QED  BY <2>4, <2>6, <2>7, <2>8 DEF Child
  <1>8. ChainHangs(u)'
    <2>1. chain[u] # <<>> => chain[u][1] = ptr'[Root(u)]
      BY <1>3 DEF IInv, ThreadInv, ChainHangs
    <2>2. ASSUME NEW k \in 2..Len(chain[u])
          PROVE  \E i \in Index : ptr'[Child(chain[u][k - 1], i)] = chain[u][k]
      <3>1. PICK i \in Index : ptr[Child(chain[u][k - 1], i)] = chain[u][k]
        BY DEF IInv, ThreadInv, ChainHangs
      <3>2. k - 1 \in DOMAIN chain[u] /\ chain[u][k - 1] \in Node
        BY SMTT(60) DEF IInv, TypeOK
      <3>3. ptr'[Child(chain[u][k - 1], i)] = ptr[Child(chain[u][k - 1], i)]
        BY <3>2, SlotFacts DEF Undisturbed, Relied
      <3>. QED  BY <3>1, <3>3
    <2>. QED  BY <2>1, <2>2 DEF ChainHangs, Still, Root, Child
  <1>9. DyingDead(u)'
    BY DEF IInv, ThreadInv, DyingDead, Still, Undisturbed
  <1>. QED  BY <1>5, <1>6, <1>7, <1>8, <1>9 DEF ThreadInv

\* The children of what a thread may mutate, of what it copies into, and of what
\* nothing refers to, are relied on by no other thread.
LEMMA PrivateSlots ==
  ASSUME IInv, NEW t \in Thread, NEW u \in Thread, NEW n \in Node, NEW i \in Index,
         \/ t # u /\ n \in owned[t]
         \/ t # u /\ pc[t] = "copy" /\ n = ptr[Local(t)]
         \/ strong[n] = 0
  PROVE  ~ Relied(u, Child(n, i))
  <1>1. n \notin owned[u]
    <2>1. CASE t # u /\ n \in owned[t]
      BY <2>1 DEF IInv, Apart
    <2>2. CASE t # u /\ pc[t] = "copy" /\ n = ptr[Local(t)]
      <3>1. owned[u] \subseteq Node
        BY DEF IInv, TypeOK
      <3>2. Local(t) \notin SlotsOf(u) /\ Local(t) # Local(u)
        BY <2>2, <3>1, SlotFacts, SlotsOfMember
      <3>. QED  BY <2>2, <3>2, SlotFacts, NotSole DEF Sole
    <2>3. CASE strong[n] = 0
      BY <2>3, Unheld
    <2>. QED  BY <2>1, <2>2, <2>3
  <1>2. ASSUME pc[u] = "copy"
        PROVE  n # ptr[Local(u)] /\ n # ptr[at[u]]
    <2>1. at[u] \in SlotsOf(u) /\ at[u] \in Slot /\ ptr[Local(u)] \in Node
      BY <1>2, SlotFacts DEF IInv, ThreadInv, Control, TypeOK
    <2>2. OnlyIn(Local(u), ptr[Local(u)])
      BY <1>2 DEF IInv, ThreadInv, CopyUnderWay
    <2>3. CASE t # u /\ n \in owned[t]
      <3>1. /\ SlotsOf(t) \subseteq Slot
            /\ \A s \in Slot : ptr[s] = n => s \in SlotsOf(t)
            /\ \E s \in SlotsOf(t) : ptr[s] = n
        BY <2>3, OwnedHere
      <3>2. at[u] \notin SlotsOf(t)
        BY <2>1, <2>3, SlotsOfApart
      <3>3. Local(u) \notin SlotsOf(t)
        <4>1. owned[t] \subseteq Node
          BY DEF IInv, TypeOK
        <4>. QED  BY <4>1, SlotFacts, SlotsOfMember
      <3>. QED  BY <2>1, <3>1, <3>2, <3>3, SlotFacts
    <2>4. CASE t # u /\ pc[t] = "copy" /\ n = ptr[Local(t)]
      <3>1. OnlyIn(Local(t), n)
        BY <2>4 DEF IInv, ThreadInv, CopyUnderWay
      <3>2. Local(t) \notin SlotsOf(u) /\ Local(t) # Local(u)
        <4>1. owned[u] \subseteq Node
          BY DEF IInv, TypeOK
        <4>. QED  BY <2>4, <4>1, SlotFacts, SlotsOfMember
      <3>. QED  BY <2>1, <3>1, <3>2, SlotFacts DEF OnlyIn
    <2>5. CASE strong[n] = 0
      BY <2>1, <2>5, Unheld, SlotFacts
    <2>. QED  BY <2>3, <2>4, <2>5
  <1>3. ASSUME NEW k \in DOMAIN chain[u] PROVE n # chain[u][k]
    <2>1. n \in Sole(t) \/ strong[n] = 0
      BY DEF Sole
    <2>. QED  BY <2>1, ChainFacts
  <1>4. \A v \in Thread : Root(v) # Child(n, i) /\ Local(v) # Child(n, i)
    BY SlotFacts
  <1>5. /\ owned[u] \subseteq Node
        /\ pc[u] = "copy" => ptr[Local(u)] \in Node /\ ptr[at[u]] \in Node
        /\ \A k \in DOMAIN chain[u] : chain[u][k] \in Node
    BY SlotFacts DEF IInv, TypeOK, ThreadInv, Control
  <1>. QED  BY <1>1, <1>2, <1>3, <1>4, <1>5, SlotFacts DEF Relied

-----------------------------------------------------------------------------
(* Effects that several actions share *)

\* Nothing refers to memory that is allocated, and it refers to nothing.
LEMMA FreshFacts ==
  ASSUME IInv, NEW n \in Fresh
  PROVE  /\ n \in Node /\ n \in Free /\ n # Null /\ strong[n] = 0
         /\ \A s \in Slot : ptr[s] # n
         /\ \A t \in Thread : n \notin owned[t] /\ n \notin Sole(t)
         /\ \A t \in Thread : \A k \in DOMAIN dying[t] : dying[t][k] # n
         /\ \A t \in Thread : \A k \in DOMAIN chain[t] : chain[t][k] # n
         /\ \A i \in Index : ptr[Child(n, i)] = Null
         /\ \A s \in Slot : s \in {Child(n, i) : i \in Index} => ptr[s] = Null
  <1>1. n \in Free
    BY DEF Fresh
  <1>2. n \in Node /\ strong[n] = 0 /\ n # Null
    BY <1>1, SharingAssumption DEF Free
  <1>3. /\ \A s \in Slot : ptr[s] # n
        /\ \A t \in Thread : n \notin owned[t]
    BY <1>2, Unheld
  <1>4. \A t \in Thread : n \notin Sole(t)
    BY <1>3, SlotFacts DEF Sole
  <1>5. \A t \in Thread : \A k \in DOMAIN chain[t] : chain[t][k] # n
    BY <1>2, ChainFacts
  <1>. QED  BY <1>1, <1>2, <1>3, <1>4, <1>5 DEF IInv, FreeEmpty, Free

\* The last of the nodes being destroyed.
LEMMA DyingFacts ==
  ASSUME IInv, NEW t \in Thread, dying[t] # <<>>
  PROVE  /\ Last(dying[t]) \in Node /\ strong[Last(dying[t])] = 0
         /\ Last(dying[t]) \notin Free
         /\ \A s \in Slot : ptr[s] # Last(dying[t])
         /\ \A u \in Thread : \A k \in DOMAIN chain[u] : chain[u][k] # Last(dying[t])
         /\ \A u \in Thread : Last(dying[t]) \notin owned[u]
  <1>. DEFINE d == Last(dying[t])
  <1>1. Len(dying[t]) \in DOMAIN dying[t] /\ d = dying[t][Len(dying[t])] /\ d \in Node
    BY DEF IInv, TypeOK, Last
  <1>2. strong[d] = 0
    BY <1>1 DEF IInv, ThreadInv, DyingDead
  <1>3. d \notin Free
    BY <1>1 DEF Free
  <1>. QED  BY <1>1, <1>2, <1>3, Unheld, ChainFacts

\* Apart, but for the nodes being destroyed.
DyingApart(t, u) ==
  t # u => \A k \in DOMAIN dying[t] : \A l \in DOMAIN dying[u] : dying[t][k] # dying[u][l]

\* A release changes the count of the one node, which dies if that was the last
\* reference; no memory is free that was not before.
LEMMA ReleasedEffect ==
  ASSUME IInv, NEW t \in Thread, NEW n \in Node, strong[n] > 0, Released(t, n)
  PROVE  /\ strong' \in [Node -> Nat]
         /\ dying' \in [Thread -> Seq(Node)]
         /\ \A u \in Thread \ {t} : dying'[u] = dying[u]
         /\ \A u \in Thread : \A k \in DOMAIN dying[u] : strong'[dying[u][k]] = 0
         /\ DyingDead(t)'
         /\ \A u, v \in Thread : DyingApart(u, v)'
         /\ Free' = Free
  <1>. DEFINE ds == dying[t]
              es == IF strong[n] = 1 THEN Append(ds, n) ELSE ds
  <1>1. strong' \in [Node -> Nat] /\ strong'[n] = strong[n] - 1
        /\ \A m \in Node : m # n => strong'[m] = strong[m]
    BY DEF Released, IInv, TypeOK
  <1>2. ds \in Seq(Node) /\ es \in Seq(Node)
    BY DEF IInv, TypeOK
  <1>3. dying' \in [Thread -> Seq(Node)] /\ dying'[t] = es
        /\ \A u \in Thread \ {t} : dying'[u] = dying[u]
    BY <1>2 DEF Released, IInv, TypeOK
  <1>4. /\ DOMAIN es = IF strong[n] = 1 THEN 1..(Len(ds) + 1) ELSE 1..Len(ds)
        /\ DOMAIN ds = 1..Len(ds) /\ Len(ds) \in Nat
        /\ \A k \in DOMAIN ds : k \in DOMAIN es /\ es[k] = ds[k]
        /\ strong[n] = 1 => es[Len(ds) + 1] = n
    BY <1>2
  <1>5. \A u \in Thread : \A k \in DOMAIN dying[u] :
          dying[u][k] \in Node /\ dying[u][k] # n /\ strong[dying[u][k]] = 0
    BY DEF IInv, TypeOK, ThreadInv, DyingDead
  <1>. HIDE DEF es
  <1>6. \A k \in DOMAIN es : k \in DOMAIN ds \/ (k = Len(ds) + 1 /\ es[k] = n /\ strong[n] = 1)
    BY <1>4
  <1>7. \A u \in Thread : \A k \in DOMAIN dying[u] : strong'[dying[u][k]] = 0
    BY <1>1, <1>5
  <1>8. \A k \in DOMAIN es : strong'[es[k]] = 0
    BY <1>1, <1>4, <1>6, <1>7
  <1>9. \A k, l \in DOMAIN es : es[k] = es[l] => k = l
    BY <1>4, <1>5, <1>6 DEF IInv, ThreadInv, DyingDead
  <1>10. DyingDead(t)'
    BY <1>3, <1>8, <1>9 DEF DyingDead
  <1>11. \A u, v \in Thread : DyingApart(u, v)'
    <2>1. ASSUME NEW u \in Thread \ {t}, NEW k \in DOMAIN es, NEW l \in DOMAIN dying[u]
          PROVE  es[k] # dying[u][l]
      BY <1>4, <1>5, <1>6 DEF IInv, Apart
    <2>. QED  BY SMTT(60), <1>3, <2>1 DEF DyingApart, IInv, Apart
  <1>12. ASSUME NEW m \in Node PROVE m \in Free' <=> m \in Free
    <2>1. CASE m = n
      <3>1. n \notin Free
        BY DEF Free
      <3>2. CASE strong[n] = 1
        <4>1. Len(ds) + 1 \in DOMAIN es /\ es[Len(ds) + 1] = n
          BY <1>4, <3>2
        <4>. QED  BY <1>3, <2>1, <3>1, <4>1 DEF Free
      <3>3. CASE strong[n] # 1
        BY <1>1, <2>1, <3>1, <3>3 DEF Free, IInv, TypeOK
      <3>. QED  BY <3>2, <3>3
    <2>2. CASE m # n
      <3>1. (\E k \in DOMAIN es : es[k] = m) <=> (\E k \in DOMAIN ds : ds[k] = m)
        BY <1>4, <1>6, <2>2
      <3>. QED  BY ZenonT(60), <1>1, <1>3, <2>2, <3>1 DEF Free
    <2>. QED  BY <2>1, <2>2
  <1>. QED  BY <1>1, <1>3, <1>7, <1>10, <1>11, <1>12 DEF Free

-----------------------------------------------------------------------------
(* The steps that leave references and counts alone *)

LEMMA UnmovedInv ==
  ASSUME IInv, UNCHANGED <<ptr, strong, height, dying>>
  PROVE  /\ CountsExact' /\ Layered' /\ FreeEmpty'
         /\ \A u \in Thread : Still(u) => ThreadInv(u)'
         /\ \A u \in Thread : DyingDead(u)'
         /\ \A u, v \in Thread : DyingApart(u, v)'
         /\ \A s, n : OnlyIn(s, n)' <=> OnlyIn(s, n)
  <1>1. CountsExact'
    BY DEF IInv, CountsExact, Holders
  <1>2. Layered' /\ Free' = Free /\ FreeEmpty'
    BY DEF IInv, Layered, FreeEmpty, Free, Child
  <1>3. \A u \in Thread : Still(u) => ThreadInv(u)'
    <2>1. \A u \in Thread : Undisturbed(u)
      BY DEF Undisturbed, IInv, ThreadInv, DyingDead
    <2>. QED  BY <2>1, ThreadFrame
  <1>. QED
    BY <1>1, <1>2, <1>3 DEF IInv, ThreadInv, DyingDead, Apart, DyingApart, OnlyIn

LEMMA TakeSliceInv ==
  ASSUME IInv, NEW t \in Thread, TakeSlice(t)
  PROVE  IInv'
  <1>. DEFINE r == ptr[Root(t)]
  <1>1. /\ r \in Node /\ chain' = [chain EXCEPT ![t] = <<r>>]
        /\ UNCHANGED <<ptr, strong, height, text, pc, at, owned, dying>>
        /\ pc[t] = "idle" /\ dying[t] = <<>> /\ Root(t) \in Slot
    BY SlotFacts DEF TakeSlice, Idle, Calm, HasRope, IInv, TypeOK
  <1>2. <<r>> \in Seq(Node) /\ Len(<<r>>) = 1 /\ DOMAIN <<r>> = {1} /\ <<r>>[1] = r
    BY <1>1
  <1>3. TypeOK'
    BY <1>1, <1>2 DEF IInv, TypeOK
  <1>4. chain'[t] = <<r>> /\ \A u \in Thread \ {t} : chain'[u] = chain[u]
    BY <1>1 DEF IInv, TypeOK
  <1>5. \A u \in Thread \ {t} : ThreadInv(u)'
    BY <1>1, <1>4, UnmovedInv DEF Still
  <1>6. ThreadInv(t)'
    <2>1. Control(t)' /\ Alone(t)'
      BY <1>1, <1>4 DEF IInv, ThreadInv, Control, Alone, HasRope, SlotsOf, Root, Local
    <2>2. CopyUnderWay(t)' /\ ChainHangs(t)'
      BY <1>1, <1>2, <1>4 DEF CopyUnderWay, ChainHangs, Root
    <2>. QED  BY <1>1, <2>1, <2>2, UnmovedInv DEF ThreadInv
  <1>7. \A u \in Thread : r \notin owned[u]
    <2>1. \A u \in Thread \ {t} : owned[u] \subseteq Node /\ Root(t) \notin SlotsOf(u)
      BY SlotFacts, SlotsOfMember DEF IInv, TypeOK
    <2>. QED  BY <1>1, <2>1, OwnedHere
  <1>8. \A u, v \in Thread : Apart(u, v)'
    <2>1. \A u, v \in Thread : \A k \in DOMAIN chain'[u] : chain'[u][k] \notin owned[v]
      BY <1>2, <1>4, <1>7 DEF IInv, Apart
    <2>. QED  BY <1>1, <2>1 DEF IInv, Apart
  <1>. QED  BY <1>1, <1>3, <1>5, <1>6, <1>8, UnmovedInv DEF IInv

LEMMA NarrowSliceInv ==
  ASSUME IInv, NEW t \in Thread, NarrowSlice(t)
  PROVE  IInv'
  <1>. DEFINE n == Last(chain[t])
              s == chain[t]
  <1>1. PICK i \in Index :
          /\ ptr[Child(n, i)] # Null
          /\ chain' = [chain EXCEPT ![t] = Append(s, ptr[Child(n, i)])]
    BY DEF NarrowSlice
  <1>. DEFINE c == ptr[Child(n, i)]
              r == Append(s, c)
  <1>2. s # <<>> /\ UNCHANGED <<ptr, strong, height, text, pc, at, owned, dying>>
    BY DEF NarrowSlice
  <1>3. s \in Seq(Node) /\ Len(s) \in Nat \ {0} /\ 1 \in DOMAIN s
    BY <1>2 DEF IInv, TypeOK
  <1>4. /\ n \in Node /\ n = s[Len(s)] /\ Len(s) \in DOMAIN s
        /\ \A u \in Thread : n \notin Sole(u)
    BY <1>3, ChainFacts
  <1>5. c \in Node
    BY <1>1, <1>4, SlotFacts, HeldFacts
  <1>6. /\ r \in Seq(Node) /\ r # <<>> /\ Len(r) = Len(s) + 1 /\ r[Len(s) + 1] = c
        /\ \A k \in 1..Len(s) : r[k] = s[k]
        /\ DOMAIN r = 1..(Len(s) + 1) /\ DOMAIN s = 1..Len(s)
    BY <1>3, <1>5
  <1>. HIDE DEF r
  <1>7. chain'[t] = r /\ \A u \in Thread \ {t} : chain'[u] = chain[u]
    BY <1>1 DEF IInv, TypeOK, r
  <1>8. TypeOK'
    BY <1>1, <1>2, <1>6 DEF IInv, TypeOK, r
  <1>9. \A u \in Thread \ {t} : ThreadInv(u)'
    BY <1>2, <1>7, UnmovedInv DEF Still
  <1>10. ThreadInv(t)'
    <2>1. pc[t] = "idle" /\ dying[t] = <<>>
      BY <1>2 DEF IInv, ThreadInv, Control
    <2>2. Control(t)' /\ Alone(t)'
      BY <1>2, <1>7, <2>1 DEF IInv, ThreadInv, Control, Alone, HasRope, SlotsOf, Root, Local
    <2>3. CopyUnderWay(t)'
      BY <1>2, <2>1 DEF CopyUnderWay
    <2>4. r[1] = ptr[Root(t)]
      BY <1>2, <1>3, <1>6 DEF IInv, ThreadInv, ChainHangs
    <2>5. ASSUME NEW k \in 2..Len(r) PROVE \E j \in Index : ptr[Child(r[k - 1], j)] = r[k]
      <3>1. CASE k = Len(s) + 1
        <4>1. k - 1 \in 1..Len(s) /\ k - 1 = Len(s) /\ r[k] = c
          BY <1>3, <1>6, <3>1
        <4>2. r[k - 1] = n
          BY <1>4, <1>6, <4>1
        <4>. QED  BY <4>1, <4>2
      <3>2. CASE k # Len(s) + 1
        <4>1. k \in 2..Len(s) /\ k \in 1..Len(s) /\ k - 1 \in 1..Len(s)
          BY <1>3, <1>6, <3>2
        <4>2. r[k] = s[k] /\ r[k - 1] = s[k - 1]
          BY <1>6, <4>1
        <4>. QED  BY <4>1, <4>2 DEF IInv, ThreadInv, ChainHangs
      <3>. QED  BY <3>1, <3>2
    <2>6. ChainHangs(t)'
      BY <1>2, <1>7, <2>4, <2>5 DEF ChainHangs, Root, Child
    <2>. QED  BY <1>2, <2>2, <2>3, <2>6, UnmovedInv DEF ThreadInv
  <1>11. \A u \in Thread : c \notin owned[u]
    <2>1. ASSUME NEW u \in Thread PROVE Child(n, i) \notin SlotsOf(u)
      <3>1. owned[u] \subseteq Node /\ n \notin owned[u]
        BY <1>4 DEF IInv, TypeOK, Sole
      <3>. QED  BY <1>4, <3>1, SlotFacts, SlotsOfMember
    <2>. QED  BY <1>4, <2>1, SlotFacts, OwnedHere
  <1>12. \A u, v \in Thread : Apart(u, v)'
    <2>1. \A u, v \in Thread : \A k \in DOMAIN chain'[u] : chain'[u][k] \notin owned[v]
      BY SMTT(60), <1>3, <1>6, <1>7, <1>11 DEF IInv, Apart
    <2>. QED  BY <1>2, <2>1 DEF IInv, Apart
  <1>. QED  BY <1>2, <1>8, <1>9, <1>10, <1>12, UnmovedInv DEF IInv

LEMMA EndSliceInv ==
  ASSUME IInv, NEW t \in Thread, EndSlice(t)
  PROVE  IInv'
  <1>1. /\ chain' = [chain EXCEPT ![t] = <<>>]
        /\ UNCHANGED <<ptr, strong, height, text, pc, at, owned, dying>>
    BY DEF EndSlice
  <1>2. <<>> \in Seq(Node) /\ Len(<<>>) = 0 /\ DOMAIN <<>> = {}
    OBVIOUS
  <1>3. TypeOK'
    BY <1>1, <1>2 DEF IInv, TypeOK
  <1>4. chain'[t] = <<>> /\ \A u \in Thread \ {t} : chain'[u] = chain[u]
    BY <1>1 DEF IInv, TypeOK
  <1>5. \A u \in Thread \ {t} : ThreadInv(u)'
    BY <1>1, <1>4, UnmovedInv DEF Still
  <1>6. ThreadInv(t)'
    <2>1. Control(t)' /\ Alone(t)' /\ CopyUnderWay(t)'
      BY SMTT(60), <1>1, <1>4 DEF IInv, ThreadInv, Control, Alone, HasRope, SlotsOf, Root, Local,
                        CopyUnderWay, OnlyIn, Child
    <2>2. ChainHangs(t)'
      BY <1>4 DEF ChainHangs
    <2>. QED  BY <1>1, <2>1, <2>2, UnmovedInv DEF ThreadInv
  <1>7. \A u, v \in Thread : Apart(u, v)'
    <2>1. \A u, v \in Thread : \A k \in DOMAIN chain'[u] : chain'[u][k] \notin owned[v]
      BY <1>2, <1>4 DEF IInv, Apart
    <2>. QED  BY <1>1, <2>1 DEF IInv, Apart
  <1>. QED  BY <1>1, <1>3, <1>5, <1>6, <1>7, UnmovedInv DEF IInv

-----------------------------------------------------------------------------
(* make_mut, and the ends of an edit *)

LEMMA StartEditInv ==
  ASSUME IInv, NEW t \in Thread, StartEdit(t)
  PROVE  IInv'
  <1>1. /\ pc' = [pc EXCEPT ![t] = "make_mut"] /\ at' = [at EXCEPT ![t] = Root(t)]
        /\ UNCHANGED <<ptr, strong, height, text, owned, dying, chain>>
        /\ pc[t] = "idle" /\ chain[t] = <<>> /\ HasRope(t)
    BY DEF StartEdit, Idle, Calm
  <1>2. Root(t) \in Slot
    BY SlotFacts
  <1>3. TypeOK'
    BY <1>1, <1>2 DEF IInv, TypeOK
  <1>4. /\ pc'[t] = "make_mut" /\ at'[t] = Root(t)
        /\ \A u \in Thread \ {t} : pc'[u] = pc[u] /\ at'[u] = at[u]
    BY <1>1 DEF IInv, TypeOK
  <1>5. \A u \in Thread \ {t} : ThreadInv(u)'
    BY <1>1, <1>4, UnmovedInv DEF Still
  <1>6. ThreadInv(t)'
    <2>1. Control(t)'
      BY <1>1, <1>4, SlotsOfMember DEF IInv, ThreadInv, Control, HasRope, SlotsOf, Root, Local
    <2>2. Alone(t)' /\ CopyUnderWay(t)' /\ ChainHangs(t)'
      BY <1>1, <1>4 DEF IInv, ThreadInv, Control, Alone, CopyUnderWay, ChainHangs, Root, Child
    <2>. QED  BY <1>1, <2>1, <2>2, UnmovedInv DEF ThreadInv
  <1>7. \A u, v \in Thread : Apart(u, v)'
    BY <1>1 DEF IInv, Apart
  <1>. QED  BY <1>1, <1>3, <1>5, <1>6, <1>7, UnmovedInv DEF IInv

LEMMA MakeMutInv ==
  ASSUME IInv, NEW t \in Thread, MakeMut(t)
  PROVE  IInv'
  <1>1. PICK n \in owned[t], i \in Index :
          /\ ptr[Child(n, i)] # Null /\ ptr[Child(n, i)] \notin owned[t]
          /\ at' = [at EXCEPT ![t] = Child(n, i)]
    BY DEF MakeMut
  <1>2. /\ pc' = [pc EXCEPT ![t] = "make_mut"]
        /\ UNCHANGED <<ptr, strong, height, text, owned, dying, chain>>
        /\ pc[t] = "edit"
    BY DEF MakeMut, In
  <1>3. n \in Node /\ Child(n, i) \in Slot /\ Child(n, i) \in SlotsOf(t)
    BY OwnedHere, SlotFacts, SlotsOfMember
  <1>4. TypeOK'
    BY <1>1, <1>2, <1>3 DEF IInv, TypeOK
  <1>5. /\ pc'[t] = "make_mut" /\ at'[t] = Child(n, i)
        /\ \A u \in Thread \ {t} : pc'[u] = pc[u] /\ at'[u] = at[u]
    BY <1>1, <1>2 DEF IInv, TypeOK
  <1>6. \A u \in Thread \ {t} : ThreadInv(u)'
    BY <1>2, <1>5, UnmovedInv DEF Still
  <1>7. ThreadInv(t)'
    <2>1. SlotsOf(t)' = SlotsOf(t)
      BY <1>2 DEF SlotsOf, Root
    <2>2. Control(t)'
      BY <1>1, <1>2, <1>3, <1>5, <2>1 DEF IInv, ThreadInv, Control, HasRope, Root, Local
    <2>3. Alone(t)'
      BY <1>2, <2>1, UnmovedInv DEF IInv, ThreadInv, Alone
    <2>4. CopyUnderWay(t)' /\ ChainHangs(t)'
      BY ZenonT(60), <1>2, <1>5 DEF IInv, ThreadInv, CopyUnderWay, ChainHangs, Root, Child
    <2>. QED  BY <1>2, <2>2, <2>3, <2>4, UnmovedInv DEF ThreadInv
  <1>8. \A u, v \in Thread : Apart(u, v)'
    BY <1>2 DEF IInv, Apart
  <1>. QED  BY <1>2, <1>4, <1>6, <1>7, <1>8, UnmovedInv DEF IInv

\* A count of one that is read is the thread's own reference, and nobody can
\* take another from it.
LEMMA InPlaceInv ==
  ASSUME IInv, NEW t \in Thread, InPlace(t)
  PROVE  IInv'
  <1>. DEFINE n == ptr[at[t]]
  <1>1. /\ pc' = [pc EXCEPT ![t] = "edit"] /\ at' = [at EXCEPT ![t] = Root(t)]
        /\ owned' = [owned EXCEPT ![t] = owned[t] \cup {n}]
        /\ UNCHANGED <<ptr, strong, height, text, dying, chain>>
        /\ pc[t] = "make_mut" /\ strong[n] = 1
    BY DEF InPlace, In, IsUnique
  <1>2. /\ at[t] \in SlotsOf(t) /\ at[t] \in Slot /\ n # Null /\ n \in Node
        /\ Root(t) \in Slot /\ owned[t] \subseteq Node
    BY <1>1, SlotFacts DEF IInv, ThreadInv, Control, TypeOK
  <1>3. OnlyIn(at[t], n)
    BY <1>1, <1>2, CountFacts DEF OnlyIn, IInv
  <1>4. TypeOK'
    BY <1>1, <1>2 DEF IInv, TypeOK
  <1>5. /\ pc'[t] = "edit" /\ at'[t] = Root(t) /\ owned'[t] = owned[t] \cup {n}
        /\ \A u \in Thread \ {t} : pc'[u] = pc[u] /\ at'[u] = at[u] /\ owned'[u] = owned[u]
    BY <1>1 DEF IInv, TypeOK
  <1>6. \A u \in Thread \ {t} : ThreadInv(u)'
    BY <1>1, <1>5, UnmovedInv DEF Still
  <1>7. ThreadInv(t)'
    <2>1. SlotsOf(t) \subseteq SlotsOf(t)'
      BY <1>5 DEF SlotsOf, Root
    <2>2. Control(t)'
      BY <1>1, <1>5 DEF IInv, ThreadInv, Control, HasRope, Root, Local
    <2>3. Alone(t)'
      BY <1>2, <1>3, <1>5, <2>1, <1>1, UnmovedInv DEF IInv, ThreadInv, Alone
    <2>4. CopyUnderWay(t)' /\ ChainHangs(t)'
      BY <1>1, <1>5 DEF IInv, ThreadInv, CopyUnderWay, ChainHangs, Root, Child
    <2>. QED  BY <1>1, <2>2, <2>3, <2>4, UnmovedInv DEF ThreadInv
  <1>8. \A u \in Thread \ {t} : n \notin owned[u]
    BY <1>2, OwnedHere, SlotsOfApart
  <1>9. ASSUME NEW u \in Thread, NEW k \in DOMAIN chain[u] PROVE chain[u][k] # n
    <2>1. chain[t] = <<>>
      BY <1>1 DEF IInv, ThreadInv, Control
    <2>2. CASE u = t
      BY <2>1, <2>2
    <2>3. CASE u # t
      <3>1. chain[u] # <<>> /\ DOMAIN chain[u] = 1..Len(chain[u])
        BY DEF IInv, TypeOK
      <3>2. CASE k = 1
        <4>1. chain[u][k] = ptr[Root(u)]
          BY <3>1, <3>2 DEF IInv, ThreadInv, ChainHangs
        <4>2. at[t] # Root(u)
          <5>1. Root(u) # Root(t) /\ \A m \in owned[t], i \in Index : Root(u) # Child(m, i)
            BY <1>2, <2>3, SlotFacts
          <5>. QED  BY <1>2, <5>1, SlotsOfMember
        <4>. QED  BY <1>3, <4>1, <4>2, SlotFacts DEF OnlyIn
      <3>3. CASE k # 1
        <4>1. PICK j \in Index : ptr[Child(chain[u][k - 1], j)] = chain[u][k]
          BY <3>1, <3>3 DEF IInv, ThreadInv, ChainHangs
        <4>2. k - 1 \in DOMAIN chain[u]
          BY <3>1, <3>3
        <4>3. chain[u][k - 1] \in Node /\ chain[u][k - 1] \notin owned[t]
          BY <4>2, ChainFacts DEF Sole
        <4>4. at[t] # Child(chain[u][k - 1], j)
          BY <1>2, <4>3, SlotFacts, SlotsOfMember
        <4>. QED  BY <1>3, <4>1, <4>3, <4>4, SlotFacts DEF OnlyIn
      <3>. QED  BY <3>2, <3>3
    <2>. QED  BY <2>2, <2>3
  <1>10. \A u, v \in Thread : Apart(u, v)'
    BY <1>1, <1>5, <1>8, <1>9 DEF IInv, Apart
  <1>. QED  BY <1>1, <1>4, <1>6, <1>7, <1>10, UnmovedInv DEF IInv

\* Texts are no part of the invariant but for their type.
LEMMA TextInv ==
  ASSUME IInv, UNCHANGED <<ptr, strong, height, pc, at, owned, dying, chain>>,
         text' \in [Node -> (UNION {Texts[t] : t \in Thread}) \cup {Null}]
  PROVE  IInv'
  <1>1. TypeOK'
    BY DEF IInv, TypeOK
  <1>2. \A u \in Thread : ThreadInv(u)'
    BY UnmovedInv DEF Still
  <1>3. \A u, v \in Thread : Apart(u, v)'
    BY DEF IInv, Apart
  <1>. QED  BY <1>1, <1>2, <1>3, UnmovedInv DEF IInv

LEMMA CopyTextInv ==
  ASSUME IInv, NEW t \in Thread, CopyText(t)
  PROVE  IInv'
  <1>1. ptr[at[t]] \in Node
    BY DEF CopyText, In, IInv, ThreadInv, Control, TypeOK
  <1>. QED  BY <1>1, TextInv DEF CopyText, IInv, TypeOK

LEMMA WriteInv ==
  ASSUME IInv, NEW t \in Thread, Write(t)
  PROVE  IInv'
  BY TextInv DEF Write, IInv, TypeOK

\* An edit, or the loop of pull_up_singular_nodes, is over.
LEMMA LeaveInv ==
  ASSUME IInv, NEW t \in Thread, NEW where \in {"idle", "pull_up"},
         pc[t] \in {"edit", "pull_up"},
         pc' = [pc EXCEPT ![t] = where], owned' = [owned EXCEPT ![t] = {}],
         UNCHANGED <<ptr, strong, height, text, at, dying, chain>>
  PROVE  IInv'
  <1>1. TypeOK'
    BY DEF IInv, TypeOK
  <1>2. /\ pc'[t] = where /\ owned'[t] = {}
        /\ \A u \in Thread \ {t} : pc'[u] = pc[u] /\ owned'[u] = owned[u]
    BY DEF IInv, TypeOK
  <1>3. \A u \in Thread \ {t} : ThreadInv(u)'
    BY <1>2, UnmovedInv DEF Still
  <1>4. ThreadInv(t)'
    <2>1. Control(t)'
      BY <1>2 DEF IInv, ThreadInv, Control, HasRope, Root, Local
    <2>2. Alone(t)' /\ CopyUnderWay(t)' /\ ChainHangs(t)'
      BY <1>2 DEF IInv, ThreadInv, Alone, CopyUnderWay, ChainHangs, Root, Child
    <2>. QED  BY <2>1, <2>2, UnmovedInv DEF ThreadInv
  <1>5. \A u, v \in Thread : Apart(u, v)'
    BY <1>2 DEF IInv, Apart
  <1>. QED  BY <1>1, <1>3, <1>4, <1>5, UnmovedInv DEF IInv

LEMMA EndEditInv ==
  ASSUME IInv, NEW t \in Thread, EndEdit(t)
  PROVE  IInv'
  BY LeaveInv DEF EndEdit, In

LEMMA EndPullUpInv ==
  ASSUME IInv, NEW t \in Thread, EndPullUp(t)
  PROVE  IInv'
  <1>1. owned' = [owned EXCEPT ![t] = {}]
    BY DEF EndPullUp, In, IInv, ThreadInv, Control, TypeOK
  <1>. QED  BY <1>1, LeaveInv DEF EndPullUp, In

LEMMA TextsTyped ==
  ASSUME IInv, NEW n,
         NEW x, x = Null \/ \E t \in Thread : x \in Texts[t],
         text' = [text EXCEPT ![n] = x]
  PROVE  text' \in [Node -> (UNION {Texts[t] : t \in Thread}) \cup {Null}]
  <1>. DEFINE U == UNION {Texts[t] : t \in Thread}
              T == U \cup {Null}
  <1>1. text \in [Node -> T]
    BY DEF IInv, TypeOK
  <1>2. ASSUME NEW t \in Thread, x \in Texts[t] PROVE x \in U
    <2>1. Texts[t] \in {Texts[u] : u \in Thread}
      OBVIOUS
    <2>. QED  BY <1>2, <2>1
  <1>. HIDE DEF U
  <1>3. text' \in [Node -> T]
    BY <1>1, <1>2
  <1>. QED  BY <1>3 DEF U

-----------------------------------------------------------------------------
(* The ways in which references change: one to new memory, one more to a   *)
(* node, one less, one that moves.                                         *)

LEMMA LayeredFrame ==
  ASSUME IInv, \A n \in Node \ Free : height'[n] = height[n],
         \A n \in Node, i \in Index :
           ptr'[Child(n, i)] # ptr[Child(n, i)] =>
             ptr'[Child(n, i)] = Null \/ height'[n] = height'[ptr'[Child(n, i)]] + 1
  PROVE  Layered'
  <1>1. SUFFICES ASSUME NEW n \in Node, NEW i \in Index, ptr'[Child(n, i)] # Null
                 PROVE  height'[n] = height'[ptr'[Child(n, i)]] + 1
    BY DEF Layered, Child
  <1>2. CASE ptr'[Child(n, i)] = ptr[Child(n, i)]
    <2>1. n \notin Free
      BY <1>1, <1>2 DEF IInv, FreeEmpty
    <2>2. ptr[Child(n, i)] \in Node \ Free
      BY <1>1, <1>2, SlotFacts, HeldFacts
    <2>. QED  BY <1>1, <1>2, <2>1, <2>2 DEF IInv, Layered
  <1>3. CASE ptr'[Child(n, i)] # ptr[Child(n, i)]
    BY <1>1, <1>3
  <1>. QED  BY <1>2, <1>3

LEMMA FreeFrame ==
  ASSUME IInv, Free' \subseteq Free,
         \A n \in Free', i \in Index : ptr'[Child(n, i)] = ptr[Child(n, i)]
  PROVE  FreeEmpty'
  BY DEF IInv, FreeEmpty, Child

\* Slot s is set to v, the others stay.
Sets(s, v) == ptr' = [ptr EXCEPT ![s] = v]

LEMMA SetsEffect ==
  ASSUME IInv, NEW s \in Slot, NEW v \in Node \cup {Null}, Sets(s, v)
  PROVE  /\ ptr' \in References
         /\ ptr'[s] = v
         /\ \A q \in Slot : q # s => ptr'[q] = ptr[q]
  BY DEF Sets, References, IInv, TypeOK

\* What a step did to the shared part of the state keeps its invariants.
SharedInv == Layered /\ FreeEmpty /\ CountsExact

LEMMA AllocEffect ==
  ASSUME IInv, NEW s \in Slot, NEW m \in Fresh, ptr[s] = Null, Sets(s, m),
         NEW h \in 0..MaxHeight,
         strong' = [strong EXCEPT ![m] = 1], height' = [height EXCEPT ![m] = h],
         dying' = dying,
         \A n \in Node, i \in Index :
           s = Child(n, i) => n \notin Free /\ height[n] = h + 1
  PROVE  /\ SharedInv'
         /\ strong' \in [Node -> Nat] /\ height' \in [Node -> 0..MaxHeight]
         /\ height'[m] = h /\ \A n \in Node : n # m => height'[n] = height[n]
         /\ \A u \in Thread : DyingDead(u)'
         /\ \A u \in Thread : ~ Relied(u, s) => Undisturbed(u)
         /\ \A q \in Slot : ptr'[q] = m <=> q = s
         /\ m \notin Free'
  <1>1. /\ m \in Node /\ m \in Free /\ strong[m] = 0
        /\ \A q \in Slot : ptr[q] # m
        /\ \A t \in Thread : m \notin Sole(t)
        /\ \A t \in Thread : \A k \in DOMAIN dying[t] : dying[t][k] # m
        /\ \A i \in Index : ptr[Child(m, i)] = Null
    BY FreshFacts
  <1>2. /\ ptr' \in References /\ ptr'[s] = m
        /\ \A q \in Slot : q # s => ptr'[q] = ptr[q]
    BY <1>1, SetsEffect
  <1>3. /\ strong' \in [Node -> Nat] /\ height' \in [Node -> 0..MaxHeight]
        /\ height'[m] = h /\ \A n \in Node : n # m => height'[n] = height[n]
        /\ strong'[m] = 1 /\ \A n \in Node : n # m => strong'[n] = strong[n]
    BY <1>1 DEF IInv, TypeOK
  <1>4. CountsExact'
    <2>1. ptr \in References /\ Exact(ptr, strong) /\ strong \in [Node -> Nat]
      BY CountFacts DEF IInv, TypeOK
    <2>2. Exact([ptr EXCEPT ![s] = m], [strong EXCEPT ![m] = strong[m] + 1])
      BY <1>1, <2>1, AddRef
    <2>3. Exact(ptr', strong')
      BY <1>1, <2>2 DEF Sets
    <2>. QED  BY <2>3 DEF Exact, HoldersIn, CountsExact, Holders
  <1>5. Layered'
    <2>1. \A n \in Node \ Free : height'[n] = height[n]
      BY <1>1, <1>3
    <2>2. ASSUME NEW n \in Node, NEW i \in Index, ptr'[Child(n, i)] # ptr[Child(n, i)]
          PROVE  height'[n] = height'[ptr'[Child(n, i)]] + 1
      BY <1>1, <1>2, <1>3, <2>2, SlotFacts
    <2>. QED  BY <2>1, <2>2, LayeredFrame
  <1>6. Free' = Free \ {m}
    BY <1>1, <1>3 DEF Free
  <1>7. FreeEmpty'
    <2>1. \A n \in Free' : n \in Node /\ n \in Free
      BY <1>6 DEF Free
    <2>2. \A n \in Free', i \in Index : s # Child(n, i)
      BY <1>6, <2>1
    <2>. QED  BY <1>2, <2>1, <2>2, SlotFacts, FreeFrame
  <1>8. \A u \in Thread : \A k \in DOMAIN dying[u] :
          dying[u][k] \in Node /\ strong'[dying[u][k]] = 0
    BY <1>1, <1>3 DEF IInv, TypeOK, ThreadInv, DyingDead
  <1>9. \A u \in Thread : DyingDead(u)'
    BY <1>8 DEF IInv, ThreadInv, DyingDead
  <1>10. \A u \in Thread : ~ Relied(u, s) => Undisturbed(u)
    <2>1. \A q \in Slot : ptr[q] # Null => height'[ptr[q]] = height[ptr[q]]
      BY <1>1, <1>3 DEF IInv, TypeOK
    <2>. QED  BY <1>1, <1>2, <1>8, <2>1 DEF Undisturbed
  <1>11. \A q \in Slot : ptr'[q] = m <=> q = s
    BY <1>1, <1>2
  <1>. QED  BY <1>3, <1>4, <1>5, <1>6, <1>7, <1>9, <1>10, <1>11 DEF SharedInv

\* The reference in slot r is cloned into slot s.
LEMMA CloneEffect ==
  ASSUME IInv, NEW s \in Slot, NEW r \in Slot, ptr[s] = Null, ptr[r] # Null, Sets(s, ptr[r]),
         strong' = [strong EXCEPT ![ptr[r]] = strong[ptr[r]] + 1],
         UNCHANGED <<height, dying>>,
         \A n \in Node, i \in Index :
           s = Child(n, i) => n \notin Free /\ height[n] = height[ptr[r]] + 1
  PROVE  /\ SharedInv'
         /\ strong' \in [Node -> Nat]
         /\ \A u \in Thread : DyingDead(u)'
         /\ \A u \in Thread :
              ~ Relied(u, s) /\ r \notin SlotsOf(u) /\ r # Local(u) => Undisturbed(u)
  <1>. DEFINE m == ptr[r]
  <1>1. /\ m \in Node /\ strong[m] > 0 /\ strong[m] \in Nat /\ m \notin Free
        /\ \A t \in Thread : \A k \in DOMAIN dying[t] : dying[t][k] # m
    BY HeldFacts
  <1>2. /\ ptr' \in References /\ ptr'[s] = m
        /\ \A q \in Slot : q # s => ptr'[q] = ptr[q]
    BY <1>1, SetsEffect
  <1>3. /\ strong' \in [Node -> Nat]
        /\ strong'[m] = strong[m] + 1 /\ \A n \in Node : n # m => strong'[n] = strong[n]
    BY <1>1 DEF IInv, TypeOK
  <1>4. CountsExact'
    <2>1. ptr \in References /\ Exact(ptr, strong) /\ strong \in [Node -> Nat]
      BY CountFacts DEF IInv, TypeOK
    <2>2. Exact([ptr EXCEPT ![s] = m], [strong EXCEPT ![m] = strong[m] + 1])
      BY <1>1, <2>1, AddRef
    <2>3. Exact(ptr', strong')
      BY <2>2 DEF Sets
    <2>. QED  BY <2>3 DEF Exact, HoldersIn, CountsExact, Holders
  <1>5. Layered'
    <2>1. ASSUME NEW n \in Node, NEW i \in Index, ptr'[Child(n, i)] # ptr[Child(n, i)]
          PROVE  height'[n] = height'[ptr'[Child(n, i)]] + 1
      BY <1>1, <1>2, <1>3, <2>1, SlotFacts
    <2>. QED  BY <2>1, LayeredFrame
  <1>6. Free' = Free
    BY <1>1, <1>3 DEF Free
  <1>7. FreeEmpty'
    <2>1. \A n \in Free' : n \in Node /\ n \in Free
      BY <1>6 DEF Free
    <2>2. \A n \in Free', i \in Index : s # Child(n, i)
      BY <1>6, <2>1
    <2>. QED  BY <1>2, <2>1, <2>2, SlotFacts, FreeFrame
  <1>8. \A u \in Thread : \A k \in DOMAIN dying[u] :
          dying[u][k] \in Node /\ strong'[dying[u][k]] = 0
    BY <1>1, <1>3 DEF IInv, TypeOK, ThreadInv, DyingDead
  <1>9. \A u \in Thread : DyingDead(u)'
    BY <1>8 DEF IInv, ThreadInv, DyingDead
  <1>10. \A u \in Thread : ~ Relied(u, s) /\ r \notin SlotsOf(u) /\ r # Local(u) => Undisturbed(u)
    BY <1>2, <1>8, NotSole DEF Undisturbed
  <1>. QED  BY <1>3, <1>4, <1>5, <1>7, <1>9, <1>10 DEF SharedInv

\* The reference in slot s is dropped.
LEMMA DropEffect ==
  ASSUME IInv, NEW t \in Thread, NEW s \in Slot, ptr[s] # Null, Sets(s, Null),
         Released(t, ptr[s]), height' = height
  PROVE  /\ SharedInv'
         /\ strong' \in [Node -> Nat] /\ dying' \in [Thread -> Seq(Node)]
         /\ \A u \in Thread \ {t} : dying'[u] = dying[u]
         /\ DyingDead(t)'
         /\ \A u, v \in Thread : DyingApart(u, v)'
         /\ \A u \in Thread : ~ Relied(u, s) => Undisturbed(u)
  <1>. DEFINE m == ptr[s]
  <1>1. m \in Node /\ strong[m] > 0
    BY HeldFacts
  <1>2. /\ ptr' \in References /\ ptr'[s] = Null
        /\ \A q \in Slot : q # s => ptr'[q] = ptr[q]
    BY SetsEffect
  <1>3. /\ strong' \in [Node -> Nat] /\ dying' \in [Thread -> Seq(Node)]
        /\ \A u \in Thread \ {t} : dying'[u] = dying[u]
        /\ \A u \in Thread : \A k \in DOMAIN dying[u] : strong'[dying[u][k]] = 0
        /\ DyingDead(t)'
        /\ \A u, v \in Thread : DyingApart(u, v)'
        /\ Free' = Free
    BY <1>1, ReleasedEffect
  <1>4. CountsExact'
    <2>1. ptr \in References /\ Exact(ptr, strong) /\ strong \in [Node -> Nat]
      BY CountFacts DEF IInv, TypeOK
    <2>2. Exact([ptr EXCEPT ![s] = Null], [strong EXCEPT ![m] = strong[m] - 1])
      BY <1>1, <2>1, DropRef
    <2>3. Exact(ptr', strong')
      BY <2>2 DEF Sets, Released
    <2>. QED  BY <2>3 DEF Exact, HoldersIn, CountsExact, Holders
  <1>5. Layered'
    BY <1>2, SlotFacts, LayeredFrame
  <1>6. FreeEmpty'
    <2>1. \A n \in Free : n \in Node /\ \A i \in Index : s # Child(n, i)
      BY DEF Free, IInv, FreeEmpty
    <2>. QED  BY <1>2, <1>3, <2>1, SlotFacts, FreeFrame
  <1>7. ASSUME NEW u \in Thread, ~ Relied(u, s) PROVE Undisturbed(u)
    <2>1. Null \notin Sole(u)
      BY SharingAssumption DEF Sole, IInv, TypeOK
    <2>. QED  BY <1>2, <1>3, <1>7, <2>1 DEF Undisturbed
  <1>. QED  BY <1>3, <1>4, <1>5, <1>6, <1>7 DEF SharedInv

\* The reference in slot r moves to slot s.
LEMMA MoveEffect ==
  ASSUME IInv, NEW s \in Slot, NEW r \in Slot, ptr[s] = Null, ptr[r] # Null,
         ptr' = [ptr EXCEPT ![s] = ptr[r], ![r] = Null],
         UNCHANGED <<strong, height, dying>>,
         \A n \in Node, i \in Index :
           s = Child(n, i) => n \notin Free /\ height[n] = height[ptr[r]] + 1
  PROVE  /\ SharedInv'
         /\ ptr' \in References /\ s # r /\ ptr'[s] = ptr[r] /\ ptr'[r] = Null
         /\ \A q \in Slot : q # s /\ q # r => ptr'[q] = ptr[q]
         /\ \A u \in Thread : DyingDead(u)'
         /\ \A u \in Thread :
              ~ Relied(u, s) /\ ~ Relied(u, r) /\ ptr[r] \notin Sole(u) => Undisturbed(u)
  <1>. DEFINE m == ptr[r]
  <1>1. m \in Node /\ s # r
    BY HeldFacts
  <1>2. /\ ptr' \in References /\ ptr'[s] = m /\ ptr'[r] = Null
        /\ \A q \in Slot : q # s /\ q # r => ptr'[q] = ptr[q]
    BY <1>1 DEF References, IInv, TypeOK
  <1>3. CountsExact'
    <2>1. ptr \in References /\ Exact(ptr, strong) /\ strong \in [Node -> Nat]
      BY CountFacts DEF IInv, TypeOK
    <2>2. Exact([ptr EXCEPT ![s] = ptr[r], ![r] = Null], strong)
      BY <1>1, <2>1, MoveRef
    <2>3. Exact(ptr', strong')
      BY <2>2
    <2>. QED  BY <2>3 DEF Exact, HoldersIn, CountsExact, Holders
  <1>4. Layered'
    <2>1. ASSUME NEW n \in Node, NEW i \in Index, ptr'[Child(n, i)] # ptr[Child(n, i)]
          PROVE  ptr'[Child(n, i)] = Null \/ height'[n] = height'[ptr'[Child(n, i)]] + 1
      BY <1>1, <1>2, <2>1, SlotFacts
    <2>. QED  BY <2>1, LayeredFrame
  <1>5. Free' = Free
    BY DEF Free
  <1>6. FreeEmpty'
    <2>1. \A n \in Free : n \in Node
      BY DEF Free
    <2>. QED  BY <1>2, <1>5, <2>1, SlotFacts DEF IInv, FreeEmpty, Child
  <1>7. \A u \in Thread : DyingDead(u)'
    BY DEF IInv, ThreadInv, DyingDead
  <1>8. ASSUME NEW u \in Thread, ~ Relied(u, s), ~ Relied(u, r), m \notin Sole(u)
        PROVE  Undisturbed(u)
    <2>1. Null \notin Sole(u)
      BY SharingAssumption DEF Sole, IInv, TypeOK
    <2>. QED  BY <1>2, <1>8, <2>1 DEF Undisturbed, IInv, ThreadInv, DyingDead
  <1>. QED  BY <1>1, <1>2, <1>3, <1>4, <1>6, <1>7, <1>8 DEF SharedInv

\* Nobody relies on the rope and the local of another thread, nor on the root of a
\* thread that is idle.
LEMMA OwnSlots ==
  ASSUME IInv, NEW t \in Thread, NEW u \in Thread
  PROVE  /\ t # u => ~ Relied(u, Root(t)) /\ ~ Relied(u, Local(t))
         /\ t # u => Root(t) \notin SlotsOf(u) /\ Root(t) # Local(u)
         /\ pc[t] = "idle" /\ chain[t] = <<>> => ~ Relied(u, Root(t))
  <1>1. /\ owned[u] \subseteq Node
        /\ pc[u] = "copy" => ptr[Local(u)] \in Node /\ ptr[at[u]] \in Node
        /\ \A k \in DOMAIN chain[u] : chain[u][k] \in Node
    BY SlotFacts DEF IInv, TypeOK, ThreadInv, Control
  <1>2. t # u => Root(t) \notin SlotsOf(u)
    BY <1>1, SlotFacts, SlotsOfMember
  <1>3. t # u => ~ Relied(u, Root(t)) /\ ~ Relied(u, Local(t))
    BY <1>1, SlotFacts DEF Relied
  <1>4. pc[t] = "idle" /\ chain[t] = <<>> => ~ Relied(t, Root(t))
    BY SlotFacts DEF Relied, IInv, ThreadInv, Control, TypeOK
  <1>. QED  BY <1>2, <1>3, <1>4, SlotFacts

-----------------------------------------------------------------------------
(* Ropes: made, shared and dropped *)

LEMMA NewRopeInv ==
  ASSUME IInv, NEW t \in Thread, NewRope(t)
  PROVE  IInv'
  <1>1. PICK m \in Fresh, x \in Texts[t] :
          /\ Sets(Root(t), m)
          /\ strong' = [strong EXCEPT ![m] = 1]
          /\ height' = [height EXCEPT ![m] = 0]
          /\ text' = [text EXCEPT ![m] = x]
    BY DEF NewRope, Sets
  <1>2. /\ pc[t] = "idle" /\ dying[t] = <<>> /\ chain[t] = <<>> /\ ptr[Root(t)] = Null
        /\ UNCHANGED <<pc, at, owned, dying, chain>>
    BY DEF NewRope, Idle, Calm, HasRope
  <1>3. m \in Node /\ Root(t) \in Slot /\ 0 \in 0..MaxHeight
    BY FreshFacts, SlotFacts, SharingAssumption
  <1>4. /\ ptr' \in References /\ ptr'[Root(t)] = m
        /\ \A q \in Slot : q # Root(t) => ptr'[q] = ptr[q]
    BY <1>1, <1>3, SetsEffect
  <1>5. /\ SharedInv'
        /\ strong' \in [Node -> Nat] /\ height' \in [Node -> 0..MaxHeight]
        /\ \A u \in Thread : DyingDead(u)'
        /\ \A u \in Thread : ~ Relied(u, Root(t)) => Undisturbed(u)
    <2>1. \A n \in Node, i \in Index :
            Root(t) = Child(n, i) => n \notin Free /\ height[n] = 0 + 1
      BY SlotFacts
    <2>2. dying' = dying
      BY <1>2
    <2>. QED  BY <1>1, <1>2, <1>3, <2>1, <2>2, AllocEffect
  <1>6. TypeOK'
    BY <1>1, <1>2, <1>3, <1>4, <1>5 DEF IInv, TypeOK, References
  <1>7. \A u \in Thread : ThreadInv(u)'
    BY <1>2, <1>5, OwnSlots, ThreadFrame DEF Still
  <1>8. \A u, v \in Thread : Apart(u, v)'
    BY <1>2 DEF IInv, Apart
  <1>. QED  BY <1>5, <1>6, <1>7, <1>8 DEF IInv, SharedInv

LEMMA ShareInv ==
  ASSUME IInv, NEW t \in Thread, NEW u \in Thread \ {t}, Share(t, u)
  PROVE  IInv'
  <1>. DEFINE n == Last(chain[t])
  <1>1. /\ chain[t] # <<>> /\ pc[u] = "idle" /\ chain[u] = <<>> /\ ptr[Root(u)] = Null
        /\ Sets(Root(u), n)
        /\ strong' = [strong EXCEPT ![n] = strong[n] + 1]
        /\ UNCHANGED <<height, text, pc, at, owned, dying, chain>>
    BY DEF Share, Idle, Calm, HasRope, Sets
  <1>2. /\ n \in Node
        /\ \E s \in Slot : ptr[s] = n /\ \A v \in Thread : s # Local(v)
        /\ \A v \in Thread : n \notin Sole(v)
    <2>1. Len(chain[t]) \in DOMAIN chain[t]
      BY <1>1 DEF IInv, TypeOK
    <2>. QED  BY <2>1, ChainFacts
  <1>3. PICK s \in Slot : ptr[s] = n
    BY <1>2
  <1>4. Root(u) \in Slot /\ n # Null
    BY <1>2, SlotFacts, SharingAssumption
  <1>5. /\ ptr' \in References /\ ptr'[Root(u)] = n
        /\ \A q \in Slot : q # Root(u) => ptr'[q] = ptr[q]
    BY <1>1, <1>2, <1>4, SetsEffect
  <1>6. SharedInv' /\ strong' \in [Node -> Nat] /\ \A v \in Thread : DyingDead(v)'
    <2>1. \A m \in Node, i \in Index :
            Root(u) = Child(m, i) => m \notin Free /\ height[m] = height[ptr[s]] + 1
      BY SlotFacts
    <2>2. /\ ptr[s] # Null /\ Sets(Root(u), ptr[s])
          /\ strong' = [strong EXCEPT ![ptr[s]] = strong[ptr[s]] + 1]
      BY <1>1, <1>3, <1>4
    <2>. QED  BY ZenonT(60), <1>1, <1>4, <2>1, <2>2, CloneEffect
  <1>7. TypeOK'
    BY <1>1, <1>5, <1>6 DEF IInv, TypeOK, References
  <1>8. ASSUME NEW v \in Thread PROVE ThreadInv(v)'
    <2>1. ~ Relied(v, Root(u))
      BY <1>1, OwnSlots
    <2>2. \A k \in DOMAIN dying[v] : strong'[dying[v][k]] = 0
      BY <1>1, <1>6 DEF DyingDead
    <2>3. Undisturbed(v)
      BY <1>1, <1>2, <1>5, <2>1, <2>2 DEF Undisturbed
    <2>. QED  BY <1>1, <2>3, ThreadFrame DEF Still
  <1>9. \A v, w \in Thread : Apart(v, w)'
    BY <1>1 DEF IInv, Apart
  <1>. QED  BY <1>6, <1>7, <1>8, <1>9 DEF IInv, SharedInv

\* Apart for threads whose owned nodes and slices are as before or less.
LEMMA ApartFrame ==
  ASSUME IInv, chain' = chain,
         \A u \in Thread : owned'[u] \subseteq owned[u],
         \A u, v \in Thread : DyingApart(u, v)'
  PROVE  \A u, v \in Thread : Apart(u, v)'
  BY DEF IInv, Apart, DyingApart

LEMMA DropRopeInv ==
  ASSUME IInv, NEW t \in Thread, DropRope(t)
  PROVE  IInv'
  <1>1. /\ pc[t] = "idle" /\ dying[t] = <<>> /\ chain[t] = <<>> /\ ptr[Root(t)] # Null
        /\ Sets(Root(t), Null) /\ Released(t, ptr[Root(t)])
        /\ UNCHANGED <<height, text, pc, at, owned, chain>>
        /\ Root(t) \in Slot
    BY SlotFacts DEF DropRope, Idle, Calm, HasRope, Sets
  <1>2. /\ ptr' \in References /\ ptr'[Root(t)] = Null
        /\ \A q \in Slot : q # Root(t) => ptr'[q] = ptr[q]
    BY <1>1, SetsEffect
  <1>3. /\ SharedInv'
        /\ strong' \in [Node -> Nat] /\ dying' \in [Thread -> Seq(Node)]
        /\ \A u \in Thread \ {t} : dying'[u] = dying[u]
        /\ DyingDead(t)'
        /\ \A u, v \in Thread : DyingApart(u, v)'
        /\ \A u \in Thread : ~ Relied(u, Root(t)) => Undisturbed(u)
    BY <1>1, DropEffect
  <1>4. TypeOK'
    BY <1>1, <1>2, <1>3 DEF IInv, TypeOK, References
  <1>5. \A u \in Thread \ {t} : ThreadInv(u)'
    BY <1>1, <1>3, OwnSlots, ThreadFrame DEF Still
  <1>6. ThreadInv(t)'
    <2>1. owned[t] = {} /\ ptr'[Local(t)] = ptr[Local(t)]
      BY <1>1, <1>2, SlotFacts DEF IInv, ThreadInv, Control
    <2>2. Control(t)'
      BY <1>1, <2>1 DEF IInv, ThreadInv, Control, Local, Root
    <2>3. Alone(t)' /\ CopyUnderWay(t)' /\ ChainHangs(t)'
      BY <1>1, <2>1 DEF Alone, CopyUnderWay, ChainHangs
    <2>. QED  BY <1>3, <2>2, <2>3 DEF ThreadInv
  <1>. QED  BY <1>1, <1>3, <1>4, <1>5, <1>6, ApartFrame DEF IInv, SharedInv

-----------------------------------------------------------------------------
(* The copy of a shared node *)

\* A node that a thread may mutate stays the only one of its slot.
LEMMA OnlyInFrame ==
  ASSUME NEW s \in Slot, NEW n, OnlyIn(s, n), ptr'[s] = ptr[s],
         \A q \in Slot : ptr'[q] # ptr[q] => ptr'[q] # n
  PROVE  OnlyIn(s, n)'
  BY DEF OnlyIn

LEMMA AloneFrame ==
  ASSUME IInv, NEW t \in Thread, owned'[t] \subseteq owned[t],
         SlotsOf(t) \subseteq SlotsOf(t)',
         \A q \in SlotsOf(t) : ptr[q] \in owned[t] => ptr'[q] = ptr[q],
         \A q \in Slot : ptr'[q] # ptr[q] => ptr'[q] \notin owned[t]
  PROVE  Alone(t)'
  <1>1. SUFFICES ASSUME NEW n \in owned[t] PROVE \E s \in SlotsOf(t) : OnlyIn(s, n)'
    BY DEF Alone
  <1>2. PICK s \in SlotsOf(t) : OnlyIn(s, n)
    BY DEF IInv, ThreadInv, Alone
  <1>3. s \in Slot /\ ptr[s] = n
    BY <1>2, OwnedHere DEF OnlyIn
  <1>. QED  BY <1>2, <1>3, OnlyInFrame

LEMMA StartCopyInv ==
  ASSUME IInv, NEW t \in Thread, StartCopy(t)
  PROVE  IInv'
  <1>. DEFINE x == ptr[at[t]]
  <1>1. PICK m \in Fresh :
          /\ Sets(Local(t), m)
          /\ strong' = [strong EXCEPT ![m] = 1]
          /\ height' = [height EXCEPT ![m] = height[x]]
    BY DEF StartCopy, Sets
  <1>2. /\ pc[t] = "make_mut" /\ pc' = [pc EXCEPT ![t] = "copy"]
        /\ UNCHANGED <<text, at, owned, dying, chain>>
    BY DEF StartCopy, In
  <1>3. /\ m \in Node /\ m # Null /\ \A q \in Slot : ptr[q] # m
        /\ \A u \in Thread : m \notin owned[u]
        /\ \A i \in Index : ptr[Child(m, i)] = Null
    BY FreshFacts
  <1>4. /\ at[t] \in SlotsOf(t) /\ at[t] \in Slot /\ x # Null /\ x \in Node
        /\ height[x] \in 0..MaxHeight /\ x # m /\ x \notin owned[t]
        /\ Local(t) \in Slot /\ ptr[Local(t)] = Null
    BY ZenonT(60), <1>2, <1>3, SlotFacts DEF IInv, ThreadInv, Control, TypeOK
  <1>5. SlotsOf(t) \subseteq Slot /\ Local(t) \notin SlotsOf(t)
    <2>1. owned[t] \subseteq Node
      BY DEF IInv, TypeOK
    <2>. QED  BY <2>1, SlotFacts, SlotsOfMember
  <1>6. /\ ptr' \in References /\ ptr'[Local(t)] = m
        /\ \A q \in Slot : q # Local(t) => ptr'[q] = ptr[q]
    BY <1>1, <1>3, <1>4, SetsEffect
  <1>7. /\ SharedInv'
        /\ strong' \in [Node -> Nat] /\ height' \in [Node -> 0..MaxHeight]
        /\ height'[m] = height[x] /\ \A n \in Node : n # m => height'[n] = height[n]
        /\ \A u \in Thread : DyingDead(u)'
        /\ \A u \in Thread : ~ Relied(u, Local(t)) => Undisturbed(u)
        /\ \A q \in Slot : ptr'[q] = m <=> q = Local(t)
    <2>1. PICK h \in 0..MaxHeight : h = height[x]
      BY <1>4
    <2>2. \A n \in Node, i \in Index :
            Local(t) = Child(n, i) => n \notin Free /\ height[n] = h + 1
      BY SlotFacts
    <2>3. /\ Local(t) \in Slot /\ m \in Fresh /\ ptr[Local(t)] = Null /\ Sets(Local(t), m)
          /\ h \in 0..MaxHeight
          /\ strong' = [strong EXCEPT ![m] = 1] /\ height' = [height EXCEPT ![m] = h]
          /\ dying' = dying
      BY <1>1, <1>2, <1>4, <2>1
    <2>4. /\ SharedInv'
          /\ strong' \in [Node -> Nat] /\ height' \in [Node -> 0..MaxHeight]
          /\ \A u \in Thread : DyingDead(u)'
          /\ \A u \in Thread : ~ Relied(u, Local(t)) => Undisturbed(u)
          /\ \A q \in Slot : ptr'[q] = m <=> q = Local(t)
      BY <2>2, <2>3, AllocEffect
    <2>5. height'[m] = h /\ \A n \in Node : n # m => height'[n] = height[n]
      BY <1>3, <2>3 DEF IInv, TypeOK
    <2>. QED  BY <2>1, <2>4, <2>5
  <1>8. TypeOK'
    BY <1>1, <1>2, <1>3, <1>6, <1>7 DEF IInv, TypeOK, References
  <1>9. pc'[t] = "copy" /\ \A u \in Thread \ {t} : pc'[u] = pc[u]
    BY <1>2 DEF IInv, TypeOK
  <1>10. \A u \in Thread \ {t} : ThreadInv(u)'
    BY <1>2, <1>7, <1>9, OwnSlots, ThreadFrame DEF Still
  <1>11. ThreadInv(t)'
    <2>1. SlotsOf(t)' = SlotsOf(t) /\ Root(t) \in SlotsOf(t)
      BY <1>2 DEF SlotsOf, Root
    <2>2. \A q \in SlotsOf(t) : ptr'[q] = ptr[q]
      BY <1>5, <1>6
    <2>3. Control(t)'
      BY <1>2, <1>3, <1>4, <1>6, <1>9, <2>1, <2>2
      DEF IInv, ThreadInv, Control, HasRope, Root, Local
    <2>4. Alone(t)'
      BY <1>2, <1>3, <1>6, <2>1, <2>2, AloneFrame
    <2>5. CopyUnderWay(t)'
      <3>1. /\ ptr'[Local(t)] = m /\ at'[t] = at[t] /\ ptr'[at[t]] = x
            /\ height'[m] = height'[x]
        BY <1>2, <1>4, <1>6, <1>7, <2>2
      <3>2. \A i \in Index : ptr'[Child(m, i)] = Null
        BY <1>3, <1>6, SlotFacts
      <3>3. ptr'[at'[t]] = x
        BY <3>1
      <3>. QED  BY <1>7, <3>1, <3>2, <3>3 DEF CopyUnderWay, Local, Child, OnlyIn
    <2>6. ChainHangs(t)'
      BY <1>2 DEF IInv, ThreadInv, Control, ChainHangs
    <2>. QED  BY <1>7, <2>3, <2>4, <2>5, <2>6 DEF ThreadInv
  <1>12. \A u, v \in Thread : Apart(u, v)'
    BY <1>2 DEF IInv, Apart
  <1>. QED  BY <1>7, <1>8, <1>10, <1>11, <1>12 DEF IInv, SharedInv

\* What is copied is mutated by nobody, so that the copy's child is new to it.
LEMMA CopyChildInv ==
  ASSUME IInv, NEW t \in Thread, CopyChild(t)
  PROVE  IInv'
  <1>. DEFINE x == ptr[at[t]]
              m == ptr[Local(t)]
  <1>1. PICK i \in Index :
          /\ ptr[Child(m, i)] # ptr[Child(x, i)]
          /\ Sets(Child(m, i), ptr[Child(x, i)])
          /\ strong' = [strong EXCEPT ![ptr[Child(x, i)]] = strong[ptr[Child(x, i)]] + 1]
    BY DEF CopyChild, Copied, Sets
  <1>2. pc[t] = "copy" /\ UNCHANGED <<height, text, pc, at, owned, dying, chain>>
    BY DEF CopyChild, In
  <1>3. /\ at[t] \in SlotsOf(t) /\ at[t] \in Slot /\ x \in Node /\ x # Null /\ x \notin owned[t]
        /\ Local(t) \in Slot /\ m \in Node /\ m # Null
        /\ OnlyIn(Local(t), m) /\ height[m] = height[x]
        /\ \A j \in Index : ptr[Child(m, j)] \in {Null, ptr[Child(x, j)]}
    BY <1>2, SlotFacts DEF IInv, ThreadInv, Control, CopyUnderWay, TypeOK
  <1>4. /\ owned[t] \subseteq Node /\ SlotsOf(t) \subseteq Slot /\ Local(t) \notin SlotsOf(t)
        /\ Root(t) \in SlotsOf(t)
    <2>1. owned[t] \subseteq Node
      BY DEF IInv, TypeOK
    <2>. QED  BY <2>1, SlotFacts, SlotsOfMember
  <1>5. m # x /\ m \notin owned[t]
    BY <1>3, <1>4, OwnedHere DEF OnlyIn
  <1>. DEFINE s == Child(m, i)
              r == Child(x, i)
  <1>6. /\ s \in Slot /\ r \in Slot /\ ptr[s] = Null /\ ptr[r] # Null /\ ptr[r] \in Node
        /\ s \notin SlotsOf(t) /\ r \notin SlotsOf(t) /\ s # Local(t)
    <2>1. s \in Slot /\ r \in Slot /\ s # Local(t)
      BY <1>3, SlotFacts
    <2>2. ptr[s] = Null /\ ptr[r] # Null
      BY <1>1, <1>3
    <2>3. s \notin SlotsOf(t) /\ r \notin SlotsOf(t)
      BY <1>3, <1>4, <1>5, SlotFacts, SlotsOfMember
    <2>. QED  BY <2>1, <2>2, <2>3, HeldFacts
  <1>7. /\ ptr' \in References /\ ptr'[s] = ptr[r]
        /\ \A q \in Slot : q # s => ptr'[q] = ptr[q]
    BY <1>1, <1>6, SetsEffect
  <1>8. /\ SharedInv' /\ strong' \in [Node -> Nat]
        /\ \A u \in Thread : DyingDead(u)'
        /\ \A u \in Thread :
             ~ Relied(u, s) /\ r \notin SlotsOf(u) /\ r # Local(u) => Undisturbed(u)
    <2>1. \A n \in Node, j \in Index :
            s = Child(n, j) => n \notin Free /\ height[n] = height[ptr[r]] + 1
      <3>1. m \notin Free
        BY <1>3, HeldFacts
      <3>2. height[x] = height[ptr[r]] + 1
        BY <1>3, <1>6 DEF IInv, Layered
      <3>. QED  BY <1>3, <3>1, <3>2, SlotFacts
    <2>2. height' = height /\ dying' = dying
      BY <1>2
    <2>. QED  BY <1>1, <1>6, <2>1, <2>2, CloneEffect
  <1>9. TypeOK'
    BY <1>2, <1>7, <1>8 DEF IInv, TypeOK, References
  <1>10. ASSUME NEW u \in Thread \ {t} PROVE ThreadInv(u)'
    <2>1. ~ Relied(u, s)
      BY <1>2, <1>3, PrivateSlots
    <2>2. r \notin SlotsOf(u) /\ r # Local(u)
      <3>1. at[t] \notin SlotsOf(u)
        BY <1>3, SlotsOfApart
      <3>2. x \notin owned[u]
        BY <1>3, <3>1, OwnedHere
      <3>3. owned[u] \subseteq Node
        BY DEF IInv, TypeOK
      <3>. QED  BY <1>3, <3>2, <3>3, SlotFacts, SlotsOfMember
    <2>. QED  BY <1>2, <1>8, <2>1, <2>2, ThreadFrame DEF Still
  <1>11. ThreadInv(t)'
    <2>1. SlotsOf(t)' = SlotsOf(t)
      BY <1>2 DEF SlotsOf, Root
    <2>2. \A q \in SlotsOf(t) : ptr'[q] = ptr[q]
      BY <1>4, <1>6, <1>7
    <2>3. ptr'[Local(t)] = m
      BY <1>3, <1>6, <1>7
    <2>4. Control(t)'
      BY <1>2, <1>3, <1>4, <2>1, <2>2, <2>3
      DEF IInv, ThreadInv, Control, HasRope, Root, Local
    <2>5. Alone(t)'
      <3>1. ptr[r] \notin owned[t]
        BY <1>6, OwnedHere
      <3>. QED  BY <1>2, <1>7, <2>1, <2>2, <3>1, AloneFrame
    <2>6. CopyUnderWay(t)'
      <3>1. /\ at'[t] = at[t] /\ ptr'[at[t]] = x
        BY <1>2, <1>3, <2>2
      <3>2. OnlyIn(Local(t), m)'
        <4>1. ptr[r] # m
          BY <1>3, <1>6, SlotFacts DEF OnlyIn
        <4>. QED  BY <1>3, <1>7, <2>3, <4>1, OnlyInFrame DEF Local
      <3>3. ASSUME NEW j \in Index
            PROVE  ptr'[Child(m, j)] \in {Null, ptr'[Child(x, j)]}
        <4>1. ptr'[Child(x, j)] = ptr[Child(x, j)]
          BY <1>3, <1>5, <1>7, SlotFacts
        <4>2. CASE j = i
          BY <1>7, <4>1, <4>2
        <4>3. CASE j # i
          <5>1. ptr'[Child(m, j)] = ptr[Child(m, j)]
            BY <1>3, <1>7, <4>3, SlotFacts
          <5>. QED  BY <1>3, <4>1, <5>1
        <4>. QED  BY <4>2, <4>3
      <3>. QED  BY <1>2, <1>3, <2>3, <3>1, <3>2, <3>3 DEF CopyUnderWay, Local, Child, OnlyIn
    <2>7. ChainHangs(t)'
      BY <1>2 DEF IInv, ThreadInv, Control, ChainHangs
    <2>. QED  BY <1>8, <2>4, <2>5, <2>6, <2>7 DEF ThreadInv
  <1>12. \A u, v \in Thread : Apart(u, v)'
    BY <1>2 DEF IInv, Apart
  <1>. QED  BY <1>8, <1>9, <1>10, <1>11, <1>12 DEF IInv, SharedInv

\* The copy takes the slot of the original.
LEMMA EndCopyInv ==
  ASSUME IInv, NEW t \in Thread, EndCopy(t)
  PROVE  IInv'
  <1>. DEFINE x == ptr[at[t]]
              m == ptr[Local(t)]
              a == at[t]
  <1>1. /\ pc[t] = "copy" /\ pc' = [pc EXCEPT ![t] = "edit"]
        /\ at' = [at EXCEPT ![t] = Root(t)]
        /\ owned' = [owned EXCEPT ![t] = owned[t] \cup {m}]
        /\ ptr' = [ptr EXCEPT ![a] = m, ![Local(t)] = Null]
        /\ Released(t, x)
        /\ UNCHANGED <<height, text, chain>>
    BY DEF EndCopy, In
  <1>2. /\ a \in SlotsOf(t) /\ a \in Slot /\ x \in Node /\ x # Null /\ x \notin owned[t]
        /\ Local(t) \in Slot /\ m \in Node /\ m # Null
        /\ OnlyIn(Local(t), m) /\ height[m] = height[x]
    BY <1>1, SlotFacts DEF IInv, ThreadInv, Control, CopyUnderWay, TypeOK
  <1>3. /\ owned[t] \subseteq Node /\ SlotsOf(t) \subseteq Slot /\ Local(t) \notin SlotsOf(t)
        /\ Root(t) \in SlotsOf(t) /\ Root(t) \in Slot
    <2>1. owned[t] \subseteq Node
      BY DEF IInv, TypeOK
    <2>. QED  BY <2>1, SlotFacts, SlotsOfMember
  <1>4. m # x /\ m \notin owned[t] /\ a # Local(t)
    BY <1>2, <1>3, OwnedHere DEF OnlyIn
  <1>5. /\ ptr' \in References /\ ptr'[a] = m /\ ptr'[Local(t)] = Null
        /\ \A q \in Slot : q # a /\ q # Local(t) => ptr'[q] = ptr[q]
    BY <1>1, <1>2, <1>4 DEF References, IInv, TypeOK
  <1>6. /\ strong' \in [Node -> Nat] /\ dying' \in [Thread -> Seq(Node)]
        /\ \A u \in Thread \ {t} : dying'[u] = dying[u]
        /\ \A u \in Thread : \A k \in DOMAIN dying[u] : strong'[dying[u][k]] = 0
        /\ DyingDead(t)'
        /\ \A u, v \in Thread : DyingApart(u, v)'
        /\ Free' = Free
    <2>1. strong[x] > 0
      BY <1>2, HeldFacts
    <2>. QED  BY <1>1, <1>2, <2>1, ReleasedEffect
  <1>7. CountsExact'
    <2>. DEFINE p == [ptr EXCEPT ![a] = Null]
                c == [strong EXCEPT ![x] = strong[x] - 1]
    <2>1. p \in References /\ c \in [Node -> Nat] /\ Exact(p, c)
      BY <1>2, CountFacts, DropRef DEF IInv, TypeOK
    <2>2. p[a] = Null /\ p[Local(t)] = m
      BY <1>2, <1>4 DEF IInv, TypeOK
    <2>3. c = strong' /\ ptr' = [p EXCEPT ![a] = m, ![Local(t)] = Null]
      BY <1>1, <1>2, <1>4 DEF Released, IInv, TypeOK
    <2>. HIDE DEF p, c
    <2>4. Exact(ptr', strong')
      BY <1>2, <2>1, <2>2, <2>3, MoveRef
    <2>. QED  BY <2>4 DEF Exact, HoldersIn, CountsExact, Holders
  <1>8. Layered'
    <2>1. ASSUME NEW n \in Node, NEW i \in Index, ptr'[Child(n, i)] # ptr[Child(n, i)]
          PROVE  height'[n] = height'[ptr'[Child(n, i)]] + 1
      <3>1. Child(n, i) = a /\ ptr[Child(n, i)] = x /\ ptr'[Child(n, i)] = m
        BY <1>5, <2>1, SlotFacts
      <3>2. height[n] = height[x] + 1
        BY <1>2, <3>1 DEF IInv, Layered
      <3>. QED  BY <1>1, <1>2, <3>1, <3>2
    <2>2. height' = height
      BY <1>1
    <2>. QED  BY <2>1, <2>2, LayeredFrame
  <1>9. FreeEmpty'
    <2>1. \A n \in Free : n \in Node /\ \A i \in Index : a # Child(n, i)
      BY <1>2 DEF Free, IInv, FreeEmpty
    <2>. QED  BY <1>5, <1>6, <2>1, SlotFacts, FreeFrame
  <1>10. TypeOK'
    BY ZenonT(60), <1>1, <1>2, <1>3, <1>5, <1>6 DEF IInv, TypeOK, References
  <1>11. /\ pc'[t] = "edit" /\ at'[t] = Root(t) /\ owned'[t] = owned[t] \cup {m}
         /\ \A u \in Thread \ {t} : pc'[u] = pc[u] /\ at'[u] = at[u] /\ owned'[u] = owned[u]
    BY <1>1 DEF IInv, TypeOK
  <1>12. ASSUME NEW u \in Thread \ {t}
         PROVE  ThreadInv(u)' /\ m \notin owned[u]
    <2>1. a \notin SlotsOf(u)
      BY <1>2, SlotsOfApart
    <2>2. Local(t) \notin SlotsOf(u) /\ Local(t) # Local(u)
      <3>1. owned[u] \subseteq Node
        BY DEF IInv, TypeOK
      <3>. QED  BY <3>1, SlotFacts, SlotsOfMember
    <2>3. m \notin Sole(u)
      BY <1>2, <2>2, NotSole
    <2>4. ~ Relied(u, a)
      <3>1. CASE a = Root(t)
        BY <3>1, OwnSlots
      <3>2. CASE a # Root(t)
        <4>1. PICK n \in owned[t], i \in Index : a = Child(n, i)
          BY <1>2, <3>2, SlotsOfMember
        <4>. QED  BY <1>3, <4>1, PrivateSlots
      <3>. QED  BY <3>1, <3>2
    <2>5. Null \notin Sole(u)
      BY SharingAssumption DEF Sole, IInv, TypeOK
    <2>6. Undisturbed(u)
      BY ZenonT(60), <1>1, <1>5, <1>6, <2>3, <2>4, <2>5, OwnSlots DEF Undisturbed
    <2>. QED  BY <1>1, <1>6, <1>11, <2>3, <2>6, ThreadFrame DEF Still, Sole
  <1>13. ThreadInv(t)'
    <2>1. SlotsOf(t) \subseteq SlotsOf(t)'
      BY <1>11 DEF SlotsOf, Root
    <2>2. \A q \in SlotsOf(t) : q # a => ptr'[q] = ptr[q]
      BY <1>3, <1>5
    <2>3. Control(t)'
      <3>1. ptr'[Root(t)] # Null
        BY <1>1, <1>2, <1>3, <1>5, <2>2 DEF IInv, ThreadInv, Control, HasRope
      <3>. QED  BY <1>1, <1>5, <1>11, <3>1 DEF IInv, ThreadInv, Control, HasRope, Root, Local
    <2>4. \A q \in Slot : ptr'[q] = m <=> q = a
      BY <1>2, <1>5 DEF OnlyIn
    <2>5. ASSUME NEW n \in owned[t]
          PROVE  \E s \in SlotsOf(t) : \A q \in Slot : ptr'[q] = n <=> q = s
      <3>1. PICK s \in SlotsOf(t) : OnlyIn(s, n)
        BY DEF IInv, ThreadInv, Alone
      <3>2. s \in Slot /\ s # a /\ n # m /\ n # Null
        BY <1>2, <1>3, <1>4, <3>1, SharingAssumption DEF OnlyIn
      <3>3. ptr'[s] = ptr[s] /\ \A q \in Slot : ptr'[q] # ptr[q] => ptr'[q] # n
        BY <1>5, <2>2, <3>1, <3>2
      <3>. QED  BY <3>1, <3>2, <3>3 DEF OnlyIn
    <2>6. Alone(t)'
      <3>1. \A n \in owned'[t] : \E s \in SlotsOf(t)' : \A q \in Slot : ptr'[q] = n <=> q = s
        BY <1>2, <1>11, <2>1, <2>4, <2>5
      <3>. QED  BY <3>1 DEF Alone, OnlyIn
    <2>7. CopyUnderWay(t)' /\ ChainHangs(t)'
      BY <1>1, <1>11 DEF IInv, ThreadInv, Control, CopyUnderWay, ChainHangs
    <2>. QED  BY <1>6, <2>3, <2>6, <2>7 DEF ThreadInv
  <1>14. \A u, v \in Thread : Apart(u, v)'
    <2>1. \A u \in Thread : \A k \in DOMAIN chain[u] : chain[u][k] # m
      BY <1>1, <1>2, ChainFacts DEF Sole
    <2>. QED  BY <1>1, <1>6, <1>11, <1>12, <2>1 DEF IInv, Apart, DyingApart
  <1>. QED  BY <1>7, <1>8, <1>9, <1>10, <1>12, <1>13, <1>14 DEF IInv

-----------------------------------------------------------------------------
(* pull_up_singular_nodes *)

LEMMA CloneOnlyChildInv ==
  ASSUME IInv, NEW t \in Thread, CloneOnlyChild(t)
  PROVE  IInv'
  <1>. DEFINE x == ptr[Root(t)]
              s == Local(t)
  <1>1. PICK i \in Index :
          /\ i \in ChildrenOf(x)
          /\ Sets(s, ptr[Child(x, i)])
          /\ strong' = [strong EXCEPT ![ptr[Child(x, i)]] = strong[ptr[Child(x, i)]] + 1]
    BY DEF CloneOnlyChild, Sets
  <1>. DEFINE r == Child(x, i)
  <1>2. /\ pc[t] = "pull_up" /\ pc' = [pc EXCEPT ![t] = "set_root"]
        /\ UNCHANGED <<height, text, at, owned, dying, chain>>
    BY DEF CloneOnlyChild, In
  <1>3. /\ x \in Node /\ x # Null /\ owned[t] = {} /\ chain[t] = <<>>
        /\ s \in Slot /\ ptr[s] = Null /\ Root(t) \in Slot
    BY <1>2, SlotFacts DEF IInv, ThreadInv, Control, HasRope, TypeOK
  <1>4. /\ r \in Slot /\ ptr[r] # Null /\ ptr[r] \in Node
        /\ s # Root(t) /\ \A n \in Node, j \in Index : s # Child(n, j)
    BY <1>1, <1>3, SlotFacts, HeldFacts DEF ChildrenOf
  <1>5. /\ ptr' \in References /\ ptr'[s] = ptr[r]
        /\ \A q \in Slot : q # s => ptr'[q] = ptr[q]
    BY <1>1, <1>3, <1>4, SetsEffect
  <1>6. /\ SharedInv' /\ strong' \in [Node -> Nat]
        /\ \A u \in Thread : DyingDead(u)'
        /\ \A u \in Thread :
             ~ Relied(u, s) /\ r \notin SlotsOf(u) /\ r # Local(u) => Undisturbed(u)
    <2>1. \A n \in Node, j \in Index :
            s = Child(n, j) => n \notin Free /\ height[n] = height[ptr[r]] + 1
      BY <1>4
    <2>2. height' = height /\ dying' = dying
      BY <1>2
    <2>. QED  BY <1>1, <1>3, <1>4, <2>1, <2>2, CloneEffect
  <1>7. TypeOK'
    BY <1>2, <1>5, <1>6 DEF IInv, TypeOK, References
  <1>8. pc'[t] = "set_root" /\ \A u \in Thread \ {t} : pc'[u] = pc[u]
    BY <1>2 DEF IInv, TypeOK
  <1>9. ASSUME NEW u \in Thread \ {t} PROVE ThreadInv(u)'
    <2>1. x \notin owned[u] /\ owned[u] \subseteq Node
      BY <1>3, OwnSlots, OwnedHere DEF IInv, TypeOK
    <2>2. r \notin SlotsOf(u) /\ r # Local(u)
      BY <1>3, <2>1, SlotFacts, SlotsOfMember
    <2>. QED  BY <1>2, <1>6, <1>8, <2>2, OwnSlots, ThreadFrame DEF Still
  <1>10. ThreadInv(t)'
    <2>1. Control(t)'
      BY <1>2, <1>3, <1>4, <1>5, <1>8 DEF IInv, ThreadInv, Control, HasRope, Root, Local
    <2>2. Alone(t)' /\ CopyUnderWay(t)' /\ ChainHangs(t)'
      BY <1>2, <1>3, <1>8 DEF Alone, CopyUnderWay, ChainHangs
    <2>. QED  BY <1>6, <2>1, <2>2 DEF ThreadInv
  <1>11. \A u, v \in Thread : Apart(u, v)'
    BY <1>2 DEF IInv, Apart
  <1>. QED  BY <1>6, <1>7, <1>9, <1>10, <1>11 DEF IInv, SharedInv

LEMMA SetRootInv ==
  ASSUME IInv, NEW t \in Thread, SetRoot(t)
  PROVE  IInv'
  <1>. DEFINE x == ptr[Root(t)]
              m == ptr[Local(t)]
  <1>1. /\ pc[t] = "set_root" /\ pc' = [pc EXCEPT ![t] = "pull_up"]
        /\ ptr' = [ptr EXCEPT ![Root(t)] = m, ![Local(t)] = Null]
        /\ Released(t, x)
        /\ UNCHANGED <<height, text, at, owned, chain>>
    BY DEF SetRoot, In
  <1>2. /\ x \in Node /\ x # Null /\ m \in Node /\ m # Null /\ owned[t] = {} /\ chain[t] = <<>>
        /\ Root(t) \in Slot /\ Local(t) \in Slot /\ Root(t) # Local(t)
        /\ \A n \in Node, i \in Index : Root(t) # Child(n, i) /\ Local(t) # Child(n, i)
    BY <1>1, SlotFacts DEF IInv, ThreadInv, Control, HasRope, TypeOK
  <1>3. /\ ptr' \in References /\ ptr'[Root(t)] = m /\ ptr'[Local(t)] = Null
        /\ \A q \in Slot : q # Root(t) /\ q # Local(t) => ptr'[q] = ptr[q]
    BY <1>1, <1>2 DEF References, IInv, TypeOK
  <1>4. /\ strong' \in [Node -> Nat] /\ dying' \in [Thread -> Seq(Node)]
        /\ \A u \in Thread \ {t} : dying'[u] = dying[u]
        /\ \A u \in Thread : \A k \in DOMAIN dying[u] : strong'[dying[u][k]] = 0
        /\ DyingDead(t)'
        /\ \A u, v \in Thread : DyingApart(u, v)'
        /\ Free' = Free
    <2>1. strong[x] > 0
      BY <1>2, HeldFacts
    <2>. QED  BY <1>1, <1>2, <2>1, ReleasedEffect
  <1>5. CountsExact'
    <2>. DEFINE p == [ptr EXCEPT ![Root(t)] = Null]
                c == [strong EXCEPT ![x] = strong[x] - 1]
    <2>1. p \in References /\ c \in [Node -> Nat] /\ Exact(p, c)
      BY <1>2, CountFacts, DropRef DEF IInv, TypeOK
    <2>2. p[Root(t)] = Null /\ p[Local(t)] = m
      BY <1>2 DEF IInv, TypeOK
    <2>3. c = strong' /\ ptr' = [p EXCEPT ![Root(t)] = m, ![Local(t)] = Null]
      BY <1>1, <1>2 DEF Released, IInv, TypeOK
    <2>. HIDE DEF p, c
    <2>4. Exact(ptr', strong')
      BY <1>2, <2>1, <2>2, <2>3, MoveRef
    <2>. QED  BY <2>4 DEF Exact, HoldersIn, CountsExact, Holders
  <1>6. Layered'
    <2>1. \A n \in Node, i \in Index : ptr'[Child(n, i)] = ptr[Child(n, i)]
      BY <1>2, <1>3, SlotFacts
    <2>2. height' = height
      BY <1>1
    <2>. QED  BY <2>1, <2>2, LayeredFrame
  <1>7. FreeEmpty'
    <2>1. \A n \in Free : n \in Node
      BY DEF Free
    <2>. QED  BY <1>2, <1>3, <1>4, <2>1, SlotFacts, FreeFrame
  <1>8. TypeOK'
    BY <1>1, <1>3, <1>4 DEF IInv, TypeOK, References
  <1>9. pc'[t] = "pull_up" /\ \A u \in Thread \ {t} : pc'[u] = pc[u]
    BY <1>1 DEF IInv, TypeOK
  <1>10. ASSUME NEW u \in Thread \ {t} PROVE ThreadInv(u)'
    <2>1. Local(t) \notin SlotsOf(u) /\ Local(t) # Local(u)
      <3>1. owned[u] \subseteq Node
        BY DEF IInv, TypeOK
      <3>. QED  BY <3>1, SlotFacts, SlotsOfMember
    <2>2. m \notin Sole(u) /\ Null \notin Sole(u)
      BY <1>2, <2>1, NotSole, SharingAssumption DEF Sole, IInv, TypeOK
    <2>3. Undisturbed(u)
      BY ZenonT(60), <1>1, <1>3, <1>4, <2>2, OwnSlots DEF Undisturbed
    <2>. QED  BY <1>1, <1>4, <1>9, <2>3, ThreadFrame DEF Still
  <1>11. ThreadInv(t)'
    <2>1. Control(t)'
      <3>1. /\ owned'[t] = {} /\ chain'[t] = <<>> /\ at'[t] = at[t] /\ at[t] = Root(t)
        BY <1>1, <1>2 DEF IInv, ThreadInv, Control
      <3>2. ptr'[Root(t)] # Null /\ ptr'[Local(t)] = Null
        BY <1>2, <1>3
      <3>. QED  BY <1>9, <3>1, <3>2 DEF Control, HasRope, Root, Local
    <2>2. Alone(t)' /\ CopyUnderWay(t)' /\ ChainHangs(t)'
      BY <1>1, <1>2, <1>9 DEF Alone, CopyUnderWay, ChainHangs
    <2>. QED  BY <1>4, <2>1, <2>2 DEF ThreadInv
  <1>12. \A u, v \in Thread : Apart(u, v)'
    BY <1>1, <1>4, ApartFrame
  <1>. QED  BY <1>5, <1>6, <1>7, <1>8, <1>10, <1>11, <1>12 DEF IInv

-----------------------------------------------------------------------------
(* Destructors *)

LEMMA DropChildInv ==
  ASSUME IInv, NEW t \in Thread, DropChild(t)
  PROVE  IInv'
  <1>. DEFINE d == Last(dying[t])
  <1>1. PICK i \in Index :
          /\ ptr[Child(d, i)] # Null
          /\ Sets(Child(d, i), Null)
          /\ Released(t, ptr[Child(d, i)])
    BY DEF DropChild, Sets
  <1>. DEFINE s == Child(d, i)
  <1>2. dying[t] # <<>> /\ UNCHANGED <<height, text, pc, at, owned, chain>>
    BY DEF DropChild
  <1>3. d \in Node /\ strong[d] = 0 /\ s \in Slot /\ chain[t] = <<>>
    BY <1>2, DyingFacts, SlotFacts DEF IInv, ThreadInv, Control
  <1>4. /\ ptr' \in References /\ ptr'[s] = Null
        /\ \A q \in Slot : q # s => ptr'[q] = ptr[q]
    BY <1>1, <1>3, SetsEffect
  <1>5. /\ SharedInv'
        /\ strong' \in [Node -> Nat] /\ dying' \in [Thread -> Seq(Node)]
        /\ \A u \in Thread \ {t} : dying'[u] = dying[u]
        /\ DyingDead(t)'
        /\ \A u, v \in Thread : DyingApart(u, v)'
        /\ \A u \in Thread : ~ Relied(u, s) => Undisturbed(u)
    BY <1>1, <1>2, <1>3, DropEffect
  <1>6. TypeOK'
    BY <1>2, <1>4, <1>5 DEF IInv, TypeOK, References
  <1>7. \A u \in Thread : ThreadInv(u)'
    <2>1. \A u \in Thread : ~ Relied(u, s)
      BY <1>3, PrivateSlots
    <2>2. \A u \in Thread : Still(u)
      BY <1>2, <1>3, <1>5 DEF Still
    <2>. QED  BY <1>5, <2>1, <2>2, ThreadFrame
  <1>. QED  BY <1>2, <1>5, <1>6, <1>7, ApartFrame DEF IInv, SharedInv

LEMMA DeallocInv ==
  ASSUME IInv, NEW t \in Thread, Dealloc(t)
  PROVE  IInv'
  <1>. DEFINE d == Last(dying[t])
              ds == dying[t]
              es == SubSeq(dying[t], 1, Len(dying[t]) - 1)
  <1>1. /\ ds # <<>> /\ ChildrenOf(d) = {}
        /\ text' = [text EXCEPT ![d] = Null]
        /\ height' = [height EXCEPT ![d] = 0]
        /\ dying' = [dying EXCEPT ![t] = es]
        /\ UNCHANGED <<ptr, strong, pc, at, owned, chain>>
    BY DEF Dealloc
  <1>2. /\ d \in Node /\ strong[d] = 0 /\ \A s \in Slot : ptr[s] # d
        /\ chain[t] = <<>>
    BY <1>1, DyingFacts DEF IInv, ThreadInv, Control
  <1>3. /\ ds \in Seq(Node) /\ Len(ds) \in Nat \ {0} /\ DOMAIN ds = 1..Len(ds)
        /\ d = ds[Len(ds)]
    BY <1>1 DEF IInv, TypeOK, Last
  <1>4. /\ es \in Seq(Node) /\ Len(es) = Len(ds) - 1 /\ DOMAIN es = 1..(Len(ds) - 1)
        /\ \A k \in 1..(Len(ds) - 1) : es[k] = ds[k]
    BY <1>3
  <1>. HIDE DEF es
  <1>5. /\ dying' \in [Thread -> Seq(Node)] /\ dying'[t] = es
        /\ \A u \in Thread \ {t} : dying'[u] = dying[u]
    BY <1>1, <1>4 DEF IInv, TypeOK
  <1>6. \A i \in Index : ptr[Child(d, i)] = Null
    BY <1>1 DEF ChildrenOf
  <1>7. /\ height' \in [Node -> 0..MaxHeight]
        /\ \A n \in Node : n # d => height'[n] = height[n]
    BY <1>1, <1>2, SharingAssumption DEF IInv, TypeOK
  <1>8. TypeOK'
    <2>1. text' \in [Node -> (UNION {Texts[u] : u \in Thread}) \cup {Null}]
      BY <1>1, TextsTyped
    <2>. QED  BY <1>1, <1>5, <1>7, <2>1 DEF IInv, TypeOK
  <1>9. CountsExact'
    BY <1>1 DEF IInv, CountsExact, Holders
  <1>10. Layered'
    <2>1. SUFFICES ASSUME NEW n \in Node, NEW i \in Index, ptr[Child(n, i)] # Null
                   PROVE  height'[n] = height'[ptr[Child(n, i)]] + 1
      BY <1>1 DEF Layered, Child
    <2>2. n # d /\ ptr[Child(n, i)] # d /\ ptr[Child(n, i)] \in Node
      BY <1>2, <1>6, <2>1, SlotFacts, HeldFacts
    <2>. QED  BY <1>7, <2>1, <2>2 DEF IInv, Layered
  <1>11. \A n \in Free' : n \in Node /\ (n \in Free \/ n = d)
    <2>1. SUFFICES ASSUME NEW n \in Node, n # d, n \in Free' PROVE n \in Free
      BY DEF Free
    <2>2. strong[n] = 0
      BY <1>1, <2>1 DEF Free
    <2>3. \A u \in Thread \ {t} : \A k \in DOMAIN dying[u] : dying[u][k] # n
      BY <1>5, <2>1 DEF Free
    <2>4. \A k \in DOMAIN es : es[k] # n
      BY <1>5, <2>1 DEF Free
    <2>5. \A k \in DOMAIN ds : ds[k] # n
      BY <1>3, <1>4, <2>1, <2>4
    <2>. QED  BY <2>2, <2>3, <2>5 DEF Free
  <1>12. FreeEmpty'
    BY <1>1, <1>6, <1>11 DEF IInv, FreeEmpty, Child
  <1>13. \A u \in Thread : DyingDead(u)'
    <2>1. \A k \in DOMAIN es : k \in DOMAIN ds /\ es[k] = ds[k]
      BY <1>3, <1>4
    <2>. QED  BY <1>1, <1>5, <2>1 DEF IInv, ThreadInv, DyingDead
  <1>14. \A u \in Thread : ThreadInv(u)'
    <2>1. \A u \in Thread : Still(u)
      BY <1>1, <1>2, <1>5, <1>13 DEF Still
    <2>2. \A q \in Slot : ptr[q] # Null => height'[ptr[q]] = height[ptr[q]]
      BY <1>2, <1>7, HeldFacts
    <2>3. \A u \in Thread : Undisturbed(u)
      BY <1>1, <2>2 DEF Undisturbed, IInv, ThreadInv, DyingDead
    <2>. QED  BY <2>1, <2>3, ThreadFrame
  <1>15. \A u, v \in Thread : DyingApart(u, v)'
    <2>1. \A k \in DOMAIN es : k \in DOMAIN ds /\ es[k] = ds[k]
      BY <1>3, <1>4
    <2>. QED  BY <1>5, <2>1 DEF IInv, Apart, DyingApart
  <1>. QED  BY <1>1, <1>8, <1>9, <1>10, <1>12, <1>14, <1>15, ApartFrame DEF IInv

-----------------------------------------------------------------------------
(* Edits of nodes that a thread may mutate *)

\* In an edit, of what a thread knows only the nodes it may mutate can change.
LEMMA EditingInv ==
  ASSUME IInv, NEW t \in Thread, In(t, "edit"), pc' = pc, at' = at, chain' = chain,
         ptr'[Root(t)] # Null, ptr'[Local(t)] = ptr[Local(t)], DyingDead(t)',
         \A n \in owned'[t] :
           \E s \in SlotsOf(t)' : \A q \in Slot : ptr'[q] = n <=> q = s
  PROVE  ThreadInv(t)'
  <1>1. pc[t] = "edit" /\ chain[t] = <<>> /\ at[t] = Root(t) /\ ptr[Local(t)] = Null
    BY DEF In, IInv, ThreadInv, Control
  <1>2. Control(t)'
    BY <1>1 DEF Control, HasRope, Root, Local
  <1>3. Alone(t)'
    BY DEF Alone, OnlyIn
  <1>4. CopyUnderWay(t)' /\ ChainHangs(t)'
    BY <1>1 DEF CopyUnderWay, ChainHangs
  <1>. QED  BY <1>2, <1>3, <1>4 DEF ThreadInv

\* The facts of an edit that all its steps start from.
LEMMA EditFacts ==
  ASSUME IInv, NEW t \in Thread, In(t, "edit")
  PROVE  /\ owned[t] \subseteq Node /\ SlotsOf(t) \subseteq Slot
         /\ Root(t) \in SlotsOf(t) /\ Local(t) \notin SlotsOf(t) /\ Local(t) \in Slot
         /\ ptr[Root(t)] \in Node /\ ptr[Root(t)] # Null
         /\ \A n \in owned[t], i \in Index : Child(n, i) \in SlotsOf(t)
         /\ \A n \in owned[t] :
              /\ n \notin Free /\ n # Null /\ strong[n] > 0
              /\ \E s \in SlotsOf(t) : \A q \in Slot : ptr[q] = n <=> q = s
  <1>1. owned[t] \subseteq Node
    BY DEF IInv, TypeOK
  <1>2. /\ SlotsOf(t) \subseteq Slot
        /\ Root(t) \in SlotsOf(t) /\ Local(t) \notin SlotsOf(t) /\ Local(t) \in Slot
        /\ \A n \in owned[t], i \in Index : Child(n, i) \in SlotsOf(t)
    BY <1>1, SlotFacts, SlotsOfMember
  <1>3. ptr[Root(t)] \in Node /\ ptr[Root(t)] # Null
    BY <1>2 DEF In, IInv, ThreadInv, Control, HasRope, TypeOK
  <1>4. ASSUME NEW n \in owned[t]
        PROVE  /\ n \notin Free /\ n # Null /\ strong[n] > 0
               /\ \E s \in SlotsOf(t) : \A q \in Slot : ptr[q] = n <=> q = s
    <2>1. PICK s \in SlotsOf(t) : OnlyIn(s, n)
      BY DEF IInv, ThreadInv, Alone
    <2>2. s \in Slot /\ ptr[s] = n /\ n # Null
      BY <1>1, <1>2, <2>1, SharingAssumption DEF OnlyIn
    <2>. QED  BY <2>1, <2>2, HeldFacts DEF OnlyIn
  <1>. QED  BY <1>1, <1>2, <1>3, <1>4

LEMMA NewChildInv ==
  ASSUME IInv, NEW t \in Thread, NewChild(t)
  PROVE  IInv'
  <1>1. PICK n \in owned[t], i \in Index, m \in Fresh :
          /\ height[n] > 0 /\ FirstEmpty(n, i)
          /\ Sets(Child(n, i), m)
          /\ strong' = [strong EXCEPT ![m] = 1]
          /\ height' = [height EXCEPT ![m] = height[n] - 1]
          /\ owned' = [owned EXCEPT ![t] = owned[t] \cup {m}]
          /\ IF height[n] = 1 THEN \E x \in Texts[t] : text' = [text EXCEPT ![m] = x]
             ELSE text' = text
    BY DEF NewChild, Sets
  <1>. DEFINE s == Child(n, i)
  <1>2. In(t, "edit") /\ UNCHANGED <<pc, at, dying, chain>>
    BY DEF NewChild
  <1>3. /\ m \in Node /\ m # Null /\ \A q \in Slot : ptr[q] # m
        /\ \A u \in Thread : m \notin owned[u]
        /\ \A u \in Thread : \A k \in DOMAIN chain[u] : chain[u][k] # m
    BY FreshFacts
  <1>4. /\ n \in Node /\ n \notin Free /\ s \in SlotsOf(t) /\ s \in Slot /\ ptr[s] = Null
    BY <1>1, <1>2, EditFacts DEF FirstEmpty, ChildrenOf
  <1>5. /\ ptr' \in References /\ ptr'[s] = m
        /\ \A q \in Slot : q # s => ptr'[q] = ptr[q]
    BY <1>1, <1>3, <1>4, SetsEffect
  <1>6. /\ SharedInv'
        /\ strong' \in [Node -> Nat] /\ height' \in [Node -> 0..MaxHeight]
        /\ \A u \in Thread : DyingDead(u)'
        /\ \A u \in Thread : ~ Relied(u, s) => Undisturbed(u)
        /\ \A q \in Slot : ptr'[q] = m <=> q = s
    <2>1. PICK h \in 0..MaxHeight : h = height[n] - 1 /\ height[n] = h + 1
      <3>1. height[n] \in 0..MaxHeight /\ MaxHeight \in Nat
        BY <1>4, SharingAssumption DEF IInv, TypeOK
      <3>2. height[n] - 1 \in 0..MaxHeight /\ height[n] = (height[n] - 1) + 1
        BY <1>1, <3>1
      <3>. QED  BY <3>2
    <2>2. \A p \in Node, j \in Index : s = Child(p, j) => p \notin Free /\ height[p] = h + 1
      BY ZenonT(60), <1>4, <2>1, SlotFacts
    <2>3. /\ h \in 0..MaxHeight /\ Sets(s, m)
          /\ strong' = [strong EXCEPT ![m] = 1] /\ height' = [height EXCEPT ![m] = h]
          /\ dying' = dying
      BY <1>1, <1>2, <2>1
    <2>. QED  BY <1>4, <2>2, <2>3, AllocEffect
  <1>7. /\ owned'[t] = owned[t] \cup {m} /\ owned' \in [Thread -> SUBSET Node]
        /\ \A u \in Thread \ {t} : owned'[u] = owned[u]
    BY <1>1, <1>3 DEF IInv, TypeOK
  <1>8. text' \in [Node -> (UNION {Texts[u] : u \in Thread}) \cup {Null}]
    <2>1. CASE height[n] = 1
      <3>1. PICK x \in Texts[t] : text' = [text EXCEPT ![m] = x]
        BY <1>1, <2>1
      <3>. QED  BY <3>1, TextsTyped
    <2>2. CASE height[n] # 1
      BY <1>1, <2>2 DEF IInv, TypeOK
    <2>. QED  BY <2>1, <2>2
  <1>9. TypeOK'
    BY <1>2, <1>5, <1>6, <1>7, <1>8 DEF IInv, TypeOK, References
  <1>10. ASSUME NEW u \in Thread \ {t} PROVE ThreadInv(u)'
    <2>1. ~ Relied(u, s)
      BY <1>4, PrivateSlots
    <2>. QED  BY <1>2, <1>6, <1>7, <2>1, ThreadFrame DEF Still
  <1>11. ThreadInv(t)'
    <2>1. SlotsOf(t) \subseteq SlotsOf(t)'
      BY <1>7 DEF SlotsOf, Root
    <2>2. ptr'[Root(t)] # Null /\ ptr'[Local(t)] = ptr[Local(t)]
      BY <1>2, <1>3, <1>4, <1>5, EditFacts
    <2>3. ASSUME NEW p \in owned[t]
          PROVE  \E r \in SlotsOf(t) : \A q \in Slot : ptr'[q] = p <=> q = r
      <3>1. PICK r \in SlotsOf(t) : \A q \in Slot : ptr[q] = p <=> q = r
        BY <1>2, EditFacts
      <3>2. r \in Slot /\ p # Null /\ p # m
        BY <1>2, <1>3, EditFacts
      <3>. QED  BY <1>4, <1>5, <3>1, <3>2
    <2>4. \A p \in owned'[t] : \E r \in SlotsOf(t)' : \A q \in Slot : ptr'[q] = p <=> q = r
      BY <1>4, <1>6, <1>7, <2>1, <2>3
    <2>. QED  BY <1>2, <1>6, <2>2, <2>4, EditingInv
  <1>12. \A u, v \in Thread : Apart(u, v)'
    BY <1>2, <1>3, <1>7 DEF IInv, Apart
  <1>. QED  BY <1>6, <1>9, <1>10, <1>11, <1>12 DEF IInv, SharedInv

LEMMA MoveChildInv ==
  ASSUME IInv, NEW t \in Thread, MoveChild(t)
  PROVE  IInv'
  <1>1. PICK n \in owned[t], m \in owned[t], i \in Index, j \in Index :
          /\ height[n] = height[m]
          /\ ptr[Child(n, i)] # Null /\ FirstEmpty(m, j)
          /\ ptr' = [ptr EXCEPT ![Child(m, j)] = ptr[Child(n, i)], ![Child(n, i)] = Null]
    BY DEF MoveChild
  <1>. DEFINE s == Child(m, j)
              r == Child(n, i)
              c == ptr[r]
  <1>2. In(t, "edit") /\ UNCHANGED <<strong, height, text, pc, at, owned, dying, chain>>
    BY DEF MoveChild
  <1>3. /\ n \in Node /\ m \in Node /\ m \notin Free
        /\ s \in SlotsOf(t) /\ r \in SlotsOf(t) /\ s \in Slot /\ r \in Slot /\ ptr[s] = Null
    BY <1>1, <1>2, EditFacts DEF FirstEmpty, ChildrenOf
  <1>4. /\ SharedInv'
        /\ ptr' \in References /\ s # r /\ ptr'[s] = c /\ ptr'[r] = Null
        /\ \A q \in Slot : q # s /\ q # r => ptr'[q] = ptr[q]
        /\ \A u \in Thread : DyingDead(u)'
        /\ \A u \in Thread :
             ~ Relied(u, s) /\ ~ Relied(u, r) /\ c \notin Sole(u) => Undisturbed(u)
    <2>1. height[n] = height[c] + 1
      BY <1>1, <1>3 DEF IInv, Layered
    <2>2. ASSUME NEW p \in Node, NEW k \in Index, s = Child(p, k)
          PROVE  p \notin Free /\ height[p] = height[c] + 1
      <3>1. p = m
        BY <1>3, <2>2, SlotFacts
      <3>. QED  BY <1>1, <1>3, <2>1, <3>1
    <2>3. ptr' = [ptr EXCEPT ![s] = ptr[r], ![r] = Null] /\ ptr[r] # Null
      BY <1>1
    <2>. QED  BY <1>2, <1>3, <2>2, <2>3, MoveEffect
  <1>5. TypeOK'
    BY <1>2, <1>4 DEF IInv, TypeOK, References
  <1>6. ASSUME NEW u \in Thread \ {t} PROVE ThreadInv(u)'
    <2>1. ~ Relied(u, s) /\ ~ Relied(u, r)
      BY <1>3, PrivateSlots
    <2>2. c \notin Sole(u)
      BY <1>3, <2>1, SlotsOfApart, NotSole DEF Relied
    <2>. QED  BY <1>2, <1>4, <2>1, <2>2, ThreadFrame DEF Still
  <1>7. ThreadInv(t)'
    <2>1. SlotsOf(t)' = SlotsOf(t)
      BY <1>2 DEF SlotsOf, Root
    <2>2. ptr'[Root(t)] # Null /\ ptr'[Local(t)] = ptr[Local(t)]
      BY <1>2, <1>3, <1>4, EditFacts, SlotFacts
    <2>3. ASSUME NEW p \in owned[t]
          PROVE  \E a \in SlotsOf(t) : \A q \in Slot : ptr'[q] = p <=> q = a
      <3>1. PICK a \in SlotsOf(t) : \A q \in Slot : ptr[q] = p <=> q = a
        BY <1>2, EditFacts
      <3>2. a \in Slot /\ p # Null /\ a # s
        BY <1>2, <1>3, <3>1, EditFacts
      <3>3. CASE a = r
        BY <1>3, <1>4, <3>1, <3>2, <3>3
      <3>4. CASE a # r
        BY <1>3, <1>4, <3>1, <3>2, <3>4
      <3>. QED  BY <3>3, <3>4
    <2>. QED  BY <1>2, <1>4, <2>1, <2>2, <2>3, EditingInv
  <1>8. \A u, v \in Thread : Apart(u, v)'
    BY <1>2 DEF IInv, Apart
  <1>. QED  BY <1>4, <1>5, <1>6, <1>7, <1>8 DEF IInv, SharedInv

LEMMA RemoveChildInv ==
  ASSUME IInv, NEW t \in Thread, RemoveChild(t)
  PROVE  IInv'
  <1>1. PICK n \in owned[t], i \in Index :
          /\ ptr[Child(n, i)] # Null
          /\ Sets(Child(n, i), Null)
          /\ Released(t, ptr[Child(n, i)])
          /\ owned' = [owned EXCEPT ![t] = {m \in owned[t] : height[m] >= height[n]}]
    BY DEF RemoveChild, Sets
  <1>. DEFINE s == Child(n, i)
              c == ptr[s]
  <1>2. In(t, "edit") /\ UNCHANGED <<height, text, pc, at, chain>>
    BY DEF RemoveChild
  <1>3. n \in Node /\ s \in SlotsOf(t) /\ s \in Slot
    BY <1>1, <1>2, EditFacts
  <1>4. /\ ptr' \in References /\ ptr'[s] = Null
        /\ \A q \in Slot : q # s => ptr'[q] = ptr[q]
    BY <1>1, <1>3, SetsEffect
  <1>5. /\ SharedInv'
        /\ strong' \in [Node -> Nat] /\ dying' \in [Thread -> Seq(Node)]
        /\ \A u \in Thread \ {t} : dying'[u] = dying[u]
        /\ DyingDead(t)'
        /\ \A u, v \in Thread : DyingApart(u, v)'
        /\ \A u \in Thread : ~ Relied(u, s) => Undisturbed(u)
    BY <1>1, <1>2, <1>3, DropEffect
  <1>6. /\ owned'[t] = {m \in owned[t] : height[m] >= height[n]}
        /\ owned' \in [Thread -> SUBSET Node]
        /\ \A u \in Thread \ {t} : owned'[u] = owned[u]
    BY <1>1, <1>2, EditFacts DEF IInv, TypeOK
  <1>7. TypeOK'
    BY <1>2, <1>4, <1>5, <1>6 DEF IInv, TypeOK, References
  <1>8. ASSUME NEW u \in Thread \ {t} PROVE ThreadInv(u)'
    <2>1. ~ Relied(u, s)
      BY <1>3, PrivateSlots
    <2>. QED  BY <1>2, <1>5, <1>6, <2>1, ThreadFrame DEF Still
  <1>9. ThreadInv(t)'
    <2>1. ptr'[Root(t)] # Null /\ ptr'[Local(t)] = ptr[Local(t)]
      BY <1>2, <1>3, <1>4, EditFacts, SlotFacts
    <2>2. height \in [Node -> Nat] /\ height[n] = height[c] + 1 /\ c \in Node
      BY <1>1, <1>3, HeldFacts, SharingAssumption DEF IInv, TypeOK, Layered
    <2>3. ASSUME NEW p \in owned'[t]
          PROVE  \E a \in SlotsOf(t)' : \A q \in Slot : ptr'[q] = p <=> q = a
      <3>1. p \in owned[t] /\ p \in Node /\ height[p] >= height[n]
        BY <1>2, <1>6, EditFacts
      <3>2. PICK a \in SlotsOf(t) : \A q \in Slot : ptr[q] = p <=> q = a
        BY <1>2, <3>1, EditFacts
      <3>3. a \in Slot /\ p # Null /\ ptr[a] = p
        BY <1>2, <3>1, <3>2, EditFacts
      <3>4. a # s
        BY <2>2, <3>1, <3>3
      <3>5. a \in SlotsOf(t)'
        <4>1. CASE a = Root(t)
          BY <4>1 DEF SlotsOf, Root
        <4>2. CASE a # Root(t)
          <5>1. PICK m \in owned[t], j \in Index : a = Child(m, j)
            BY <3>2, <4>2, SlotsOfMember
          <5>2. m \in Node /\ height[m] = height[p] + 1
            BY <1>2, <3>3, <5>1, EditFacts DEF IInv, Layered
          <5>3. height[m] >= height[n]
            BY <1>3, <2>2, <3>1, <5>2
          <5>4. m \in owned'[t]
            BY <1>6, <5>3
          <5>. QED  BY <5>1, <5>4 DEF SlotsOf, Child
        <4>. QED  BY <4>1, <4>2
      <3>. QED  BY <1>3, <1>4, <3>2, <3>3, <3>4, <3>5
    <2>. QED  BY <1>2, <1>5, <2>1, <2>3, EditingInv
  <1>10. \A u \in Thread : owned'[u] \subseteq owned[u]
    BY <1>6
  <1>. QED  BY <1>2, <1>5, <1>7, <1>8, <1>9, <1>10, ApartFrame DEF IInv, SharedInv

LEMMA GraftInv ==
  ASSUME IInv, NEW t \in Thread, NEW u \in Thread \ {t}, Graft(t, u)
  PROVE  IInv'
  <1>1. PICK n \in owned[t], i \in Index :
          /\ height[n] = height[ptr[Root(u)]] + 1 /\ FirstEmpty(n, i)
          /\ ptr' = [ptr EXCEPT ![Child(n, i)] = ptr[Root(u)], ![Root(u)] = Null]
    BY DEF Graft
  <1>. DEFINE s == Child(n, i)
              r == Root(u)
              c == ptr[r]
  <1>2. /\ In(t, "edit") /\ pc[u] = "idle" /\ chain[u] = <<>> /\ c # Null
        /\ UNCHANGED <<strong, height, text, pc, at, owned, dying, chain>>
    BY DEF Graft, Idle, Calm, HasRope
  <1>3. /\ n \in Node /\ n \notin Free /\ s \in SlotsOf(t) /\ s \in Slot /\ ptr[s] = Null
        /\ r \in Slot /\ r # Root(t) /\ r # Local(t)
    BY <1>1, <1>2, EditFacts, SlotFacts DEF FirstEmpty, ChildrenOf
  <1>4. /\ SharedInv'
        /\ ptr' \in References /\ s # r /\ ptr'[s] = c /\ ptr'[r] = Null
        /\ \A q \in Slot : q # s /\ q # r => ptr'[q] = ptr[q]
        /\ \A v \in Thread : DyingDead(v)'
        /\ \A v \in Thread :
             ~ Relied(v, s) /\ ~ Relied(v, r) /\ c \notin Sole(v) => Undisturbed(v)
    <2>1. ASSUME NEW p \in Node, NEW k \in Index, s = Child(p, k)
          PROVE  p \notin Free /\ height[p] = height[c] + 1
      <3>1. p = n
        BY <1>3, <2>1, SlotFacts
      <3>. QED  BY <1>1, <1>3, <3>1
    <2>2. ptr' = [ptr EXCEPT ![s] = ptr[r], ![r] = Null] /\ ptr[r] # Null
      BY <1>1, <1>2
    <2>. QED  BY <1>2, <1>3, <2>1, <2>2, MoveEffect
  <1>5. TypeOK'
    BY <1>2, <1>4 DEF IInv, TypeOK, References
  <1>6. \A v \in Thread : c \notin Sole(v)
    <2>1. c \notin Sole(u)
      BY <1>2 DEF Sole, IInv, ThreadInv, Control
    <2>2. ASSUME NEW v \in Thread \ {u} PROVE c \notin Sole(v)
      BY <1>3, OwnSlots, NotSole
    <2>. QED  BY <2>1, <2>2
  <1>7. ASSUME NEW v \in Thread \ {t} PROVE ThreadInv(v)'
    <2>1. ~ Relied(v, s)
      BY <1>3, PrivateSlots
    <2>2. ~ Relied(v, r)
      BY <1>2, OwnSlots
    <2>. QED  BY <1>2, <1>4, <1>6, <2>1, <2>2, ThreadFrame DEF Still
  <1>8. ThreadInv(t)'
    <2>1. SlotsOf(t)' = SlotsOf(t)
      BY <1>2 DEF SlotsOf, Root
    <2>2. ptr'[Root(t)] # Null /\ ptr'[Local(t)] = ptr[Local(t)]
      BY <1>2, <1>3, <1>4, EditFacts, SlotFacts
    <2>3. ASSUME NEW p \in owned[t]
          PROVE  \E a \in SlotsOf(t) : \A q \in Slot : ptr'[q] = p <=> q = a
      <3>1. PICK a \in SlotsOf(t) : \A q \in Slot : ptr[q] = p <=> q = a
        BY <1>2, EditFacts
      <3>2. a \in Slot /\ p # Null /\ p # c /\ ptr[a] = p
        BY <1>2, <1>6, <3>1, EditFacts DEF Sole
      <3>. QED  BY <1>3, <1>4, <3>1, <3>2
    <2>. QED  BY <1>2, <1>4, <2>1, <2>2, <2>3, EditingInv
  <1>9. \A v, w \in Thread : Apart(v, w)'
    BY <1>2 DEF IInv, Apart
  <1>. QED  BY <1>4, <1>5, <1>7, <1>8, <1>9 DEF IInv, SharedInv

LEMMA GrowRootInv ==
  ASSUME IInv, NEW t \in Thread, GrowRoot(t)
  PROVE  IInv'
  <1>. DEFINE r == Root(t)
              x == ptr[r]
  <1>1. PICK m \in Fresh :
          /\ ptr' = [ptr EXCEPT ![Root(t)] = m, ![Child(m, 1)] = ptr[Root(t)]]
          /\ strong' = [strong EXCEPT ![m] = 1]
          /\ height' = [height EXCEPT ![m] = height[ptr[Root(t)]] + 1]
          /\ owned' = [owned EXCEPT ![t] = owned[t] \cup {m}]
    BY DEF GrowRoot
  <1>. DEFINE s == Child(m, 1)
  <1>2. /\ In(t, "edit") /\ x \in owned[t] /\ height[x] < MaxHeight
        /\ UNCHANGED <<text, pc, at, dying, chain>>
    BY DEF GrowRoot
  <1>3. /\ m \in Node /\ m \in Free /\ m # Null /\ strong[m] = 0
        /\ \A q \in Slot : ptr[q] # m
        /\ \A u \in Thread : m \notin owned[u] /\ m \notin Sole(u)
        /\ \A u \in Thread : \A k \in DOMAIN dying[u] : dying[u][k] # m
        /\ \A u \in Thread : \A k \in DOMAIN chain[u] : chain[u][k] # m
        /\ \A i \in Index : ptr[Child(m, i)] = Null
    BY FreshFacts
  <1>4. 1 \in Index /\ r \in Slot /\ s \in Slot /\ r # s /\ ptr[s] = Null
    BY <1>3, SlotFacts, SharingAssumption DEF Index
  <1>5. x \in Node /\ x # Null /\ x # m /\ r \in SlotsOf(t)
    BY <1>2, <1>3, EditFacts
  <1>6. /\ ptr' \in References /\ ptr'[r] = m /\ ptr'[s] = x
        /\ \A q \in Slot : q # r /\ q # s => ptr'[q] = ptr[q]
    BY <1>1, <1>3, <1>4, <1>5 DEF References, IInv, TypeOK
  <1>7. /\ strong' \in [Node -> Nat] /\ strong'[m] = 1
        /\ \A n \in Node : n # m => strong'[n] = strong[n]
    BY <1>1, <1>3 DEF IInv, TypeOK
  <1>8. /\ height' \in [Node -> 0..MaxHeight] /\ height'[m] = height[x] + 1
        /\ \A n \in Node : n # m => height'[n] = height[n]
    <2>1. height[x] + 1 \in 0..MaxHeight
      BY <1>2, <1>5, SharingAssumption DEF IInv, TypeOK
    <2>. QED  BY <1>1, <1>3, <2>1 DEF IInv, TypeOK
  <1>9. /\ owned'[t] = owned[t] \cup {m} /\ owned' \in [Thread -> SUBSET Node]
        /\ \A u \in Thread \ {t} : owned'[u] = owned[u]
    BY <1>1, <1>3 DEF IInv, TypeOK
  <1>10. CountsExact'
    <2>. DEFINE p == [ptr EXCEPT ![s] = ptr[r], ![r] = Null]
    <2>1. p \in References /\ Exact(p, strong)
      BY <1>4, <1>5, CountFacts, MoveRef DEF IInv, TypeOK
    <2>2. p[r] = Null /\ [p EXCEPT ![r] = m] = ptr'
      BY <1>1, <1>4 DEF IInv, TypeOK
    <2>. HIDE DEF p
    <2>3. Exact([p EXCEPT ![r] = m], [strong EXCEPT ![m] = strong[m] + 1])
      BY <1>3, <1>4, <2>1, <2>2, AddRef DEF IInv, TypeOK
    <2>4. Exact(ptr', strong')
      BY <1>1, <1>3, <2>2, <2>3
    <2>. QED  BY <2>4 DEF Exact, HoldersIn, CountsExact, Holders
  <1>11. Layered'
    <2>1. \A n \in Node \ Free : height'[n] = height[n]
      BY <1>3, <1>8
    <2>2. ASSUME NEW n \in Node, NEW i \in Index, ptr'[Child(n, i)] # ptr[Child(n, i)]
          PROVE  height'[n] = height'[ptr'[Child(n, i)]] + 1
      <3>1. Child(n, i) \in Slot /\ Child(n, i) # r
        BY SlotFacts
      <3>2. Child(n, i) = s /\ n = m
        BY <1>3, <1>4, <1>6, <2>2, <3>1, SlotFacts
      <3>3. ptr'[Child(n, i)] = x
        BY <1>6, <3>2
      <3>. QED  BY <1>5, <1>8, <3>2, <3>3
    <2>. QED  BY <2>1, <2>2, LayeredFrame
  <1>12. FreeEmpty'
    <2>1. Free' = Free \ {m}
      BY <1>2, <1>3, <1>7 DEF Free
    <2>2. \A n \in Free' : n \in Node /\ n \in Free /\ n # m
      BY <2>1 DEF Free
    <2>. QED  BY <1>3, <1>4, <1>6, <2>1, <2>2, SlotFacts, FreeFrame
  <1>13. TypeOK'
    BY <1>2, <1>6, <1>7, <1>8, <1>9 DEF IInv, TypeOK, References
  <1>14. \A u \in Thread : \A k \in DOMAIN dying[u] :
           dying[u][k] \in Node /\ strong'[dying[u][k]] = 0
    BY <1>3, <1>7 DEF IInv, TypeOK, ThreadInv, DyingDead
  <1>15. \A u \in Thread : DyingDead(u)'
    BY <1>2, <1>14 DEF IInv, ThreadInv, DyingDead
  <1>16. ASSUME NEW u \in Thread \ {t} PROVE ThreadInv(u)'
    <2>1. ~ Relied(u, s) /\ ~ Relied(u, r)
      BY <1>3, <1>4, PrivateSlots, OwnSlots
    <2>2. m \notin Sole(u) /\ x \notin Sole(u)
      BY <1>3, <1>4, OwnSlots, NotSole
    <2>3. \A q \in Slot : ptr[q] # Null => height'[ptr[q]] = height[ptr[q]]
      BY <1>3, <1>8, HeldFacts
    <2>4. Undisturbed(u)
      BY <1>6, <1>14, <2>1, <2>2, <2>3 DEF Undisturbed
    <2>. QED  BY <1>2, <1>9, <2>4, ThreadFrame DEF Still
  <1>17. ThreadInv(t)'
    <2>1. SlotsOf(t) \subseteq SlotsOf(t)' /\ r \in SlotsOf(t)' /\ s \in SlotsOf(t)'
      <3>1. m \in owned'[t] /\ owned[t] \subseteq owned'[t]
        BY <1>9
      <3>2. SlotsOf(t) \subseteq SlotsOf(t)'
        BY <3>1 DEF SlotsOf, Root
      <3>3. r \in SlotsOf(t)'
        BY DEF SlotsOf, Root
      <3>4. s \in SlotsOf(t)'
        BY <1>4, <3>1 DEF SlotsOf, Child
      <3>. QED  BY <3>2, <3>3, <3>4
    <2>2. ptr'[r] # Null /\ ptr'[Local(t)] = ptr[Local(t)]
      BY <1>2, <1>3, <1>4, <1>6, EditFacts, SlotFacts
    <2>3. \A q \in Slot : ptr'[q] = m <=> q = r
      BY <1>3, <1>4, <1>5, <1>6
    <2>4. ASSUME NEW p \in owned[t]
          PROVE  \E a \in SlotsOf(t)' : \A q \in Slot : ptr'[q] = p <=> q = a
      <3>1. PICK a \in SlotsOf(t) : \A q \in Slot : ptr[q] = p <=> q = a
        BY <1>2, EditFacts
      <3>2. a \in Slot /\ p # Null /\ p # m /\ ptr[a] = p
        BY <1>2, <1>3, <3>1, EditFacts
      <3>3. CASE a = r
        <4>1. p = x
          BY <3>2, <3>3
        <4>2. \A q \in Slot : ptr'[q] = x <=> q = s
          BY <1>4, <1>5, <1>6, <3>1, <3>3, <4>1
        <4>. QED  BY <2>1, <4>1, <4>2
      <3>4. CASE a # r
        BY <1>4, <1>6, <2>1, <3>1, <3>2, <3>4
      <3>. QED  BY <3>3, <3>4
    <2>5. \A p \in owned'[t] : \E a \in SlotsOf(t)' : \A q \in Slot : ptr'[q] = p <=> q = a
      BY <1>9, <2>1, <2>3, <2>4
    <2>. QED  BY <1>2, <1>15, <2>2, <2>5, EditingInv
  <1>18. \A u, v \in Thread : Apart(u, v)'
    BY <1>2, <1>3, <1>9 DEF IInv, Apart
  <1>. QED  BY <1>10, <1>11, <1>12, <1>13, <1>16, <1>17, <1>18 DEF IInv

-----------------------------------------------------------------------------
(* The theorems *)

LEMMA InitIInv ==
  ASSUME Init
  PROVE  IInv
  <1>1. TypeOK
    <2>1. \A t \in Thread : Root(t) \in Slot
      BY SlotFacts
    <2>2. 0 \in 0..MaxHeight
      BY SharingAssumption
    <2>. QED  BY <2>1, <2>2 DEF Init, TypeOK
  <1>2. CountsExact
    <2>1. \A n \in Node : Holders(n) = {}
      BY SharingAssumption DEF Init, Holders
    <2>2. Cardinality({}) = 0
      BY FS_EmptySet
    <2>. QED  BY <2>1, <2>2 DEF Init, CountsExact
  <1>3. Layered /\ FreeEmpty
    BY SlotFacts DEF Init, Layered, FreeEmpty, Free
  <1>4. ASSUME NEW t \in Thread PROVE ThreadInv(t)
    BY SlotFacts
    DEF Init, ThreadInv, Control, Alone, CopyUnderWay, ChainHangs, DyingDead, HasRope
  <1>5. \A t, u \in Thread : Apart(t, u)
    BY DEF Init, Apart
  <1>. QED  BY <1>1, <1>2, <1>3, <1>4, <1>5 DEF IInv

LEMMA NextIInv ==
  ASSUME IInv, [Next]_vars
  PROVE  IInv'
  <1>1. CASE UNCHANGED vars
    <2>1. TypeOK' /\ UNCHANGED <<ptr, strong, height, pc, at, owned, dying, chain, text>>
      BY <1>1 DEF vars, IInv, TypeOK
    <2>2. text' \in [Node -> (UNION {Texts[t] : t \in Thread}) \cup {Null}]
      BY <2>1 DEF TypeOK
    <2>. QED  BY <2>1, <2>2, TextInv
  <1>2. ASSUME NEW t \in Thread, NEW u \in Thread \ {t}, StepWith(t, u) PROVE IInv'
    BY <1>2, ShareInv, GraftInv DEF StepWith
  <1>3. ASSUME NEW t \in Thread, Step(t) PROVE IInv'
    <2>1. CASE NewRope(t) \/ DropRope(t)
      BY <2>1, NewRopeInv, DropRopeInv
    <2>2. CASE TakeSlice(t) \/ NarrowSlice(t) \/ EndSlice(t)
      BY <2>2, TakeSliceInv, NarrowSliceInv, EndSliceInv
    <2>3. CASE StartEdit(t) \/ MakeMut(t) \/ InPlace(t)
      BY <2>3, StartEditInv, MakeMutInv, InPlaceInv
    <2>4. CASE StartCopy(t) \/ CopyText(t) \/ CopyChild(t) \/ EndCopy(t)
      BY <2>4, StartCopyInv, CopyTextInv, CopyChildInv, EndCopyInv
    <2>5. CASE Write(t) \/ NewChild(t) \/ MoveChild(t) \/ RemoveChild(t) \/ GrowRoot(t)
      BY <2>5, WriteInv, NewChildInv, MoveChildInv, RemoveChildInv, GrowRootInv
    <2>6. CASE EndEdit(t) \/ CloneOnlyChild(t) \/ SetRoot(t) \/ EndPullUp(t)
      BY <2>6, EndEditInv, CloneOnlyChildInv, SetRootInv, EndPullUpInv
    <2>7. CASE Destroy(t)
      BY <2>7, DropChildInv, DeallocInv DEF Destroy
    <2>. QED  BY <1>3, <2>1, <2>2, <2>3, <2>4, <2>5, <2>6, <2>7 DEF Step
  <1>. QED  BY <1>1, <1>2, <1>3 DEF Next

\* The invariant from which the properties follow is one of the specification.
THEOREM Invariance == Spec => []IInv
  <1>1. Init => IInv
    BY InitIInv
  <1>2. IInv /\ [Next]_vars => IInv'
    BY NextIInv
  <1>. QED  BY <1>1, <1>2, PTL DEF Spec

\* The variables have the values that they are meant to have.
THEOREM TypeCorrect == Spec => []TypeOK
  <1>1. IInv => TypeOK
    BY DEF IInv
  <1>. QED  BY <1>1, Invariance, PTL

\* A node's count is the number of references to it, at every point of every
\* thread's clones, copies, edits and destructors.
THEOREM Counting == Spec => []CountsExact
  <1>1. IInv => CountsExact
    BY DEF IInv
  <1>. QED  BY <1>1, Invariance, PTL

\* A node is destroyed by one thread, once, when nothing refers to it any more.
THEOREM Freeing == Spec => []FreedOnce
  <1>1. IInv => FreedOnce
    BY DEF IInv, ThreadInv, DyingDead, Apart, FreeEmpty, FreedOnce
  <1>. QED  BY <1>1, Invariance, PTL

\* A node that a thread may mutate is in no other tree, nor twice in its own.
THEOREM Exclusion == Spec => []OwnedAlone
  <1>1. ASSUME IInv PROVE OwnedAlone
    <2>1. ASSUME NEW t \in Thread, NEW n \in owned[t]
          PROVE  \E s \in SlotsOf(t) : Holders(n) = {s}
      <3>1. PICK s \in SlotsOf(t) : OnlyIn(s, n)
        BY <1>1 DEF IInv, ThreadInv, Alone
      <3>2. s \in Slot
        BY <1>1, OwnedHere
      <3>. QED  BY <3>1, <3>2 DEF OnlyIn, Holders
    <2>. QED  BY <1>1, <2>1 DEF OwnedAlone, IInv, Apart
  <1>. QED  BY <1>1, Invariance, PTL

\* What a slice refers to without a count, and what make_mut is copying, stays in
\* place, and is mutated by nobody meanwhile.
THEOREM Reading == Spec => []ReadersSafe
  <1>1. ASSUME IInv PROVE ReadersSafe
    <2>1. \A t \in Thread : ChainHangs(t)
      BY <1>1 DEF IInv, ThreadInv
    <2>2. \A t, u \in Thread : \A k \in DOMAIN chain[t] : chain[t][k] \notin owned[u]
      BY <1>1 DEF IInv, Apart
    <2>3. ASSUME NEW t \in Thread, NEW u \in Thread, pc[t] = "copy"
          PROVE  ptr[at[t]] \notin owned[u]
      <3>1. at[t] \in SlotsOf(t) /\ at[t] \in Slot /\ ptr[at[t]] \notin owned[t]
        BY <1>1, <2>3 DEF IInv, TypeOK, ThreadInv, Control
      <3>. QED  BY <1>1, <3>1, SlotsOfApart, OwnedHere
    <2>. QED  BY <2>1, <2>2, <2>3 DEF ChainHangs, ReadersSafe
  <1>. QED  BY <1>1, Invariance, PTL

-----------------------------------------------------------------------------
(* Every node is reached *)

\* The nodes ns, and the children of those.
Below(ns) == ns \cup ({ptr[Child(n, i)] : n \in ns, i \in Index} \ {Null})

LEMMA ReachedFacts ==
  ASSUME TypeOK, NEW ns \in SUBSET Node
  PROVE  \E f \in [0..MaxHeight -> SUBSET Node] :
           /\ f[0] = ns
           /\ \A h \in 0..MaxHeight : h # MaxHeight => f[h + 1] = Below(f[h])
           /\ Reached(ns) = f[MaxHeight]
  <1>. DEFINE D == SUBSET Node
              Def(f) == [h \in 0..MaxHeight |-> IF h = 0 THEN ns ELSE Below(f[h - 1])]
              upTo == CHOOSE f : f = Def(f)
              F == [h \in 1..MaxHeight |-> [S \in D |-> Below(S)]]
  <1>0. MaxHeight \in Nat
    BY SharingAssumption
  <1>1. Reached(ns) = upTo[MaxHeight]
    BY DEF Reached, Below
  <1>2. \A S \in D : Below(S) \in D
    <2>1. ASSUME NEW n \in Node, NEW i \in Index PROVE ptr[Child(n, i)] \in Node \cup {Null}
      BY SlotFacts DEF TypeOK
    <2>. QED  BY <2>1 DEF Below
  <1>3. PICK g : Iterates(g, MaxHeight, D, ns, F)
    <2>1. IsStep(F, MaxHeight, D) /\ ns \in D
      BY <1>2 DEF IsStep
    <2>. HIDE DEF F, D
    <2>. QED  BY <1>0, <2>1, Recursion
  <1>4. g = Def(g)
    <2>1. ASSUME NEW h \in 0..MaxHeight PROVE g[h] = IF h = 0 THEN ns ELSE Below(g[h - 1])
      <3>1. CASE h = 0
        BY <1>3, <3>1 DEF Iterates
      <3>2. CASE h # 0
        <4>1. h \in 1..MaxHeight /\ h - 1 \in 0..MaxHeight
          BY <1>0, <3>2
        <4>2. g[h - 1] \in D /\ g[h] = F[h][g[h - 1]]
          BY <1>3, <4>1 DEF Iterates
        <4>. HIDE DEF D
        <4>. QED  BY <3>2, <4>1, <4>2
      <3>. QED  BY <3>1, <3>2
    <2>2. g \in [0..MaxHeight -> D]
      BY <1>3 DEF Iterates
    <2>. HIDE DEF D
    <2>. QED  BY <2>1, <2>2
  <1>5. upTo = Def(upTo)
    <2>. HIDE DEF Def
    <2>. QED  BY <1>4
  <1>. HIDE DEF upTo
  <1>6. upTo[0] = ns
    BY <1>0, <1>5
  <1>7. ASSUME NEW h \in 0..MaxHeight, h # MaxHeight PROVE upTo[h + 1] = Below(upTo[h])
    <2>1. h + 1 \in 0..MaxHeight /\ h + 1 # 0 /\ (h + 1) - 1 = h
      BY <1>0, <1>7
    <2>2. upTo[h + 1] = Below(upTo[(h + 1) - 1])
      BY <1>5, <2>1
    <2>. QED  BY <2>1, <2>2
  <1>8. \A h \in 0..MaxHeight : upTo[h] \in D
    <2>. DEFINE T == {h \in 0..MaxHeight : upTo[h] \in D}
    <2>1. 0 \in T
      BY <1>0, <1>6
    <2>2. ASSUME NEW h \in 0..MaxHeight, h # MaxHeight, h \in T PROVE h + 1 \in T
      <3>1. h + 1 \in 0..MaxHeight
        BY <1>0, <2>2
      <3>. QED  BY <1>2, <1>7, <2>2, <3>1
    <2>. HIDE DEF T
    <2>3. 0..MaxHeight \subseteq T
      BY <1>0, <2>1, <2>2, BoundedInduction
    <2>. QED  BY <2>3 DEF T
  <1>9. upTo \in [0..MaxHeight -> D]
    BY <1>5, <1>8
  <1>. QED  BY <1>1, <1>6, <1>7, <1>9

\* What threads refer to or destroy.
Held == ({ptr[Root(t)] : t \in Thread} \cup {ptr[Local(t)] : t \in Thread}
           \cup {n \in Node : \E t \in Thread : \E k \in DOMAIN dying[t] :
                                dying[t][k] = n}) \ {Null}

\* A node that is not free is held, or a child of one that is not free and is one
\* level above; what is held is not free, nor are children.
LEMMA NotFree ==
  ASSUME IInv
  PROVE  /\ Held \subseteq Node \ Free
         /\ Below(Node \ Free) = Node \ Free
         /\ \A n \in Node \ Free :
              n \in Held \/ \E m \in Node \ Free, i \in Index :
                              ptr[Child(m, i)] = n /\ height[m] = height[n] + 1
  <1>1. ASSUME NEW n \in Held PROVE n \in Node \ Free
    <2>1. CASE \E s \in Slot : ptr[s] = n
      BY <2>1, HeldFacts DEF Held
    <2>2. CASE \A s \in Slot : ptr[s] # n
      <3>1. n \in Node /\ \E t \in Thread : \E k \in DOMAIN dying[t] : dying[t][k] = n
        BY <2>2, SlotFacts DEF Held
      <3>. QED  BY <3>1 DEF Free
    <2>. QED  BY <2>1, <2>2
  <1>2. ASSUME NEW n \in Node, NEW i \in Index, ptr[Child(n, i)] # Null
        PROVE  ptr[Child(n, i)] \in Node \ Free
    BY <1>2, SlotFacts, HeldFacts
  <1>3. Below(Node \ Free) = Node \ Free
    BY <1>2 DEF Below
  <1>4. ASSUME NEW n \in Node \ Free, n \notin Held
        PROVE  \E m \in Node \ Free, i \in Index :
                 ptr[Child(m, i)] = n /\ height[m] = height[n] + 1
    <2>1. strong[n] # 0
      <3>1. ~ \E t \in Thread : \E k \in DOMAIN dying[t] : dying[t][k] = n
        BY <1>4, SharingAssumption DEF Held
      <3>. QED  BY <3>1 DEF Free
    <2>2. PICK s \in Slot : ptr[s] = n
      <3>1. Holders(n) # {}
        BY <2>1, FS_EmptySet DEF IInv, CountsExact
      <3>. QED  BY <3>1 DEF Holders
    <2>3. \A t \in Thread : s # Root(t) /\ s # Local(t)
      BY <1>4, <2>2, SharingAssumption DEF Held
    <2>4. PICK m \in Node, i \in Index : s = Child(m, i)
      BY <2>3 DEF Slot, ChildSlot, Root, Local, Child
    <2>5. ptr[Child(m, i)] = n /\ n # Null
      BY <2>2, <2>4, SharingAssumption
    <2>. QED  BY <2>5 DEF IInv, Layered, FreeEmpty
  <1>. QED  BY <1>1, <1>3, <1>4

\* Every node that is not free belongs to a rope, or to a call that will drop it:
\* no order of clones, edits and destructors leaks one.
THEOREM Collection == Spec => []NothingLeaks
  <1>1. ASSUME IInv PROVE NothingLeaks
    <2>. DEFINE U == Node \ Free
    <2>1. MaxHeight \in Nat /\ height \in [Node -> 0..MaxHeight] /\ TypeOK
      BY <1>1, SharingAssumption DEF IInv, TypeOK
    <2>2. Held \in SUBSET Node
      BY <1>1, NotFree
    <2>3. PICK f \in [0..MaxHeight -> SUBSET Node] :
            /\ f[0] = Held
            /\ \A h \in 0..MaxHeight : h # MaxHeight => f[h + 1] = Below(f[h])
            /\ Reached(Held) = f[MaxHeight]
      BY <2>1, <2>2, ReachedFacts
    <2>4. \A h \in 0..MaxHeight : f[h] \subseteq U
      <3>. DEFINE T == {h \in 0..MaxHeight : f[h] \subseteq U}
      <3>1. 0 \in T
        BY <1>1, <2>1, <2>3, NotFree
      <3>2. ASSUME NEW h \in 0..MaxHeight, h # MaxHeight, h \in T PROVE h + 1 \in T
        <4>1. h + 1 \in 0..MaxHeight
          BY <2>1, <3>2
        <4>2. Below(f[h]) \subseteq Below(U)
          BY <3>2 DEF Below
        <4>. QED  BY <1>1, <2>3, <3>2, <4>1, <4>2, NotFree
      <3>. HIDE DEF T
      <3>3. 0..MaxHeight \subseteq T
        BY <2>1, <3>1, <3>2, BoundedInduction
      <3>. QED  BY <3>3 DEF T
    <2>5. \A h \in 0..MaxHeight :
            Held \subseteq f[h] /\ \A n \in U : height[n] + h >= MaxHeight => n \in f[h]
      <3>. DEFINE P(h) == /\ Held \subseteq f[h]
                          /\ \A n \in U : height[n] + h >= MaxHeight => n \in f[h]
                  T == {h \in 0..MaxHeight : P(h)}
      <3>1. 0 \in T
        <4>1. ASSUME NEW n \in U, height[n] + 0 >= MaxHeight PROVE n \in Held
          <5>1. \A m \in Node : height[m] # height[n] + 1
            BY <2>1, <4>1
          <5>. QED  BY <1>1, <5>1, NotFree
        <4>. QED  BY <2>1, <2>3, <4>1
      <3>2. ASSUME NEW h \in 0..MaxHeight, h # MaxHeight, P(h) PROVE P(h + 1)
        <4>1. f[h + 1] = Below(f[h])
          BY <2>3, <3>2
        <4>2. Held \subseteq f[h + 1]
          BY <3>2, <4>1 DEF Below
        <4>3. ASSUME NEW n \in U, height[n] + (h + 1) >= MaxHeight, n \notin Held
              PROVE  n \in Below(f[h])
          <5>1. PICK m \in U, i \in Index : ptr[Child(m, i)] = n /\ height[m] = height[n] + 1
            BY <1>1, <4>3, NotFree
          <5>2. height[m] + h >= MaxHeight
            BY <2>1, <4>3, <5>1
          <5>3. m \in f[h] /\ n # Null
            BY <3>2, <5>2, SharingAssumption
          <5>. QED  BY <5>1, <5>3 DEF Below
        <4>. QED  BY <4>1, <4>2, <4>3
      <3>. HIDE DEF P
      <3>3. \A h \in 0..MaxHeight : h # MaxHeight /\ h \in T => h + 1 \in T
        <4>1. \A h \in 0..MaxHeight : h # MaxHeight => h + 1 \in 0..MaxHeight
          BY <2>1
        <4>. QED  BY <3>2, <4>1
      <3>. HIDE DEF T
      <3>4. 0..MaxHeight \subseteq T
        BY <2>1, <3>1, <3>3, BoundedInduction
      <3>. QED  BY <3>4 DEF T, P
    <2>6. U \subseteq f[MaxHeight]
      <3>1. \A n \in U : height[n] + MaxHeight >= MaxHeight
        BY <2>1
      <3>. QED  BY <2>1, <2>5, <3>1
    <2>7. Reached(Held) = U
      BY <2>1, <2>3, <2>4, <2>6
    <2>. QED  BY <2>7 DEF NothingLeaks, Held
  <1>. QED  BY <1>1, Invariance, PTL

-----------------------------------------------------------------------------
(***************************************************************************)
(* Threads whose trees share nodes implement Clones, ropes that are values *)
(* of their own.                                                           *)
(***************************************************************************)

-----------------------------------------------------------------------------
(* Parts of sequences *)

\* x is a contiguous part of s.
PartOf(x, s, S) == \E p, q \in Seq(S) : s = (p \o x) \o q

\* A sequence is a part of what it is put before or after.
LEMMA PartOfConcat ==
  ASSUME NEW S, NEW s \in Seq(S), NEW t \in Seq(S)
  PROVE  /\ s \o t \in Seq(S) /\ <<>> \in Seq(S) /\ <<>> \o s = s /\ s \o <<>> = s
         /\ PartOf(s, s, S) /\ PartOf(s, s \o t, S) /\ PartOf(t, s \o t, S)
  <1>1. s \o t \in Seq(S) /\ <<>> \in Seq(S)
    BY ConcatProperties, EmptySeq
  <1>2. <<>> \o s = s /\ s \o <<>> = s /\ (s \o t) \o <<>> = s \o t
    BY <1>1, ConcatEmptySeq
  <1>. QED  BY <1>1, <1>2 DEF PartOf

\* A part of a part is a part.
LEMMA PartTransitive ==
  ASSUME NEW S, NEW x \in Seq(S), NEW y, NEW s, PartOf(x, y, S), PartOf(y, s, S)
  PROVE  PartOf(x, s, S)
  <1>1. PICK p \in Seq(S), q \in Seq(S) : y = (p \o x) \o q
    BY DEF PartOf
  <1>2. PICK a \in Seq(S), b \in Seq(S) : s = (a \o y) \o b
    BY DEF PartOf
  <1>3. p \o x \in Seq(S) /\ a \o p \in Seq(S) /\ q \o b \in Seq(S)
    BY PartOfConcat
  <1>4. (a \o p) \o x \in Seq(S)
    BY <1>3, PartOfConcat
  <1>5. a \o y = ((a \o p) \o x) \o q
    <2>1. (a \o p) \o x = a \o (p \o x)
      BY SMTT(60), ConcatAssociative
    <2>. DEFINE px == p \o x
    <2>2. y = px \o q /\ (a \o p) \o x = a \o px
      BY <1>1, <2>1
    <2>3. px \in Seq(S)
      BY <1>3
    <2>. HIDE DEF px
    <2>4. (a \o px) \o q = a \o (px \o q)
      BY <2>3, ConcatAssociative, SMTT(30)
    <2>. QED  BY <2>2, <2>4
  <1>6. s = ((a \o p) \o x) \o (q \o b)
    <2>. DEFINE ax == (a \o p) \o x
    <2>1. s = (ax \o q) \o b
      BY <1>2, <1>5
    <2>2. ax \in Seq(S)
      BY <1>4
    <2>. HIDE DEF ax
    <2>3. (ax \o q) \o b = ax \o (q \o b)
      BY <2>2, ConcatAssociative, SMTT(30)
    <2>4. s = ax \o (q \o b)
      BY <2>1, <2>3
    <2>. QED  BY <2>4 DEF ax
  <1>. QED  BY <1>3, <1>6 DEF PartOf

\* A part that is not empty runs from one place to another.
LEMMA PartIsSubSeq ==
  ASSUME NEW S, NEW x \in Seq(S), x # <<>>, NEW s, PartOf(x, s, S)
  PROVE  \E i \in 1..Len(s) : \E j \in i..Len(s) : x = SubSeq(s, i, j)
  <1>1. PICK p \in Seq(S), q \in Seq(S) : s = (p \o x) \o q
    BY DEF PartOf
  <1>. DEFINE y == p \o x
  <1>2. Len(p) \in Nat /\ Len(x) \in Nat /\ Len(q) \in Nat /\ Len(x) # 0
    BY EmptySeq, LenProperties
  <1>3. y \in Seq(S) /\ Len(y) = Len(p) + Len(x)
    BY ConcatProperties
  <1>. HIDE DEF y
  <1>4. s \in Seq(S) /\ Len(s) = Len(y) + Len(q) /\ s = y \o q
    BY <1>1, <1>3, ConcatProperties DEF y
  <1>. DEFINE i == Len(p) + 1
              j == Len(p) + Len(x)
  <1>5. i \in 1..Len(s) /\ j \in i..Len(s) /\ i \in 1..Len(y) /\ j \in 1..Len(y)
    BY <1>2, <1>3, <1>4
  <1>6. SubSeq(s, i, j) = SubSeq(y, i, j)
    <2>. HIDE DEF i, j
    <2>. QED  BY <1>3, <1>4, <1>5, SubSeqOfConcat1
  <1>7. SubSeq(y, i, j) = SubSeq(x, i - Len(p), j - Len(p))
    <2>1. i \in Len(p) + 1..Len(p) + Len(x) /\ j \in Len(p) + 1..Len(p) + Len(x)
      BY <1>2
    <2>. HIDE DEF i, j
    <2>. QED  BY <2>1, SubSeqOfConcat2 DEF y
  <1>8. i - Len(p) = 1 /\ j - Len(p) = Len(x)
    BY <1>2
  <1>9. SubSeq(s, i, j) = x
    BY <1>6, <1>7, <1>8, SubSeqFull
  <1>. QED  BY <1>5, <1>9

-----------------------------------------------------------------------------
(* Concatenation *)

\* What Concat makes of the first k sequences.
IsConcat(f, seqs, n, S) ==
  /\ f \in [0..n -> Seq(S)] /\ f[0] = <<>>
  /\ \A k \in 0..n : k # n => f[k + 1] = f[k] \o seqs[k + 1]
  /\ Concat(seqs) = f[n]

LEMMA ConcatUnfolds ==
  ASSUME NEW S, NEW n \in Nat, NEW seqs \in [1..n -> Seq(S)]
  PROVE  \E f : IsConcat(f, seqs, n, S)
  <1>. DEFINE D == Seq(S)
              Def(f) == [k \in 0..n |-> IF k = 0 THEN <<>> ELSE f[k - 1] \o seqs[k]]
              upTo == CHOOSE f : f = Def(f)
              F == [k \in 1..n |-> [s \in D |-> s \o seqs[k]]]
  <1>1. Len(seqs) = n
    OBVIOUS
  <1>2. Concat(seqs) = upTo[n]
    BY <1>1 DEF Concat
  <1>3. PICK g : Iterates(g, n, D, <<>>, F)
    <2>1. IsStep(F, n, D) /\ <<>> \in D
      BY DEF IsStep
    <2>. HIDE DEF F, D
    <2>. QED  BY <2>1, Recursion
  <1>4. g = Def(g)
    <2>1. ASSUME NEW k \in 0..n PROVE g[k] = IF k = 0 THEN <<>> ELSE g[k - 1] \o seqs[k]
      <3>1. CASE k = 0
        BY <1>3, <3>1 DEF Iterates
      <3>2. CASE k # 0
        <4>1. k \in 1..n /\ k - 1 \in 0..n
          BY <3>2
        <4>2. g[k - 1] \in D /\ g[k] = F[k][g[k - 1]]
          BY <1>3, <4>1 DEF Iterates
        <4>. HIDE DEF D
        <4>. QED  BY <3>2, <4>1, <4>2
      <3>. QED  BY <3>1, <3>2
    <2>2. g \in [0..n -> D]
      BY <1>3 DEF Iterates
    <2>. HIDE DEF D
    <2>. QED  BY <2>1, <2>2
  <1>5. upTo = Def(upTo)
    <2>. HIDE DEF Def
    <2>. QED  BY <1>4
  <1>. HIDE DEF upTo
  <1>6. upTo[0] = <<>>
    BY <1>5
  <1>7. ASSUME NEW k \in 0..n, k # n PROVE upTo[k + 1] = upTo[k] \o seqs[k + 1]
    <2>1. k + 1 \in 0..n /\ k + 1 # 0 /\ (k + 1) - 1 = k
      BY <1>7
    <2>2. upTo[k + 1] = upTo[(k + 1) - 1] \o seqs[k + 1]
      BY <1>5, <2>1
    <2>. QED  BY <2>1, <2>2
  <1>8. \A k \in 0..n : upTo[k] \in D
    <2>. DEFINE T == {k \in 0..n : upTo[k] \in D}
    <2>1. 0 \in T
      <3>1. <<>> \in Seq(S) /\ 0 \in 0..n
        BY EmptySeq
      <3>. QED  BY <1>6, <3>1
    <2>2. ASSUME NEW k \in 0..n, k # n, k \in T PROVE k + 1 \in T
      <3>1. k + 1 \in 0..n /\ seqs[k + 1] \in Seq(S) /\ upTo[k] \in Seq(S)
        BY <2>2
      <3>2. upTo[k] \o seqs[k + 1] \in Seq(S)
        BY <3>1
      <3>. QED  BY <1>7, <2>2, <3>1, <3>2
    <2>. HIDE DEF T
    <2>3. 0..n \subseteq T
      BY <2>1, <2>2, BoundedInduction
    <2>. QED  BY <2>3 DEF T
  <1>9. upTo \in [0..n -> D]
    <2>. HIDE DEF D
    <2>. QED  BY <1>5, <1>8
  <1>. QED  BY <1>2, <1>6, <1>7, <1>9 DEF IsConcat

\* Each sequence is a part of the concatenation.
LEMMA ConcatParts ==
  ASSUME NEW S, NEW n \in Nat, NEW seqs \in [1..n -> Seq(S)]
  PROVE  /\ Concat(seqs) \in Seq(S)
         /\ \A i \in 1..n : PartOf(seqs[i], Concat(seqs), S)
  <1>1. PICK f : IsConcat(f, seqs, n, S)
    BY ConcatUnfolds
  <1>2. /\ \A k \in 0..n : f[k] \in Seq(S)
        /\ \A k \in 0..n : k # n => f[k + 1] = f[k] \o seqs[k + 1]
        /\ Concat(seqs) = f[n]
    BY <1>1 DEF IsConcat
  <1>. DEFINE Has(k) == \A i \in 1..k : PartOf(seqs[i], f[k], S)
              T == {k \in 0..n : Has(k)}
  <1>3. Has(0)
    OBVIOUS
  <1>4. ASSUME NEW k \in 0..n, k # n, Has(k) PROVE Has(k + 1)
    <2>1. f[k] \in Seq(S) /\ f[k + 1] = f[k] \o seqs[k + 1] /\ seqs[k + 1] \in Seq(S)
      <3>1. k + 1 \in 1..n
        BY <1>4
      <3>. QED  BY <1>2, <1>4, <3>1
    <2>2. PartOf(f[k], f[k + 1], S) /\ PartOf(seqs[k + 1], f[k + 1], S)
      BY <2>1, PartOfConcat
    <2>3. ASSUME NEW i \in 1..(k + 1) PROVE PartOf(seqs[i], f[k + 1], S)
      <3>1. CASE i = k + 1
        BY <2>2, <3>1
      <3>2. CASE i # k + 1
        <4>1. i \in 1..k /\ seqs[i] \in Seq(S)
          BY <1>4, <3>2
        <4>. QED  BY <1>4, <2>2, <4>1, PartTransitive
      <3>. QED  BY <3>1, <3>2
    <2>. QED  BY <2>3
  <1>. HIDE DEF Has
  <1>5. 0..n \subseteq T
    <2>1. 0 \in T
      BY <1>3
    <2>2. ASSUME NEW k \in 0..n, k # n, k \in T PROVE k + 1 \in T
      BY <1>4, <2>2
    <2>. HIDE DEF T
    <2>. QED  BY <2>1, <2>2, BoundedInduction
  <1>6. Has(n)
    BY <1>5
  <1>. QED  BY <1>2, <1>6 DEF Has

\* The concatenation is the one sequence that is not empty.
LEMMA ConcatSole ==
  ASSUME NEW S, NEW n \in Nat, NEW seqs \in [1..n -> Seq(S)], NEW i \in 1..n,
         \A j \in 1..n : j # i => seqs[j] = <<>>
  PROVE  Concat(seqs) = seqs[i]
  <1>1. PICK f : IsConcat(f, seqs, n, S)
    BY ConcatUnfolds
  <1>2. /\ f[0] = <<>> /\ \A k \in 0..n : f[k] \in Seq(S)
        /\ \A k \in 0..n : k # n => f[k + 1] = f[k] \o seqs[k + 1]
        /\ Concat(seqs) = f[n]
    BY <1>1 DEF IsConcat
  <1>. DEFINE T == {k \in 0..n : f[k] = IF k < i THEN <<>> ELSE seqs[i]}
  <1>3. 0 \in T
    BY <1>2
  <1>4. ASSUME NEW k \in 0..n, k # n, k \in T PROVE k + 1 \in T
    <2>1. k + 1 \in 1..n /\ seqs[k + 1] \in Seq(S)
      BY <1>4
    <2>2. f[k] = (IF k < i THEN <<>> ELSE seqs[i]) /\ f[k + 1] = f[k] \o seqs[k + 1]
      BY <1>2, <1>4
    <2>3. CASE k + 1 = i
      <3>1. k < i
        BY <1>4, <2>3
      <3>2. f[k] = <<>> /\ f[k + 1] = <<>> \o seqs[i]
        BY <2>2, <2>3, <3>1
      <3>3. f[k + 1] = seqs[i]
        BY <2>1, <2>3, <3>2, PartOfConcat
      <3>. QED  BY <1>4, <2>1, <2>3, <3>3
    <2>4. CASE k + 1 # i
      <3>1. f[k + 1] = f[k] \o <<>>
        BY <2>1, <2>2, <2>4
      <3>2. f[k + 1] = f[k]
        BY <1>2, <3>1, PartOfConcat
      <3>. QED  BY <1>4, <2>1, <2>2, <2>4, <3>2
    <2>. QED  BY <2>3, <2>4
  <1>. HIDE DEF T
  <1>5. 0..n \subseteq T
    BY <1>3, <1>4, BoundedInduction
  <1>6. f[n] = seqs[i]
    BY <1>5 DEF T
  <1>. QED  BY <1>2, <1>6

-----------------------------------------------------------------------------
(* The text below a node *)

Piece == (UNION {Texts[t] : t \in Thread}) \cup {Null}

\* What TextBelow finds in h levels.
ChildTexts(b, h, n) == [i \in Index |-> b[h][ptr[Child(n, i)]]]

IsBelow(b) ==
  /\ b \in [0..MaxHeight -> [Node \cup {Null} -> Seq(Piece)]]
  /\ \A n \in Node \cup {Null} : TextBelow(n) = b[MaxHeight][n]
  /\ \A h \in 0..MaxHeight : b[h][Null] = <<>>
  /\ \A h \in 0..MaxHeight, n \in Node : height[n] = 0 => b[h][n] = <<text[n]>>
  /\ \A h \in 0..MaxHeight, n \in Node :
       h # MaxHeight /\ height[n] > 0 => b[h + 1][n] = Concat(ChildTexts(b, h, n))

LEMMA ChildTextsType ==
  ASSUME TypeOK, NEW b, NEW h, b[h] \in [Node \cup {Null} -> Seq(Piece)], NEW n \in Node
  PROVE  /\ ChildTexts(b, h, n) \in [1..MAX_CHILDREN -> Seq(Piece)]
         /\ Concat(ChildTexts(b, h, n)) \in Seq(Piece)
  <1>1. ChildTexts(b, h, n) \in [1..MAX_CHILDREN -> Seq(Piece)]
    <2>1. \A i \in Index : ptr[Child(n, i)] \in Node \cup {Null}
      BY SlotFacts DEF TypeOK
    <2>. QED  BY <2>1 DEF ChildTexts, Index
  <1>. QED  BY <1>1, ConcatParts, SharingAssumption

LEMMA BelowExists == TypeOK => \E b : IsBelow(b)
  <1>. SUFFICES ASSUME TypeOK PROVE \E b : IsBelow(b)
    OBVIOUS
  <1>. DEFINE M == Node \cup {Null}
              D == [M -> Seq(Piece)]
              At(c, n) == Concat([i \in Index |-> c[ptr[Child(n, i)]]])
              Level(c) == [m \in M |-> IF m = Null THEN <<>>
                                       ELSE IF height[m] = 0 THEN << text[m] >> ELSE At(c, m)]
              Lowest == [m \in M |-> IF m = Null THEN <<>> ELSE << text[m] >>]
              F == [h \in 1..MaxHeight |-> [c \in D |-> Level(c)]]
              Def(b) == [h \in 0..MaxHeight |->
                 [m \in Node \cup {Null} |->
                    IF m = Null THEN <<>>
                    ELSE IF h = 0 \/ height[m] = 0 THEN << text[m] >>
                    ELSE Concat([i \in Index |-> b[h - 1][ptr[Child(m, i)]]])]]
              below == CHOOSE b : b = Def(b)
  <1>0. /\ MaxHeight \in Nat /\ Null \notin Node
        /\ \A n \in Node : << text[n] >> \in Seq(Piece)
        /\ <<>> \in Seq(Piece)
    BY SharingAssumption, EmptySeq DEF TypeOK, Piece
  <1>1. \A n : TextBelow(n) = below[MaxHeight][n]
    BY DEF TextBelow
  <1>2. ASSUME NEW c \in D PROVE Level(c) \in D
    <2>1. ASSUME NEW n \in Node PROVE At(c, n) \in Seq(Piece)
      <3>. DEFINE b == [h \in {0} |-> c]
      <3>1. b[0] = c
        OBVIOUS
      <3>. HIDE DEF b
      <3>2. Concat(ChildTexts(b, 0, n)) \in Seq(Piece)
        BY <3>1, ChildTextsType
      <3>. QED  BY <3>1, <3>2 DEF ChildTexts
    <2>. HIDE DEF At
    <2>. QED  BY <1>0, <2>1
  <1>3. Lowest \in D
    BY <1>0
  <1>4. PICK g : Iterates(g, MaxHeight, D, Lowest, F)
    <2>. HIDE DEF D, Level, Lowest
    <2>1. IsStep(F, MaxHeight, D)
      BY <1>2 DEF IsStep
    <2>. HIDE DEF F
    <2>. QED  BY <1>0, <1>3, <2>1, Recursion
  <1>. HIDE DEF Level
  <1>5. /\ g[0] = Lowest
        /\ \A h \in 1..MaxHeight : g[h - 1] \in D /\ g[h] = Level(g[h - 1])
    <2>1. ASSUME NEW h \in 1..MaxHeight PROVE g[h - 1] \in D /\ g[h] = Level(g[h - 1])
      <3>1. h - 1 \in 0..MaxHeight
        BY <1>0
      <3>2. g[h - 1] \in D /\ g[h] = F[h][g[h - 1]]
        BY <1>4, <3>1 DEF Iterates
      <3>. HIDE DEF D
      <3>. QED  BY <3>2
    <2>. QED  BY <1>4, <2>1 DEF Iterates
  <1>6. g = Def(g)
    <2>1. ASSUME NEW h \in 0..MaxHeight
          PROVE  g[h] = [m \in M |-> IF m = Null THEN <<>>
                                     ELSE IF h = 0 \/ height[m] = 0 THEN << text[m] >>
                                     ELSE At(g[h - 1], m)]
      <3>1. CASE h = 0
        BY <1>5, <3>1
      <3>2. CASE h # 0
        <4>1. h \in 1..MaxHeight
          BY <3>2
        <4>2. g[h] = Level(g[h - 1])
          BY <1>5, <4>1
        <4>. HIDE DEF At
        <4>. QED  BY <3>2, <4>2 DEF Level
      <3>. QED  BY <3>1, <3>2
    <2>2. g = [h \in 0..MaxHeight |-> g[h]]
      BY <1>4 DEF Iterates
    <2>. QED  BY <2>1, <2>2
  <1>7. below = Def(below)
    <2>. HIDE DEF Def
    <2>. QED  BY <1>6
  <1>. HIDE DEF below
  <1>. DEFINE Nth(b, h) == [m \in M |-> IF m = Null THEN <<>>
                                 ELSE IF h = 0 \/ height[m] = 0 THEN << text[m] >>
                                 ELSE At(b[h - 1], m)]
  <1>8. ASSUME NEW h \in 0..MaxHeight
        PROVE  below[h] = Nth(below, h)
    <2>1. below[h] = Def(below)[h]
      BY <1>7
    <2>. QED  BY <2>1
  <1>. HIDE DEF At, D
  <1>9. \A h \in 0..MaxHeight : below[h] = [n \in M |-> below[h][n]]
    BY <1>8
  <1>10. ASSUME NEW h \in 0..MaxHeight, NEW n \in M
        PROVE  below[h][n] = IF n = Null THEN <<>>
                             ELSE IF h = 0 \/ height[n] = 0 THEN << text[n] >>
                             ELSE At(below[h - 1], n)
    BY <1>8
  <1>11. \A h, n : At(below[h], n) = Concat(ChildTexts(below, h, n))
    BY DEF At, ChildTexts
  <1>12. \A h \in 0..MaxHeight : below[h] \in D
    <2>. DEFINE T == {h \in 0..MaxHeight : below[h] \in D}
    <2>1. 0 \in T
      <3>1. 0 \in 0..MaxHeight
        BY <1>0
      <3>2. \A n \in M : below[0][n] \in Seq(Piece)
        BY <1>0, <1>10, <3>1
      <3>. QED  BY <1>9, <3>1, <3>2 DEF D
    <2>2. ASSUME NEW h \in 0..MaxHeight, h # MaxHeight, h \in T PROVE h + 1 \in T
      <3>1. h + 1 \in 0..MaxHeight /\ (h + 1) - 1 = h /\ h + 1 # 0
        BY <1>0, <2>2
      <3>2. \A n \in Node : At(below[h], n) \in Seq(Piece)
        <4>1. below[h] \in [Node \cup {Null} -> Seq(Piece)]
          BY <2>2 DEF D
        <4>2. \A n \in Node : Concat(ChildTexts(below, h, n)) \in Seq(Piece)
          BY <4>1, ChildTextsType
        <4>. QED  BY <1>11, <4>2
      <3>3. \A n \in M : below[h + 1][n] \in Seq(Piece)
        BY <1>0, <1>10, <3>1, <3>2
      <3>. QED  BY <1>9, <3>1, <3>3 DEF D
    <2>. HIDE DEF T
    <2>3. 0..MaxHeight \subseteq T
      BY <1>0, <2>1, <2>2, BoundedInduction
    <2>. QED  BY <2>3 DEF T
  <1>13. below \in [0..MaxHeight -> D]
    <2>1. below = [h \in 0..MaxHeight |-> below[h]]
      BY <1>7
    <2>. QED  BY <1>12, <2>1
  <1>14. ASSUME NEW h \in 0..MaxHeight, NEW n \in Node
         PROVE  /\ below[h][Null] = <<>>
                /\ height[n] = 0 => below[h][n] = << text[n] >>
                /\ h # MaxHeight /\ height[n] > 0 =>
                     below[h + 1][n] = Concat(ChildTexts(below, h, n))
    <2>1. below[h][Null] = <<>> /\ (height[n] = 0 => below[h][n] = << text[n] >>)
      BY <1>0, <1>10
    <2>2. ASSUME h # MaxHeight, height[n] > 0
          PROVE  below[h + 1][n] = Concat(ChildTexts(below, h, n))
      <3>1. h + 1 \in 0..MaxHeight /\ (h + 1) - 1 = h /\ h + 1 # 0
        BY <1>0, <2>2
      <3>2. height[n] # 0 /\ n # Null
        BY <1>0, <2>2
      <3>. QED  BY <1>10, <1>11, <3>1, <3>2
    <2>. QED  BY <2>1, <2>2
  <1>15. IsBelow(below)
    <2>1. below \in [0..MaxHeight -> [Node \cup {Null} -> Seq(Piece)]]
      BY <1>13 DEF D
    <2>2. \A h \in 0..MaxHeight : below[h][Null] = <<>>
      BY <1>0, <1>10
    <2>. QED  BY <1>1, <1>14, <2>1, <2>2 DEF IsBelow
  <1>. QED  BY <1>15

\* The texts of the children of a node, where T has those of the nodes.
Gather(T, n) == [i \in Index |-> T[ptr[Child(n, i)]]]

\* T is TextBelow as a function, and what it is made of.
IsText(T) ==
  /\ T \in [Node \cup {Null} -> Seq(Piece)] /\ T[Null] = <<>>
  /\ \A n \in Node : T[n] = TextBelow(n)
  /\ \A n \in Node : T[n] = IF height[n] = 0 THEN << text[n] >> ELSE Concat(Gather(T, n))

\* What is below a node is found in as many levels as it has.
LEMMA Levels ==
  ASSUME TypeOK, Layered, NEW b, IsBelow(b), NEW h \in 0..MaxHeight, h # MaxHeight,
         NEW n \in Node, height[n] <= h
  PROVE  b[h + 1][n] = b[h][n]
  <1>. DEFINE Same(k) == \A m \in Node : height[m] <= k => b[k + 1][m] = b[k][m]
              T == {k \in 0..MaxHeight : k # MaxHeight => Same(k)}
  <1>0. MaxHeight \in Nat /\ \A m \in Node : height[m] \in 0..MaxHeight
    BY SharingAssumption DEF TypeOK
  <1>1. 0 \in T
    <2>1. ASSUME 0 # MaxHeight, NEW m \in Node, height[m] <= 0 PROVE b[0 + 1][m] = b[0][m]
      <3>1. height[m] = 0 /\ 0 \in 0..MaxHeight /\ 0 + 1 \in 0..MaxHeight
        BY <1>0, <2>1
      <3>. QED  BY ZenonT(60), <3>1 DEF IsBelow
    <2>. QED  BY <1>0, <2>1
  <1>2. ASSUME NEW k \in 0..MaxHeight, k # MaxHeight, k \in T PROVE k + 1 \in T
    <2>0. k + 1 \in 0..MaxHeight /\ Same(k)
      BY <1>0, <1>2
    <2>1. ASSUME k + 1 # MaxHeight, NEW m \in Node, height[m] <= k + 1
          PROVE  b[(k + 1) + 1][m] = b[k + 1][m]
      <3>0. (k + 1) + 1 \in 0..MaxHeight
        BY <1>0, <2>0, <2>1
      <3>1. CASE height[m] = 0
        BY SMTT(60), <2>0, <3>0, <3>1 DEF IsBelow
      <3>2. CASE height[m] > 0
        <4>1. /\ b[(k + 1) + 1][m] = Concat(ChildTexts(b, k + 1, m))
              /\ b[k + 1][m] = Concat(ChildTexts(b, k, m))
          BY <1>2, <2>0, <2>1, <3>2 DEF IsBelow
        <4>2. ASSUME NEW i \in Index
              PROVE  b[k + 1][ptr[Child(m, i)]] = b[k][ptr[Child(m, i)]]
          <5>1. CASE ptr[Child(m, i)] = Null
            BY <2>0, <5>1 DEF IsBelow
          <5>2. CASE ptr[Child(m, i)] # Null
            <6>1. ptr[Child(m, i)] \in Node
              BY <5>2, SlotFacts DEF TypeOK
            <6>2. height[m] = height[ptr[Child(m, i)]] + 1
              BY <5>2 DEF Layered
            <6>3. height[ptr[Child(m, i)]] <= k
              BY <1>0, <2>1, <6>1, <6>2
            <6>. QED  BY <2>0, <6>1, <6>3
          <5>. QED  BY <5>1, <5>2
        <4>3. ChildTexts(b, k + 1, m) = ChildTexts(b, k, m)
          BY <4>2 DEF ChildTexts
        <4>. QED  BY <4>1, <4>3
      <3>. QED  BY <1>0, <3>1, <3>2
    <2>. QED  BY <2>0, <2>1
  <1>. HIDE DEF T
  <1>3. 0..MaxHeight \subseteq T
    BY <1>0, <1>1, <1>2, BoundedInduction
  <1>. QED  BY <1>3 DEF T

LEMMA TextExists == TypeOK /\ Layered => \E T : IsText(T)
  <1>. SUFFICES ASSUME TypeOK, Layered PROVE \E T : IsText(T)
    OBVIOUS
  <1>1. PICK b : IsBelow(b)
    BY BelowExists
  <1>. DEFINE T == b[MaxHeight]
  <1>2. /\ MaxHeight \in Nat /\ MaxHeight \in 0..MaxHeight
        /\ \A m \in Node : height[m] \in 0..MaxHeight
    BY SharingAssumption DEF TypeOK
  <1>3. /\ T \in [Node \cup {Null} -> Seq(Piece)] /\ T[Null] = <<>>
        /\ \A n \in Node : T[n] = TextBelow(n)
        /\ \A n \in Node : height[n] = 0 => T[n] = << text[n] >>
    BY <1>1, <1>2 DEF IsBelow
  <1>4. ASSUME NEW n \in Node, height[n] # 0 PROVE T[n] = Concat(Gather(T, n))
    <2>1. PICK h \in 0..MaxHeight : h # MaxHeight /\ h + 1 = MaxHeight
      <3>1. MaxHeight - 1 \in 0..MaxHeight /\ MaxHeight - 1 # MaxHeight
            /\ (MaxHeight - 1) + 1 = MaxHeight
        BY <1>2, <1>4
      <3>. QED  BY <3>1
    <2>2. T[n] = Concat(ChildTexts(b, h, n))
      <3>1. height[n] > 0
        BY <1>2, <1>4
      <3>2. b[h + 1][n] = Concat(ChildTexts(b, h, n))
        BY <1>1, <2>1, <3>1 DEF IsBelow
      <3>. QED  BY <2>1, <3>2
    <2>3. ASSUME NEW i \in Index PROVE b[h][ptr[Child(n, i)]] = T[ptr[Child(n, i)]]
      <3>1. CASE ptr[Child(n, i)] = Null
        BY <1>1, <1>3, <2>1, <3>1 DEF IsBelow
      <3>2. CASE ptr[Child(n, i)] # Null
        <4>1. ptr[Child(n, i)] \in Node
          BY <3>2, SlotFacts DEF TypeOK
        <4>2. height[n] = height[ptr[Child(n, i)]] + 1
          BY <3>2 DEF Layered
        <4>3. height[ptr[Child(n, i)]] <= h
          BY <1>2, <2>1, <4>1, <4>2
        <4>. QED  BY <1>1, <2>1, <4>1, <4>3, Levels
      <3>. QED  BY <3>1, <3>2
    <2>4. ChildTexts(b, h, n) = Gather(T, n)
      <3>. HIDE DEF T
      <3>. QED  BY <2>3 DEF ChildTexts, Gather
    <2>. QED  BY <2>2, <2>4
  <1>5. IsText(T)
    BY <1>3, <1>4 DEF IsText
  <1>. QED  BY <1>5

-----------------------------------------------------------------------------
(* How a step changes texts *)

\* The nodes of O are after the step what r says that they correspond to before.
Corresponds(O, r) ==
  \A n \in O :
    /\ r[n] \in Node /\ height'[n] = height[r[n]]
    /\ height[r[n]] = 0 => text'[n] = text[r[n]]
    /\ \A i \in Index :
         \/ ptr'[Child(n, i)] = Null /\ ptr[Child(r[n], i)] = Null
         \/ ptr'[Child(n, i)] \in O /\ ptr[Child(r[n], i)] = r[ptr'[Child(n, i)]]

LEMMA SameText ==
  ASSUME TypeOK', Layered', NEW T, IsText(T), NEW U, IsText(U)',
         NEW O \in SUBSET Node, NEW r, Corresponds(O, r)
  PROVE  \A n \in O : U[n] = T[r[n]]
  <1>. DEFINE Same(k) == \A n \in O : height'[n] <= k => U[n] = T[r[n]]
              S == {k \in 0..MaxHeight : Same(k)}
  <1>0. MaxHeight \in Nat /\ \A n \in Node : height'[n] \in 0..MaxHeight
    BY SharingAssumption DEF TypeOK
  <1>1. /\ U[Null] = <<>> /\ T[Null] = <<>>
        /\ \A n \in O : U[n] = IF height'[n] = 0 THEN << text'[n] >>
                               ELSE Concat([i \in Index |-> U[ptr'[Child(n, i)]]])
        /\ \A n \in O : T[r[n]] = IF height[r[n]] = 0 THEN << text[r[n]] >>
                                  ELSE Concat([i \in Index |-> T[ptr[Child(r[n], i)]]])
    BY DEF IsText, Gather, Corresponds, Child
  <1>2. 0 \in S
    <2>1. ASSUME NEW n \in O, height'[n] <= 0 PROVE U[n] = T[r[n]]
      <3>1. height'[n] = 0 /\ height[r[n]] = 0 /\ text'[n] = text[r[n]]
        BY <1>0, <2>1 DEF Corresponds
      <3>. QED  BY <1>1, <3>1
    <2>. QED  BY <1>0, <2>1
  <1>3. ASSUME NEW k \in 0..MaxHeight, k # MaxHeight, k \in S PROVE k + 1 \in S
    <2>1. ASSUME NEW n \in O, height'[n] <= k + 1 PROVE U[n] = T[r[n]]
      <3>1. CASE height'[n] = 0
        <4>1. height[r[n]] = 0 /\ text'[n] = text[r[n]]
          BY <3>1 DEF Corresponds
        <4>. QED  BY <1>1, <3>1, <4>1
      <3>2. CASE height'[n] # 0
        <4>1. height[r[n]] # 0
          BY <3>2 DEF Corresponds
        <4>2. ASSUME NEW i \in Index
              PROVE  U[ptr'[Child(n, i)]] = T[ptr[Child(r[n], i)]]
          <5>1. CASE ptr'[Child(n, i)] = Null
            <6>1. Null \notin O
              BY SharingAssumption
            <6>2. ptr[Child(r[n], i)] = Null
              BY <5>1, <6>1 DEF Corresponds
            <6>. QED  BY <1>1, <5>1, <6>2
          <5>2. CASE ptr'[Child(n, i)] # Null
            <6>1. ptr'[Child(n, i)] \in O /\ ptr[Child(r[n], i)] = r[ptr'[Child(n, i)]]
              BY <5>2 DEF Corresponds
            <6>2. height'[n] = height'[ptr'[Child(n, i)]] + 1
              BY <5>2 DEF Layered, Child
            <6>3. height'[ptr'[Child(n, i)]] <= k
              BY <1>0, <2>1, <6>1, <6>2
            <6>4. U[ptr'[Child(n, i)]] = T[r[ptr'[Child(n, i)]]]
              BY <1>3, <6>1, <6>3
            <6>. QED  BY <6>1, <6>4
          <5>. QED  BY <5>1, <5>2
        <4>3. [i \in Index |-> U[ptr'[Child(n, i)]]] = [i \in Index |-> T[ptr[Child(r[n], i)]]]
          BY <4>2
        <4>. QED  BY ZenonT(60), <1>1, <3>2, <4>1, <4>3
      <3>. QED  BY <3>1, <3>2
    <2>. QED  BY <1>0, <1>3, <2>1
  <1>. HIDE DEF S
  <1>4. 0..MaxHeight \subseteq S
    BY <1>0, <1>2, <1>3, BoundedInduction
  <1>. QED  BY <1>0, <1>4 DEF S

\* A step changes neither the node nor which its children are.
Kept(n) ==
  /\ height'[n] = height[n] /\ text'[n] = text[n]
  /\ \A i \in Index : ptr'[Child(n, i)] = ptr[Child(n, i)]

LEMMA KeptText ==
  ASSUME TypeOK', Layered', NEW T, IsText(T), NEW U, IsText(U)',
         NEW O \in SUBSET Node, \A n \in O : Kept(n),
         \A n \in O, i \in Index : ptr[Child(n, i)] \in O \cup {Null}
  PROVE  \A n \in O : U[n] = T[n]
  <1>1. PICK r : r = [n \in O |-> n]
    OBVIOUS
  <1>2. \A n \in O : r[n] = n
    BY <1>1
  <1>3. Corresponds(O, r)
    BY <1>2 DEF Corresponds, Kept
  <1>4. \A n \in O : U[n] = T[r[n]]
    BY <1>3, SameText
  <1>. QED  BY <1>2, <1>4

\* The texts below nodes that refer to none but each other are texts of theirs.
LEMMA Confined ==
  ASSUME TypeOK', Layered', NEW U, IsText(U)', NEW G \in SUBSET Node, NEW X,
         \A n \in G : height'[n] = 0 => text'[n] \in X,
         \A n \in G, i \in Index : ptr'[Child(n, i)] \in G \cup {Null}
  PROVE  \A n \in G : U[n] \in Seq(X)
  <1>. DEFINE Has(k) == \A n \in G : height'[n] <= k => U[n] \in Seq(X)
              S == {k \in 0..MaxHeight : Has(k)}
  <1>0. MaxHeight \in Nat /\ \A n \in Node : height'[n] \in 0..MaxHeight
    BY SharingAssumption DEF TypeOK
  <1>1. /\ U[Null] = <<>>
        /\ \A n \in G : U[n] = IF height'[n] = 0 THEN << text'[n] >>
                               ELSE Concat([i \in Index |-> U[ptr'[Child(n, i)]]])
    BY DEF IsText, Gather, Child
  <1>2. ASSUME NEW n \in G, height'[n] = 0 PROVE U[n] \in Seq(X)
    <2>1. text'[n] \in X /\ U[n] = << text'[n] >>
      BY <1>1, <1>2
    <2>. QED  BY <2>1
  <1>3. 0 \in S
    BY <1>0, <1>2
  <1>4. ASSUME NEW k \in 0..MaxHeight, k # MaxHeight, k \in S PROVE k + 1 \in S
    <2>1. ASSUME NEW n \in G, height'[n] <= k + 1, height'[n] # 0 PROVE U[n] \in Seq(X)
      <3>. DEFINE us == [i \in Index |-> U[ptr'[Child(n, i)]]]
      <3>1. ASSUME NEW i \in Index PROVE U[ptr'[Child(n, i)]] \in Seq(X)
        <4>1. CASE ptr'[Child(n, i)] = Null
          BY <1>1, <4>1, EmptySeq
        <4>2. CASE ptr'[Child(n, i)] # Null
          <5>1. ptr'[Child(n, i)] \in G
            BY <4>2
          <5>2. height'[n] = height'[ptr'[Child(n, i)]] + 1
            BY <4>2 DEF Layered, Child
          <5>3. height'[ptr'[Child(n, i)]] <= k
            BY <1>0, <2>1, <5>1, <5>2
          <5>. QED  BY <1>4, <5>1, <5>3
        <4>. QED  BY <4>1, <4>2
      <3>2. us \in [1..MAX_CHILDREN -> Seq(X)]
        BY <3>1 DEF Index
      <3>. HIDE DEF us
      <3>3. Concat(us) \in Seq(X)
        BY <3>2, ConcatParts, SharingAssumption
      <3>. QED  BY <1>1, <2>1, <3>3 DEF us
    <2>. QED  BY <1>0, <1>2, <1>4, <2>1
  <1>. HIDE DEF S
  <1>5. 0..MaxHeight \subseteq S
    BY <1>0, <1>3, <1>4, BoundedInduction
  <1>. QED  BY <1>0, <1>5 DEF S

\* The text below a child is a part of that below its node.
LEMMA ChildPart ==
  ASSUME TypeOK, Layered, NEW T, IsText(T), NEW n \in Node, NEW i \in Index,
         ptr[Child(n, i)] # Null
  PROVE  PartOf(T[ptr[Child(n, i)]], T[n], Piece)
  <1>1. ptr[Child(n, i)] \in Node /\ height[n] # 0
    <2>1. ptr[Child(n, i)] \in Node
      BY SlotFacts DEF TypeOK
    <2>2. height[n] = height[ptr[Child(n, i)]] + 1 /\ height[ptr[Child(n, i)]] \in Nat
      BY <2>1, SharingAssumption DEF Layered, TypeOK
    <2>. QED  BY <2>1, <2>2
  <1>2. Gather(T, n) \in [1..MAX_CHILDREN -> Seq(Piece)]
    <2>1. \A j \in Index : ptr[Child(n, j)] \in Node \cup {Null}
      BY SlotFacts DEF TypeOK
    <2>. QED  BY <2>1 DEF Gather, Index, IsText
  <1>3. PartOf(Gather(T, n)[i], Concat(Gather(T, n)), Piece)
    BY <1>2, ConcatParts, SharingAssumption DEF Index
  <1>. QED  BY <1>1, <1>3 DEF Gather, IsText

\* The pieces of a sequence, and those of its parts.
PiecesOf(s) == {s[i] : i \in DOMAIN s}

LEMMA PartPieces ==
  ASSUME NEW S, NEW x \in Seq(S), NEW s, PartOf(x, s, S)
  PROVE  PiecesOf(x) \subseteq PiecesOf(s) /\ (x # <<>> => s # <<>>) /\ s \in Seq(S)
  <1>1. PICK p \in Seq(S), q \in Seq(S) : s = (p \o x) \o q
    BY DEF PartOf
  <1>. DEFINE y == p \o x
  <1>2. y \in Seq(S) /\ Len(y) = Len(p) + Len(x)
        /\ \A i \in 1..Len(x) : y[Len(p) + i] = x[i]
    BY SMTT(30)
  <1>. HIDE DEF y
  <1>3. s \in Seq(S) /\ Len(s) = Len(y) + Len(q) /\ \A i \in 1..Len(y) : s[i] = y[i]
    <2>1. s = y \o q /\ y \in Seq(S) /\ q \in Seq(S)
      BY <1>1, <1>2 DEF y
    <2>. QED  BY <2>1, ConcatProperties, LenProperties
  <1>4. Len(p) \in Nat /\ Len(q) \in Nat /\ Len(x) \in Nat /\ Len(s) \in Nat
        /\ DOMAIN x = 1..Len(x) /\ DOMAIN s = 1..Len(s)
    BY <1>3, LenProperties
  <1>5. ASSUME NEW i \in DOMAIN x PROVE \E j \in DOMAIN s : s[j] = x[i]
    <2>1. Len(p) + i \in 1..Len(y) /\ Len(p) + i \in DOMAIN s
      BY <1>2, <1>3, <1>4
    <2>. QED  BY <1>2, <1>3, <1>4, <2>1
  <1>6. x # <<>> => s # <<>>
    <2>1. x # <<>> => 1 \in DOMAIN x
      BY <1>4, EmptySeq
    <2>. QED  BY <1>5, <2>1, EmptySeq
  <1>. QED  BY <1>3, <1>5, <1>6 DEF PiecesOf

-----------------------------------------------------------------------------
(* The invariant, extended by what is known of the data in nodes *)

\* A node that no thread is changing has children, unless it is a leaf.
Populated ==
  \A n \in Node :
    strong[n] > 0 /\ height[n] > 0 /\ (\A u \in Thread : n \notin Sole(u)) => ChildrenOf(n) # {}

\* Free memory has no text, nor has then a copy that nothing was copied to yet.
FreeBlank == \A n \in Free : text[n] = Null

CopiesText(t) ==
  pc[t] = "copy" => text[ptr[Local(t)]] \in {Null, text[ptr[at[t]]]}

\* What takes the root's place is the only child that it has.
OnlyChild(t) ==
  pc[t] = "set_root" =>
    \E i \in Index : ChildrenOf(ptr[Root(t)]) = {i} /\ ptr[Child(ptr[Root(t)], i)] = ptr[Local(t)]

DataInv ==
  /\ Populated
  /\ FreeBlank
  /\ \A t \in Thread : CopiesText(t) /\ OnlyChild(t)

\* A thread that stands by while another one takes a step.
Aside(u) ==
  /\ pc'[u] = pc[u] /\ at'[u] = at[u] /\ owned'[u] = owned[u]
  /\ ptr'[Local(u)] = ptr[Local(u)]
  /\ pc[u] # "idle" => ptr'[Root(u)] = ptr[Root(u)]

\* What a step of a thread can change: nodes that it alone refers to, or nobody.
Footprint(t) ==
  /\ \A n \in Node : strong[n] > 0 /\ n \notin Sole(t) => Kept(n)
  /\ \A u \in Thread \ {t} : Aside(u)
  /\ \A n \in Node : strong[n] = 0 /\ strong'[n] > 0 => n \in Sole(t)' \/ height'[n] = 0
  /\ \A n \in Sole(t) :
       n \in Sole(t)' \/ strong'[n] = 0 \/ height'[n] = 0 \/ ChildrenOf(n)' # {}
  /\ FreeBlank'
  /\ CopiesText(t)' /\ OnlyChild(t)'

\* What a thread knows of its slots stays when another one takes a step.
LEMMA AsideFacts ==
  ASSUME IInv, NEW t \in Thread, NEW u \in Thread \ {t}, Footprint(t)
  PROVE  /\ Sole(u)' = Sole(u)
         /\ ptr[Root(u)] # Null => Kept(ptr[Root(u)])
         /\ pc[u] = "copy" => Kept(ptr[Local(u)]) /\ Kept(ptr[at[u]]) /\ ptr'[at[u]] = ptr[at[u]]
  <1>0. /\ owned[u] \subseteq Node /\ owned[t] \subseteq Node
        /\ Root(u) \in Slot /\ Local(u) \in Slot
    BY SlotFacts DEF IInv, TypeOK
  <1>1. Sole(u)' = Sole(u)
    BY DEF Footprint, Aside, Sole, Local
  <1>2. ASSUME NEW s \in Slot, ptr[s] # Null, s \in SlotsOf(u) \/ s = Local(u)
        PROVE  Kept(ptr[s])
    <2>1. s # Local(t) /\ s \notin SlotsOf(t)
      <3>1. Local(u) \notin SlotsOf(t) /\ Local(t) \notin SlotsOf(u) /\ Local(u) # Local(t)
        BY <1>0, SlotFacts, SlotsOfMember
      <3>. QED  BY <1>2, <3>1, SlotsOfApart
    <2>. QED  BY <1>2, <2>1, HeldFacts, NotSole DEF Footprint
  <1>3. Root(u) \in SlotsOf(u)
    BY DEF SlotsOf
  <1>4. ASSUME pc[u] = "copy"
        PROVE  Kept(ptr[Local(u)]) /\ Kept(ptr[at[u]]) /\ ptr'[at[u]] = ptr[at[u]]
    <2>1. /\ at[u] \in SlotsOf(u) /\ at[u] \in Slot /\ ptr[at[u]] # Null
          /\ ptr[Local(u)] # Null
      BY <1>0, <1>4 DEF IInv, ThreadInv, Control, TypeOK
    <2>2. CASE at[u] = Root(u)
      BY <1>2, <1>4, <1>0, <2>1, <2>2 DEF Footprint, Aside
    <2>3. CASE at[u] # Root(u)
      <3>1. PICK n \in owned[u], i \in Index : at[u] = Child(n, i)
        BY <2>1, <2>3, SlotsOfMember
      <3>2. PICK s \in SlotsOf(u) : s \in Slot /\ ptr[s] = n
        BY OwnedHere
      <3>3. Kept(n)
        BY <1>0, <1>2, <3>2, SharingAssumption
      <3>. QED  BY <1>2, <1>0, <2>1, <3>1, <3>3 DEF Kept
    <2>. QED  BY <2>2, <2>3
  <1>. QED  BY <1>0, <1>1, <1>2, <1>3, <1>4

LEMMA FootprintInv ==
  ASSUME IInv, IInv', DataInv, NEW t \in Thread, Footprint(t)
  PROVE  DataInv'
  <1>1. Populated'
    <2>1. SUFFICES ASSUME NEW n \in Node, strong'[n] > 0, height'[n] > 0,
                          \A u \in Thread : n \notin Sole(u)'
                   PROVE  ChildrenOf(n)' # {}
      BY DEF Populated
    <2>2. strong[n] \in Nat /\ strong'[n] \in Nat /\ height'[n] \in Nat
      BY SharingAssumption DEF IInv, TypeOK
    <2>3. strong[n] > 0
      BY <2>1, <2>2 DEF Footprint
    <2>4. CASE n \in Sole(t)
      BY <2>1, <2>2, <2>4 DEF Footprint
    <2>5. CASE n \notin Sole(t)
      <3>1. Kept(n) /\ \A u \in Thread : n \notin Sole(u)
        BY <2>1, <2>3, <2>5, AsideFacts DEF Footprint
      <3>2. ChildrenOf(n) # {}
        BY <2>1, <2>3, <3>1 DEF DataInv, Populated, Kept
      <3>3. ChildrenOf(n)' = ChildrenOf(n)
        BY <3>1 DEF Kept, ChildrenOf, Child
      <3>. QED  BY <3>2, <3>3
    <2>. QED  BY <2>4, <2>5
  <1>2. ASSUME NEW u \in Thread \ {t} PROVE CopiesText(u)' /\ OnlyChild(u)'
    <2>0. Aside(u)
      BY DEF Footprint
    <2>1. CopiesText(u)'
      <3>1. SUFFICES ASSUME pc[u] = "copy"
                     PROVE  text'[ptr'[Local(u)]] \in {Null, text'[ptr'[at'[u]]]}
        BY <2>0 DEF CopiesText, Aside, Local
      <3>. QED  BY <2>0, <3>1, AsideFacts DEF DataInv, CopiesText, Aside, Kept
    <2>2. OnlyChild(u)'
      <3>1. SUFFICES ASSUME pc[u] = "set_root" PROVE OnlyChild(u)'
        BY <2>0 DEF OnlyChild, Aside
      <3>2. ptr[Root(u)] # Null /\ ptr'[Root(u)] = ptr[Root(u)] /\ Kept(ptr[Root(u)])
        BY <2>0, <3>1, AsideFacts DEF IInv, ThreadInv, Control, HasRope, Aside
      <3>3. PICK i \in Index : /\ ChildrenOf(ptr[Root(u)]) = {i}
                               /\ ptr[Child(ptr[Root(u)], i)] = ptr[Local(u)]
        BY <3>1 DEF DataInv, OnlyChild
      <3>4. \A j \in Index : ptr'[Child(ptr'[Root(u)], j)] = ptr[Child(ptr[Root(u)], j)]
        BY <3>2 DEF Kept
      <3>5. ChildrenOf(ptr[Root(u)])' = ChildrenOf(ptr[Root(u)])
        BY <3>4 DEF ChildrenOf, Child, Root
      <3>. QED  BY <2>0, <3>3, <3>4, <3>5 DEF OnlyChild, Aside, Child, Root, Local
    <2>. QED  BY <2>1, <2>2
  <1>. QED  BY <1>1, <1>2 DEF Footprint, DataInv

-----------------------------------------------------------------------------
(* The steps that leave nodes alone *)

\* No text is changed on memory that stays free, and no other memory is.
LEMMA BlankFrame ==
  ASSUME DataInv, \A n \in Free' : n \in Free /\ text'[n] = text[n]
  PROVE  FreeBlank'
  BY DEF DataInv, FreeBlank

\* Slots of roots and locals have no part in what nodes are.
LEMMA NodesKept ==
  ASSUME IInv, UNCHANGED <<height, text>>,
         \A n \in Node, i \in Index : ptr'[Child(n, i)] = ptr[Child(n, i)]
  PROVE  \A n \in Node : Kept(n)
  BY DEF Kept

\* The steps that change neither references nor counts nor texts.
LEMMA StillFootprint ==
  ASSUME IInv, DataInv, NEW t \in Thread, UNCHANGED <<ptr, strong, height, text, dying>>,
         \A u \in Thread \ {t} : pc'[u] = pc[u] /\ at'[u] = at[u] /\ owned'[u] = owned[u],
         pc[t] # "copy", pc'[t] # "copy",
         pc'[t] # "set_root" \/ pc'[t] = pc[t],
         \A n \in owned[t] : n \in owned'[t] \/ height[n] = 0 \/ ChildrenOf(n) # {}
  PROVE  Footprint(t)
  <1>1. \A n \in Node : Kept(n)
    BY NodesKept
  <1>2. \A u \in Thread \ {t} : Aside(u)
    BY DEF Aside
  <1>3. \A n : ChildrenOf(n)' = ChildrenOf(n)
    BY DEF ChildrenOf, Child
  <1>4. FreeBlank'
    BY BlankFrame DEF Free
  <1>5. CopiesText(t)' /\ OnlyChild(t)'
    BY <1>3 DEF DataInv, CopiesText, OnlyChild, Root, Local, Child, ChildrenOf
  <1>6. \A n \in Node : strong[n] = 0 /\ strong'[n] > 0 => n \in Sole(t)' \/ height'[n] = 0
    OBVIOUS
  <1>7. ASSUME NEW n \in Sole(t)
        PROVE  n \in Sole(t)' \/ strong'[n] = 0 \/ height'[n] = 0 \/ ChildrenOf(n)' # {}
    BY <1>3 DEF Sole
  <1>. QED  BY <1>1, <1>2, <1>4, <1>5, <1>6, <1>7 DEF Footprint

LEMMA ReadFootprint ==
  ASSUME IInv, DataInv, NEW t \in Thread,
         TakeSlice(t) \/ NarrowSlice(t) \/ EndSlice(t) \/ StartEdit(t) \/ MakeMut(t) \/ EndPullUp(t)
  PROVE  Footprint(t)
  <1>1. UNCHANGED <<ptr, strong, height, text, dying, owned>> /\ pc[t] # "copy" /\ pc'[t] # "copy"
        /\ (pc'[t] # "set_root" \/ pc'[t] = pc[t])
        /\ \A u \in Thread \ {t} : pc'[u] = pc[u] /\ at'[u] = at[u]
    <2>1. CASE TakeSlice(t) \/ NarrowSlice(t) \/ EndSlice(t)
      BY <2>1 DEF TakeSlice, NarrowSlice, EndSlice, Idle, Calm, IInv, ThreadInv, Control
    <2>2. CASE StartEdit(t)
      BY <2>2 DEF StartEdit, Idle, Calm, IInv, TypeOK
    <2>3. CASE MakeMut(t)
      <3>1. pc' = [pc EXCEPT ![t] = "make_mut"] /\ \E s : at' = [at EXCEPT ![t] = s]
        BY <2>3 DEF MakeMut
      <3>. QED  BY <2>3, <3>1 DEF MakeMut, In, IInv, TypeOK
    <2>4. CASE EndPullUp(t)
      BY <2>4 DEF EndPullUp, In, IInv, TypeOK
    <2>. QED  BY <2>1, <2>2, <2>3, <2>4
  <1>. QED  BY <1>1, StillFootprint

LEMMA InPlaceFootprint ==
  ASSUME IInv, DataInv, NEW t \in Thread, InPlace(t)
  PROVE  Footprint(t)
  BY StillFootprint DEF InPlace, In, IInv, TypeOK

LEMMA EndEditFootprint ==
  ASSUME IInv, DataInv, NEW t \in Thread, EndEdit(t)
  PROVE  Footprint(t)
  <1>1. ASSUME NEW n \in owned[t] PROVE height[n] = 0 \/ ChildrenOf(n) # {}
    <2>1. height[n] \in Nat
      BY SharingAssumption DEF IInv, TypeOK
    <2>2. ASSUME height[n] > 0 PROVE 1 \in ChildrenOf(n)
      <3>1. PICK len \in Index : ChildrenOf(n) = 1..len
        BY <2>2 DEF EndEdit, Complete
      <3>. QED  BY <3>1 DEF Index
    <2>. QED  BY <2>1, <2>2
  <1>. QED  BY <1>1, StillFootprint DEF EndEdit, In, IInv, TypeOK

\* The steps that change slots of roots and locals, and counts.
LEMMA SlotFootprint ==
  ASSUME IInv, DataInv, NEW t \in Thread, UNCHANGED <<height, text, owned, at>>,
         \A n \in Node, i \in Index : ptr'[Child(n, i)] = ptr[Child(n, i)],
         \A n \in Node : strong[n] = 0 => strong'[n] = 0,
         Free' = Free,
         \A u \in Thread \ {t} :
           /\ pc'[u] = pc[u] /\ ptr'[Local(u)] = ptr[Local(u)]
           /\ pc[u] # "idle" => ptr'[Root(u)] = ptr[Root(u)],
         pc[t] # "copy", pc'[t] # "copy", OnlyChild(t)'
  PROVE  Footprint(t)
  <1>1. \A n \in Node : Kept(n)
    BY NodesKept
  <1>2. \A u \in Thread \ {t} : Aside(u)
    BY DEF Aside
  <1>3. FreeBlank'
    BY BlankFrame
  <1>4. CopiesText(t)'
    BY DEF CopiesText
  <1>5. Sole(t)' = Sole(t)
    BY DEF Sole, Local
  <1>6. \A n \in Node : ~ (strong[n] = 0 /\ strong'[n] > 0)
    OBVIOUS
  <1>. QED  BY <1>1, <1>2, <1>3, <1>4, <1>5, <1>6 DEF Footprint

LEMMA ShareFootprint ==
  ASSUME IInv, DataInv, NEW t \in Thread, NEW u \in Thread \ {t}, Share(t, u)
  PROVE  Footprint(t)
  <1>. DEFINE n == Last(chain[t])
  <1>1. /\ Len(chain[t]) \in DOMAIN chain[t] /\ pc[t] = "idle" /\ pc[u] = "idle"
        /\ ptr' = [ptr EXCEPT ![Root(u)] = n]
        /\ strong' = [strong EXCEPT ![n] = strong[n] + 1]
        /\ UNCHANGED <<height, text, pc, at, owned, dying, chain>>
    BY DEF Share, Idle, Calm, IInv, TypeOK, ThreadInv, Control
  <1>2. n \in Node /\ strong[n] > 0
    BY <1>1, ChainFacts DEF Last
  <1>3. \A q \in Slot : q # Root(u) => ptr'[q] = ptr[q]
    BY <1>1 DEF IInv, TypeOK
  <1>4. /\ \A m \in Node, i \in Index : ptr'[Child(m, i)] = ptr[Child(m, i)]
        /\ \A v \in Thread \ {t} :
             /\ pc'[v] = pc[v] /\ ptr'[Local(v)] = ptr[Local(v)]
             /\ pc[v] # "idle" => ptr'[Root(v)] = ptr[Root(v)]
    BY <1>1, <1>3, SlotFacts
  <1>5. \A m \in Node : strong[m] = 0 => strong'[m] = 0
    BY <1>1, <1>2 DEF IInv, TypeOK
  <1>6. Free' = Free
    BY <1>1, <1>2 DEF Free, IInv, TypeOK
  <1>7. OnlyChild(t)'
    BY <1>1 DEF OnlyChild
  <1>. QED  BY <1>1, <1>4, <1>5, <1>6, <1>7, SlotFootprint

LEMMA DropRopeFootprint ==
  ASSUME IInv, DataInv, NEW t \in Thread, DropRope(t)
  PROVE  Footprint(t)
  <1>. DEFINE n == ptr[Root(t)]
  <1>1. /\ pc[t] = "idle" /\ ptr' = [ptr EXCEPT ![Root(t)] = Null] /\ Released(t, n)
        /\ UNCHANGED <<height, text, pc, at, owned, chain>>
    BY DEF DropRope, Idle, Calm
  <1>2. n \in Node /\ strong[n] > 0 /\ Root(t) \in Slot
    BY SlotFacts, HeldFacts DEF DropRope, HasRope
  <1>3. /\ \A m \in Node, i \in Index : ptr'[Child(m, i)] = ptr[Child(m, i)]
        /\ \A v \in Thread \ {t} :
             /\ ptr'[Local(v)] = ptr[Local(v)]
             /\ pc[v] # "idle" => ptr'[Root(v)] = ptr[Root(v)]
    <2>1. \A q \in Slot : q # Root(t) => ptr'[q] = ptr[q]
      BY <1>1 DEF IInv, TypeOK
    <2>. QED  BY <2>1, SlotFacts
  <1>4. \A m \in Node : strong[m] = 0 => strong'[m] = 0
    BY <1>1, <1>2 DEF Released, IInv, TypeOK
  <1>5. Free' = Free
    BY <1>1, <1>2, ReleasedEffect
  <1>6. OnlyChild(t)'
    BY <1>1 DEF OnlyChild
  <1>. QED  BY <1>1, <1>3, <1>4, <1>5, <1>6, SlotFootprint

LEMMA CloneOnlyChildFootprint ==
  ASSUME IInv, DataInv, NEW t \in Thread, CloneOnlyChild(t)
  PROVE  Footprint(t)
  <1>. DEFINE r == ptr[Root(t)]
  <1>1. PICK i \in Index :
          /\ ChildrenOf(r) = {i}
          /\ ptr' = [ptr EXCEPT ![Local(t)] = ptr[Child(r, i)]]
          /\ strong' = [strong EXCEPT ![ptr[Child(r, i)]] = strong[ptr[Child(r, i)]] + 1]
    BY DEF CloneOnlyChild
  <1>. DEFINE c == ptr[Child(r, i)]
  <1>2. /\ In(t, "pull_up") /\ pc' = [pc EXCEPT ![t] = "set_root"]
        /\ UNCHANGED <<height, text, at, owned, dying, chain>>
    BY DEF CloneOnlyChild
  <1>3. /\ r \in Node /\ c # Null /\ Child(r, i) \in Slot
    BY <1>1, <1>2, SlotFacts DEF In, IInv, ThreadInv, Control, HasRope, TypeOK, ChildrenOf
  <1>4. c \in Node /\ strong[c] > 0
    BY <1>3, HeldFacts
  <1>5. /\ ptr'[Local(t)] = c
        /\ \A q \in Slot : q # Local(t) => ptr'[q] = ptr[q]
    BY <1>1, SlotFacts DEF IInv, TypeOK
  <1>6. /\ \A m \in Node, j \in Index : ptr'[Child(m, j)] = ptr[Child(m, j)]
        /\ ptr'[Root(t)] = r
        /\ \A v \in Thread \ {t} :
             /\ pc'[v] = pc[v] /\ ptr'[Local(v)] = ptr[Local(v)]
             /\ pc[v] # "idle" => ptr'[Root(v)] = ptr[Root(v)]
    BY <1>2, <1>5, SlotFacts DEF IInv, TypeOK
  <1>7. \A m \in Node : strong[m] = 0 => strong'[m] = 0
    BY <1>1, <1>4 DEF IInv, TypeOK
  <1>8. Free' = Free
    BY <1>1, <1>2, <1>4 DEF Free, IInv, TypeOK
  <1>9. OnlyChild(t)'
    <2>1. ChildrenOf(r)' = ChildrenOf(r)
      BY <1>3, <1>6 DEF ChildrenOf, Child
    <2>2. ChildrenOf(ptr[Root(t)])' = {i}
      BY <1>1, <1>6, <2>1 DEF Root
    <2>. QED  BY <1>3, <1>5, <1>6, <2>2 DEF OnlyChild, Root, Local, Child
  <1>10. pc[t] # "copy" /\ pc'[t] # "copy"
    BY <1>2 DEF In, IInv, TypeOK
  <1>. QED  BY <1>2, <1>6, <1>7, <1>8, <1>9, <1>10, SlotFootprint

LEMMA SetRootFootprint ==
  ASSUME IInv, DataInv, NEW t \in Thread, SetRoot(t)
  PROVE  Footprint(t)
  <1>. DEFINE n == ptr[Root(t)]
  <1>1. /\ In(t, "set_root") /\ Released(t, n) /\ pc' = [pc EXCEPT ![t] = "pull_up"]
        /\ ptr' = [ptr EXCEPT ![Root(t)] = ptr[Local(t)], ![Local(t)] = Null]
        /\ UNCHANGED <<height, text, at, owned, chain>>
    BY DEF SetRoot
  <1>2. n \in Node /\ strong[n] > 0 /\ Root(t) \in Slot
    BY <1>1, SlotFacts, HeldFacts DEF In, IInv, ThreadInv, Control, HasRope
  <1>3. /\ \A m \in Node, i \in Index : ptr'[Child(m, i)] = ptr[Child(m, i)]
        /\ \A v \in Thread \ {t} :
             /\ pc'[v] = pc[v] /\ ptr'[Local(v)] = ptr[Local(v)]
             /\ pc[v] # "idle" => ptr'[Root(v)] = ptr[Root(v)]
    <2>1. \A q \in Slot : q # Root(t) /\ q # Local(t) => ptr'[q] = ptr[q]
      BY <1>1 DEF IInv, TypeOK
    <2>. QED  BY <1>1, <2>1, SlotFacts DEF IInv, TypeOK
  <1>4. \A m \in Node : strong[m] = 0 => strong'[m] = 0
    BY <1>1, <1>2 DEF Released, IInv, TypeOK
  <1>5. Free' = Free
    BY <1>1, <1>2, ReleasedEffect
  <1>6. pc[t] # "copy" /\ pc'[t] # "copy" /\ OnlyChild(t)'
    BY <1>1 DEF In, OnlyChild, IInv, TypeOK
  <1>. QED  BY <1>1, <1>3, <1>4, <1>5, <1>6, SlotFootprint

-----------------------------------------------------------------------------
(* The steps of make_mut, and destructors *)

LEMMA NewRopeFootprint ==
  ASSUME IInv, DataInv, NEW t \in Thread, NewRope(t)
  PROVE  Footprint(t)
  <1>1. PICK n \in Fresh, x \in Texts[t] :
          /\ ptr' = [ptr EXCEPT ![Root(t)] = n]
          /\ strong' = [strong EXCEPT ![n] = 1]
          /\ height' = [height EXCEPT ![n] = 0]
          /\ text' = [text EXCEPT ![n] = x]
    BY DEF NewRope
  <1>2. pc[t] = "idle" /\ UNCHANGED <<pc, at, owned, dying, chain>>
    BY DEF NewRope, Idle, Calm
  <1>3. n \in Node /\ strong[n] = 0
    BY FreshFacts
  <1>4. \A q \in Slot : q # Root(t) => ptr'[q] = ptr[q]
    BY <1>1 DEF IInv, TypeOK
  <1>5. /\ strong'[n] = 1 /\ height'[n] = 0
        /\ \A m \in Node : m # n =>
             strong'[m] = strong[m] /\ height'[m] = height[m] /\ text'[m] = text[m]
    BY <1>1, <1>3 DEF IInv, TypeOK
  <1>6. \A m \in Node : strong[m] > 0 => Kept(m)
    BY <1>3, <1>4, <1>5, SlotFacts DEF Kept
  <1>7. \A u \in Thread \ {t} : Aside(u)
    BY <1>2, <1>4, SlotFacts DEF Aside
  <1>8. \A m \in Node : strong[m] = 0 /\ strong'[m] > 0 => height'[m] = 0
    BY <1>5
  <1>9. FreeBlank'
    BY <1>2, <1>5, BlankFrame DEF Free
  <1>10. Sole(t)' = Sole(t) /\ CopiesText(t)' /\ OnlyChild(t)'
    BY <1>2 DEF Sole, CopiesText, OnlyChild
  <1>. QED  BY <1>6, <1>7, <1>8, <1>9, <1>10 DEF Footprint

LEMMA StartCopyFootprint ==
  ASSUME IInv, DataInv, NEW t \in Thread, StartCopy(t)
  PROVE  Footprint(t)
  <1>1. PICK n \in Fresh :
          /\ ptr' = [ptr EXCEPT ![Local(t)] = n]
          /\ strong' = [strong EXCEPT ![n] = 1]
          /\ height' = [height EXCEPT ![n] = height[ptr[at[t]]]]
    BY DEF StartCopy
  <1>2. /\ pc[t] = "make_mut" /\ pc' = [pc EXCEPT ![t] = "copy"]
        /\ UNCHANGED <<text, at, owned, dying, chain>>
    BY DEF StartCopy, In
  <1>3. n \in Node /\ strong[n] = 0 /\ n \in Free
    BY FreshFacts
  <1>4. ptr'[Local(t)] = n /\ \A q \in Slot : q # Local(t) => ptr'[q] = ptr[q]
    BY <1>1, SlotFacts DEF IInv, TypeOK
  <1>5. /\ strong'[n] = 1
        /\ \A m \in Node : m # n => strong'[m] = strong[m] /\ height'[m] = height[m]
    BY <1>1, <1>3 DEF IInv, TypeOK
  <1>6. \A m \in Node : strong[m] > 0 => Kept(m)
    BY <1>2, <1>3, <1>4, <1>5, SlotFacts DEF Kept
  <1>7. pc'[t] = "copy" /\ \A u \in Thread \ {t} : pc'[u] = pc[u]
    BY <1>2 DEF IInv, TypeOK
  <1>8. \A u \in Thread \ {t} : Aside(u)
    BY <1>2, <1>4, <1>7, SlotFacts DEF Aside
  <1>9. n \in Sole(t)' /\ owned[t] \subseteq Sole(t)' /\ Sole(t) = owned[t]
    BY <1>2, <1>3, <1>4, <1>7 DEF Sole, Local
  <1>10. \A m \in Node : strong[m] = 0 /\ strong'[m] > 0 => m \in Sole(t)'
    BY <1>5, <1>9
  <1>11. FreeBlank'
    BY <1>2, <1>5, BlankFrame DEF Free
  <1>12. CopiesText(t)' /\ OnlyChild(t)'
    BY <1>2, <1>3, <1>4, <1>7 DEF CopiesText, OnlyChild, DataInv, FreeBlank, Local
  <1>. QED  BY <1>6, <1>8, <1>9, <1>10, <1>11, <1>12 DEF Footprint

\* The original and the copy.
LEMMA CopyFacts ==
  ASSUME IInv, NEW t \in Thread, pc[t] = "copy"
  PROVE  /\ ptr[at[t]] \in Node /\ ptr[Local(t)] \in Node /\ ptr[at[t]] # ptr[Local(t)]
         /\ at[t] \in Slot /\ at[t] \in SlotsOf(t) /\ at[t] # Local(t) /\ Local(t) \in Slot
         /\ strong[ptr[at[t]]] > 0 /\ strong[ptr[Local(t)]] > 0
         /\ Sole(t) = owned[t] \cup {ptr[Local(t)]}
         /\ \A q \in Slot : ptr[q] = ptr[Local(t)] <=> q = Local(t)
         /\ ptr[at[t]] \notin owned[t] /\ owned[t] \subseteq Node
  <1>1. /\ at[t] \in Slot /\ at[t] \in SlotsOf(t) /\ ptr[at[t]] # Null /\ Local(t) \in Slot
        /\ ptr[at[t]] \notin owned[t] /\ owned[t] \subseteq Node
        /\ ptr[Local(t)] # Null
    BY SlotFacts DEF IInv, ThreadInv, Control, TypeOK
  <1>2. at[t] # Local(t)
    BY <1>1, SlotFacts, SlotsOfMember
  <1>3. ptr[at[t]] \in Node /\ ptr[Local(t)] \in Node
        /\ strong[ptr[at[t]]] > 0 /\ strong[ptr[Local(t)]] > 0
    BY <1>1, HeldFacts
  <1>4. \A q \in Slot : ptr[q] = ptr[Local(t)] <=> q = Local(t)
    BY DEF IInv, ThreadInv, CopyUnderWay, OnlyIn
  <1>. QED  BY <1>1, <1>2, <1>3, <1>4 DEF Sole

LEMMA CopyTextFootprint ==
  ASSUME IInv, DataInv, NEW t \in Thread, CopyText(t)
  PROVE  Footprint(t)
  <1>. DEFINE c == ptr[Local(t)]
              o == ptr[at[t]]
  <1>1. /\ pc[t] = "copy" /\ text' = [text EXCEPT ![c] = text[o]]
        /\ UNCHANGED <<ptr, strong, height, pc, at, owned, dying, chain>>
    BY DEF CopyText, In
  <1>2. c \in Node /\ o \in Node /\ c # o /\ strong[c] > 0 /\ c \in Sole(t)
    BY <1>1, CopyFacts
  <1>3. text'[c] = text[o] /\ \A n \in Node : n # c => text'[n] = text[n]
    BY <1>1, <1>2 DEF IInv, TypeOK
  <1>4. \A n \in Node : n \notin Sole(t) => Kept(n)
    BY <1>1, <1>2, <1>3 DEF Kept
  <1>5. \A u \in Thread \ {t} : Aside(u)
    BY <1>1 DEF Aside
  <1>6. FreeBlank'
    BY <1>1, <1>2, <1>3, BlankFrame DEF Free
  <1>7. Sole(t)' = Sole(t)
    BY <1>1 DEF Sole, Local
  <1>8. CopiesText(t)' /\ OnlyChild(t)'
    BY <1>1, <1>2, <1>3 DEF CopiesText, OnlyChild, Local
  <1>9. \A n \in Node : ~ (strong[n] = 0 /\ strong'[n] > 0)
    BY <1>1
  <1>. QED  BY <1>4, <1>5, <1>6, <1>7, <1>8, <1>9 DEF Footprint

LEMMA CopyChildFootprint ==
  ASSUME IInv, DataInv, NEW t \in Thread, CopyChild(t)
  PROVE  Footprint(t)
  <1>. DEFINE c == ptr[Local(t)]
              o == ptr[at[t]]
  <1>1. PICK i \in Index :
          /\ ~ Copied(t, i)
          /\ ptr' = [ptr EXCEPT ![Child(c, i)] = ptr[Child(o, i)]]
          /\ strong' = [strong EXCEPT ![ptr[Child(o, i)]] = strong[ptr[Child(o, i)]] + 1]
    BY DEF CopyChild
  <1>2. pc[t] = "copy" /\ UNCHANGED <<height, text, pc, at, owned, dying, chain>>
    BY DEF CopyChild, In
  <1>3. c \in Node /\ o \in Node /\ c # o /\ strong[c] > 0 /\ c \in Sole(t)
    BY <1>2, CopyFacts
  <1>. DEFINE d == ptr[Child(o, i)]
  <1>4. d \in Node /\ strong[d] > 0
    <2>1. ptr[Child(c, i)] \in {Null, d}
      BY <1>2 DEF IInv, ThreadInv, CopyUnderWay
    <2>2. d # Null
      BY <1>1, <2>1 DEF Copied
    <2>. QED  BY <1>3, <2>2, SlotFacts, HeldFacts
  <1>5. \A q \in Slot : q # Child(c, i) => ptr'[q] = ptr[q]
    BY <1>1 DEF IInv, TypeOK
  <1>6. \A n \in Node : n # c => \A j \in Index : ptr'[Child(n, j)] = ptr[Child(n, j)]
    BY <1>3, <1>5, SlotFacts
  <1>7. \A n \in Node : n \notin Sole(t) => Kept(n)
    BY <1>2, <1>3, <1>6 DEF Kept
  <1>8. /\ \A u \in Thread : ptr'[Root(u)] = ptr[Root(u)] /\ ptr'[Local(u)] = ptr[Local(u)]
        /\ ptr'[at[t]] = ptr[at[t]]
    <2>1. \A u \in Thread : ptr'[Root(u)] = ptr[Root(u)] /\ ptr'[Local(u)] = ptr[Local(u)]
      BY <1>3, <1>5, SlotFacts
    <2>2. at[t] \in SlotsOf(t) /\ at[t] \in Slot /\ owned[t] \subseteq Node
      BY <1>2, CopyFacts
    <2>3. c \notin owned[t]
      <3>1. Local(t) \notin SlotsOf(t) /\ ptr[Local(t)] = c /\ Local(t) \in Slot
        BY <2>2, SlotFacts, SlotsOfMember
      <3>. QED  BY <3>1, OwnedHere
    <2>4. at[t] # Child(c, i)
      BY <1>3, <2>2, <2>3, SlotFacts, SlotsOfMember
    <2>. QED  BY <1>5, <2>1, <2>2, <2>4
  <1>9. \A u \in Thread \ {t} : Aside(u)
    BY <1>2, <1>8 DEF Aside
  <1>10. /\ \A n \in Node : strong[n] = 0 => strong'[n] = 0
         /\ Free' = Free
    BY <1>1, <1>2, <1>4 DEF Free, IInv, TypeOK
  <1>11. FreeBlank'
    BY <1>2, <1>10, BlankFrame
  <1>12. Sole(t)' = Sole(t)
    BY <1>2, <1>8 DEF Sole, Local
  <1>13. CopiesText(t)' /\ OnlyChild(t)'
    BY <1>2, <1>8 DEF CopiesText, OnlyChild, Local, DataInv
  <1>14. \A n \in Node : ~ (strong[n] = 0 /\ strong'[n] > 0)
    BY <1>10
  <1>. QED  BY <1>7, <1>9, <1>11, <1>12, <1>13, <1>14 DEF Footprint

LEMMA EndCopyFootprint ==
  ASSUME IInv, DataInv, NEW t \in Thread, EndCopy(t)
  PROVE  Footprint(t)
  <1>. DEFINE c == ptr[Local(t)]
              o == ptr[at[t]]
  <1>1. /\ pc[t] = "copy"
        /\ owned' = [owned EXCEPT ![t] = owned[t] \cup {c}]
        /\ ptr' = [ptr EXCEPT ![at[t]] = c, ![Local(t)] = Null]
        /\ Released(t, o)
        /\ pc' = [pc EXCEPT ![t] = "edit"]
        /\ at' = [at EXCEPT ![t] = Root(t)]
        /\ UNCHANGED <<height, text, chain>>
    BY DEF EndCopy, In
  <1>2. /\ c \in Node /\ o \in Node /\ strong[o] > 0 /\ Sole(t) = owned[t] \cup {c}
        /\ at[t] \in SlotsOf(t) /\ at[t] \in Slot /\ owned[t] \subseteq Node
    BY <1>1, CopyFacts
  <1>3. \A q \in Slot : q # at[t] /\ q # Local(t) => ptr'[q] = ptr[q]
    BY <1>1 DEF IInv, TypeOK
  <1>4. \A n \in Node : n \notin owned[t] =>
          \A i \in Index : ptr'[Child(n, i)] = ptr[Child(n, i)]
    <2>1. ASSUME NEW n \in Node, n \notin owned[t], NEW i \in Index
          PROVE  Child(n, i) # at[t] /\ Child(n, i) # Local(t) /\ Child(n, i) \in Slot
      BY <1>2, <2>1, SlotFacts, SlotsOfMember
    <2>. QED  BY <1>3, <2>1
  <1>5. \A n \in Node : n \notin Sole(t) => Kept(n)
    BY <1>1, <1>2, <1>4 DEF Kept
  <1>6. \A u \in Thread \ {t} : ptr'[Root(u)] = ptr[Root(u)] /\ ptr'[Local(u)] = ptr[Local(u)]
    <2>1. ASSUME NEW u \in Thread \ {t}
          PROVE  /\ Root(u) # at[t] /\ Local(u) # at[t]
                 /\ Root(u) # Local(t) /\ Local(u) # Local(t)
                 /\ Root(u) \in Slot /\ Local(u) \in Slot
      BY <1>2, SlotFacts, SlotsOfMember
    <2>. QED  BY <1>3, <2>1
  <1>7. /\ pc'[t] = "edit" /\ owned'[t] = owned[t] \cup {c}
        /\ \A u \in Thread \ {t} : pc'[u] = pc[u] /\ at'[u] = at[u] /\ owned'[u] = owned[u]
    BY <1>1 DEF IInv, TypeOK
  <1>8. \A u \in Thread \ {t} : Aside(u)
    BY <1>6, <1>7 DEF Aside
  <1>9. \A n \in Node : strong[n] = 0 => strong'[n] = 0
    BY <1>1, <1>2 DEF Released, IInv, TypeOK
  <1>10. Free' = Free
    BY <1>1, <1>2, ReleasedEffect
  <1>11. FreeBlank'
    BY <1>1, <1>10, BlankFrame
  <1>12. Sole(t) \subseteq Sole(t)'
    BY <1>2, <1>7 DEF Sole
  <1>13. CopiesText(t)' /\ OnlyChild(t)'
    BY <1>7 DEF CopiesText, OnlyChild
  <1>14. \A n \in Node : ~ (strong[n] = 0 /\ strong'[n] > 0)
    BY <1>9
  <1>. QED  BY <1>5, <1>8, <1>11, <1>12, <1>13, <1>14 DEF Footprint

\* What is destroyed is referred to by nobody.
LEMMA DestroyFootprint ==
  ASSUME IInv, DataInv, NEW t \in Thread, UNCHANGED <<pc, at, owned>>,
         \A n \in Node : strong[n] > 0 => Kept(n),
         \A n \in Node : strong[n] = 0 => strong'[n] = 0,
         \A u \in Thread : ptr'[Root(u)] = ptr[Root(u)] /\ ptr'[Local(u)] = ptr[Local(u)],
         FreeBlank'
  PROVE  Footprint(t)
  <1>1. \A u \in Thread \ {t} : Aside(u)
    BY DEF Aside
  <1>2. Sole(t)' = Sole(t)
    BY DEF Sole, Local
  <1>3. CopiesText(t)'
    <2>1. SUFFICES ASSUME pc[t] = "copy"
                   PROVE  text'[ptr[Local(t)]] \in {Null, text'[ptr'[at[t]]]}
      BY DEF CopiesText, Local
    <2>2. /\ strong[ptr[at[t]]] > 0 /\ strong[ptr[Local(t)]] > 0
          /\ ptr[at[t]] \in Node /\ ptr[Local(t)] \in Node
          /\ at[t] \in SlotsOf(t) /\ owned[t] \subseteq Node
      BY <2>1, CopyFacts
    <2>3. ptr'[at[t]] = ptr[at[t]]
      <3>1. CASE at[t] = Root(t)
        BY <3>1
      <3>2. CASE at[t] # Root(t)
        <4>1. PICK n \in owned[t], i \in Index : at[t] = Child(n, i)
          BY <2>2, <3>2, SlotsOfMember
        <4>2. PICK s \in SlotsOf(t) : s \in Slot /\ ptr[s] = n
          BY OwnedHere
        <4>3. strong[n] > 0 /\ n \in Node
          BY <2>2, <4>2, HeldFacts, SharingAssumption
        <4>. QED  BY <4>1, <4>3 DEF Kept
      <3>. QED  BY <3>1, <3>2
    <2>. QED  BY <2>1, <2>2, <2>3 DEF Kept, DataInv, CopiesText
  <1>4. OnlyChild(t)'
    <2>1. SUFFICES ASSUME pc[t] = "set_root" PROVE OnlyChild(t)'
      BY DEF OnlyChild
    <2>2. Kept(ptr[Root(t)])
      <3>1. ptr[Root(t)] # Null /\ Root(t) \in Slot
        BY <2>1, SlotFacts DEF IInv, ThreadInv, Control, HasRope
      <3>. QED  BY <3>1, HeldFacts
    <2>3. PICK i \in Index : /\ ChildrenOf(ptr[Root(t)]) = {i}
                             /\ ptr[Child(ptr[Root(t)], i)] = ptr[Local(t)]
      BY <2>1 DEF DataInv, OnlyChild
    <2>4. \A j \in Index : ptr'[Child(ptr'[Root(t)], j)] = ptr[Child(ptr[Root(t)], j)]
      BY <2>2 DEF Kept
    <2>5. ChildrenOf(ptr[Root(t)])' = ChildrenOf(ptr[Root(t)])
      BY <2>4 DEF ChildrenOf, Child, Root
    <2>. QED  BY <2>3, <2>4, <2>5 DEF OnlyChild, Child, Root, Local
  <1>5. \A n \in Node : ~ (strong[n] = 0 /\ strong'[n] > 0)
    OBVIOUS
  <1>. QED  BY <1>1, <1>2, <1>3, <1>4, <1>5 DEF Footprint

LEMMA DropChildFootprint ==
  ASSUME IInv, DataInv, NEW t \in Thread, DropChild(t)
  PROVE  Footprint(t)
  <1>. DEFINE d == Last(dying[t])
  <1>1. PICK i \in Index :
          /\ ptr[Child(d, i)] # Null
          /\ ptr' = [ptr EXCEPT ![Child(d, i)] = Null]
          /\ Released(t, ptr[Child(d, i)])
    BY DEF DropChild
  <1>2. UNCHANGED <<height, text, pc, at, owned, chain>> /\ d \in Node /\ strong[d] = 0
    BY DyingFacts DEF DropChild
  <1>3. ptr[Child(d, i)] \in Node /\ strong[ptr[Child(d, i)]] > 0
    BY <1>1, <1>2, SlotFacts, HeldFacts
  <1>4. \A q \in Slot : q # Child(d, i) => ptr'[q] = ptr[q]
    BY <1>1 DEF IInv, TypeOK
  <1>5. \A n \in Node : strong[n] > 0 => Kept(n)
    BY <1>2, <1>4, SlotFacts DEF Kept
  <1>6. \A n \in Node : strong[n] = 0 => strong'[n] = 0
    BY <1>1, <1>3 DEF Released, IInv, TypeOK
  <1>7. \A u \in Thread : ptr'[Root(u)] = ptr[Root(u)] /\ ptr'[Local(u)] = ptr[Local(u)]
    BY <1>2, <1>4, SlotFacts
  <1>8. Free' = Free
    BY <1>1, <1>3, ReleasedEffect
  <1>9. FreeBlank'
    BY <1>2, <1>8, BlankFrame
  <1>. QED  BY <1>2, <1>5, <1>6, <1>7, <1>9, DestroyFootprint

LEMMA DeallocFootprint ==
  ASSUME IInv, DataInv, NEW t \in Thread, Dealloc(t)
  PROVE  Footprint(t)
  <1>. DEFINE d == Last(dying[t])
              ds == dying[t]
  <1>1. /\ text' = [text EXCEPT ![d] = Null] /\ height' = [height EXCEPT ![d] = 0]
        /\ dying' = [dying EXCEPT ![t] = SubSeq(ds, 1, Len(ds) - 1)]
        /\ UNCHANGED <<ptr, strong, pc, at, owned, chain>>
        /\ d \in Node /\ strong[d] = 0 /\ ds # <<>>
    BY DyingFacts DEF Dealloc
  <1>2. \A n \in Node : n # d => text'[n] = text[n] /\ height'[n] = height[n]
    BY <1>1 DEF IInv, TypeOK
  <1>3. \A n \in Node : strong[n] > 0 => Kept(n)
    BY <1>1, <1>2 DEF Kept
  <1>4. ASSUME NEW n \in Free' PROVE text'[n] = Null
    <2>1. n \in Node /\ strong[n] = 0
      BY <1>1 DEF Free
    <2>2. CASE n = d
      BY <1>1, <2>2 DEF IInv, TypeOK
    <2>3. CASE n # d
      <3>. DEFINE es == SubSeq(ds, 1, Len(ds) - 1)
      <3>1. ds \in Seq(Node) /\ Len(ds) \in Nat \ {0} /\ DOMAIN ds = 1..Len(ds)
            /\ d = ds[Len(ds)]
        BY <1>1 DEF IInv, TypeOK, Last
      <3>2. DOMAIN es = 1..(Len(ds) - 1) /\ \A k \in 1..(Len(ds) - 1) : es[k] = ds[k]
        BY <3>1
      <3>3. dying'[t] = es /\ \A u \in Thread \ {t} : dying'[u] = dying[u]
        BY <1>1 DEF IInv, TypeOK
      <3>. HIDE DEF es
      <3>4. \A k \in DOMAIN ds : ds[k] # n
        BY <2>3, <3>1, <3>2, <3>3 DEF Free
      <3>5. n \in Free
        BY <2>1, <3>3, <3>4 DEF Free
      <3>. QED  BY <1>2, <2>1, <2>3, <3>5 DEF DataInv, FreeBlank
    <2>. QED  BY <2>2, <2>3
  <1>5. FreeBlank'
    BY <1>4 DEF FreeBlank
  <1>. QED  BY <1>1, <1>3, <1>5, DestroyFootprint

-----------------------------------------------------------------------------
(* The steps of an edit *)

LEMMA EditFootprint ==
  ASSUME IInv, DataInv, NEW t \in Thread, In(t, "edit"), UNCHANGED <<pc, at>>,
         \A u \in Thread \ {t} :
           /\ owned'[u] = owned[u] /\ ptr'[Local(u)] = ptr[Local(u)]
           /\ pc[u] # "idle" => ptr'[Root(u)] = ptr[Root(u)],
         \A n \in Node : strong[n] > 0 /\ n \notin owned[t] => Kept(n),
         \A n \in Node : strong[n] = 0 /\ strong'[n] > 0 => n \in owned'[t],
         \A n \in owned[t] :
           n \in owned'[t] \/ strong'[n] = 0 \/ height'[n] = 0 \/ ChildrenOf(n)' # {},
         \A n \in Free' : n \in Free /\ text'[n] = text[n]
  PROVE  Footprint(t)
  <1>1. pc[t] = "edit" /\ pc'[t] = "edit"
    BY DEF In
  <1>2. Sole(t) = owned[t] /\ Sole(t)' = owned'[t]
    BY <1>1 DEF Sole
  <1>3. \A u \in Thread \ {t} : Aside(u)
    BY DEF Aside
  <1>4. FreeBlank'
    BY BlankFrame
  <1>5. CopiesText(t)' /\ OnlyChild(t)'
    BY <1>1 DEF CopiesText, OnlyChild
  <1>. QED  BY <1>2, <1>3, <1>4, <1>5 DEF Footprint

LEMMA WriteFootprint ==
  ASSUME IInv, DataInv, NEW t \in Thread, Write(t)
  PROVE  Footprint(t)
  <1>1. PICK n \in owned[t], x \in Texts[t] : text' = [text EXCEPT ![n] = x]
    BY DEF Write
  <1>2. In(t, "edit") /\ UNCHANGED <<ptr, strong, height, pc, at, owned, dying, chain>>
    BY DEF Write
  <1>3. n \notin Free /\ \A m \in Node : m # n => text'[m] = text[m]
    BY <1>1, <1>2, EditFacts DEF IInv, TypeOK
  <1>4. \A m \in Node : m \notin owned[t] => Kept(m)
    BY <1>2, <1>3 DEF Kept
  <1>5. \A m \in Free' : m \in Free /\ text'[m] = text[m]
    BY <1>2, <1>3 DEF Free
  <1>. QED  BY <1>2, <1>4, <1>5, EditFootprint

\* The steps of an edit that make a node.
LEMMA MakeFootprint ==
  ASSUME IInv, DataInv, NEW t \in Thread, In(t, "edit"), UNCHANGED <<pc, at, dying, chain>>,
         NEW m \in Fresh, strong' = [strong EXCEPT ![m] = 1],
         owned' = [owned EXCEPT ![t] = owned[t] \cup {m}],
         \A n \in Node : n # m => height'[n] = height[n] /\ text'[n] = text[n],
         \A n \in Node, i \in Index :
           n \notin owned[t] /\ n # m => ptr'[Child(n, i)] = ptr[Child(n, i)],
         \A u \in Thread \ {t} : ptr'[Local(u)] = ptr[Local(u)] /\ ptr'[Root(u)] = ptr[Root(u)]
  PROVE  Footprint(t)
  <1>1. m \in Node /\ strong[m] = 0
    BY FreshFacts
  <1>2. strong'[m] = 1 /\ \A n \in Node : n # m => strong'[n] = strong[n]
    BY <1>1 DEF IInv, TypeOK
  <1>3. owned'[t] = owned[t] \cup {m} /\ \A u \in Thread \ {t} : owned'[u] = owned[u]
    BY DEF IInv, TypeOK
  <1>4. \A n \in Node : strong[n] > 0 /\ n \notin owned[t] => Kept(n)
    BY <1>1 DEF Kept
  <1>5. \A n \in Node : strong[n] = 0 /\ strong'[n] > 0 => n \in owned'[t]
    BY <1>2, <1>3
  <1>6. \A n \in Free' : n \in Free /\ text'[n] = text[n]
    BY <1>2 DEF Free
  <1>. QED  BY <1>3, <1>4, <1>5, <1>6, EditFootprint

LEMMA NewChildFootprint ==
  ASSUME IInv, DataInv, NEW t \in Thread, NewChild(t)
  PROVE  Footprint(t)
  <1>1. PICK n \in owned[t], i \in Index, m \in Fresh :
          /\ height[n] > 0 /\ FirstEmpty(n, i)
          /\ Sets(Child(n, i), m)
          /\ strong' = [strong EXCEPT ![m] = 1]
          /\ height' = [height EXCEPT ![m] = height[n] - 1]
          /\ owned' = [owned EXCEPT ![t] = owned[t] \cup {m}]
          /\ IF height[n] = 1 THEN \E x \in Texts[t] : text' = [text EXCEPT ![m] = x]
             ELSE text' = text
    BY DEF NewChild, Sets
  <1>2. In(t, "edit") /\ UNCHANGED <<pc, at, dying, chain>> /\ owned[t] \subseteq Node
    BY EditFacts DEF NewChild
  <1>3. \A q \in Slot : q # Child(n, i) => ptr'[q] = ptr[q]
    BY <1>1 DEF Sets, IInv, TypeOK
  <1>4. \A k \in Node : k # m => height'[k] = height[k] /\ text'[k] = text[k]
    BY <1>1 DEF IInv, TypeOK
  <1>5. /\ \A k \in Node, j \in Index :
             k \notin owned[t] /\ k # m => ptr'[Child(k, j)] = ptr[Child(k, j)]
        /\ \A u \in Thread \ {t} : ptr'[Local(u)] = ptr[Local(u)] /\ ptr'[Root(u)] = ptr[Root(u)]
    BY <1>2, <1>3, SlotFacts
  <1>. QED  BY <1>1, <1>2, <1>4, <1>5, MakeFootprint

LEMMA GrowRootFootprint ==
  ASSUME IInv, DataInv, NEW t \in Thread, GrowRoot(t)
  PROVE  Footprint(t)
  <1>1. PICK m \in Fresh :
          /\ ptr' = [ptr EXCEPT ![Root(t)] = m, ![Child(m, 1)] = ptr[Root(t)]]
          /\ strong' = [strong EXCEPT ![m] = 1]
          /\ height' = [height EXCEPT ![m] = height[ptr[Root(t)]] + 1]
          /\ owned' = [owned EXCEPT ![t] = owned[t] \cup {m}]
    BY DEF GrowRoot
  <1>2. In(t, "edit") /\ UNCHANGED <<text, pc, at, dying, chain>> /\ owned[t] \subseteq Node
    BY EditFacts DEF GrowRoot
  <1>3. \A q \in Slot : q # Root(t) /\ q # Child(m, 1) => ptr'[q] = ptr[q]
    BY <1>1 DEF IInv, TypeOK
  <1>4. \A k \in Node : k # m => height'[k] = height[k] /\ text'[k] = text[k]
    BY <1>1, <1>2 DEF IInv, TypeOK
  <1>5. 1 \in Index /\ m \in Node
    BY FreshFacts, SharingAssumption DEF Index
  <1>6. /\ \A k \in Node, j \in Index :
             k \notin owned[t] /\ k # m => ptr'[Child(k, j)] = ptr[Child(k, j)]
        /\ \A u \in Thread \ {t} : ptr'[Local(u)] = ptr[Local(u)] /\ ptr'[Root(u)] = ptr[Root(u)]
    BY <1>3, <1>5, SlotFacts
  <1>. QED  BY <1>1, <1>2, <1>4, <1>6, MakeFootprint

\* The steps of an edit that move a child from one slot to another.
LEMMA MoveFootprint ==
  ASSUME IInv, DataInv, NEW t \in Thread, In(t, "edit"),
         UNCHANGED <<strong, height, text, pc, at, owned, dying, chain>>,
         \A n \in Node, i \in Index : n \notin owned[t] => ptr'[Child(n, i)] = ptr[Child(n, i)],
         \A u \in Thread \ {t} :
           /\ ptr'[Local(u)] = ptr[Local(u)]
           /\ pc[u] # "idle" => ptr'[Root(u)] = ptr[Root(u)]
  PROVE  Footprint(t)
  <1>1. \A n \in Node : n \notin owned[t] => Kept(n)
    BY DEF Kept
  <1>2. \A n \in Free' : n \in Free /\ text'[n] = text[n]
    BY DEF Free
  <1>. QED  BY <1>1, <1>2, EditFootprint

LEMMA MoveChildFootprint ==
  ASSUME IInv, DataInv, NEW t \in Thread, MoveChild(t)
  PROVE  Footprint(t)
  <1>1. PICK n \in owned[t], m \in owned[t], i \in Index, j \in Index :
          ptr' = [ptr EXCEPT ![Child(m, j)] = ptr[Child(n, i)], ![Child(n, i)] = Null]
    BY DEF MoveChild
  <1>2. /\ In(t, "edit") /\ owned[t] \subseteq Node
        /\ UNCHANGED <<strong, height, text, pc, at, owned, dying, chain>>
    BY EditFacts DEF MoveChild
  <1>3. \A q \in Slot : q # Child(m, j) /\ q # Child(n, i) => ptr'[q] = ptr[q]
    BY <1>1 DEF IInv, TypeOK
  <1>4. /\ \A k \in Node, l \in Index : k \notin owned[t] => ptr'[Child(k, l)] = ptr[Child(k, l)]
        /\ \A u \in Thread \ {t} : ptr'[Local(u)] = ptr[Local(u)] /\ ptr'[Root(u)] = ptr[Root(u)]
    BY <1>2, <1>3, SlotFacts
  <1>. QED  BY <1>2, <1>4, MoveFootprint

LEMMA GraftFootprint ==
  ASSUME IInv, DataInv, NEW t \in Thread, NEW u \in Thread \ {t}, Graft(t, u)
  PROVE  Footprint(t)
  <1>1. PICK n \in owned[t], i \in Index :
          ptr' = [ptr EXCEPT ![Child(n, i)] = ptr[Root(u)], ![Root(u)] = Null]
    BY DEF Graft
  <1>2. /\ In(t, "edit") /\ owned[t] \subseteq Node /\ pc[u] = "idle"
        /\ UNCHANGED <<strong, height, text, pc, at, owned, dying, chain>>
    BY EditFacts DEF Graft, Idle, Calm
  <1>3. \A q \in Slot : q # Child(n, i) /\ q # Root(u) => ptr'[q] = ptr[q]
    BY <1>1 DEF IInv, TypeOK
  <1>4. /\ \A k \in Node, l \in Index : k \notin owned[t] => ptr'[Child(k, l)] = ptr[Child(k, l)]
        /\ \A v \in Thread \ {t} :
             /\ ptr'[Local(v)] = ptr[Local(v)]
             /\ pc[v] # "idle" => ptr'[Root(v)] = ptr[Root(v)]
    BY <1>2, <1>3, SlotFacts
  <1>. QED  BY <1>2, <1>4, MoveFootprint

LEMMA RemoveChildFootprint ==
  ASSUME IInv, DataInv, NEW t \in Thread, RemoveChild(t)
  PROVE  Footprint(t)
  <1>1. PICK n \in owned[t], i \in Index :
          /\ ptr[Child(n, i)] # Null
          /\ \A m \in owned[t] : height[m] < height[n] /\ m # ptr[Child(n, i)] => Complete(m)
          /\ ptr' = [ptr EXCEPT ![Child(n, i)] = Null]
          /\ Released(t, ptr[Child(n, i)])
          /\ owned' = [owned EXCEPT ![t] = {m \in owned[t] : height[m] >= height[n]}]
    BY DEF RemoveChild
  <1>. DEFINE c == ptr[Child(n, i)]
              s == Child(n, i)
  <1>2. In(t, "edit") /\ UNCHANGED <<height, text, pc, at, chain>>
    BY DEF RemoveChild
  <1>3. /\ owned[t] \subseteq Node /\ n \in Node /\ s \in Slot /\ s \in SlotsOf(t)
        /\ c \in Node /\ strong[c] > 0
    BY <1>1, <1>2, EditFacts, SlotFacts, HeldFacts
  <1>4. \A q \in Slot : q # s => ptr'[q] = ptr[q]
    BY <1>1 DEF IInv, TypeOK
  <1>5. /\ strong'[c] = strong[c] - 1 /\ \A k \in Node : k # c => strong'[k] = strong[k]
        /\ strong \in [Node -> Nat]
    BY <1>1, <1>3 DEF Released, IInv, TypeOK
  <1>6. /\ owned'[t] = {m \in owned[t] : height[m] >= height[n]}
        /\ \A u \in Thread \ {t} : owned'[u] = owned[u]
    BY <1>1 DEF IInv, TypeOK
  <1>7. \A k \in Node : k # n => \A j \in Index : ptr'[Child(k, j)] = ptr[Child(k, j)]
    BY <1>3, <1>4, SlotFacts
  <1>8. \A k \in Node : strong[k] > 0 /\ k \notin owned[t] => Kept(k)
    BY <1>2, <1>7 DEF Kept
  <1>9. \A u \in Thread \ {t} : ptr'[Local(u)] = ptr[Local(u)] /\ ptr'[Root(u)] = ptr[Root(u)]
    BY <1>3, <1>4, SlotFacts
  <1>10. ASSUME NEW k \in owned[t]
         PROVE  k \in owned'[t] \/ strong'[k] = 0 \/ height'[k] = 0 \/ ChildrenOf(k)' # {}
    <2>0. height \in [Node -> Nat] /\ k \in Node
      BY <1>3, SharingAssumption DEF IInv, TypeOK
    <2>1. SUFFICES ASSUME height[k] < height[n], height[k] > 0
                   PROVE  strong'[k] = 0 \/ ChildrenOf(k)' # {}
      BY <1>2, <1>3, <1>6, <2>0
    <2>2. CASE k = c
      <3>1. strong[k] = 1
        <4>1. \A q \in Slot : ptr[q] = k <=> q = s
          BY <1>2, <1>3, <2>2, EditFacts
        <4>2. Holders(k) = {s}
          BY <1>3, <4>1 DEF Holders
        <4>. QED  BY <2>0, <4>2, FS_Singleton DEF IInv, CountsExact
      <3>. QED  BY <1>5, <2>2, <3>1
    <2>3. CASE k # c
      <3>1. Complete(k) /\ k # n
        BY <1>1, <2>0, <2>1, <2>3
      <3>2. PICK len \in Index : ChildrenOf(k) = 1..len
        BY <2>1, <3>1 DEF Complete
      <3>3. 1 \in ChildrenOf(k)
        BY <3>2 DEF Index
      <3>4. ChildrenOf(k)' = ChildrenOf(k)
        BY <1>7, <2>0, <3>1 DEF ChildrenOf, Child
      <3>. QED  BY <3>3, <3>4
    <2>. QED  BY <2>2, <2>3
  <1>11. Free' = Free
    BY <1>1, <1>3, ReleasedEffect
  <1>12. \A k \in Node : ~ (strong[k] = 0 /\ strong'[k] > 0)
    BY <1>3, <1>5
  <1>. QED  BY <1>2, <1>6, <1>8, <1>9, <1>10, <1>11, <1>12, EditFootprint

-----------------------------------------------------------------------------
(* The extended invariant *)

\* The thread that takes a step.
Acts(t) == Step(t) \/ \E u \in Thread \ {t} : StepWith(t, u)

LEMMA ActsFootprint ==
  ASSUME IInv, DataInv, NEW t \in Thread, Acts(t)
  PROVE  Footprint(t)
  <1>1. ASSUME NEW u \in Thread \ {t}, StepWith(t, u) PROVE Footprint(t)
    BY <1>1, ShareFootprint, GraftFootprint DEF StepWith
  <1>2. ASSUME Step(t) PROVE Footprint(t)
    <2>1. CASE NewRope(t) \/ DropRope(t)
      BY <2>1, NewRopeFootprint, DropRopeFootprint
    <2>2. CASE TakeSlice(t) \/ NarrowSlice(t) \/ EndSlice(t) \/ StartEdit(t) \/ MakeMut(t)
               \/ EndPullUp(t)
      BY <2>2, ReadFootprint
    <2>3. CASE InPlace(t) \/ StartCopy(t) \/ CopyText(t) \/ CopyChild(t) \/ EndCopy(t)
      BY <2>3, InPlaceFootprint, StartCopyFootprint, CopyTextFootprint, CopyChildFootprint,
         EndCopyFootprint
    <2>4. CASE Write(t) \/ NewChild(t) \/ MoveChild(t) \/ RemoveChild(t) \/ GrowRoot(t)
      BY <2>4, WriteFootprint, NewChildFootprint, MoveChildFootprint, RemoveChildFootprint,
         GrowRootFootprint
    <2>5. CASE EndEdit(t) \/ CloneOnlyChild(t) \/ SetRoot(t)
      BY <2>5, EndEditFootprint, CloneOnlyChildFootprint, SetRootFootprint
    <2>6. CASE Destroy(t)
      BY <2>6, DropChildFootprint, DeallocFootprint DEF Destroy
    <2>. QED  BY <1>2, <2>1, <2>2, <2>3, <2>4, <2>5, <2>6 DEF Step
  <1>. QED  BY <1>1, <1>2 DEF Acts

LEMMA InitDataInv ==
  ASSUME Init
  PROVE  DataInv
  BY DEF Init, DataInv, Populated, FreeBlank, CopiesText, OnlyChild, Free

LEMMA StutterDataInv ==
  ASSUME DataInv, UNCHANGED vars
  PROVE  DataInv'
  <1>1. /\ ptr' = ptr /\ strong' = strong /\ height' = height /\ text' = text /\ pc' = pc
        /\ at' = at /\ owned' = owned /\ dying' = dying /\ chain' = chain
    BY DEF vars
  <1>2. Populated' /\ FreeBlank'
    BY <1>1 DEF DataInv, Populated, FreeBlank, Free, Sole, ChildrenOf, Child, Local
  <1>3. \A t \in Thread : CopiesText(t)' /\ OnlyChild(t)'
    BY <1>1 DEF DataInv, CopiesText, OnlyChild, ChildrenOf, Child, Local, Root
  <1>. QED  BY <1>2, <1>3 DEF DataInv

\* The data in nodes, at every point of every thread's calls: a node that nobody is
\* changing has children or is a leaf, free memory has no text, a copy's text is
\* that of its original, and what pull_up_singular_nodes makes the root is all
\* that the root has.
THEOREM DataKept == Spec => [](IInv /\ DataInv)
  <1>1. Init => IInv /\ DataInv
    BY InitIInv, InitDataInv
  <1>2. IInv /\ DataInv /\ [Next]_vars => IInv' /\ DataInv'
    <2>. SUFFICES ASSUME IInv, DataInv, [Next]_vars PROVE IInv' /\ DataInv'
      OBVIOUS
    <2>1. IInv'
      BY NextIInv
    <2>2. CASE UNCHANGED vars
      BY <2>1, <2>2, StutterDataInv
    <2>3. ASSUME NEW t \in Thread, Acts(t) PROVE DataInv'
      BY <2>1, <2>3, ActsFootprint, FootprintInv
    <2>. QED  BY <2>1, <2>2, <2>3 DEF Next, Acts
  <1>. QED  BY <1>1, <1>2, PTL DEF Spec

-----------------------------------------------------------------------------
(* The texts of ropes *)

\* The text of a rope, where T has those of the nodes.
TextOf(T, t) == IF HasRope(t) THEN T[ptr[Root(t)]] ELSE Null

\* What Values is, and that a text is not the value of no rope.
ValuesAre(T) ==
  /\ Values = [t \in Thread |-> TextOf(T, t)]
  /\ \A t \in Thread : TextOf(T, t) = Null <=> ~ HasRope(t)

LEMMA ValueFacts == TypeOK => \A T : IsText(T) => ValuesAre(T)
  <1>. SUFFICES ASSUME TypeOK, NEW T, IsText(T) PROVE ValuesAre(T)
    OBVIOUS
  <1>1. \A t \in Thread : HasRope(t) => ptr[Root(t)] \in Node
    BY SlotFacts DEF TypeOK, HasRope
  <1>2. \A n \in Node : T[n] = TextBelow(n) /\ T[n] # Null
    <2>1. Null \notin Seq(Piece)
      BY SharingAssumption DEF Piece
    <2>. QED  BY <2>1 DEF IsText
  <1>3. Values = [t \in Thread |-> TextOf(T, t)]
    BY <1>1, <1>2 DEF Values, TextOf
  <1>. QED  BY <1>1, <1>2, <1>3 DEF ValuesAre, TextOf

\* What is compared: the texts of nodes before and after a step, and of ropes.
Compared(T, U) ==
  /\ IsText(T) /\ IsText(U)' /\ ValuesAre(T) /\ ValuesAre(U)'
  /\ IInv /\ IInv' /\ DataInv

LEMMA ComparedExist ==
  ASSUME IInv, IInv', DataInv
  PROVE  \E T, U : Compared(T, U)
  <1>1. TypeOK /\ Layered => \E T : IsText(T)
    BY TextExists
  <1>2. (TypeOK /\ Layered => \E T : IsText(T))'
    BY TextExists, PTL
  <1>3. TypeOK => \A T : IsText(T) => ValuesAre(T)
    BY ValueFacts
  <1>4. (TypeOK => \A T : IsText(T) => ValuesAre(T))'
    BY ValueFacts, PTL
  <1>. QED  BY <1>1, <1>2, <1>3, <1>4 DEF Compared, IInv

\* What other threads than the one that takes a step refer to keeps its text.
LEMMA OthersText ==
  ASSUME NEW T, NEW U, Compared(T, U), NEW t \in Thread, Footprint(t)
  PROVE  /\ \A n \in Node : strong[n] > 0 /\ n \notin Sole(t) => U[n] = T[n]
         /\ \A u \in Thread \ {t} : HasRope(u) => U[ptr[Root(u)]] = T[ptr[Root(u)]]
  <1>. DEFINE O == {n \in Node : strong[n] > 0 /\ n \notin Sole(t)}
  <1>1. \A n \in O : Kept(n)
    BY DEF Footprint
  <1>2. ASSUME NEW n \in O, NEW i \in Index, ptr[Child(n, i)] # Null
        PROVE  ptr[Child(n, i)] \in O
    <2>1. owned[t] \subseteq Node /\ n \notin owned[t] /\ IInv
      BY DEF Compared, IInv, TypeOK, Sole
    <2>2. Child(n, i) \in Slot /\ Child(n, i) \notin SlotsOf(t) /\ Child(n, i) # Local(t)
      BY <2>1, SlotFacts, SlotsOfMember
    <2>. QED  BY <1>2, <2>1, <2>2, HeldFacts, NotSole
  <1>. HIDE DEF O
  <1>3. \A n \in O : U[n] = T[n]
    <2>1. O \in SUBSET Node
      BY DEF O
    <2>2. TypeOK' /\ Layered' /\ IsText(T) /\ IsText(U)'
      BY DEF Compared, IInv
    <2>3. \A n \in O, i \in Index : ptr[Child(n, i)] \in O \cup {Null}
      BY <1>2
    <2>. QED  BY <1>1, <2>1, <2>2, <2>3, KeptText
  <1>4. ASSUME NEW u \in Thread \ {t}, HasRope(u) PROVE ptr[Root(u)] \in O
    <2>1. owned[t] \subseteq Node /\ IInv
      BY DEF Compared, IInv, TypeOK
    <2>2. Root(u) \in Slot /\ Root(u) \notin SlotsOf(t) /\ Root(u) # Local(t)
      BY <2>1, SlotFacts, SlotsOfMember
    <2>. QED  BY <1>4, <2>1, <2>2, HeldFacts, NotSole DEF HasRope, O
  <1>. QED  BY <1>3, <1>4 DEF O

\* If no node that is referred to changes, no text does.
LEMMA AliveText ==
  ASSUME NEW T, NEW U, Compared(T, U), \A n \in Node : strong[n] > 0 => Kept(n)
  PROVE  /\ \A n \in Node : strong[n] > 0 => U[n] = T[n]
         /\ \A u \in Thread : HasRope(u) => U[ptr[Root(u)]] = T[ptr[Root(u)]]
  <1>. DEFINE O == {n \in Node : strong[n] > 0}
  <1>1. \A n \in O : Kept(n)
    OBVIOUS
  <1>2. \A n \in O, i \in Index : ptr[Child(n, i)] \in O \cup {Null}
    BY SlotFacts, HeldFacts DEF Compared
  <1>3. \A n \in O : U[n] = T[n]
    <2>1. TypeOK' /\ Layered' /\ IsText(T) /\ IsText(U)' /\ O \in SUBSET Node
      BY DEF Compared, IInv
    <2>. HIDE DEF O
    <2>. QED  BY <1>1, <1>2, <2>1, KeptText
  <1>4. \A u \in Thread : HasRope(u) => ptr[Root(u)] \in O
    BY SlotFacts, HeldFacts DEF HasRope, Compared
  <1>. QED  BY <1>3, <1>4

\* One rope has another text, the others those that they had.
LEMMA OneValue ==
  ASSUME NEW T, NEW U, Compared(T, U), NEW t \in Thread,
         \A u \in Thread \ {t} : TextOf(U, u)' = TextOf(T, u)
  PROVE  /\ Values' = [Values EXCEPT ![t] = TextOf(U, t)']
         /\ Values[t] = TextOf(T, t) /\ Values'[t] = TextOf(U, t)'
         /\ TextOf(U, t)' = TextOf(T, t) => Values' = Values
  BY DEF Compared, ValuesAre

LEMMA SameRoot ==
  ASSUME NEW T, NEW U, Compared(T, U), NEW u \in Thread, ptr'[Root(u)] = ptr[Root(u)],
         HasRope(u) => U[ptr[Root(u)]] = T[ptr[Root(u)]]
  PROVE  TextOf(U, u)' = TextOf(T, u)
  BY DEF TextOf, HasRope, Root

\* If a step keeps nodes and roots, it keeps all values.
LEMMA KeptValues ==
  ASSUME NEW T, NEW U, Compared(T, U), \A n \in Node : strong[n] > 0 => Kept(n),
         \A u \in Thread : ptr'[Root(u)] = ptr[Root(u)]
  PROVE  Values' = Values
  <1>1. \A u \in Thread : TextOf(U, u)' = TextOf(T, u)
    BY AliveText, SameRoot
  <1>. QED  BY <1>1 DEF Compared, ValuesAre

-----------------------------------------------------------------------------
(* The steps of Clones *)

\* A step that Clones does not see.
Unseen == Values' = Values /\ Editing' = Editing

LEMMA UnseenStep ==
  ASSUME Unseen
  PROVE  [Clones!Next]_(Clones!vars)
  BY DEF Unseen, Clones!vars

LEMMA StillUnseen ==
  ASSUME NEW T, NEW U, Compared(T, U), NEW t \in Thread,
         \/ TakeSlice(t) \/ NarrowSlice(t) \/ EndSlice(t) \/ StartEdit(t) \/ EndPullUp(t)
  PROVE  Unseen
  <1>1. UNCHANGED <<ptr, strong, height, text>>
    BY DEF TakeSlice, NarrowSlice, EndSlice, StartEdit, EndPullUp
  <1>2. \A u \in Thread : pc'[u] = "edit" <=> pc[u] = "edit"
    BY DEF TakeSlice, NarrowSlice, EndSlice, StartEdit, EndPullUp, Compared, IInv, TypeOK, In,
           Idle, Calm
  <1>3. Values' = Values
    BY <1>1, KeptValues DEF Kept
  <1>. QED  BY <1>2, <1>3 DEF Unseen, Editing

LEMMA StartCopyUnseen ==
  ASSUME NEW T, NEW U, Compared(T, U), NEW t \in Thread, StartCopy(t)
  PROVE  Unseen
  <1>0. IInv
    BY DEF Compared
  <1>1. PICK n \in Fresh :
          /\ ptr' = [ptr EXCEPT ![Local(t)] = n]
          /\ strong' = [strong EXCEPT ![n] = 1]
          /\ height' = [height EXCEPT ![n] = height[ptr[at[t]]]]
    BY DEF StartCopy
  <1>2. n \in Node /\ strong[n] = 0
    BY <1>0, FreshFacts
  <1>3. \A q \in Slot : q # Local(t) => ptr'[q] = ptr[q]
    BY <1>0, <1>1 DEF IInv, TypeOK
  <1>4. \A m \in Node : strong[m] > 0 => Kept(m)
    BY <1>0, <1>1, <1>2, <1>3, SlotFacts DEF Kept, StartCopy, IInv, TypeOK
  <1>5. \A u \in Thread : ptr'[Root(u)] = ptr[Root(u)]
    BY <1>3, SlotFacts
  <1>6. Values' = Values
    BY <1>4, <1>5, KeptValues
  <1>7. \A u \in Thread : pc'[u] = "edit" <=> pc[u] = "edit"
    BY <1>0 DEF StartCopy, IInv, TypeOK, In
  <1>. QED  BY <1>6, <1>7 DEF Unseen, Editing

LEMMA CloneOnlyChildUnseen ==
  ASSUME NEW T, NEW U, Compared(T, U), NEW t \in Thread, CloneOnlyChild(t)
  PROVE  Unseen
  <1>0. IInv
    BY DEF Compared
  <1>1. PICK i \in Index : ptr' = [ptr EXCEPT ![Local(t)] = ptr[Child(ptr[Root(t)], i)]]
    BY DEF CloneOnlyChild
  <1>2. \A q \in Slot : q # Local(t) => ptr'[q] = ptr[q]
    BY <1>0, <1>1 DEF IInv, TypeOK
  <1>3. \A m \in Node : Kept(m)
    BY <1>2, SlotFacts DEF Kept, CloneOnlyChild
  <1>4. \A u \in Thread : ptr'[Root(u)] = ptr[Root(u)]
    BY <1>2, SlotFacts
  <1>5. Values' = Values
    BY <1>3, <1>4, KeptValues
  <1>6. \A u \in Thread : pc'[u] = "edit" <=> pc[u] = "edit"
    BY <1>0 DEF CloneOnlyChild, IInv, TypeOK, In
  <1>. QED  BY <1>5, <1>6 DEF Unseen, Editing

LEMMA DestroyUnseen ==
  ASSUME NEW T, NEW U, Compared(T, U), NEW t \in Thread, Destroy(t)
  PROVE  Unseen
  <1>0. IInv
    BY DEF Compared
  <1>. DEFINE d == Last(dying[t])
  <1>1. d \in Node /\ strong[d] = 0 /\ pc' = pc
    BY <1>0, DyingFacts DEF Destroy, DropChild, Dealloc
  <1>2. /\ \A n \in Node : n # d => height'[n] = height[n] /\ text'[n] = text[n]
        /\ \A q \in Slot : (\A i \in Index : q # Child(d, i)) => ptr'[q] = ptr[q]
    <2>1. CASE DropChild(t)
      <3>1. PICK i \in Index : ptr' = [ptr EXCEPT ![Child(d, i)] = Null]
        BY <2>1 DEF DropChild
      <3>. QED  BY <1>0, <2>1, <3>1 DEF DropChild, IInv, TypeOK
    <2>2. CASE Dealloc(t)
      BY <1>0, <2>2 DEF Dealloc, IInv, TypeOK
    <2>. QED  BY <2>1, <2>2 DEF Destroy
  <1>3. \A n \in Node : strong[n] > 0 => Kept(n)
    BY <1>1, <1>2, SlotFacts DEF Kept
  <1>4. \A u \in Thread : ptr'[Root(u)] = ptr[Root(u)]
    BY <1>1, <1>2, SlotFacts
  <1>5. Values' = Values
    BY <1>3, <1>4, KeptValues
  <1>. QED  BY <1>1, <1>5 DEF Unseen, Editing

\* While a node is copied, nothing refers to the copy but the copying thread.
LEMMA CopyingValues ==
  ASSUME NEW T, NEW U, Compared(T, U), NEW t \in Thread, pc[t] = "copy",
         \A n \in Node : n # ptr[Local(t)] => Kept(n),
         \A u \in Thread : ptr'[Root(u)] = ptr[Root(u)]
  PROVE  Values' = Values
  <1>. DEFINE c == ptr[Local(t)]
              O == {n \in Node : strong[n] > 0 /\ n # c}
  <1>0. IInv /\ TypeOK' /\ Layered' /\ IsText(T) /\ IsText(U)'
    BY DEF Compared, IInv
  <1>1. \A q \in Slot : ptr[q] = c <=> q = Local(t)
    BY <1>0, CopyFacts
  <1>2. ASSUME NEW n \in O, NEW i \in Index PROVE ptr[Child(n, i)] \in O \cup {Null}
    <2>1. Child(n, i) \in Slot /\ Child(n, i) # Local(t)
      BY SlotFacts
    <2>. QED  BY <1>0, <1>1, <2>1, HeldFacts
  <1>3. O \in SUBSET Node /\ \A n \in O : Kept(n)
    OBVIOUS
  <1>4. ASSUME NEW u \in Thread, HasRope(u) PROVE ptr[Root(u)] \in O
    <2>1. Root(u) \in Slot /\ Root(u) # Local(t)
      BY SlotFacts
    <2>. QED  BY <1>0, <1>1, <1>4, <2>1, HeldFacts DEF HasRope
  <1>. HIDE DEF O
  <1>5. \A n \in O : U[n] = T[n]
    BY <1>0, <1>2, <1>3, KeptText
  <1>6. \A u \in Thread : TextOf(U, u)' = TextOf(T, u)
    BY <1>4, <1>5, SameRoot
  <1>. QED  BY <1>6 DEF Compared, ValuesAre

LEMMA CopyTextUnseen ==
  ASSUME NEW T, NEW U, Compared(T, U), NEW t \in Thread, CopyText(t)
  PROVE  Unseen
  <1>1. IInv /\ pc[t] = "copy" /\ UNCHANGED <<ptr, height, pc>>
    BY DEF Compared, CopyText, In
  <1>2. \A n \in Node : n # ptr[Local(t)] => Kept(n)
    BY <1>1 DEF CopyText, Kept, IInv, TypeOK
  <1>3. Values' = Values
    BY <1>1, <1>2, CopyingValues
  <1>. QED  BY <1>1, <1>3 DEF Unseen, Editing

LEMMA CopyChildUnseen ==
  ASSUME NEW T, NEW U, Compared(T, U), NEW t \in Thread, CopyChild(t)
  PROVE  Unseen
  <1>1. IInv /\ pc[t] = "copy" /\ UNCHANGED <<height, text, pc>>
    BY DEF Compared, CopyChild, In
  <1>2. PICK i \in Index :
          ptr' = [ptr EXCEPT ![Child(ptr[Local(t)], i)] = ptr[Child(ptr[at[t]], i)]]
    BY DEF CopyChild
  <1>3. \A q \in Slot : q # Child(ptr[Local(t)], i) => ptr'[q] = ptr[q]
    BY <1>1, <1>2 DEF IInv, TypeOK
  <1>4. ptr[Local(t)] \in Node
    BY <1>1, CopyFacts
  <1>5. \A n \in Node : n # ptr[Local(t)] => Kept(n)
    BY <1>1, <1>3, <1>4, SlotFacts DEF Kept
  <1>6. \A u \in Thread : ptr'[Root(u)] = ptr[Root(u)]
    BY <1>3, <1>4, SlotFacts
  <1>7. Values' = Values
    BY <1>1, <1>5, <1>6, CopyingValues
  <1>. QED  BY <1>1, <1>7 DEF Unseen, Editing

\* The root's only child is what the root has.
LEMMA SetRootUnseen ==
  ASSUME NEW T, NEW U, Compared(T, U), NEW t \in Thread, SetRoot(t)
  PROVE  Unseen
  <1>. DEFINE r == ptr[Root(t)]
              c == ptr[Local(t)]
  <1>0. IInv /\ TypeOK /\ Layered /\ IsText(T) /\ DataInv
    BY DEF Compared, IInv
  <1>1. /\ pc[t] = "set_root" /\ pc' = [pc EXCEPT ![t] = "pull_up"]
        /\ ptr' = [ptr EXCEPT ![Root(t)] = c, ![Local(t)] = Null]
        /\ UNCHANGED <<height, text>>
    BY DEF SetRoot, In
  <1>2. r \in Node /\ c \in Node /\ c # Null /\ strong[c] > 0 /\ HasRope(t)
    BY <1>0, <1>1, SlotFacts, HeldFacts DEF IInv, ThreadInv, Control, HasRope
  <1>3. /\ ptr'[Root(t)] = c
        /\ \A q \in Slot : q # Root(t) /\ q # Local(t) => ptr'[q] = ptr[q]
    BY <1>0, <1>1, SlotFacts DEF TypeOK
  <1>4. \A n \in Node : Kept(n)
    BY ZenonT(60), <1>1, <1>3, SlotFacts DEF Kept
  <1>5. T[c] = T[r]
    <2>1. PICK i \in Index : ChildrenOf(r) = {i} /\ ptr[Child(r, i)] = c
      BY <1>0, <1>1 DEF DataInv, OnlyChild
    <2>2. height[r] # 0
      <3>1. height[r] = height[c] + 1 /\ height[c] \in Nat
        BY <1>0, <1>2, <2>1, SharingAssumption DEF Layered, TypeOK
      <3>. QED  BY <3>1
    <2>3. T[r] = Concat(Gather(T, r))
      BY <1>0, <1>2, <2>2 DEF IsText
    <2>4. Gather(T, r) \in [1..MAX_CHILDREN -> Seq(Piece)] /\ i \in 1..MAX_CHILDREN
      <3>1. \A j \in Index : ptr[Child(r, j)] \in Node \cup {Null}
        BY <1>0, <1>2, SlotFacts DEF TypeOK
      <3>. QED  BY <1>0, <3>1 DEF Gather, Index, IsText
    <2>5. Gather(T, r)[i] = T[c] /\ \A j \in 1..MAX_CHILDREN : j # i => Gather(T, r)[j] = <<>>
      BY <1>0, <2>1, <2>4 DEF Gather, Index, IsText, ChildrenOf
    <2>6. Concat(Gather(T, r)) = Gather(T, r)[i]
      <3>1. PICK seqs : seqs = Gather(T, r)
        OBVIOUS
      <3>2. MAX_CHILDREN \in Nat /\ seqs \in [1..MAX_CHILDREN -> Seq(Piece)]
            /\ i \in 1..MAX_CHILDREN
            /\ \A j \in 1..MAX_CHILDREN : j # i => seqs[j] = <<>>
        BY <2>4, <2>5, <3>1, SharingAssumption
      <3>3. Concat(seqs) = seqs[i]
        BY SMTT(60), <3>2, ConcatSole
      <3>. QED  BY <3>1, <3>3
    <2>. QED  BY <2>3, <2>5, <2>6
  <1>6. TextOf(U, t)' = TextOf(T, t)
    <2>1. U[c] = T[c]
      BY <1>2, <1>4, AliveText
    <2>. QED  BY <1>2, <1>3, <1>5, <2>1 DEF TextOf, HasRope, Root
  <1>7. \A u \in Thread \ {t} : TextOf(U, u)' = TextOf(T, u)
    <2>1. \A u \in Thread \ {t} : ptr'[Root(u)] = ptr[Root(u)]
      BY <1>3, SlotFacts
    <2>. QED  BY <1>4, <2>1, AliveText, SameRoot
  <1>8. Values' = Values
    BY <1>6, <1>7, OneValue
  <1>9. \A u \in Thread : pc'[u] = "edit" <=> pc[u] = "edit"
    BY <1>0, <1>1 DEF TypeOK
  <1>. QED  BY <1>8, <1>9 DEF Unseen, Editing

\* make_mut ends: the thread may change its rope.
LEMMA OpenStep ==
  ASSUME NEW T, NEW U, Compared(T, U), NEW t \in Thread, Values' = Values,
         pc[t] # "edit", pc[t] # "idle", pc' = [pc EXCEPT ![t] = "edit"]
  PROVE  Clones!Next
  <1>1. HasRope(t)
    BY DEF Compared, IInv, ThreadInv, Control
  <1>2. Values[t] # Null
    BY <1>1 DEF Compared, ValuesAre
  <1>3. t \notin Editing /\ Editing' = Editing \cup {t}
    BY DEF Editing, Compared, IInv, TypeOK
  <1>4. Clones!Open(t)
    BY <1>2, <1>3 DEF Clones!Open
  <1>. QED  BY <1>4 DEF Clones!Next

LEMMA CloseStep ==
  ASSUME NEW T, NEW U, Compared(T, U), NEW t \in Thread, Values' = Values,
         pc[t] = "edit", NEW where, where # "edit", pc' = [pc EXCEPT ![t] = where]
  PROVE  Clones!Next
  <1>1. t \in Editing /\ Editing' = Editing \ {t}
    BY DEF Editing, Compared, IInv, TypeOK
  <1>2. Clones!Close(t)
    BY <1>1 DEF Clones!Close
  <1>. QED  BY <1>2 DEF Clones!Next

LEMMA MakeMutStep ==
  ASSUME NEW T, NEW U, Compared(T, U), NEW t \in Thread,
         MakeMut(t) \/ InPlace(t) \/ EndEdit(t)
  PROVE  Clones!Next
  <1>1. UNCHANGED <<ptr, strong, height, text>>
    BY DEF MakeMut, InPlace, EndEdit
  <1>2. Values' = Values
    BY <1>1, KeptValues DEF Kept
  <1>3. CASE MakeMut(t)
    <2>1. pc[t] = "edit" /\ pc' = [pc EXCEPT ![t] = "make_mut"]
      BY <1>3 DEF MakeMut, In
    <2>. QED  BY <1>2, <2>1, CloseStep
  <1>4. CASE InPlace(t)
    <2>1. pc[t] = "make_mut" /\ pc' = [pc EXCEPT ![t] = "edit"]
      BY <1>4 DEF InPlace, In
    <2>. QED  BY <1>2, <2>1, OpenStep
  <1>5. CASE EndEdit(t)
    <2>1. pc[t] = "edit" /\ pc' = [pc EXCEPT ![t] = "pull_up"]
      BY <1>5 DEF EndEdit, In
    <2>. QED  BY <1>2, <2>1, CloseStep
  <1>. QED  BY <1>3, <1>4, <1>5

\* The copy has the text of its original.
LEMMA EndCopyStep ==
  ASSUME NEW T, NEW U, Compared(T, U), NEW t \in Thread, EndCopy(t)
  PROVE  Clones!Next
  <1>. DEFINE c == ptr[Local(t)]
              o == ptr[at[t]]
              O == {n \in Node : strong[n] > 0}
  <1>0. /\ IInv /\ DataInv /\ TypeOK /\ TypeOK' /\ Layered' /\ IsText(T) /\ IsText(U)'
    BY DEF Compared, IInv
  <1>1. /\ pc[t] = "copy" /\ pc' = [pc EXCEPT ![t] = "edit"]
        /\ \A i \in Index : Copied(t, i)
        /\ height[o] = 0 => text[c] # Null
        /\ ptr' = [ptr EXCEPT ![at[t]] = c, ![Local(t)] = Null]
        /\ UNCHANGED <<height, text>>
    BY DEF EndCopy, In
  <1>2. /\ c \in O /\ o \in O /\ c # o
        /\ at[t] \in Slot /\ at[t] \in SlotsOf(t) /\ at[t] # Local(t) /\ Local(t) \in Slot
        /\ \A q \in Slot : ptr[q] = c <=> q = Local(t)
        /\ owned[t] \subseteq Node
    BY <1>0, <1>1, CopyFacts
  <1>3. /\ ptr'[at[t]] = c
        /\ \A q \in Slot : q # at[t] /\ q # Local(t) => ptr'[q] = ptr[q]
    BY <1>0, <1>1, <1>2 DEF TypeOK
  <1>4. PICK r : r = [n \in O |-> IF n = c THEN o ELSE n]
    OBVIOUS
  <1>5. r[c] = o /\ \A n \in O : n # c => r[n] = n
    BY <1>2, <1>4
  <1>6. \A q \in Slot : ptr[q] # Null => ptr[q] \in O
    BY <1>0, HeldFacts
  <1>7. c \notin owned[t]
    <2>1. Local(t) \notin SlotsOf(t) /\ ptr[Local(t)] = c
      BY <1>2, SlotFacts, SlotsOfMember
    <2>. QED  BY <1>0, <1>2, <2>1, OwnedHere
  <1>8. ASSUME NEW n \in O, NEW i \in Index
        PROVE  \/ ptr'[Child(n, i)] = Null /\ ptr[Child(r[n], i)] = Null
               \/ ptr'[Child(n, i)] \in O /\ ptr[Child(r[n], i)] = r[ptr'[Child(n, i)]]
    <2>1. Child(n, i) \in Slot /\ Child(n, i) # Local(t)
      BY SlotFacts
    <2>2. ptr[Child(n, i)] # c
      BY <1>2, <2>1
    <2>3. CASE n = c
      <3>1. Child(n, i) # at[t]
        BY <1>2, <1>7, <2>3, SlotFacts, SlotsOfMember
      <3>2. ptr'[Child(n, i)] = ptr[Child(n, i)] /\ ptr[Child(n, i)] = ptr[Child(o, i)]
        BY <1>1, <1>3, <2>1, <2>3, <3>1 DEF Copied
      <3>. QED  BY <1>5, <1>6, <2>1, <2>2, <2>3, <3>2
    <2>4. CASE n # c /\ Child(n, i) = at[t]
      BY <1>2, <1>3, <1>5, <2>4
    <2>5. CASE n # c /\ Child(n, i) # at[t]
      <3>1. ptr'[Child(n, i)] = ptr[Child(n, i)]
        BY <1>3, <2>1, <2>5
      <3>. QED  BY <1>5, <1>6, <2>1, <2>2, <2>5, <3>1
    <2>. QED  BY <2>3, <2>4, <2>5
  <1>9. ASSUME NEW n \in O
        PROVE  r[n] \in Node /\ height'[n] = height[r[n]]
               /\ (height[r[n]] = 0 => text'[n] = text[r[n]])
    <2>1. CASE n = c
      <3>1. height[c] = height[o]
        BY <1>0, <1>1 DEF IInv, ThreadInv, CopyUnderWay
      <3>2. text[c] \in {Null, text[o]}
        BY <1>0, <1>1 DEF DataInv, CopiesText
      <3>. QED  BY <1>1, <1>2, <1>5, <2>1, <3>1, <3>2
    <2>2. CASE n # c
      BY <1>1, <1>5, <2>2
    <2>. QED  BY <2>1, <2>2
  <1>10. O \in SUBSET Node
    OBVIOUS
  <1>. HIDE DEF O
  <1>11. Corresponds(O, r)
    BY <1>8, <1>9 DEF Corresponds
  <1>12. \A n \in O : U[n] = T[r[n]]
    BY <1>0, <1>10, <1>11, SameText
  <1>13. ASSUME NEW u \in Thread PROVE TextOf(U, u)' = TextOf(T, u)
    <2>1. Root(u) \in Slot /\ Root(u) # Local(t)
      BY SlotFacts
    <2>2. ptr[Root(u)] # c
      BY <1>2, <2>1
    <2>3. CASE Root(u) = at[t]
      <3>1. ptr'[Root(u)] = c /\ ptr[Root(u)] = o /\ c # Null /\ o # Null
        BY <1>2, <1>3, <1>10, <2>3, SharingAssumption
      <3>2. U[c] = T[o]
        BY <1>2, <1>5, <1>12
      <3>. QED  BY <3>1, <3>2 DEF TextOf, HasRope, Root
    <2>4. CASE Root(u) # at[t]
      <3>1. ptr'[Root(u)] = ptr[Root(u)]
        BY <1>3, <2>1, <2>4
      <3>2. HasRope(u) => U[ptr[Root(u)]] = T[ptr[Root(u)]]
        BY <1>5, <1>6, <1>12, <2>1, <2>2 DEF HasRope
      <3>. QED  BY <3>1, <3>2, SameRoot
    <2>. QED  BY <2>3, <2>4
  <1>14. Values' = Values
    BY <1>13 DEF Compared, ValuesAre
  <1>. QED  BY <1>1, <1>14, OpenStep

LEMMA NewRopeStep ==
  ASSUME NEW T, NEW U, Compared(T, U), NEW t \in Thread, NewRope(t)
  PROVE  Clones!Next
  <1>0. IInv /\ IsText(U)'
    BY DEF Compared
  <1>1. PICK n \in Fresh, x \in Texts[t] :
          /\ ptr' = [ptr EXCEPT ![Root(t)] = n]
          /\ strong' = [strong EXCEPT ![n] = 1]
          /\ height' = [height EXCEPT ![n] = 0]
          /\ text' = [text EXCEPT ![n] = x]
    BY DEF NewRope
  <1>2. ~ HasRope(t) /\ pc' = pc
    BY DEF NewRope
  <1>3. n \in Node /\ strong[n] = 0 /\ n # Null
    BY <1>0, FreshFacts
  <1>4. /\ ptr'[Root(t)] = n
        /\ \A q \in Slot : q # Root(t) => ptr'[q] = ptr[q]
    BY <1>0, <1>1, SlotFacts DEF IInv, TypeOK
  <1>5. \A m \in Node : strong[m] > 0 => Kept(m)
    BY <1>0, <1>1, <1>3, <1>4, SlotFacts DEF Kept, IInv, TypeOK
  <1>6. U[n] = << x >>
    <2>1. height'[n] = 0 /\ text'[n] = x
      BY <1>0, <1>1, <1>3 DEF IInv, TypeOK
    <2>. QED  BY <1>0, <1>3, <2>1 DEF IsText
  <1>7. TextOf(U, t)' = << x >>
    BY <1>3, <1>4, <1>6 DEF TextOf, HasRope, Root
  <1>8. \A u \in Thread \ {t} : TextOf(U, u)' = TextOf(T, u)
    <2>1. \A u \in Thread \ {t} : ptr'[Root(u)] = ptr[Root(u)]
      BY <1>4, SlotFacts
    <2>. QED  BY <1>5, <2>1, AliveText, SameRoot
  <1>9. Values' = [Values EXCEPT ![t] = << x >>] /\ Values[t] = Null
    BY SMTT(60), <1>2, <1>7, <1>8, OneValue DEF TextOf
  <1>10. Clones!New(t)
    BY <1>2, <1>9 DEF Clones!New, Editing
  <1>. QED  BY <1>10 DEF Clones!Next

LEMMA DropRopeStep ==
  ASSUME NEW T, NEW U, Compared(T, U), NEW t \in Thread, DropRope(t)
  PROVE  Clones!Next
  <1>0. IInv
    BY DEF Compared
  <1>1. /\ HasRope(t) /\ pc[t] = "idle" /\ ptr' = [ptr EXCEPT ![Root(t)] = Null]
        /\ UNCHANGED <<height, text, pc>>
    BY DEF DropRope, Idle, Calm
  <1>2. /\ ptr'[Root(t)] = Null
        /\ \A q \in Slot : q # Root(t) => ptr'[q] = ptr[q]
    BY <1>0, <1>1, SlotFacts DEF IInv, TypeOK
  <1>3. \A m \in Node : Kept(m)
    BY <1>1, <1>2, SlotFacts DEF Kept
  <1>4. TextOf(U, t)' = Null
    BY <1>2 DEF TextOf, HasRope, Root
  <1>5. \A u \in Thread \ {t} : TextOf(U, u)' = TextOf(T, u)
    <2>1. \A u \in Thread \ {t} : ptr'[Root(u)] = ptr[Root(u)]
      BY <1>2, SlotFacts
    <2>. QED  BY <1>3, <2>1, AliveText, SameRoot
  <1>6. Values' = [Values EXCEPT ![t] = Null] /\ Values[t] # Null
    <2>1. TextOf(T, t) # Null
      BY <1>1 DEF Compared, ValuesAre
    <2>. QED  BY <1>4, <1>5, <2>1, OneValue
  <1>7. Clones!Drop(t)
    BY <1>1, <1>6 DEF Clones!Drop, Editing
  <1>. QED  BY <1>7 DEF Clones!Next

\* A node that no thread is changing has a text below it.
LEMMA SomeText ==
  ASSUME IInv, DataInv, NEW T, IsText(T), NEW n \in Node, strong[n] > 0,
         \A u \in Thread : n \notin Sole(u)
  PROVE  T[n] # <<>>
  <1>. DEFINE Settled(m) == strong[m] > 0 /\ \A u \in Thread : m \notin Sole(u)
              S == {k \in 0..MaxHeight :
                      \A m \in Node : Settled(m) /\ height[m] <= k => T[m] # <<>>}
  <1>0. /\ TypeOK /\ Layered /\ MaxHeight \in Nat
        /\ \A m \in Node : height[m] \in 0..MaxHeight
    BY SharingAssumption DEF IInv, TypeOK
  <1>1. \A m \in Node : height[m] = 0 => T[m] # <<>>
    BY DEF IsText
  <1>2. 0 \in S
    BY <1>0, <1>1
  <1>3. ASSUME NEW k \in 0..MaxHeight, k # MaxHeight, k \in S PROVE k + 1 \in S
    <2>1. ASSUME NEW m \in Node, Settled(m), height[m] <= k + 1, height[m] # 0
          PROVE  T[m] # <<>>
      <3>1. ChildrenOf(m) # {}
        BY <1>0, <2>1 DEF DataInv, Populated
      <3>2. PICK i \in Index : ptr[Child(m, i)] # Null
        BY <3>1 DEF ChildrenOf
      <3>. DEFINE c == ptr[Child(m, i)]
      <3>3. c \in Node /\ strong[c] > 0 /\ Child(m, i) \in Slot
        BY <3>2, SlotFacts, HeldFacts
      <3>4. \A u \in Thread : c \notin Sole(u)
        <4>1. ASSUME NEW u \in Thread
              PROVE  Child(m, i) \notin SlotsOf(u) /\ Child(m, i) # Local(u)
          <5>1. owned[u] \subseteq Node /\ m \notin owned[u]
            BY <1>0, <2>1 DEF TypeOK, Sole
          <5>. QED  BY <5>1, SlotFacts, SlotsOfMember
        <4>. QED  BY <3>3, <4>1, NotSole
      <3>5. height[c] <= k
        <4>1. height[m] = height[c] + 1
          BY <1>0, <3>2 DEF Layered
        <4>. QED  BY <1>0, <2>1, <3>3, <4>1
      <3>6. T[c] # <<>>
        BY <1>3, <3>3, <3>4, <3>5
      <3>7. PartOf(T[c], T[m], Piece) /\ T[c] \in Seq(Piece)
        BY <1>0, <3>2, <3>3, ChildPart DEF IsText
      <3>. QED  BY <3>6, <3>7, PartPieces
    <2>. HIDE DEF Settled
    <2>. QED  BY <1>0, <1>1, <1>3, <2>1
  <1>. HIDE DEF S, Settled
  <1>4. 0..MaxHeight \subseteq S
    BY <1>0, <1>2, <1>3, BoundedInduction
  <1>. QED  BY <1>0, <1>4 DEF S, Settled

\* What a slice refers to has a part of the rope's text.
LEMMA ChainText ==
  ASSUME IInv, NEW T, IsText(T), NEW t \in Thread, NEW k \in DOMAIN chain[t]
  PROVE  PartOf(T[chain[t][k]], T[ptr[Root(t)]], Piece)
  <1>. DEFINE s == chain[t]
              Has(l) == PartOf(T[s[l]], T[ptr[Root(t)]], Piece)
              S == {l \in 0..Len(s) : l # 0 => Has(l)}
  <1>0. /\ TypeOK /\ Layered /\ s \in Seq(Node) /\ Len(s) \in Nat /\ DOMAIN s = 1..Len(s)
        /\ \A m \in Node : T[m] \in Seq(Piece)
    <2>1. TypeOK /\ Layered /\ s \in Seq(Node)
      BY DEF IInv, TypeOK
    <2>2. Len(s) \in Nat /\ DOMAIN s = 1..Len(s)
      BY <2>1, LenProperties
    <2>3. \A m \in Node : T[m] \in Seq(Piece)
      BY DEF IsText
    <2>. QED  BY <2>1, <2>2, <2>3
  <1>1. 0 \in S
    BY <1>0
  <1>2. ASSUME NEW l \in 0..Len(s), l # Len(s), l \in S PROVE l + 1 \in S
    <2>1. l + 1 \in 1..Len(s) /\ l + 1 \in 0..Len(s) /\ s[l + 1] \in Node
      BY <1>0, <1>2
    <2>2. CASE l = 0
      <3>1. s[1] = ptr[Root(t)] /\ s[1] \in Node
        BY <1>0, <2>1, <2>2 DEF IInv, ThreadInv, ChainHangs
      <3>2. Has(1)
        BY <1>0, <3>1, PartOfConcat
      <3>. QED  BY <2>1, <2>2, <3>2
    <2>3. CASE l # 0
      <3>1. l \in 1..Len(s) /\ l + 1 \in 2..Len(s) /\ (l + 1) - 1 = l /\ s[l] \in Node
        BY <1>0, <1>2, <2>3
      <3>2. PICK i \in Index : ptr[Child(s[l], i)] = s[l + 1]
        BY <3>1 DEF IInv, ThreadInv, ChainHangs
      <3>3. PartOf(T[s[l + 1]], T[s[l]], Piece)
        BY <1>0, <2>1, <3>1, <3>2, ChildPart, SharingAssumption
      <3>4. Has(l)
        BY <1>2, <2>3
      <3>5. Has(l + 1)
        BY <1>0, <2>1, <3>3, <3>4, PartTransitive
      <3>. QED  BY <2>1, <3>5
    <2>. QED  BY <2>2, <2>3
  <1>. HIDE DEF S, Has
  <1>3. 0..Len(s) \subseteq S
    BY <1>0, <1>1, <1>2, BoundedInduction
  <1>. QED  BY <1>0, <1>3 DEF S, Has

LEMMA ShareStep ==
  ASSUME NEW T, NEW U, Compared(T, U), NEW t \in Thread, NEW u \in Thread \ {t}, Share(t, u)
  PROVE  Clones!Next
  <1>. DEFINE n == Last(chain[t])
              v == T[ptr[Root(t)]]
  <1>0. IInv /\ DataInv /\ IsText(T)
    BY DEF Compared
  <1>1. /\ Len(chain[t]) \in DOMAIN chain[t] /\ chain[t] # <<>>
        /\ n = chain[t][Len(chain[t])] /\ pc[t] = "idle" /\ ~ HasRope(u)
        /\ ptr' = [ptr EXCEPT ![Root(u)] = n]
        /\ UNCHANGED <<height, text, pc>>
    BY <1>0 DEF Share, IInv, TypeOK, ThreadInv, Control, Last
  <1>2. n \in Node /\ strong[n] > 0 /\ n # Null /\ \A w \in Thread : n \notin Sole(w)
    BY <1>0, <1>1, ChainFacts, SharingAssumption
  <1>3. HasRope(t) /\ ptr[Root(t)] \in Node
    <2>1. 1 \in DOMAIN chain[t] /\ chain[t][1] = ptr[Root(t)]
      BY <1>0, <1>1 DEF IInv, TypeOK, ThreadInv, ChainHangs
    <2>2. chain[t][1] \in Node
      BY <1>0, <2>1 DEF IInv, TypeOK
    <2>. QED  BY <2>1, <2>2, SharingAssumption DEF HasRope
  <1>4. /\ ptr'[Root(u)] = n
        /\ \A q \in Slot : q # Root(u) => ptr'[q] = ptr[q]
    BY <1>0, <1>1, SlotFacts DEF IInv, TypeOK
  <1>5. \A m \in Node : Kept(m)
    BY <1>1, <1>4, SlotFacts DEF Kept
  <1>6. TextOf(U, u)' = T[n]
    <2>1. U[n] = T[n]
      BY <1>2, <1>5, AliveText
    <2>. QED  BY <1>2, <1>4, <2>1 DEF TextOf, HasRope, Root
  <1>7. \A w \in Thread \ {u} : TextOf(U, w)' = TextOf(T, w)
    <2>1. \A w \in Thread \ {u} : ptr'[Root(w)] = ptr[Root(w)]
      BY <1>4, SlotFacts
    <2>. QED  BY <1>5, <2>1, AliveText, SameRoot
  <1>8. Values' = [Values EXCEPT ![u] = T[n]] /\ Values[u] = Null
    BY <1>1, <1>6, <1>7, OneValue DEF TextOf
  <1>9. Values[t] = v /\ v # Null
    BY <1>3 DEF Compared, ValuesAre, TextOf
  <1>10. \E i \in 1..Len(v) : \E j \in i..Len(v) : T[n] = SubSeq(v, i, j)
    <2>1. PartOf(T[n], v, Piece) /\ T[n] \in Seq(Piece)
      BY <1>0, <1>1, <1>2, ChainText DEF IsText
    <2>2. T[n] # <<>>
      BY <1>0, <1>2, SomeText
    <2>3. PICK x, y : x = T[n] /\ y = v
      OBVIOUS
    <2>. HIDE DEF v
    <2>4. x \in Seq(Piece) /\ x # <<>> /\ PartOf(x, y, Piece)
      BY <2>1, <2>2, <2>3
    <2>5. \E i \in 1..Len(y) : \E j \in i..Len(y) : x = SubSeq(y, i, j)
      BY <2>4, PartIsSubSeq
    <2>. QED  BY <2>3, <2>5
  <1>. HIDE DEF v, n
  <1>11. Clones!Part(t, u)
    BY <1>1, <1>8, <1>9, <1>10 DEF Clones!Part, Editing
  <1>. QED  BY <1>11 DEF Clones!Next

-----------------------------------------------------------------------------
(* The steps of an edit: pieces come from the rope, or are written *)

\* What a thread may mutate hangs from its rope's root.
LEMMA OwnedPieces ==
  ASSUME IInv, NEW T, IsText(T), NEW t \in Thread, pc[t] = "edit", NEW n \in owned[t]
  PROVE  PiecesOf(T[n]) \subseteq PiecesOf(T[ptr[Root(t)]])
  <1>. DEFINE v == T[ptr[Root(t)]]
              Has(m) == PartOf(T[m], v, Piece)
              S == {k \in 0..MaxHeight : \A m \in owned[t] : height[m] + k >= MaxHeight => Has(m)}
  <1>0. /\ TypeOK /\ Layered /\ MaxHeight \in Nat /\ owned[t] \subseteq Node
        /\ \A m \in Node : height[m] \in 0..MaxHeight /\ T[m] \in Seq(Piece)
    BY SharingAssumption DEF IInv, TypeOK, IsText
  <1>1. ASSUME NEW m \in owned[t], \A l \in owned[t] : height[l] = height[m] + 1 => Has(l)
        PROVE  Has(m)
    <2>1. m \in Node /\ T[m] \in Seq(Piece)
      BY <1>0
    <2>2. PICK s \in SlotsOf(t) : ptr[s] = m
      BY OwnedHere
    <2>3. CASE s = Root(t)
      <3>1. T[m] = v
        BY <2>2, <2>3
      <3>2. PartOf(T[m], T[m], Piece)
        BY <2>1, PartOfConcat
      <3>. QED  BY <3>1, <3>2
    <2>4. CASE s # Root(t)
      <3>1. PICK l \in owned[t], i \in Index : s = Child(l, i)
        BY <2>4, SlotsOfMember
      <3>2. l \in Node /\ ptr[Child(l, i)] = m /\ m # Null
        BY <1>0, <2>1, <2>2, <3>1, SharingAssumption
      <3>3. Has(l)
        <4>1. height[l] = height[m] + 1
          BY <1>0, <3>2 DEF Layered
        <4>. QED  BY <1>1, <4>1
      <3>4. PartOf(T[m], T[l], Piece)
        BY <1>0, <3>2, ChildPart
      <3>. HIDE DEF v
      <3>. QED  BY <2>1, <3>3, <3>4, PartTransitive
    <2>. QED  BY <2>3, <2>4
  <1>. HIDE DEF Has
  <1>2. 0 \in S
    <2>1. ASSUME NEW m \in owned[t], height[m] + 0 >= MaxHeight PROVE Has(m)
      <3>1. \A l \in owned[t] : height[l] # height[m] + 1
        BY <1>0, <2>1
      <3>. QED  BY <1>1, <3>1
    <2>. QED  BY <1>0, <2>1
  <1>3. ASSUME NEW k \in 0..MaxHeight, k # MaxHeight, k \in S PROVE k + 1 \in S
    <2>1. ASSUME NEW m \in owned[t], height[m] + (k + 1) >= MaxHeight PROVE Has(m)
      <3>1. \A l \in owned[t] : height[l] = height[m] + 1 => height[l] + k >= MaxHeight
        BY <1>0, <2>1
      <3>. QED  BY <1>1, <1>3, <3>1
    <2>. QED  BY <1>0, <1>3, <2>1
  <1>. HIDE DEF S
  <1>4. 0..MaxHeight \subseteq S
    BY <1>0, <1>2, <1>3, BoundedInduction
  <1>5. MaxHeight \in S /\ height[n] + MaxHeight >= MaxHeight
    BY <1>0, <1>4
  <1>6. Has(n)
    BY <1>5 DEF S
  <1>7. PartOf(T[n], v, Piece) /\ T[n] \in Seq(Piece)
    BY <1>0, <1>6 DEF Has
  <1>. QED  BY <1>7, PartPieces

\* The nodes below which there are pieces of X only.
Within(T, X) == {n \in Node : strong[n] > 0 /\ PiecesOf(T[n]) \subseteq X}

LEMMA WithinFacts ==
  ASSUME IInv, NEW T, IsText(T), NEW X
  PROVE  /\ \A n \in Within(T, X), i \in Index : ptr[Child(n, i)] \in Within(T, X) \cup {Null}
         /\ \A n \in Within(T, X) : height[n] = 0 => text[n] \in X
         /\ \A s \in Slot : ptr[s] # Null /\ PiecesOf(T[ptr[s]]) \subseteq X
                              => ptr[s] \in Within(T, X)
  <1>1. ASSUME NEW n \in Within(T, X), NEW i \in Index, ptr[Child(n, i)] # Null
        PROVE  ptr[Child(n, i)] \in Within(T, X)
    <2>1. n \in Node /\ PiecesOf(T[n]) \subseteq X /\ TypeOK /\ Layered /\ Child(n, i) \in Slot
      BY SlotFacts DEF Within, IInv
    <2>2. ptr[Child(n, i)] \in Node /\ strong[ptr[Child(n, i)]] > 0
      BY <1>1, <2>1, HeldFacts
    <2>3. PartOf(T[ptr[Child(n, i)]], T[n], Piece) /\ T[ptr[Child(n, i)]] \in Seq(Piece)
      BY <1>1, <2>1, <2>2, ChildPart DEF IsText
    <2>4. PiecesOf(T[ptr[Child(n, i)]]) \subseteq PiecesOf(T[n])
      BY <2>3, PartPieces
    <2>. QED  BY <2>1, <2>2, <2>4 DEF Within
  <1>2. ASSUME NEW n \in Within(T, X), height[n] = 0 PROVE text[n] \in X
    <2>1. T[n] = << text[n] >> /\ PiecesOf(T[n]) \subseteq X
      BY <1>2 DEF Within, IsText
    <2>2. text[n] \in PiecesOf(<< text[n] >>)
      <3>1. PICK x : x = text[n]
        OBVIOUS
      <3>2. 1 \in DOMAIN << x >> /\ << x >>[1] = x
        OBVIOUS
      <3>. QED  BY <3>1, <3>2 DEF PiecesOf
    <2>. QED  BY <2>1, <2>2
  <1>3. ASSUME NEW s \in Slot, ptr[s] # Null, PiecesOf(T[ptr[s]]) \subseteq X
        PROVE  ptr[s] \in Within(T, X)
    BY <1>3, HeldFacts DEF Within
  <1>. QED  BY <1>1, <1>2, <1>3

\* The nodes G refer after the step to none but each other, and the rope's root is
\* one of them.
Closed(t, G, X) ==
  /\ \A n \in G : height'[n] = 0 => text'[n] \in X
  /\ \A n \in G, i \in Index : ptr'[Child(n, i)] \in G \cup {Null}
  /\ ptr'[Root(t)] \in G

LEMMA ClosedText ==
  ASSUME NEW T, NEW U, Compared(T, U), NEW t \in Thread, NEW G \in SUBSET Node, NEW X,
         Closed(t, G, X)
  PROVE  /\ TextOf(U, t)' # Null
         /\ PiecesOf(TextOf(U, t)') \subseteq X
  <1>1. TypeOK' /\ Layered' /\ IsText(U)' /\ ValuesAre(U)'
    BY DEF Compared, IInv
  <1>2. \A n \in G : U[n] \in Seq(X)
    BY <1>1, Confined DEF Closed
  <1>3. ptr'[Root(t)] \in G /\ ptr'[Root(t)] # Null
    BY SharingAssumption DEF Closed
  <1>4. TextOf(U, t)' = U[ptr'[Root(t)]]
    BY <1>3 DEF TextOf, HasRope, Root
  <1>5. TextOf(U, t)' # Null
    BY <1>1, <1>3 DEF ValuesAre, HasRope, Root
  <1>6. \A s \in Seq(X) : PiecesOf(s) \subseteq X
    <2>1. ASSUME NEW s \in Seq(X) PROVE PiecesOf(s) \subseteq X
      <3>1. \A i \in DOMAIN s : s[i] \in X
        OBVIOUS
      <3>. QED  BY <3>1 DEF PiecesOf
    <2>. QED  BY <2>1
  <1>. QED  BY <1>2, <1>3, <1>4, <1>5, <1>6

LEMMA ChangeStep ==
  ASSUME NEW T, NEW U, Compared(T, U), NEW t \in Thread, Footprint(t), In(t, "edit"), pc' = pc,
         \A u \in Thread \ {t} : ptr'[Root(u)] = ptr[Root(u)],
         NEW X, X = PiecesOf(Values[t]) \cup Texts[t], NEW G \in SUBSET Node, Closed(t, G, X)
  PROVE  Clones!Next
  <1>1. TextOf(U, t)' # Null /\ PiecesOf(TextOf(U, t)') \subseteq X
    BY ClosedText
  <1>2. \A u \in Thread \ {t} : TextOf(U, u)' = TextOf(T, u)
    BY OthersText, SameRoot
  <1>3. Values' = [Values EXCEPT ![t] = Values'[t]] /\ Values'[t] = TextOf(U, t)'
    BY <1>2, OneValue
  <1>4. t \in Editing /\ Editing' = Editing
    BY DEF In, Editing
  <1>5. Clones!Change(t)
    BY <1>1, <1>3, <1>4 DEF Clones!Change, Clones!Pieces, PiecesOf
  <1>. QED  BY <1>5 DEF Clones!Next

\* What the steps of an edit start from: the nodes G hold pieces of X, and what the
\* thread may mutate is among them.
StartsWithin(t, G, X) ==
  /\ G \in SUBSET Node /\ ptr[Root(t)] \in G /\ owned[t] \subseteq G
  /\ \A n \in G : strong[n] > 0
  /\ \A n \in G, i \in Index : ptr[Child(n, i)] \in G \cup {Null}
  /\ \A n \in G : height[n] = 0 => text[n] \in X

LEMMA EditStart ==
  ASSUME NEW T, NEW U, Compared(T, U), NEW t \in Thread, In(t, "edit"),
         NEW X, NEW G, PiecesOf(Values[t]) \subseteq X, G = Within(T, X)
  PROVE  StartsWithin(t, G, X)
  <1>0. IInv /\ IsText(T)
    BY DEF Compared
  <1>1. ptr[Root(t)] # Null /\ Root(t) \in Slot /\ owned[t] \subseteq Node
    BY <1>0, EditFacts, SlotFacts
  <1>2. Values[t] = T[ptr[Root(t)]]
    BY <1>1 DEF Compared, ValuesAre, TextOf, HasRope
  <1>3. ptr[Root(t)] \in Within(T, X)
    BY <1>0, <1>1, <1>2, WithinFacts
  <1>4. ASSUME NEW n \in owned[t] PROVE n \in Within(T, X)
    <2>1. PiecesOf(T[n]) \subseteq X
      BY <1>0, <1>2, OwnedPieces DEF In
    <2>2. n \in Node /\ strong[n] > 0
      BY <1>0, EditFacts
    <2>. QED  BY <2>1, <2>2 DEF Within
  <1>5. \A n \in Within(T, X) : n \in Node /\ strong[n] > 0
    BY DEF Within
  <1>. QED  BY <1>0, <1>3, <1>4, <1>5, WithinFacts DEF StartsWithin

LEMMA WriteStep ==
  ASSUME NEW T, NEW U, Compared(T, U), NEW t \in Thread, Write(t), Footprint(t)
  PROVE  Clones!Next
  <1>0. IInv /\ In(t, "edit") /\ UNCHANGED <<ptr, height, pc>>
    BY DEF Compared, Write
  <1>1. PICK n \in owned[t], x \in Texts[t] : text' = [text EXCEPT ![n] = x]
    BY DEF Write
  <1>2. PICK X, G : /\ X = PiecesOf(Values[t]) \cup Texts[t] /\ PiecesOf(Values[t]) \subseteq X
                    /\ G = Within(T, X)
    OBVIOUS
  <1>3. /\ ptr[Root(t)] \in G /\ G \in SUBSET Node
        /\ \A m \in G, i \in Index : ptr[Child(m, i)] \in G \cup {Null}
        /\ \A m \in G : height[m] = 0 => text[m] \in X
    <2>1. StartsWithin(t, G, X)
      BY <1>0, <1>2, EditStart
    <2>. QED  BY <2>1 DEF StartsWithin
  <1>4. \A m \in Node : text'[m] \in {text[m], x}
    BY <1>0, <1>1 DEF IInv, TypeOK
  <1>5. Closed(t, G, X)
    BY <1>0, <1>2, <1>3, <1>4 DEF Closed
  <1>. QED  BY <1>0, <1>2, <1>3, <1>5, ChangeStep

LEMMA NewChildStep ==
  ASSUME NEW T, NEW U, Compared(T, U), NEW t \in Thread, NewChild(t), Footprint(t)
  PROVE  Clones!Next
  <1>0. IInv /\ In(t, "edit") /\ pc' = pc /\ owned[t] \subseteq Node
    BY EditFacts DEF Compared, NewChild
  <1>1. PICK n \in owned[t], i \in Index, m \in Fresh :
          /\ height[n] > 0 /\ FirstEmpty(n, i)
          /\ Sets(Child(n, i), m)
          /\ strong' = [strong EXCEPT ![m] = 1]
          /\ height' = [height EXCEPT ![m] = height[n] - 1]
          /\ owned' = [owned EXCEPT ![t] = owned[t] \cup {m}]
          /\ IF height[n] = 1 THEN \E x \in Texts[t] : text' = [text EXCEPT ![m] = x]
             ELSE text' = text
    BY DEF NewChild, Sets
  <1>2. PICK X, H, G : /\ X = PiecesOf(Values[t]) \cup Texts[t] /\ PiecesOf(Values[t]) \subseteq X
                       /\ H = Within(T, X) /\ G = H \cup {m}
    OBVIOUS
  <1>3. /\ ptr[Root(t)] \in H /\ H \in SUBSET Node /\ n \in H
        /\ \A k \in H : strong[k] > 0
        /\ \A k \in H, j \in Index : ptr[Child(k, j)] \in H \cup {Null}
        /\ \A k \in H : height[k] = 0 => text[k] \in X
    <2>1. StartsWithin(t, H, X)
      BY <1>0, <1>2, EditStart
    <2>. QED  BY <2>1 DEF StartsWithin
  <1>4. m \in Node /\ m \notin H /\ \A j \in Index : ptr[Child(m, j)] = Null
    BY <1>0, <1>3, FreshFacts
  <1>5. ptr'[Child(n, i)] = m /\ \A q \in Slot : q # Child(n, i) => ptr'[q] = ptr[q]
    BY <1>0, <1>1, SlotFacts DEF Sets, IInv, TypeOK
  <1>6. \A k \in H : height'[k] = height[k] /\ text'[k] = text[k]
    BY <1>0, <1>1, <1>3, <1>4 DEF IInv, TypeOK
  <1>7. height'[m] = 0 => text'[m] \in X
    <2>1. height'[m] = height[n] - 1 /\ height[n] \in Nat
      BY <1>0, <1>1, <1>4, SharingAssumption DEF IInv, TypeOK
    <2>2. height'[m] = 0 => \E x \in Texts[t] : text' = [text EXCEPT ![m] = x]
      BY <1>1, <2>1
    <2>. QED  BY <1>0, <1>2, <1>4, <2>2 DEF IInv, TypeOK
  <1>8. \A k \in G, j \in Index : ptr'[Child(k, j)] \in G \cup {Null}
    <2>1. \A q \in Slot : ptr'[q] \in {m, ptr[q]}
      BY <1>5
    <2>2. \A k \in G, j \in Index : Child(k, j) \in Slot /\ ptr[Child(k, j)] \in H \cup {Null}
      BY <1>2, <1>3, <1>4, SlotFacts
    <2>. QED  BY <1>2, <2>1, <2>2
  <1>9. \A u \in Thread : ptr'[Root(u)] = ptr[Root(u)]
    BY <1>0, <1>5, SlotFacts
  <1>10. Closed(t, G, X)
    BY <1>2, <1>3, <1>6, <1>7, <1>8, <1>9 DEF Closed
  <1>11. G \in SUBSET Node
    BY <1>2, <1>3, <1>4
  <1>. QED  BY <1>0, <1>2, <1>9, <1>10, <1>11, ChangeStep

LEMMA GrowRootStep ==
  ASSUME NEW T, NEW U, Compared(T, U), NEW t \in Thread, GrowRoot(t), Footprint(t)
  PROVE  Clones!Next
  <1>0. IInv /\ In(t, "edit") /\ pc' = pc /\ text' = text
    BY DEF Compared, GrowRoot
  <1>1. PICK m \in Fresh :
          /\ ptr' = [ptr EXCEPT ![Root(t)] = m, ![Child(m, 1)] = ptr[Root(t)]]
          /\ height' = [height EXCEPT ![m] = height[ptr[Root(t)]] + 1]
    BY DEF GrowRoot
  <1>2. PICK X, H, G : /\ X = PiecesOf(Values[t]) \cup Texts[t] /\ PiecesOf(Values[t]) \subseteq X
                       /\ H = Within(T, X) /\ G = H \cup {m}
    OBVIOUS
  <1>3. /\ ptr[Root(t)] \in H /\ H \in SUBSET Node
        /\ \A k \in H : strong[k] > 0
        /\ \A k \in H, j \in Index : ptr[Child(k, j)] \in H \cup {Null}
        /\ \A k \in H : height[k] = 0 => text[k] \in X
    <2>1. StartsWithin(t, H, X)
      BY <1>0, <1>2, EditStart
    <2>. QED  BY <2>1 DEF StartsWithin
  <1>4. /\ m \in Node /\ m \notin H /\ \A j \in Index : ptr[Child(m, j)] = Null
        /\ 1 \in Index
    BY <1>0, <1>3, FreshFacts, SharingAssumption DEF Index
  <1>5. /\ ptr'[Root(t)] = m /\ ptr'[Child(m, 1)] = ptr[Root(t)]
        /\ \A q \in Slot : q # Root(t) /\ q # Child(m, 1) => ptr'[q] = ptr[q]
    BY <1>0, <1>1, <1>4, SlotFacts DEF IInv, TypeOK
  <1>6. \A k \in H : height'[k] = height[k]
    BY <1>0, <1>1, <1>3, <1>4 DEF IInv, TypeOK
  <1>7. height'[m] # 0
    BY <1>0, <1>1, <1>3, <1>4, SharingAssumption DEF IInv, TypeOK
  <1>8. \A k \in G, j \in Index : ptr'[Child(k, j)] \in G \cup {Null}
    <2>1. \A q \in Slot : q # Root(t) => ptr'[q] \in {ptr[Root(t)], ptr[q]}
      BY <1>5
    <2>2. \A k \in G, j \in Index : /\ Child(k, j) \in Slot /\ Child(k, j) # Root(t)
                                   /\ ptr[Child(k, j)] \in H \cup {Null}
      BY ZenonT(60), <1>2, <1>3, <1>4, SlotFacts
    <2>. QED  BY ZenonT(60), <1>2, <1>3, <2>1, <2>2
  <1>9. \A u \in Thread \ {t} : ptr'[Root(u)] = ptr[Root(u)]
    BY <1>4, <1>5, SlotFacts
  <1>10. Closed(t, G, X)
    BY <1>0, <1>2, <1>3, <1>5, <1>6, <1>7, <1>8 DEF Closed
  <1>11. G \in SUBSET Node
    BY <1>2, <1>3, <1>4
  <1>. QED  BY <1>0, <1>2, <1>9, <1>10, <1>11, ChangeStep

LEMMA MoveChildStep ==
  ASSUME NEW T, NEW U, Compared(T, U), NEW t \in Thread, MoveChild(t), Footprint(t)
  PROVE  Clones!Next
  <1>0. IInv /\ In(t, "edit") /\ UNCHANGED <<height, text, pc>> /\ owned[t] \subseteq Node
    BY EditFacts DEF Compared, MoveChild
  <1>1. PICK n \in owned[t], m \in owned[t], i \in Index, j \in Index :
          ptr' = [ptr EXCEPT ![Child(m, j)] = ptr[Child(n, i)], ![Child(n, i)] = Null]
    BY DEF MoveChild
  <1>2. PICK X, G : /\ X = PiecesOf(Values[t]) \cup Texts[t] /\ PiecesOf(Values[t]) \subseteq X
                    /\ G = Within(T, X)
    OBVIOUS
  <1>3. /\ ptr[Root(t)] \in G /\ G \in SUBSET Node /\ n \in G
        /\ \A k \in G, l \in Index : ptr[Child(k, l)] \in G \cup {Null}
        /\ \A k \in G : height[k] = 0 => text[k] \in X
    <2>1. StartsWithin(t, G, X)
      BY <1>0, <1>2, EditStart
    <2>. QED  BY <2>1 DEF StartsWithin
  <1>4. \A q \in Slot : /\ ptr'[q] \in {ptr[q], ptr[Child(n, i)], Null}
                        /\ q # Child(m, j) /\ q # Child(n, i) => ptr'[q] = ptr[q]
    BY <1>0, <1>1 DEF IInv, TypeOK
  <1>5. \A u \in Thread : ptr'[Root(u)] = ptr[Root(u)]
    BY <1>0, <1>4, SlotFacts
  <1>6. \A k \in G, l \in Index : ptr'[Child(k, l)] \in G \cup {Null}
    BY <1>3, <1>4, SlotFacts
  <1>7. Closed(t, G, X)
    BY <1>0, <1>3, <1>5, <1>6 DEF Closed
  <1>. QED  BY <1>0, <1>2, <1>3, <1>5, <1>7, ChangeStep

LEMMA RemoveChildStep ==
  ASSUME NEW T, NEW U, Compared(T, U), NEW t \in Thread, RemoveChild(t), Footprint(t)
  PROVE  Clones!Next
  <1>0. IInv /\ In(t, "edit") /\ UNCHANGED <<height, text, pc>> /\ owned[t] \subseteq Node
    BY EditFacts DEF Compared, RemoveChild
  <1>1. PICK n \in owned[t], i \in Index : ptr' = [ptr EXCEPT ![Child(n, i)] = Null]
    BY DEF RemoveChild
  <1>2. PICK X, G : /\ X = PiecesOf(Values[t]) \cup Texts[t] /\ PiecesOf(Values[t]) \subseteq X
                    /\ G = Within(T, X)
    OBVIOUS
  <1>3. /\ ptr[Root(t)] \in G /\ G \in SUBSET Node
        /\ \A k \in G, l \in Index : ptr[Child(k, l)] \in G \cup {Null}
        /\ \A k \in G : height[k] = 0 => text[k] \in X
    <2>1. StartsWithin(t, G, X)
      BY <1>0, <1>2, EditStart
    <2>. QED  BY <2>1 DEF StartsWithin
  <1>4. \A q \in Slot : /\ ptr'[q] \in {ptr[q], Null}
                        /\ q # Child(n, i) => ptr'[q] = ptr[q]
    BY <1>0, <1>1 DEF IInv, TypeOK
  <1>5. \A u \in Thread : ptr'[Root(u)] = ptr[Root(u)]
    BY <1>0, <1>4, SlotFacts
  <1>6. \A k \in G, l \in Index : ptr'[Child(k, l)] \in G \cup {Null}
    BY <1>3, <1>4, SlotFacts
  <1>7. Closed(t, G, X)
    BY <1>0, <1>3, <1>5, <1>6 DEF Closed
  <1>. QED  BY <1>0, <1>2, <1>3, <1>5, <1>7, ChangeStep

LEMMA GraftStep ==
  ASSUME NEW T, NEW U, Compared(T, U), NEW t \in Thread, NEW u \in Thread \ {t}, Graft(t, u),
         Footprint(t)
  PROVE  Clones!Next
  <1>0. /\ IInv /\ IsText(T) /\ In(t, "edit") /\ UNCHANGED <<height, text, pc>>
        /\ owned[t] \subseteq Node /\ HasRope(u) /\ pc[u] = "idle"
    BY EditFacts DEF Compared, Graft, Idle, Calm
  <1>1. PICK n \in owned[t], i \in Index :
          ptr' = [ptr EXCEPT ![Child(n, i)] = ptr[Root(u)], ![Root(u)] = Null]
    BY DEF Graft
  <1>2. PICK X, G : /\ X = PiecesOf(Values[t]) \cup PiecesOf(Values[u])
                    /\ PiecesOf(Values[t]) \subseteq X /\ G = Within(T, X)
    OBVIOUS
  <1>3. /\ ptr[Root(t)] \in G /\ G \in SUBSET Node
        /\ \A k \in G, l \in Index : ptr[Child(k, l)] \in G \cup {Null}
        /\ \A k \in G : height[k] = 0 => text[k] \in X
    <2>1. StartsWithin(t, G, X)
      BY <1>0, <1>2, EditStart
    <2>. QED  BY <2>1 DEF StartsWithin
  <1>4. ptr[Root(u)] \in G
    <2>1. Values[u] = T[ptr[Root(u)]]
      BY <1>0 DEF Compared, ValuesAre, TextOf
    <2>2. Root(u) \in Slot /\ ptr[Root(u)] # Null /\ PiecesOf(T[ptr[Root(u)]]) \subseteq X
      BY <1>0, <1>2, <2>1, SlotFacts DEF HasRope
    <2>. QED  BY <1>0, <1>2, <2>2, WithinFacts
  <1>5. /\ ptr'[Root(u)] = Null
        /\ \A q \in Slot : /\ ptr'[q] \in {ptr[q], ptr[Root(u)], Null}
                           /\ q # Child(n, i) /\ q # Root(u) => ptr'[q] = ptr[q]
    BY <1>0, <1>1, SlotFacts DEF IInv, TypeOK
  <1>6. \A w \in Thread \ {u} : ptr'[Root(w)] = ptr[Root(w)]
    BY <1>0, <1>5, SlotFacts
  <1>7. \A k \in G, l \in Index : ptr'[Child(k, l)] \in G \cup {Null}
    BY <1>3, <1>4, <1>5, SlotFacts
  <1>8. Closed(t, G, X)
    BY <1>0, <1>3, <1>6, <1>7 DEF Closed
  <1>9. TextOf(U, t)' # Null /\ PiecesOf(TextOf(U, t)') \subseteq X
    BY <1>3, <1>8, ClosedText
  <1>10. TextOf(U, u)' = Null
    BY <1>5 DEF TextOf, HasRope, Root
  <1>11. \A w \in Thread \ {t, u} : TextOf(U, w)' = TextOf(T, w)
    BY <1>6, OthersText, SameRoot
  <1>12. Values' = [Values EXCEPT ![t] = Values'[t], ![u] = Null] /\ Values'[t] = TextOf(U, t)'
         /\ Values[u] # Null
    <2>1. /\ Values' = [w \in Thread |-> TextOf(U, w)'] /\ Values = [w \in Thread |-> TextOf(T, w)]
          /\ TextOf(T, u) # Null
      BY <1>0 DEF Compared, ValuesAre
    <2>. QED  BY <1>10, <1>11, <2>1
  <1>13. t \in Editing /\ u \notin Editing /\ Editing' = Editing
    BY <1>0 DEF In, Editing
  <1>14. Clones!Take(t, u)
    BY <1>2, <1>9, <1>12, <1>13 DEF Clones!Take, Clones!Pieces, PiecesOf
  <1>. QED  BY <1>14 DEF Clones!Next

-----------------------------------------------------------------------------
(* The refinement *)

LEMMA ActsStep ==
  ASSUME NEW T, NEW U, Compared(T, U), NEW t \in Thread, Acts(t)
  PROVE  [Clones!Next]_(Clones!vars)
  <1>0. Footprint(t)
    BY ActsFootprint DEF Compared
  <1>1. ASSUME NEW u \in Thread \ {t}, StepWith(t, u) PROVE Clones!Next
    BY <1>0, <1>1, ShareStep, GraftStep DEF StepWith
  <1>2. ASSUME Step(t) PROVE Unseen \/ Clones!Next
    <2>1. CASE NewRope(t) \/ DropRope(t)
      BY <2>1, NewRopeStep, DropRopeStep
    <2>2. CASE TakeSlice(t) \/ NarrowSlice(t) \/ EndSlice(t) \/ StartEdit(t) \/ EndPullUp(t)
      BY <2>2, StillUnseen
    <2>3. CASE MakeMut(t) \/ InPlace(t) \/ EndEdit(t) \/ EndCopy(t)
      BY <2>3, MakeMutStep, EndCopyStep
    <2>4. CASE StartCopy(t) \/ CopyText(t) \/ CopyChild(t)
      BY <2>4, StartCopyUnseen, CopyTextUnseen, CopyChildUnseen
    <2>5. CASE Write(t) \/ NewChild(t) \/ MoveChild(t) \/ RemoveChild(t) \/ GrowRoot(t)
      BY <1>0, <2>5, WriteStep, NewChildStep, MoveChildStep, RemoveChildStep, GrowRootStep
    <2>6. CASE CloneOnlyChild(t) \/ SetRoot(t)
      BY <2>6, CloneOnlyChildUnseen, SetRootUnseen
    <2>7. CASE Destroy(t)
      BY <2>7, DestroyUnseen
    <2>. QED  BY <1>2, <2>1, <2>2, <2>3, <2>4, <2>5, <2>6, <2>7 DEF Step
  <1>. QED  BY <1>1, <1>2, UnseenStep DEF Acts

LEMMA StutterUnseen ==
  ASSUME NEW T, NEW U, Compared(T, U), UNCHANGED vars
  PROVE  Unseen
  <1>1. ptr' = ptr /\ height' = height /\ text' = text /\ pc' = pc
    BY DEF vars
  <1>2. Values' = Values
    BY <1>1, KeptValues DEF Kept
  <1>. QED  BY <1>1, <1>2 DEF Unseen, Editing

LEMMA InitStep ==
  ASSUME Init
  PROVE  Clones!Init
  <1>1. \A t \in Thread : ~ HasRope(t)
    BY SlotFacts DEF Init, HasRope
  <1>2. Values = [t \in Thread |-> Null]
    BY <1>1 DEF Values
  <1>3. Editing = {}
    BY DEF Init, Editing
  <1>. QED  BY <1>2, <1>3 DEF Clones!Init

LEMMA NextStep ==
  ASSUME IInv, IInv', DataInv, [Next]_vars
  PROVE  [Clones!Next]_(Clones!vars)
  <1>1. PICK T, U : Compared(T, U)
    BY ComparedExist
  <1>2. CASE UNCHANGED vars
    BY <1>1, <1>2, StutterUnseen, UnseenStep
  <1>3. ASSUME NEW t \in Thread, Acts(t) PROVE [Clones!Next]_(Clones!vars)
    BY <1>1, <1>3, ActsStep
  <1>. QED  BY <1>2, <1>3 DEF Next, Acts

\* Clones are values of their own, however many threads there are and however their
\* steps interleave: a thread's rope changes in its own edits only, to pieces that
\* it had, that it took from a rope by value, or that were written; a clone is, when
\* it is made, the text or a part of the text of the rope that it was cloned from;
\* and copying, pulling up and destroying nodes changes no rope's text.
THEOREM Refinement == Spec => ImplementsClones
  <1>1. Init => Clones!Init
    BY InitStep
  <1>2. IInv /\ IInv' /\ DataInv /\ [Next]_vars => [Clones!Next]_(Clones!vars)
    BY NextStep
  <1>3. Spec => [](IInv /\ DataInv)
    BY DataKept
  <1>. QED  BY <1>1, <1>2, <1>3, PTL DEF Spec, ImplementsClones, Clones!Spec
=============================================================================
