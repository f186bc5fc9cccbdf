------------------------------- MODULE Sharing -------------------------------
(***************************************************************************)
(* Threads with a rope each, whose trees share nodes.  A reference to a    *)
(* node (an Arc) is in a slot: the root of a rope, a local of a thread, or *)
(* a child of a node.  A step is one access to a reference count: Arc's    *)
(* own code and the loops over children around it are not atomic.          *)
(*                                                                         *)
(* The edits themselves are the subject of Rope.  Here an edit is any      *)
(* sequence of the things that the code does to nodes it may mutate.       *)
(***************************************************************************)
EXTENDS Naturals, Sequences, FiniteSets

CONSTANTS
  Thread, Node, Null,
  Texts,         (* what each thread writes into leaves.                   *)
  MAX_CHILDREN,
  MaxHeight      (* the bound on the height of a tree.                     *)

ASSUME SharingAssumption ==
  /\ IsFiniteSet(Thread) /\ IsFiniteSet(Node)
  /\ Thread \cap Node = {} /\ Null \notin Node /\ \A t \in Thread : Null \notin Texts[t]
  /\ Null \notin Seq((UNION {Texts[t] : t \in Thread}) \cup {Null})
  /\ MAX_CHILDREN \in Nat \ {0} /\ MaxHeight \in Nat

VARIABLES
  ptr,     \* the reference in each slot
  strong,  \* the reference count of each node
  height,  \* of each node; a leaf has 0
  text,    \* of each leaf
  pc,      \* what each thread does next
  at,      \* the slot that a thread calls make_mut on
  owned,   \* the nodes that a thread may mutate
  dying,   \* the nodes that a thread is destroying, the innermost last
  chain    \* the nodes down to the one that a slice of the rope refers to

vars == <<ptr, strong, height, text, pc, at, owned, dying, chain>>

Root(t)     == <<t, "root">>
Local(t)    == <<t, "local">>
Child(n, i) == <<n, i>>
Index       == 1..MAX_CHILDREN
ChildSlot   == Node \X Index
Slot        == (Thread \X {"root", "local"}) \cup ChildSlot

Last(s) == s[Len(s)]

\* The memory that may be allocated.  Addresses are all the same to the code:
\* one of them stands for each.
Free  == {n \in Node : /\ strong[n] = 0
                       /\ \A t \in Thread : \A k \in DOMAIN dying[t] : dying[t][k] # n}
Fresh == {n \in Node : Free # {} /\ n = CHOOSE m \in Free : TRUE}

\* Drop for Arc: who takes the count to zero destroys the node.
Released(t, n) ==
  /\ strong' = [strong EXCEPT ![n] = strong[n] - 1]
  /\ dying' = [dying EXCEPT ![t] = IF strong[n] = 1 THEN Append(dying[t], n) ELSE dying[t]]

HasRope(t) == ptr[Root(t)] # Null

\* A thread that is between calls, or in one but not in a destructor.
Calm(t) == pc[t] = "idle" /\ dying[t] = <<>>
Idle(t) == Calm(t) /\ chain[t] = <<>>
In(t, where) == pc[t] = where /\ dying[t] = <<>>

ChildrenOf(n) == {i \in Index : ptr[Child(n, i)] # Null}

\* The first place in a node that has no child.
FirstEmpty(n, i) == i \notin ChildrenOf(n) /\ \A j \in 1..(i - 1) : j \in ChildrenOf(n)

-----------------------------------------------------------------------------
(* Ropes and slices *)

\* Rope::new, from_str
NewRope(t) ==
  /\ Idle(t) /\ ~ HasRope(t)
  /\ \E n \in Fresh, x \in Texts[t] :
       /\ ptr' = [ptr EXCEPT ![Root(t)] = n]
       /\ strong' = [strong EXCEPT ![n] = 1]
       /\ height' = [height EXCEPT ![n] = 0]
       /\ text' = [text EXCEPT ![n] = x]
  /\ UNCHANGED <<pc, at, owned, dying, chain>>

\* slice: a plain reference to a node, that is not counted.
TakeSlice(t) ==
  /\ Idle(t) /\ HasRope(t)
  /\ chain' = [chain EXCEPT ![t] = << ptr[Root(t)] >>]
  /\ UNCHANGED <<ptr, strong, height, text, pc, at, owned, dying>>

\* The loop of new_with_range that goes down to the lowest node.
NarrowSlice(t) ==
  /\ chain[t] # <<>>
  /\ \E i \in Index :
       /\ ptr[Child(Last(chain[t]), i)] # Null
       /\ chain' = [chain EXCEPT ![t] = Append(chain[t], ptr[Child(Last(chain[t]), i)])]
  /\ UNCHANGED <<ptr, strong, height, text, pc, at, owned, dying>>

EndSlice(t) ==
  /\ chain[t] # <<>>
  /\ chain' = [chain EXCEPT ![t] = <<>>]
  /\ UNCHANGED <<ptr, strong, height, text, pc, at, owned, dying>>

\* Rope::clone, and From<RopeSlice>, which clones the slice's node; the new
\* rope is sent to another thread.
Share(t, u) ==
  /\ chain[t] # <<>> /\ Idle(u) /\ ~ HasRope(u)
  /\ ptr' = [ptr EXCEPT ![Root(u)] = Last(chain[t])]
  /\ strong' = [strong EXCEPT ![Last(chain[t])] = strong[Last(chain[t])] + 1]
  /\ UNCHANGED <<height, text, pc, at, owned, dying, chain>>

\* A rope is borrowed by its slices, and cannot be dropped or edited then.
DropRope(t) ==
  /\ Idle(t) /\ HasRope(t)
  /\ ptr' = [ptr EXCEPT ![Root(t)] = Null]
  /\ Released(t, ptr[Root(t)])
  /\ UNCHANGED <<height, text, pc, at, owned, chain>>

-----------------------------------------------------------------------------
(* Arc::make_mut *)

StartEdit(t) ==
  /\ Idle(t) /\ HasRope(t)
  /\ pc' = [pc EXCEPT ![t] = "make_mut"]
  /\ at' = [at EXCEPT ![t] = Root(t)]
  /\ UNCHANGED <<ptr, strong, height, text, owned, dying, chain>>

\* Mutant: below a node that may be mutated, any other may be.
MakeMutTrusting(t) ==
  /\ In(t, "edit")
  /\ \E n \in owned[t], i \in Index :
       /\ ptr[Child(n, i)] # Null
       /\ owned' = [owned EXCEPT ![t] = owned[t] \cup {ptr[Child(n, i)]}]
  /\ UNCHANGED <<ptr, strong, height, text, pc, at, dying, chain>>

\* make_mut(&mut children.nodes_mut()[i]), of a node that may be mutated.
MakeMut(t) ==
  /\ In(t, "edit")
  /\ \E n \in owned[t], i \in Index :
       /\ ptr[Child(n, i)] # Null /\ ptr[Child(n, i)] \notin owned[t]
       /\ at' = [at EXCEPT ![t] = Child(n, i)]
  /\ pc' = [pc EXCEPT ![t] = "make_mut"]
  /\ UNCHANGED <<ptr, strong, height, text, owned, dying, chain>>

\* Mutant: every node is mutated in place.
IsUniqueAlways(n) == TRUE

\* Whether a node may be mutated in place.
IsUnique(n) == strong[n] = 1

InPlace(t) ==
  /\ In(t, "make_mut") /\ IsUnique(ptr[at[t]])
  /\ owned' = [owned EXCEPT ![t] = owned[t] \cup {ptr[at[t]]}]
  /\ pc' = [pc EXCEPT ![t] = "edit"]
  /\ at' = [at EXCEPT ![t] = Root(t)]
  /\ UNCHANGED <<ptr, strong, height, text, dying, chain>>

\* Mutant: the original is released before it is copied.
StartCopyReleased(t) ==
  /\ In(t, "make_mut") /\ ~ IsUnique(ptr[at[t]])
  /\ \E m \in Fresh :
       /\ ptr' = [ptr EXCEPT ![Local(t)] = m]
       /\ strong' = [strong EXCEPT ![m] = 1, ![ptr[at[t]]] = strong[ptr[at[t]]] - 1]
       /\ height' = [height EXCEPT ![m] = height[ptr[at[t]]]]
  /\ pc' = [pc EXCEPT ![t] = "copy"]
  /\ UNCHANGED <<text, at, owned, dying, chain>>

StartCopy(t) ==
  /\ In(t, "make_mut") /\ ~ IsUnique(ptr[at[t]])
  /\ \E m \in Fresh :
       /\ ptr' = [ptr EXCEPT ![Local(t)] = m]
       /\ strong' = [strong EXCEPT ![m] = 1]
       /\ height' = [height EXCEPT ![m] = height[ptr[at[t]]]]
  /\ pc' = [pc EXCEPT ![t] = "copy"]
  /\ UNCHANGED <<text, at, owned, dying, chain>>

\* Clone for NodeText.
CopyText(t) ==
  /\ In(t, "copy") /\ height[ptr[at[t]]] = 0 /\ text[ptr[Local(t)]] = Null
  /\ text' = [text EXCEPT ![ptr[Local(t)]] = text[ptr[at[t]]]]
  /\ UNCHANGED <<ptr, strong, height, pc, at, owned, dying, chain>>

Copied(t, i) == ptr[Child(ptr[Local(t)], i)] = ptr[Child(ptr[at[t]], i)]

\* Mutant: references are copied as memory.
CopyChildUncounted(t) ==
  /\ In(t, "copy")
  /\ \E i \in Index :
       /\ ~ Copied(t, i) /\ \A j \in 1..(i - 1) : Copied(t, j)
       /\ ptr' = [ptr EXCEPT ![Child(ptr[Local(t)], i)] = ptr[Child(ptr[at[t]], i)]]
  /\ UNCHANGED <<strong, height, text, pc, at, owned, dying, chain>>

\* Clone for NodeChildrenInternal, which clones one reference after the other.
CopyChild(t) ==
  /\ In(t, "copy")
  /\ \E i \in Index :
       /\ ~ Copied(t, i) /\ \A j \in 1..(i - 1) : Copied(t, j)
       /\ ptr' = [ptr EXCEPT ![Child(ptr[Local(t)], i)] = ptr[Child(ptr[at[t]], i)]]
       /\ strong' = [strong EXCEPT ![ptr[Child(ptr[at[t]], i)]] =
                       strong[ptr[Child(ptr[at[t]], i)]] + 1]
  /\ UNCHANGED <<height, text, pc, at, owned, dying, chain>>

\* The copy replaces the reference to the original.
EndCopy(t) ==
  /\ In(t, "copy")
  /\ \A i \in Index : Copied(t, i)
  /\ height[ptr[at[t]]] = 0 => text[ptr[Local(t)]] # Null
  /\ owned' = [owned EXCEPT ![t] = owned[t] \cup {ptr[Local(t)]}]
  /\ ptr' = [ptr EXCEPT ![at[t]] = ptr[Local(t)], ![Local(t)] = Null]
  /\ Released(t, ptr[at[t]])
  /\ pc' = [pc EXCEPT ![t] = "edit"]
  /\ at' = [at EXCEPT ![t] = Root(t)]
  /\ UNCHANGED <<height, text, chain>>

-----------------------------------------------------------------------------
(* What the tree operations do to nodes that they may mutate *)

\* An edit of a leaf's text.
Write(t) ==
  /\ In(t, "edit")
  /\ \E n \in owned[t], x \in Texts[t] :
       /\ height[n] = 0 /\ x # text[n]
       /\ text' = [text EXCEPT ![n] = x]
  /\ UNCHANGED <<ptr, strong, height, pc, at, owned, dying, chain>>

\* A residual of a split, Arc::new(Node::..), is inserted.
NewChild(t) ==
  /\ In(t, "edit")
  /\ \E n \in owned[t], i \in Index, m \in Fresh :
       /\ height[n] > 0 /\ FirstEmpty(n, i)
       /\ ptr' = [ptr EXCEPT ![Child(n, i)] = m]
       /\ strong' = [strong EXCEPT ![m] = 1]
       /\ height' = [height EXCEPT ![m] = height[n] - 1]
       /\ owned' = [owned EXCEPT ![t] = owned[t] \cup {m}]
       /\ IF height[n] = 1 THEN \E x \in Texts[t] : text' = [text EXCEPT ![m] = x]
          ELSE text' = text
  /\ UNCHANGED <<pc, at, dying, chain>>

\* A child goes to another place, in its node or in one of the same level.
MoveChild(t) ==
  /\ In(t, "edit")
  /\ \E n, m \in owned[t], i, j \in Index :
       /\ height[n] = height[m]
       /\ ptr[Child(n, i)] # Null /\ FirstEmpty(m, j)
       /\ ptr' = [ptr EXCEPT ![Child(m, j)] = ptr[Child(n, i)], ![Child(n, i)] = Null]
  /\ UNCHANGED <<strong, height, text, pc, at, owned, dying, chain>>

\* A node that an edit is done with has children, without a gap among them.
Complete(n) == height[n] > 0 => \E len \in Index : ChildrenOf(n) = 1..len

\* children.remove(i), whose result is dropped: what was borrowed from it, or
\* from others of its level, is not any more.
RemoveChild(t) ==
  /\ In(t, "edit")
  /\ \E n \in owned[t], i \in Index :
       /\ ptr[Child(n, i)] # Null
       /\ \A m \in owned[t] : height[m] < height[n] /\ m # ptr[Child(n, i)] => Complete(m)
       /\ ptr' = [ptr EXCEPT ![Child(n, i)] = Null]
       /\ Released(t, ptr[Child(n, i)])
       /\ owned' = [owned EXCEPT ![t] = {m \in owned[t] : height[m] >= height[n]}]
  /\ UNCHANGED <<height, text, pc, at, chain>>

\* The root of another rope, that was taken by value, becomes a child.
Graft(t, u) ==
  /\ In(t, "edit") /\ Idle(u) /\ HasRope(u)
  /\ \E n \in owned[t], i \in Index :
       /\ height[n] = height[ptr[Root(u)]] + 1 /\ FirstEmpty(n, i)
       /\ ptr' = [ptr EXCEPT ![Child(n, i)] = ptr[Root(u)], ![Root(u)] = Null]
  /\ UNCHANGED <<strong, height, text, pc, at, owned, dying, chain>>

\* The root was split: a new one is put above it.
GrowRoot(t) ==
  /\ In(t, "edit") /\ ptr[Root(t)] \in owned[t] /\ height[ptr[Root(t)]] < MaxHeight
  /\ \E m \in Fresh :
       /\ ptr' = [ptr EXCEPT ![Root(t)] = m, ![Child(m, 1)] = ptr[Root(t)]]
       /\ strong' = [strong EXCEPT ![m] = 1]
       /\ height' = [height EXCEPT ![m] = height[ptr[Root(t)]] + 1]
       /\ owned' = [owned EXCEPT ![t] = owned[t] \cup {m}]
  /\ UNCHANGED <<text, pc, at, dying, chain>>

EndEdit(t) ==
  /\ In(t, "edit")
  /\ \A n \in owned[t] : Complete(n)
  /\ owned' = [owned EXCEPT ![t] = {}]
  /\ pc' = [pc EXCEPT ![t] = "pull_up"]
  /\ UNCHANGED <<ptr, strong, height, text, at, dying, chain>>

\* pull_up_singular_nodes: the only child is cloned out of the root, ...
CloneOnlyChild(t) ==
  /\ In(t, "pull_up")
  /\ \E i \in Index :
       /\ ChildrenOf(ptr[Root(t)]) = {i}
       /\ ptr' = [ptr EXCEPT ![Local(t)] = ptr[Child(ptr[Root(t)], i)]]
       /\ strong' = [strong EXCEPT ![ptr[Child(ptr[Root(t)], i)]] =
                       strong[ptr[Child(ptr[Root(t)], i)]] + 1]
  /\ pc' = [pc EXCEPT ![t] = "set_root"]
  /\ UNCHANGED <<height, text, at, owned, dying, chain>>

\* Mutant: the old root is not dropped.
SetRootForgets(t) ==
  /\ In(t, "set_root")
  /\ ptr' = [ptr EXCEPT ![Root(t)] = ptr[Local(t)], ![Local(t)] = Null]
  /\ pc' = [pc EXCEPT ![t] = "pull_up"]
  /\ UNCHANGED <<strong, height, text, at, owned, dying, chain>>

\* ... and assigned to it.
SetRoot(t) ==
  /\ In(t, "set_root")
  /\ ptr' = [ptr EXCEPT ![Root(t)] = ptr[Local(t)], ![Local(t)] = Null]
  /\ Released(t, ptr[Root(t)])
  /\ pc' = [pc EXCEPT ![t] = "pull_up"]
  /\ UNCHANGED <<height, text, at, owned, chain>>

EndPullUp(t) ==
  /\ In(t, "pull_up") /\ \A i \in Index : ChildrenOf(ptr[Root(t)]) # {i}
  /\ pc' = [pc EXCEPT ![t] = "idle"]
  /\ UNCHANGED <<ptr, strong, height, text, at, owned, dying, chain>>

-----------------------------------------------------------------------------
(* Destructors *)

\* Drop for NodeChildrenInternal, one child after the other.
DropChild(t) ==
  /\ dying[t] # <<>>
  /\ \E i \in Index :
       /\ ptr[Child(Last(dying[t]), i)] # Null
       /\ \A j \in 1..(i - 1) : ptr[Child(Last(dying[t]), j)] = Null
       /\ ptr' = [ptr EXCEPT ![Child(Last(dying[t]), i)] = Null]
       /\ Released(t, ptr[Child(Last(dying[t]), i)])
  /\ UNCHANGED <<height, text, pc, at, owned, chain>>

\* Mutant: the children that are left are forgotten.
DeallocShallow(t) ==
  /\ dying[t] # <<>>
  /\ text' = [text EXCEPT ![Last(dying[t])] = Null]
  /\ height' = [height EXCEPT ![Last(dying[t])] = 0]
  /\ dying' = [dying EXCEPT ![t] = SubSeq(dying[t], 1, Len(dying[t]) - 1)]
  /\ UNCHANGED <<ptr, strong, pc, at, owned, chain>>

Dealloc(t) ==
  /\ dying[t] # <<>> /\ ChildrenOf(Last(dying[t])) = {}
  /\ text' = [text EXCEPT ![Last(dying[t])] = Null]
  /\ height' = [height EXCEPT ![Last(dying[t])] = 0]
  /\ dying' = [dying EXCEPT ![t] = SubSeq(dying[t], 1, Len(dying[t]) - 1)]
  /\ UNCHANGED <<ptr, strong, pc, at, owned, chain>>

Destroy(t) == DropChild(t) \/ Dealloc(t)

-----------------------------------------------------------------------------
Init ==
  /\ ptr = [s \in Slot |-> Null]
  /\ strong = [n \in Node |-> 0]
  /\ height = [n \in Node |-> 0]
  /\ text = [n \in Node |-> Null]
  /\ pc = [t \in Thread |-> "idle"]
  /\ at = [t \in Thread |-> Root(t)]
  /\ owned = [t \in Thread |-> {}]
  /\ dying = [t \in Thread |-> <<>>]
  /\ chain = [t \in Thread |-> <<>>]

Step(t) ==
  \/ NewRope(t) \/ TakeSlice(t) \/ NarrowSlice(t) \/ EndSlice(t) \/ DropRope(t)
  \/ StartEdit(t) \/ MakeMut(t) \/ InPlace(t)
  \/ StartCopy(t) \/ CopyText(t) \/ CopyChild(t) \/ EndCopy(t)
  \/ Write(t) \/ NewChild(t) \/ MoveChild(t) \/ RemoveChild(t) \/ GrowRoot(t)
  \/ EndEdit(t) \/ CloneOnlyChild(t) \/ SetRoot(t) \/ EndPullUp(t)
  \/ Destroy(t)

StepWith(t, u) == Share(t, u) \/ Graft(t, u)

Next == \E t \in Thread : Step(t) \/ \E u \in Thread \ {t} : StepWith(t, u)

Spec == Init /\ [][Next]_vars

-----------------------------------------------------------------------------
(* Properties *)

TypeOK ==
  /\ ptr \in [Slot -> Node \cup {Null}]
  /\ strong \in [Node -> Nat]
  /\ height \in [Node -> 0..MaxHeight]
  /\ text \in [Node -> (UNION {Texts[t] : t \in Thread}) \cup {Null}]
  /\ pc \in [Thread -> {"idle", "make_mut", "copy", "edit", "pull_up", "set_root"}]
  /\ at \in [Thread -> Slot]
  /\ owned \in [Thread -> SUBSET Node]
  /\ dying \in [Thread -> Seq(Node)]
  /\ chain \in [Thread -> Seq(Node)]

Holders(n) == {s \in Slot : ptr[s] = n}

\* A node's count is the number of references to it, whoever holds them, at
\* every point of every thread's calls.
CountsExact == \A n \in Node : strong[n] = Cardinality(Holders(n))

\* A node is destroyed by one thread, once, when nothing refers to it any more,
\* and memory that is free holds no reference.
FreedOnce ==
  /\ \A t \in Thread : \A k \in DOMAIN dying[t] :
       /\ strong[dying[t][k]] = 0
       /\ \A u \in Thread : \A l \in DOMAIN dying[u] :
            dying[t][k] = dying[u][l] => t = u /\ k = l
  /\ \A n \in Free : \A i \in Index : ptr[Child(n, i)] = Null

\* The references of a thread to its rope and to the nodes it may mutate.
SlotsOf(t) == {Root(t)} \cup (owned[t] \X Index)

\* A node that a thread may mutate is in no other tree, nor twice in its own: a
\* count of one, once read, stays true while the thread goes on below the node.
OwnedAlone ==
  /\ \A t \in Thread : \A n \in owned[t] : \E s \in SlotsOf(t) : Holders(n) = {s}
  /\ \A t, u \in Thread : t # u => owned[t] \cap owned[u] = {}

\* What a slice refers to without a count, and what make_mut is copying, stays in
\* place, and is mutated by nobody meanwhile.
ReadersSafe ==
  /\ \A t \in Thread : chain[t] # <<>> => chain[t][1] = ptr[Root(t)]
  /\ \A t \in Thread : \A k \in 2..Len(chain[t]) :
       \E i \in Index : ptr[Child(chain[t][k - 1], i)] = chain[t][k]
  /\ \A t, u \in Thread : \A k \in DOMAIN chain[t] : chain[t][k] \notin owned[u]
  /\ \A t, u \in Thread : pc[t] = "copy" => ptr[at[t]] \notin owned[u]

\* The nodes that can be reached from nodes ns down to h levels below.
Reached(ns) ==
  LET upTo[h \in 0..MaxHeight] ==
        IF h = 0 THEN ns
        ELSE upTo[h - 1] \cup ({ptr[Child(n, i)] : n \in upTo[h - 1], i \in Index} \ {Null})
  IN  upTo[MaxHeight]

\* Every node that is not free belongs to a rope, or to a call that will drop it.
NothingLeaks ==
  Node \ Free = Reached(({ptr[Root(t)] : t \in Thread} \cup {ptr[Local(t)] : t \in Thread}
                            \cup {n \in Node : \E t \in Thread : \E k \in DOMAIN dying[t] :
                                                 dying[t][k] = n}) \ {Null})

-----------------------------------------------------------------------------
(* Clones as values *)

Concat(seqs) ==
  LET upTo[k \in 0..Len(seqs)] == IF k = 0 THEN <<>> ELSE upTo[k - 1] \o seqs[k]
  IN  upTo[Len(seqs)]

\* The texts of the leaves below a node.
TextBelow(n) ==
  LET below[h \in 0..MaxHeight] ==
        [m \in Node \cup {Null} |->
           IF m = Null THEN <<>>
           ELSE IF h = 0 \/ height[m] = 0 THEN << text[m] >>
           ELSE Concat([i \in Index |-> below[h - 1][ptr[Child(m, i)]]])]
  IN  below[MaxHeight][n]

\* The text of each thread's rope.
Values == [t \in Thread |-> IF HasRope(t) THEN TextBelow(ptr[Root(t)]) ELSE Null]

\* Only in a mutation of its nodes is a rope open to change.
Editing == {t \in Thread : pc[t] = "edit"}

Clones == INSTANCE Clones WITH value <- Values, open <- Editing

\* README.md, design/design.md: clones may be sent to other threads for reading and
\* writing.  A rope's text changes when its own thread edits it, never by what is
\* done to a clone, and copying nodes changes none.
ImplementsClones == Clones!Spec
=============================================================================
