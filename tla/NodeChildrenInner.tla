-------------------------- MODULE NodeChildrenInner --------------------------
(***************************************************************************)
(* The unsafe core of a child array (mod inner of tree/node_children.rs):  *)
(* two arrays of MaybeUninit slots, nodes and info, that share a length.   *)
(* Nothing drops the Arc in a MaybeUninit slot by itself, and ptr::read    *)
(* and ptr::copy duplicate it bit by bit, so the methods alone decide who  *)
(* owns which reference.                                                   *)
(*                                                                         *)
(* An Arc value is a reference of its own to a node: Arc::clone makes a    *)
(* new one to the same node.  alive is the set of the references that are  *)
(* counted and not dropped yet; a bit copy of one stays the same value.    *)
(***************************************************************************)
EXTENDS Integers, FiniteSets, Sequences

CONSTANTS
  Arrays,    (* the arrays of the program.                                 *)
  Node,      (* the allocations an Arc may refer to.                       *)
  RefId,     (* tells the references to one node from each other.          *)
  Info,      (* the text infos.                                            *)
  MAX_LEN,   (* the capacity of an array.                                  *)
  Uninit,    (* the content of a slot nobody wrote.                        *)
  MaxHand    (* bound: the items a caller holds at a time.                 *)

Arc  == Node \X RefId
Item == Info \X Arc

\* The length is stored in a u8.
ASSUME CapacityAssumption == MAX_LEN \in 1..255
ASSUME UninitAssumption == Uninit \notin Arc /\ Uninit \notin Info

VARIABLES
  live,   \* the arrays that exist
  nodes,  \* the slots of each array that hold its references
  info,   \* the slots of each array that hold their infos
  len,    \* the length the two share
  hand,   \* the items that the calling code holds
  alive   \* the references that were created and not dropped

vars == <<live, nodes, info, len, hand, alive>>

Slots == 0..(MAX_LEN - 1)

Blank == [i \in Slots |-> Uninit]

\* ptr::copy and copy_within: n slots from src on are copied to dst on.
CopyWithin(s, src, dst, n) ==
  [i \in Slots |-> IF i \in dst..(dst + n - 1) THEN s[i - dst + src] ELSE s[i]]

\* The slots with v written to slot i.
Written(s, i, v) == [k \in Slots |-> IF k = i THEN v ELSE s[k]]

ItemAt(a, i) == <<info[a][i], nodes[a][i]>>

\* The slots of an array that hold its items.
Used(a) == IF a \in live THEN {i \in Slots : i < len[a]} ELSE {}

-----------------------------------------------------------------------------
(* The methods.  Their asserts are guards: a call that fails one panics    *)
(* before it has changed anything.                                         *)

New(a) ==
  /\ a \notin live
  /\ live'  = live \cup {a}
  /\ nodes' = [nodes EXCEPT ![a] = Blank]
  /\ info'  = [info EXCEPT ![a] = Blank]
  /\ len'   = [len EXCEPT ![a] = 0]
  /\ UNCHANGED <<hand, alive>>

\* Mutant: without the capacity assert.
PushUnchecked(a, it) ==
  /\ a \in live /\ it \in hand
  /\ info'  = [info EXCEPT ![a] = Written(info[a], len[a], it[1])]
  /\ nodes' = [nodes EXCEPT ![a] = Written(nodes[a], len[a], it[2])]
  /\ len'   = [len EXCEPT ![a] = len[a] + 1]
  /\ hand'  = hand \ {it}
  /\ UNCHANGED <<live, alive>>

Push(a, it) ==
  /\ a \in live /\ it \in hand
  /\ len[a] < MAX_LEN
  /\ info'  = [info EXCEPT ![a] = Written(info[a], len[a], it[1])]
  /\ nodes' = [nodes EXCEPT ![a] = Written(nodes[a], len[a], it[2])]
  /\ len'   = [len EXCEPT ![a] = len[a] + 1]
  /\ hand'  = hand \ {it}
  /\ UNCHANGED <<live, alive>>

\* The slots keep what they held; only the length says it is gone.
Pop(a) ==
  /\ a \in live
  /\ len[a] > 0
  /\ len'  = [len EXCEPT ![a] = len[a] - 1]
  /\ hand' = hand \cup {ItemAt(a, len[a] - 1)}
  /\ UNCHANGED <<live, nodes, info, alive>>

\* The slots with room made at idx, and v put there.
Shifted(s, idx, n, v) == Written(CopyWithin(s, idx, idx + 1, n - idx), idx, v)

\* Mutant: without the assert that idx is not past the end.
InsertPastEnd(a, idx, it) ==
  /\ a \in live /\ it \in hand
  /\ len[a] < MAX_LEN
  /\ nodes' = [nodes EXCEPT ![a] = Shifted(nodes[a], idx, len[a], it[2])]
  /\ info'  = [info EXCEPT ![a] = Shifted(info[a], idx, len[a], it[1])]
  /\ len'   = [len EXCEPT ![a] = len[a] + 1]
  /\ hand'  = hand \ {it}
  /\ UNCHANGED <<live, alive>>

\* Mutant: the infos are not shifted with the nodes.
InsertInfoInPlace(a, idx, it) ==
  /\ a \in live /\ it \in hand
  /\ idx <= len[a]
  /\ len[a] < MAX_LEN
  /\ nodes' = [nodes EXCEPT ![a] = Shifted(nodes[a], idx, len[a], it[2])]
  /\ info'  = [info EXCEPT ![a] = Written(info[a], idx, it[1])]
  /\ len'   = [len EXCEPT ![a] = len[a] + 1]
  /\ hand'  = hand \ {it}
  /\ UNCHANGED <<live, alive>>

Insert(a, idx, it) ==
  /\ a \in live /\ it \in hand
  /\ idx <= len[a]
  /\ len[a] < MAX_LEN
  /\ nodes' = [nodes EXCEPT ![a] = Shifted(nodes[a], idx, len[a], it[2])]
  /\ info'  = [info EXCEPT ![a] = Shifted(info[a], idx, len[a], it[1])]
  /\ len'   = [len EXCEPT ![a] = len[a] + 1]
  /\ hand'  = hand \ {it}
  /\ UNCHANGED <<live, alive>>

\* Mutant: one slot too few is moved.
ClosedShort(s, idx, n) == CopyWithin(s, idx + 1, idx, n - idx - 2)

\* The slots with those after idx moved back over it.
Closed(s, idx, n) == CopyWithin(s, idx + 1, idx, n - idx - 1)

Remove(a, idx) ==
  /\ a \in live
  /\ len[a] > 0
  /\ idx < len[a]
  /\ nodes' = [nodes EXCEPT ![a] = Closed(nodes[a], idx, len[a])]
  /\ info'  = [info EXCEPT ![a] = Closed(info[a], idx, len[a])]
  /\ len'   = [len EXCEPT ![a] = len[a] - 1]
  /\ hand'  = hand \cup {ItemAt(a, idx)}
  /\ UNCHANGED <<live, alive>>

\* Mutant: the destructor drops every slot that was ever written.
DroppedStale(a) == {nodes[a][i] : i \in Slots} \ {Uninit}

\* Mutant: the destructor misses the last slot in use.
DroppedShort(a) == {nodes[a][i] : i \in {k \in Used(a) : k + 1 \in Used(a)}}

\* The references that the destructor of an array drops.
Dropped(a) == {nodes[a][i] : i \in Used(a)}

Drop(a) ==
  /\ a \in live
  /\ live'  = live \ {a}
  /\ alive' = alive \ Dropped(a)
  /\ nodes' = [nodes EXCEPT ![a] = Blank]
  /\ info'  = [info EXCEPT ![a] = Blank]
  /\ len'   = [len EXCEPT ![a] = 0]
  /\ UNCHANGED hand

\* New references to the nodes of array a, one for each of its slots in use.
ClonedRefs(a) ==
  {r \in [Used(a) -> Arc \ alive] :
     /\ \A i \in Used(a) : r[i][1] = nodes[a][i][1]
     /\ \A i, j \in Used(a) : r[i] = r[j] => i = j}

Clone(a, b) ==
  /\ a \in live /\ b \notin live
  /\ \E refs \in ClonedRefs(a) :
       /\ nodes' = [nodes EXCEPT ![b] =
                      [i \in Slots |-> IF i \in Used(a) THEN refs[i] ELSE Uninit]]
       /\ alive' = alive \cup {refs[i] : i \in Used(a)}
  /\ info' = [info EXCEPT ![b] =
                [i \in Slots |-> IF i \in Used(a) THEN info[a][i] ELSE Uninit]]
  /\ len'  = [len EXCEPT ![b] = len[a]]
  /\ live' = live \cup {b}
  /\ UNCHANGED hand

-----------------------------------------------------------------------------
(* The code that calls them *)

\* References to nodes that no other reference is to.
NewRefs == {r \in Arc : \A q \in alive : q[1] # r[1]}

\* Arc::new
NewItem(it) ==
  /\ Cardinality(hand) < MaxHand
  /\ it[2] \in NewRefs
  /\ hand'  = hand \cup {it}
  /\ alive' = alive \cup {it[2]}
  /\ UNCHANGED <<live, nodes, info, len>>

\* The caller drops an item that a method gave it.
DropItem(it) ==
  /\ it \in hand
  /\ hand'  = hand \ {it}
  /\ alive' = alive \ {it[2]}
  /\ UNCHANGED <<live, nodes, info, len>>

\* Arc::make_mut on a child, then its info is updated: a node that another
\* reference is to is copied, and the slot's reference replaced.
Edit(a, i, inf) ==
  /\ i \in Used(a)
  /\ info' = [info EXCEPT ![a] = Written(info[a], i, inf)]
  /\ \/ /\ \A q \in alive : q[1] = nodes[a][i][1] => q = nodes[a][i]
        /\ UNCHANGED <<nodes, alive>>
     \/ /\ \E q \in alive : q[1] = nodes[a][i][1] /\ q # nodes[a][i]
        /\ \E r \in NewRefs :
             /\ nodes' = [nodes EXCEPT ![a] = Written(nodes[a], i, r)]
             /\ alive' = (alive \ {nodes[a][i]}) \cup {r}
  /\ UNCHANGED <<live, len, hand>>

Init ==
  /\ live  = {}
  /\ nodes = [a \in Arrays |-> Blank]
  /\ info  = [a \in Arrays |-> Blank]
  /\ len   = [a \in Arrays |-> 0]
  /\ hand  = {}
  /\ alive = {}

Next ==
  \/ \E a \in Arrays : New(a) \/ Drop(a)
  \/ \E a \in Arrays, it \in Item : Push(a, it)
  \/ \E a \in Arrays, it \in Item, idx \in Slots : Insert(a, idx, it)
  \/ \E a \in Arrays : Cardinality(hand) < MaxHand /\ Pop(a)
  \/ \E a \in Arrays, idx \in Slots : Cardinality(hand) < MaxHand /\ Remove(a, idx)
  \/ \E a, b \in Arrays : Clone(a, b)
  \/ \E it \in Item : NewItem(it) \/ DropItem(it)
  \/ \E a \in Arrays, i \in Slots, inf \in Info : Edit(a, i, inf)

Spec == Init /\ [][Next]_vars

-----------------------------------------------------------------------------
(* Properties *)

\* The state has its shape: slots that are not in use may hold anything that
\* was once written there.
TypeOK ==
  /\ live \subseteq Arrays
  /\ nodes \in [Arrays -> [Slots -> Arc \cup {Uninit}]]
  /\ info \in [Arrays -> [Slots -> Info \cup {Uninit}]]
  /\ len \in [Arrays -> 0..MAX_LEN]
  /\ hand \subseteq Item
  /\ alive \subseteq Arc

\* "The nodes from 0..len must be initialized": whatever was shifted, the
\* slots that the transmutes of the accessors expose hold a node reference
\* and an info.
UsedInitialized ==
  \A a \in Arrays : \A i \in Used(a) : nodes[a][i] # Uninit /\ info[a][i] # Uninit

\* No reference has two owners: each one in a used slot or in an item of the
\* caller is in no other, so that none is ever dropped twice.
OwnedOnce ==
  /\ \A a, b \in Arrays : \A i \in Used(a), j \in Used(b) :
       nodes[a][i] = nodes[b][j] => a = b /\ i = j
  /\ \A a \in Arrays : \A i \in Used(a), it \in hand : nodes[a][i] # it[2]
  /\ \A it1, it2 \in hand : it1[2] = it2[2] => it1 = it2

\* No dangling reference: what an owner holds has not been dropped.
NothingDangles ==
  /\ \A a \in Arrays : \A i \in Used(a) : nodes[a][i] \in alive
  /\ \A it \in hand : it[2] \in alive

\* No leak: what has not been dropped still has an owner that will drop it.
NothingLeaks ==
  \A r \in alive :
    \/ \E a \in Arrays : \E i \in Used(a) : nodes[a][i] = r
    \/ \E it \in hand : it[2] = r

\* The array is a vector of items: infos and nodes keep their pairing and
\* their order under shifts, and one array never changes another.
ItemsOf(a) == [i \in 1..len[a] |-> ItemAt(a, i - 1)]

Vector == INSTANCE ChildSeq WITH vecs <- [a \in Arrays |-> ItemsOf(a)]

ImplementsVector == Vector!Spec
=============================================================================
