------------------------------ MODULE ChildSeq ------------------------------
(***************************************************************************)
(* What the inner module of node_children.rs promises of its array type:   *)
(* it is a vector of at most MAX_LEN items, each a node reference and the  *)
(* info stored with it.  An item is in one vector, or in the hands of the  *)
(* code that calls the methods, and nowhere else.                          *)
(***************************************************************************)
EXTENDS Integers, Sequences

CONSTANTS
  Arrays,    (* the arrays of the program.                                 *)
  Node,      (* the allocations an Arc may refer to.                       *)
  RefId,     (* tells the references to one node from each other.          *)
  Info,      (* the text infos.                                            *)
  MAX_LEN,   (* the capacity of an array.                                  *)
  MaxHand    (* bound: the items a caller holds at a time.                 *)

VARIABLES
  vecs,  \* the items of each array
  hand   \* the items the caller holds

vars == <<vecs, hand>>

Arc  == Node \X RefId
Item == Info \X Arc

Take(s, n) == SubSeq(s, 1, n)
Drop(s, n) == SubSeq(s, n + 1, Len(s))

Becomes(a, s) == vecs' = [vecs EXCEPT ![a] = s]

PutAt(a, n, it) ==
  /\ it \in hand
  /\ Len(vecs[a]) < MAX_LEN
  /\ Becomes(a, Take(vecs[a], n) \o <<it>> \o Drop(vecs[a], n))
  /\ hand' = hand \ {it}

TakeAt(a, n) ==
  /\ Becomes(a, Take(vecs[a], n) \o Drop(vecs[a], n + 1))
  /\ hand' = hand \cup {vecs[a][n + 1]}

\* Item n is replaced, the others stay.
ReplaceAt(a, n, it) == Becomes(a, [vecs[a] EXCEPT ![n + 1] = it]) /\ UNCHANGED hand

\* b is given references of its own to the nodes of a.
Clone(a, b) ==
  /\ \E s \in [1..Len(vecs[a]) -> Arc] :
       /\ \A i \in DOMAIN s : s[i][1] = vecs[a][i][2][1]
       /\ Becomes(b, [i \in 1..Len(vecs[a]) |-> <<vecs[a][i][1], s[i]>>])
  /\ UNCHANGED hand

Init == vecs = [a \in Arrays |-> <<>>] /\ hand = {}

Next ==
  \/ \E it \in Item : hand' \in {hand \cup {it}, hand \ {it}} /\ UNCHANGED vecs
  \/ \E a \in Arrays :
       \/ \E it \in hand, n \in 0..Len(vecs[a]) : PutAt(a, n, it)
       \/ \E n \in 0..(Len(vecs[a]) - 1) : TakeAt(a, n)
       \/ \E n \in 0..(Len(vecs[a]) - 1), it \in Item : ReplaceAt(a, n, it)
       \/ Becomes(a, <<>>) /\ UNCHANGED hand
       \/ \E b \in Arrays \ {a} : Clone(a, b)

Spec == Init /\ [][Next]_vars
=============================================================================
