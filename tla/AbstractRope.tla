---------------------------- MODULE AbstractRope ----------------------------
(***************************************************************************)
(* What the documentation of Rope promises of its editing methods: a rope  *)
(* is a sequence of chars, and an edit at char indices is that edit of the *)
(* sequence, however the rope stores it.                                   *)
(***************************************************************************)
EXTENDS Integers, Sequences

CONSTANTS
  Handles,  (* the rope variables of the program.                          *)
  Texts     (* the texts it inserts and builds ropes from.                 *)

VARIABLES
  content,  \* the chars of each rope
  call      \* the last call and its arguments

Take(t, n) == SubSeq(t, 1, n)
Drop(t, n) == SubSeq(t, n + 1, Len(t))

\* The call of a step; it is named first so that only its arguments are tried.
Asks(op) == call'.op = op

Holds(h, t) == content' = [content EXCEPT ![h] = t]

Build(h) ==
  /\ Asks("from_str")
  /\ \E t \in Texts :
       /\ call' = [op |-> "from_str", rope |-> h, text |-> t]
       /\ Holds(h, t)

Insert(h) ==
  /\ Asks("insert")
  /\ \E at \in 0..Len(content[h]), t \in Texts :
       /\ call' = [op |-> "insert", rope |-> h, at |-> at, text |-> t]
       /\ Holds(h, Take(content[h], at) \o t \o Drop(content[h], at))

RemoveChars(h) ==
  /\ Asks("remove")
  /\ \E s \in 0..Len(content[h]) : \E e \in s..Len(content[h]) :
       /\ call' = [op |-> "remove", rope |-> h, from |-> s, to |-> e]
       /\ Holds(h, Take(content[h], s) \o Drop(content[h], e))

SplitOff(h, g) ==
  /\ Asks("split_off")
  /\ \E at \in 0..Len(content[h]) :
       /\ call' = [op |-> "split_off", rope |-> h, at |-> at, other |-> g]
       /\ content' = [content EXCEPT ![h] = Take(content[h], at),
                                     ![g] = Drop(content[h], at)]

\* Appending consumes the other rope.
AppendTo(h, g) ==
  /\ call' = [op |-> "append", rope |-> h, other |-> g]
  /\ content' = [content EXCEPT ![h] = content[h] \o content[g], ![g] = <<>>]

Clone(h, g) ==
  /\ call' = [op |-> "clone", rope |-> h, other |-> g]
  /\ Holds(g, content[h])

FromSlice(h, g) ==
  /\ Asks("from_slice")
  /\ \E s \in 0..Len(content[h]) : \E e \in s..Len(content[h]) :
       /\ call' = [op |-> "from_slice", rope |-> h, from |-> s, to |-> e, other |-> g]
       /\ Holds(g, Drop(Take(content[h], e), s))

ShrinkToFit(h) ==
  /\ call' = [op |-> "shrink_to_fit", rope |-> h]
  /\ UNCHANGED content

Init == content \in [Handles -> Texts \cup {<<>>}] /\ call = [op |-> "none"]

Next ==
  \E h \in Handles :
    \/ Build(h) \/ Insert(h) \/ RemoveChars(h) \/ ShrinkToFit(h)
    \/ \E g \in Handles : FromSlice(h, g)
    \/ \E g \in Handles \ {h} : SplitOff(h, g) \/ AppendTo(h, g) \/ Clone(h, g)

Spec == Init /\ [][Next]_<<content, call>>
=============================================================================
