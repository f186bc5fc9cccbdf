------------------------------- MODULE Cursor -------------------------------
(***************************************************************************)
(* What the documentation of iter.rs promises of every iterator: a cursor  *)
(* between the items of a sequence.  next gives the item after the cursor  *)
(* and moves past it, prev the one before; reverse swaps the two.          *)
(***************************************************************************)
EXTENDS Integers, Sequences

VARIABLES
  items,        \* the chunks, bytes, chars or lines
  start,        \* the items before the place that was asked for
  pos,          \* the items before the cursor
  is_reversed,
  out           \* the last call's result, a sequence of at most one item

Init ==
  /\ start \in 0..Len(items)
  /\ pos = start
  /\ is_reversed = FALSE
  /\ out = <<>>

Forward ==
  \/ /\ pos < Len(items)
     /\ pos' = pos + 1
     /\ out' = <<items[pos + 1]>>
  \/ pos = Len(items) /\ pos' = pos /\ out' = <<>>

Backward ==
  \/ /\ pos > 0
     /\ pos' = pos - 1
     /\ out' = <<items[pos]>>
  \/ pos = 0 /\ pos' = pos /\ out' = <<>>

NextItem == (IF is_reversed THEN Backward ELSE Forward) /\ UNCHANGED is_reversed
PrevItem == (IF is_reversed THEN Forward ELSE Backward) /\ UNCHANGED is_reversed

Reverse == is_reversed' = ~ is_reversed /\ UNCHANGED <<pos, out>>

Next == (NextItem \/ PrevItem \/ Reverse) /\ UNCHANGED <<items, start>>

Spec == Init /\ [][Next]_<<items, start, pos, is_reversed, out>>
=============================================================================
