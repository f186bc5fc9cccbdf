------------------------------ MODULE NodeEdits ------------------------------
(***************************************************************************)
(* One node's part in the edits of tree/node.rs: what edit_chunk_at_char   *)
(* and remove_char_range do to a leaf, and to an internal node once its    *)
(* child is done.  How they go down a tree is in module Tree.              *)
(***************************************************************************)
EXTENDS NodeChildren

-----------------------------------------------------------------------------
(* edit_chunk_at_char: an edit is the closure given to it.                 *)
(*   "text": Rope::insert_internal's first closure.  At the start of a     *)
(*           chunk other than the first, a leading LF is not inserted but  *)
(*           left for the chunk before (result seam).                      *)
(*   "lf":   its second closure, which pushes that LF onto the chunk;      *)
(*           left is what remained of the inserted text.                   *)
(* A result has the edited node, its info, a residual (the right sibling   *)
(* when the node was split, as a sequence of at most one child) and seam.  *)

TextEdit(t, atStart) == [kind |-> "text", text |-> t, atStart |-> atStart]
LfEdit(left)         == [kind |-> "lf", left |-> left]

\* Mutant: a leading LF is inserted like any other text.
StripsNoSeam(e, idx) == FALSE

StripsSeam(e, idx) == idx = 0 /\ ~ e.atStart /\ e.text[1] = LF

\* Mutant: an insertion into the middle of a CRLF adds no line break.
InsertedInfoJoinsOnly(info, t, b, s) ==
  LET joinsL == CrLines /\ b > 0 /\ t[b] = CR /\ s[1] = LF
      joinsR == CrLines /\ b < Len(t) /\ s[Len(s)] = CR /\ t[b + 1] = LF
  IN  AddBreaks(InfoAdd(info, InfoFromStr(s)),
                0 - (IF joinsL THEN 1 ELSE 0) - (IF joinsR THEN 1 ELSE 0))

\* Summary of t with s inserted at byte b, from the summaries of the two.
InsertedInfo(info, t, b, s) ==
  LET splits  == CrLines /\ b > 0 /\ b < Len(t) /\ t[b] = CR /\ t[b + 1] = LF
      joinsL  == CrLines /\ b > 0 /\ t[b] = CR /\ s[1] = LF
      joinsR  == CrLines /\ b < Len(t) /\ s[Len(s)] = CR /\ t[b + 1] = LF
      delta   == (IF splits THEN 1 ELSE 0) - (IF joinsL THEN 1 ELSE 0)
                   - (IF joinsR THEN 1 ELSE 0)
  IN  AddBreaks(InfoAdd(info, InfoFromStr(s)), delta)

\* Mutant: the CR before counts as a line break whatever the features.
PushedLfInfoCr(info, t) ==
  [info EXCEPT !.bytes = @ + 1, !.chars = @ + 1,
               !.line_breaks = @ + (IF t[Len(t)] = CR THEN 0 ELSE 1)]

PushedLfInfo(info, t) ==
  LET broken == CrLines /\ t[Len(t)] = CR
  IN  [info EXCEPT !.bytes = @ + 1, !.chars = @ + 1,
                   !.line_breaks = @ + (IF broken THEN 0 ELSE 1)]

SplitInTwo(halves, seam) ==
  [node |-> Leaf(halves[1]), info |-> InfoFromStr(halves[1]), seam |-> seam,
   residual |-> IF halves[2] = <<>> THEN <<>> ELSE <<Child(Leaf(halves[2]))>>]

SplitLeaf(t, b, s, seam) == SplitInTwo(InsertStrSplit(t, b, s), seam)

\* A leaf text with s inserted at byte b, split when it would be too large.
InsertInLeaf(t, b, s, info, seam) ==
  IF Len(t) + Len(s) > MAX_BYTES /\ s # <<>> THEN SplitLeaf(t, b, s, seam)
  ELSE [node |-> Leaf(InsertStr(t, b, s)), residual |-> <<>>, seam |-> seam,
        info |-> IF s = <<>> THEN info ELSE InsertedInfo(info, t, b, s)]

EditLeafText(t, idx, info, e) ==
  IF StripsSeam(e, idx) THEN InsertInLeaf(t, 0, Tail(e.text), info, TRUE)
  ELSE InsertInLeaf(t, CharToByteIdx(t, idx), e.text, info, FALSE)

\* Mutant: the LF is pushed whatever the size of the leaf.
EditLeafLfUnchecked(t, info, e) ==
  [node |-> Leaf(Append(t, LF)), info |-> PushedLfInfo(info, t),
   residual |-> <<>>, seam |-> FALSE]

EditLeafLf(t, info, e) ==
  IF Len(t) + Len(e.left) <= MAX_BYTES
  THEN [node |-> Leaf(Append(t, LF)), info |-> PushedLfInfo(info, t),
        residual |-> <<>>, seam |-> FALSE]
  ELSE SplitLeaf(t, Len(t), <<LF>>, FALSE)

FragMinBytes == (MAX_BYTES * MIN_CHILDREN) + (MAX_BYTES \div 32)

\* The compaction that guards against fragmentation before an edit.
Compacted(c) ==
  IF Len(c) = MAX_CHILDREN /\ c[1].node.leaf /\ CombinedInfo(c).bytes < FragMinBytes
  THEN CompactLeaves(c) ELSE c

\* The child that an edit or a removal leaves.
Edited(r) == [info |-> r.info, node |-> r.node]

\* The node split in two by a residual that it has no room for.
SplitEdit(r, halves) ==
  [r EXCEPT !.node     = Internal(halves[1]),
            !.info     = CombinedInfo(halves[1]),
            !.residual = <<Child(Internal(halves[2]))>>]

\* The node of children c after the edit r of child i, which is in place; the
\* residual goes in after it.
AddResidual(c, i, r, info) ==
  CASE r.residual = <<>> -> [r EXCEPT !.node = Internal(c), !.info = info]
    [] r.residual # <<>> /\ Len(c) < MAX_CHILDREN ->
         [r EXCEPT !.node = Internal(InsertAt(c, i + 1, r.residual[1])),
                   !.info = InfoAdd(info, r.residual[1].info),
                   !.residual = <<>>]
    [] r.residual # <<>> /\ Len(c) >= MAX_CHILDREN ->
         SplitEdit(r, InsertSplit(c, i + 1, r.residual[1]))

AfterChildEdit(c, i, info, r) ==
  AddResidual([c EXCEPT ![i] = Edited(r)], i, r,
              InfoAdd(InfoSub(info, c[i].info), r.info))

-----------------------------------------------------------------------------
(* remove_char_range: the result has the node, its info, whether the seam  *)
(* may split a CRLF and whether fix_tree_seam must follow.                 *)

\* Summary of t without its bytes a..b, from that of t when less is removed
\* than kept.
RemovedInfo(info, t, a, b) ==
  LET endCut   == b < Len(t) /\ t[b] = CR /\ t[b + 1] = LF
      startCR  == a > 0 /\ t[a] = CR
      startCut == startCR /\ t[a + 1] = LF
      joins    == startCR /\ b < Len(t) /\ t[b + 1] = LF
      delta    == (IF endCut THEN 1 ELSE 0) + (IF startCut THEN 1 ELSE 0)
                    - (IF joins THEN 1 ELSE 0)
  IN  IF b - a < Len(t) - (b - a)
      THEN AddBreaks(InfoSub(info, InfoFromStr(Slice(t, a, b))),
                     IF CrLines THEN delta ELSE 0)
      ELSE InfoFromStr(RemoveRange(t, a, b))

RemoveBytes(t, a, b, info) ==
  IF a > 0 \/ b < Len(t)
  THEN [node |-> Leaf(RemoveRange(t, a, b)), info |-> RemovedInfo(info, t, a, b),
        seam |-> (a = 0 /\ t[b + 1] = LF) \/ (b = Len(t) /\ t[a] = CR),
        fix |-> FALSE]
  ELSE [node |-> EmptyNode, info |-> InfoNew, seam |-> TRUE, fix |-> FALSE]

\* The n chars of t from byte a on.
RemoveCharsFrom(t, a, n, info) ==
  RemoveBytes(t, a, a + CharToByteIdx(From(t, a), n), info)

RemoveFromLeaf(t, s, e, info) ==
  RemoveCharsFrom(t, CharToByteIdx(t, s), e - s, info)

\* merge_child, skipped for positions past the end.
MergeChild(c, i) ==
  IF i <= Len(c) /\ Len(c) > 1 /\ IsUndersized(c[i].node)
  THEN MergeDistribute(c, IF i = 1 THEN 1 ELSE i - 1).children
  ELSE c

\* Mutant: never asks for the seam to be fixed.
NeverUndersized(c, l) == FALSE

StillUndersized(c, l) == IsUndersized(c[Min2(l, Len(c))].node)
=============================================================================
