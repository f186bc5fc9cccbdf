-------------------------------- MODULE Tree --------------------------------
(***************************************************************************)
(* The recursive tree operations of tree/node.rs, those of one path down   *)
(* the tree as they are in TreePaths.  Each operator takes the node the    *)
(* method is called on and returns the node it leaves behind with the      *)
(* method's results.                                                       *)
(***************************************************************************)
EXTENDS TreePaths

RECURSIVE TextOf(_), LeafTexts(_), Depth(_)

\* The whole text of a tree, its leaf texts from left to right, its depth.
TextOf(n) ==
  IF n.leaf THEN n.text
  ELSE FlattenSeq([i \in DOMAIN n.children |-> TextOf(n.children[i].node)])

LeafTexts(n) ==
  IF n.leaf THEN <<n.text>>
  ELSE FlattenSeq([i \in DOMAIN n.children |-> LeafTexts(n.children[i].node)])

Depth(n) == IF n.leaf THEN 0 ELSE 1 + Depth(n.children[1].node)

CharCount(n) == NodeInfo(n).chars

-----------------------------------------------------------------------------
(* edit_chunk_at_char, split: the path down the tree is as long as its     *)
(* depth.                                                                  *)

EditChunkAtChar(n, idx, info, e) == EditAlong(n, Depth(n), idx, info, e)

SplitNode(n, ch) == SplitAlong(n, Depth(n), ch)

-----------------------------------------------------------------------------
(* remove_char_range                                                       *)

RECURSIVE RemoveCharRange(_, _, _, _)

\* handle_child: the part of chars s..e in child i of c removed, the child
\* dropped when nothing is left of it.
Handled(c, i, r) ==
  [info |-> r.info, seam |-> r.seam, fix |-> r.fix,
   children |-> IF r.info.bytes = 0 THEN RemoveAt(c, i)
                ELSE [c EXCEPT ![i] = Edited(r)]]

HandleChild(c, i, acc, s, e) ==
  Handled(c, i, RemoveCharRange(c[i].node, s - Min2(acc, s),
                                Min2(e - acc, c[i].info.chars), c[i].info))

\* What is left of a node: children c, with the edge of the removal at child l.
Remaining(c, l, info, seam, fix) ==
  [node |-> Internal(c), info |-> info, seam |-> seam,
   fix |-> fix \/ (c # <<>> /\ StillUndersized(c, l))]

\* The removal was in child l alone; h is what handle_child made of it.
AfterOneChild(h, l, others) ==
  Remaining(MergeChild(h.children, l), l, InfoAdd(others, h.info), h.seam, h.fix)

RemoveInOneChild(c, l, s, e, info) ==
  AfterOneChild(HandleChild(c, l, PrefixInfo(c, l - 1).chars, s, e), l,
                InfoSub(info, c[l].info))

Recounted(c, l, seam, fix) == Remaining(c, l, CombinedInfo(c), seam, fix)

\* hl is what handle_child made of the left child, right the result for the
\* right one, which is kept or was dropped whole.
AfterBothChildren(hl, right, l) ==
  Recounted(MergeChild(IF right.kept THEN MergeChild(hl.children, l + 1)
                       ELSE hl.children, l),
            l, hl.seam, hl.fix \/ right.fix)

RightHandled(h) == [children |-> h.children, fix |-> h.fix, kept |-> TRUE]

\* The right child, the children between being dropped first; acc is the char
\* it starts at.
HandleRight(c, l, rt, acc, s, e) ==
  IF acc + c[rt].info.chars # e
  THEN RightHandled(HandleChild(SubSeq(c, 1, l) \o SubSeq(c, rt, Len(c)),
                                l + 1, acc, s, e))
  ELSE [children |-> SubSeq(c, 1, l) \o SubSeq(c, rt + 1, Len(c)),
        fix |-> FALSE, kept |-> FALSE]

HandleLeft(right, l, acc, s, e) ==
  AfterBothChildren(HandleChild(right.children, l, acc, s, e), right, l)

RemoveAcrossChildren(c, l, rt, s, e) ==
  HandleLeft(HandleRight(c, l, rt, PrefixInfo(c, rt - 1).chars, s, e),
             l, PrefixInfo(c, l - 1).chars, s, e)

RemoveInChildren(c, ids, s, e, info) ==
  IF ids[1] = ids[2] THEN RemoveInOneChild(c, ids[1], s, e, info)
  ELSE RemoveAcrossChildren(c, ids[1], ids[2], s, e)

RemoveCharRange(n, s, e, info) ==
  CASE s = e -> [node |-> n, info |-> info, seam |-> FALSE, fix |-> FALSE]
    [] s # e /\ n.leaf -> RemoveFromLeaf(n.text, s, e, info)
    [] s # e /\ ~ n.leaf ->
         RemoveInChildren(n.children, SearchCharIdxRange(n.children, s, e), s, e, info)

-----------------------------------------------------------------------------
(* zip_fix_left, zip_fix_right: merge the undersized nodes down one edge.  *)
(* did says whether anything changed that the parent must look at again.   *)

RECURSIVE ZipFixLeft(_), ZipFixRight(_), ZipLoopLeft(_, _), ZipLoopRight(_, _)

ZipFixLeft(n) ==
  IF n.leaf THEN [node |-> n, did |-> FALSE] ELSE ZipLoopLeft(n.children, FALSE)

ZipFixRight(n) ==
  IF n.leaf THEN [node |-> n, did |-> FALSE] ELSE ZipLoopRight(n.children, FALSE)

\* One round of the loop: the edge child merged if it is undersized, its own
\* edge zipped, and another round when that changed something.
MergeFirst(c) ==
  IF Len(c) > 1 /\ IsUndersized(c[1].node) THEN MergeDistribute(c, 1) ELSE Unmerged(c)

MergeLast(c) ==
  IF Len(c) > 1 /\ IsUndersized(Last(c).node) THEN MergeDistribute(c, Len(c) - 1)
  ELSE Unmerged(c)

ZipAgainLeft(c, sub, did) ==
  IF sub.did THEN ZipLoopLeft([c EXCEPT ![1].node = sub.node], did)
  ELSE [node |-> Internal([c EXCEPT ![1].node = sub.node]), did |-> did]

ZipAgainRight(c, sub, did) ==
  IF sub.did THEN ZipLoopRight([c EXCEPT ![Len(c)].node = sub.node], did)
  ELSE [node |-> Internal([c EXCEPT ![Len(c)].node = sub.node]), did |-> did]

ZipBelowLeft(m, did) ==
  ZipAgainLeft(m.children, ZipFixLeft(m.children[1].node), did \/ m.merged)

ZipBelowRight(m, did) ==
  ZipAgainRight(m.children, ZipFixRight(Last(m.children).node), did \/ m.merged)

ZipLoopLeft(c, did)  == ZipBelowLeft(MergeFirst(c), did)
ZipLoopRight(c, did) == ZipBelowRight(MergeLast(c), did)

-----------------------------------------------------------------------------
(* fix_tree_seam: merge the undersized nodes on either side of a char.     *)

RECURSIVE FixTreeSeam(_, _), FixTreeLoop(_, _, _)

FixTreeSeam(n, ch) ==
  IF n.leaf THEN [node |-> n, did |-> FALSE] ELSE FixTreeLoop(n.children, ch, FALSE)

\* One round of the loop: the child at the seam, or the one before it, merged
\* if it is undersized, ...
SeamMerge(c, i, ch) ==
  LET small == \/ IsUndersized(c[i].node)
               \/ /\ i > 1
                  /\ PrefixInfo(c, i - 1).chars = ch
                  /\ IsUndersized(c[i - 1].node)
  IN  IF Len(c) > 1 /\ small THEN MergeDistribute(c, IF i = 1 THEN 1 ELSE i - 1)
      ELSE Unmerged(c)

\* ... the nodes below fixed on either side, and another round when that
\* changed something.
FixAgain(c, ch, again, did) ==
  IF again THEN FixTreeLoop(c, ch, did) ELSE [node |-> Internal(c), did |-> did]

FixedOne(c, i, r, ch, did) == FixAgain([c EXCEPT ![i].node = r.node], ch, r.did, did)

FixedBoth(c, i, l, r, ch, did) ==
  FixAgain([c EXCEPT ![i - 1].node = l.node, ![i].node = r.node], ch, l.did \/ r.did, did)

FixBelow(c, i, start, ch, did) ==
  IF start = ch /\ i # 1
  THEN FixedBoth(c, i, FixTreeSeam(c[i - 1].node, c[i - 1].info.chars),
                 FixTreeSeam(c[i].node, 0), ch, did)
  ELSE FixedOne(c, i, FixTreeSeam(c[i].node, ch - start), ch, did)

FixAtChild(c, i, ch, did) == FixBelow(c, i, PrefixInfo(c, i - 1).chars, ch, did)

FixMerged(m, ch, did) ==
  FixAtChild(m.children, SearchCharIdx(m.children, ch), ch, did \/ m.merged)

FixTreeLoop(c, ch, did) == FixMerged(SeamMerge(c, SearchCharIdx(c, ch), ch), ch, did)

-----------------------------------------------------------------------------
(* fix_crlf_seam: mend a CRLF that the boundary at byte pos splits.        *)

RECURSIVE LastLeaf(_), FirstLeaf(_), SetLastLeaf(_, _), SetFirstLeaf(_, _)
RECURSIVE FixCrlfSeam(_, _)

LastLeaf(n)  == IF n.leaf THEN n.text ELSE LastLeaf(Last(n.children).node)
FirstLeaf(n) == IF n.leaf THEN n.text ELSE FirstLeaf(n.children[1].node)

DropIfEmpty(c, i) == IF c[i].info.bytes = 0 THEN RemoveAt(c, i) ELSE c

\* get_chunk_at_byte_mut down one edge, and fix_info_right, fix_info_left back
\* up it: infos renewed, empty children dropped.
SetLastLeaf(n, t) ==
  IF n.leaf THEN Leaf(t)
  ELSE LET k == Len(n.children)
           c == [n.children EXCEPT ![k] = Child(SetLastLeaf(n.children[k].node, t))]
       IN  Internal(DropIfEmpty(c, k))

SetFirstLeaf(n, t) ==
  IF n.leaf THEN Leaf(t)
  ELSE LET c == [n.children EXCEPT ![1] = Child(SetFirstLeaf(n.children[1].node, t))]
       IN  Internal(DropIfEmpty(c, 1))

\* The texts on either side of the seam after child l, mended.
MendedTexts(c, l) == FixSegmentSeam(LastLeaf(c[l].node), FirstLeaf(c[l + 1].node))

WithSeamTexts(c, l, texts) ==
  [c EXCEPT ![l]     = Child(SetLastLeaf(c[l].node, texts[1])),
            ![l + 1] = Child(SetFirstLeaf(c[l + 1].node, texts[2]))]

DropEmptySide(c, l) ==
  IF c[l + 1].info.bytes = 0 THEN RemoveAt(c, l + 1) ELSE DropIfEmpty(c, l)

\* Mutant: a leaf that gave all its text away is kept.
MendSeamKeepsEmpty(c, l) == WithSeamTexts(c, l, MendedTexts(c, l))

\* The seam between children l and l + 1.
MendSeam(c, l) == DropEmptySide(WithSeamTexts(c, l, MendedTexts(c, l)), l)

FixInChild(c, i, off) ==
  IF off \in {0, c[i].info.bytes} THEN MendSeam(c, IF off = 0 THEN i - 1 ELSE i)
  ELSE DropIfEmpty([c EXCEPT ![i] = Child(FixCrlfSeam(c[i].node, off))], i)

FixAtByte(c, i, pos) == FixInChild(c, i, pos - PrefixInfo(c, i - 1).bytes)

FixChildren(c, pos) ==
  CASE pos = 0 -> [c EXCEPT ![1].node = FixCrlfSeam(c[1].node, 0)]
    [] pos # 0 /\ pos = CombinedInfo(c).bytes ->
         [c EXCEPT ![Len(c)].node = FixCrlfSeam(Last(c).node, Last(c).info.bytes)]
    [] pos \notin {0, CombinedInfo(c).bytes} -> FixAtByte(c, SearchByteIdx(c, pos), pos)

FixCrlfSeam(n, pos) == IF n.leaf THEN n ELSE Internal(FixChildren(n.children, pos))

-----------------------------------------------------------------------------
(* assert_integrity, assert_balance, assert_node_size and, of rope.rs,     *)
(* assert_crlf_seams: what the debugging checks of the crate ask of a tree *)

RECURSIVE Accurate(_), LeafDepths(_), Populated(_)

\* Each info is that of the text below it, counted anew.
Accurate(n) ==
  n.leaf \/ \A i \in DOMAIN n.children :
              /\ n.children[i].info = InfoFromStr(TextOf(n.children[i].node))
              /\ Accurate(n.children[i].node)

LeafDepths(n) ==
  IF n.leaf THEN {1}
  ELSE {d + 1 : d \in UNION {LeafDepths(n.children[i].node) : i \in DOMAIN n.children}}

Balanced(n) == Cardinality(LeafDepths(n)) = 1

\* Internal nodes below n have MIN_CHILDREN children or more.
Populated(n) ==
  n.leaf \/ \A i \in DOMAIN n.children :
              /\ \/ n.children[i].node.leaf
                 \/ Len(n.children[i].node.children) >= MIN_CHILDREN
              /\ Populated(n.children[i].node)

\* No leaf boundary is in a code point or a CRLF.
UncutSeams(texts) ==
  \A i \in 1..(Len(texts) - 1) :
    texts[i] # <<>> /\ texts[i + 1] # <<>> => SeamIsBreak(texts[i], texts[i + 1])

CrlfSeams(n) == UncutSeams(LeafTexts(n))
=============================================================================
