---------------------------- MODULE NodeChildren ----------------------------
(***************************************************************************)
(* The child array of an internal node (tree/node_children.rs), as the     *)
(* value it holds: a sequence of children, each the TextInfo cached for    *)
(* it and the node itself.  Indices into it are 1-based here and 0-based   *)
(* in the code.  How the array stores that value is NodeChildrenInner.     *)
(***************************************************************************)
EXTENDS RopeText, SequencesExt

CONSTANTS
  MAX_CHILDREN,  (* the capacity of a child array.                         *)
  MIN_CHILDREN   (* an internal node with fewer children is merged.        *)

ASSUME ChildBoundsAssumption ==
  /\ MAX_CHILDREN \in Nat \ 0..2
  /\ MIN_CHILDREN = MAX_CHILDREN \div 2

Leaf(t)     == [leaf |-> TRUE, text |-> t]
Internal(c) == [leaf |-> FALSE, children |-> c]

EmptyNode == Leaf(<<>>)

\* The summary of the first i children, from their cached infos.
PrefixInfo(c, i) ==
  LET sum[k \in 0..Len(c)] ==
        IF k = 0 THEN InfoNew ELSE InfoAdd(sum[k - 1], c[k].info)
  IN  sum[i]

CombinedInfo(c) == PrefixInfo(c, Len(c))

NodeInfo(n) == IF n.leaf THEN InfoFromStr(n.text) ELSE CombinedInfo(n.children)

\* A child with the info that describes it.
Child(n) == [info |-> NodeInfo(n), node |-> n]

IsUndersized(n) ==
  IF n.leaf THEN Len(n.text) < MIN_BYTES ELSE Len(n.children) < MIN_CHILDREN

-----------------------------------------------------------------------------
(* Searches: the first child whose accumulated end satisfies the test, the *)
(* last one when none before it does.                                      *)

FirstChild(c, from, Test(_)) ==
  LET hits == {i \in from..(Len(c) - 1) : Test(PrefixInfo(c, i))}
  IN  IF hits = {} THEN Len(c) ELSE Min(hits)

SearchByteIdx(c, b) == FirstChild(c, 1, LAMBDA end : b < end.bytes)

SearchCharIdx(c, ch) == FirstChild(c, 1, LAMBDA end : ch < end.chars)

SearchLineBreakIdx(c, l) == FirstChild(c, 1, LAMBDA end : l <= end.line_breaks)

SearchCharIdxRange(c, s, e) ==
  LET l == SearchCharIdx(c, s)
  IN  <<l, FirstChild(c, l, LAMBDA end : e <= end.chars)>>

-----------------------------------------------------------------------------
(* Moving children between arrays *)

SplitOffChildren(c, i) == <<SubSeq(c, 1, i), SubSeq(c, i + 1, Len(c))>>

PushSplit(c, child) ==
  LET lCount == (Len(c) + 1) - ((Len(c) + 1) \div 2)
  IN  << SubSeq(c, 1, lCount), Append(SubSeq(c, lCount + 1, Len(c)), child) >>

\* insert_split: the new child takes position i, the last one is pushed out
\* when the new one is not itself the last.
InsertSplit(c, i, child) ==
  IF i <= Len(c) THEN PushSplit(InsertAt(Front(c), i, child), Last(c))
  ELSE PushSplit(c, child)

DistributeWith(l, r) ==
  SplitOffChildren(l \o r, Len(l) + Len(r) - ((Len(l) + Len(r)) \div 2))

-----------------------------------------------------------------------------
(* merge_distribute: two neighbouring children become one, or share their  *)
(* contents evenly when one cannot hold them.                              *)

Leaves(halves)    == <<Leaf(halves[1]), Leaf(halves[2])>>
Internals(halves) == <<Internal(halves[1]), Internal(halves[2])>>

\* Children i and i + 1 of c become the one node n, or the two of pair.
Merged(c, i, n) ==
  [merged |-> TRUE, children |-> RemoveAt([c EXCEPT ![i] = Child(n)], i + 1)]

Shared(c, i, pair) ==
  [merged |-> FALSE,
   children |-> [c EXCEPT ![i] = Child(pair[1]), ![i + 1] = Child(pair[2])]]

Unmerged(c) == [merged |-> FALSE, children |-> c]

MergeLeaves(c, i, t1, t2) ==
  IF Len(t1) + Len(t2) <= MAX_BYTES THEN Merged(c, i, Leaf(t1 \o t2))
  ELSE Shared(c, i, Leaves(PushStrSplit(t1, t2)))

\* Mutant: merges whatever the capacity.
MergeInternalsUnchecked(c, i, c1, c2) == Merged(c, i, Internal(c1 \o c2))

MergeInternals(c, i, c1, c2) ==
  IF Len(c1) + Len(c2) <= MAX_CHILDREN THEN Merged(c, i, Internal(c1 \o c2))
  ELSE Shared(c, i, Internals(DistributeWith(c1, c2)))

\* The code always merges a child with the one right after it.
MergeDistribute(c, i) ==
  LET n1 == c[i].node
      n2 == c[i + 1].node
  IN  IF n1.leaf THEN MergeLeaves(c, i, n1.text, n2.text)
                 ELSE MergeInternals(c, i, n1.children, n2.children)

-----------------------------------------------------------------------------
(* compact_leaves: left to right, each leaf is filled from the next one.   *)

\* A leaf l filled from the next leaf t.
Filled(l, t) ==
  IF Len(l) + Len(t) <= MAX_BYTES THEN << Child(Leaf(l \o t)) >>
  ELSE IF Len(l) < MAX_BYTES
  THEN LET cut == PrevBreak(MAX_BYTES - Len(l), t)
       IN  << Child(Leaf(l \o Slice(t, 0, cut))), Child(Leaf(From(t, cut))) >>
  ELSE << Child(Leaf(l)), Child(Leaf(t)) >>

CompactNext(done, child) == Front(done) \o Filled(Last(done).node.text, child.node.text)

CompactLeaves(c) ==
  LET done[i \in 1..Len(c)] ==
        IF i = 1 THEN <<c[1]>> ELSE CompactNext(done[i - 1], c[i])
  IN  done[Len(c)]
=============================================================================
