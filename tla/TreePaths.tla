------------------------------ MODULE TreePaths ------------------------------
(***************************************************************************)
(* The operations of tree/node.rs that go down one path of a tree and come *)
(* back up it: edit_chunk_at_char, append_at_depth, prepend_at_depth and   *)
(* split.  Where the code calls itself, the calls are a function of the    *)
(* number of levels gone down, and the results one of the number of levels *)
(* come back up.  Where the code panics, no arm of a CASE applies, so that *)
(* a run that finishes shows it cannot.                                    *)
(***************************************************************************)
EXTENDS NodeEdits

-----------------------------------------------------------------------------
(* edit_chunk_at_char, given an edit (see NodeEdits), on a node whose      *)
(* leaves are h levels down.                                               *)

\* A call on node n, whose info is given, for the chunk that has char idx.
EditCall(n, idx, info) == [node |-> n, idx |-> idx, info |-> info]

CallOnChild(c, i, idx) ==
  EditCall(c[i].node, idx - PrefixInfo(c, i - 1).chars, c[i].info)

CallInChildren(c, idx) == CallOnChild(c, SearchCharIdx(c, idx), idx)

CallBelow(call) == CallInChildren(Compacted(call.node.children), call.idx)

AfterEdit(c, idx, info, r) == AfterChildEdit(c, SearchCharIdx(c, idx), info, r)

AfterCall(call, r) == AfterEdit(Compacted(call.node.children), call.idx, call.info, r)

EditLeaf(call, e) ==
  IF e.kind = "text" THEN EditLeafText(call.node.text, call.idx, call.info, e)
  ELSE EditLeafLf(call.node.text, call.info, e)

EditAlong(n, h, idx, info, e) ==
  LET call[k \in 0..h] ==
        IF k = 0 THEN EditCall(n, idx, info) ELSE CallBelow(call[k - 1])
      result[k \in 0..h] ==
        IF k = 0 THEN EditLeaf(call[h], e) ELSE AfterCall(call[h - k], result[k - 1])
  IN  result[h]

\* The root after an edit: split edits put a new root above the two halves.
Rerooted(r) ==
  IF r.residual = <<>> THEN r.node
  ELSE Internal(<< [info |-> r.info, node |-> r.node], r.residual[1] >>)

-----------------------------------------------------------------------------
(* append_at_depth, prepend_at_depth: graft a tree onto the right or left  *)
(* edge, depth levels down.  A result has the node and, as a sequence of   *)
(* at most one node, the residual that did not fit.                        *)

Fitting(c)         == [node |-> Internal(c), residual |-> <<>>]
KeepLeft(halves)   == [node |-> Internal(halves[1]), residual |-> <<Internal(halves[2])>>]
KeepRight(halves)  == [node |-> Internal(halves[2]), residual |-> <<Internal(halves[1])>>]

HasRoomFor(n, other) == Len(n.children) + Len(other.children) <= MAX_CHILDREN

\* At the target depth: the children of the two nodes in one, or shared.
AppendSibling(n, other) ==
  CASE n.leaf /\ other.leaf -> [node |-> n, residual |-> <<other>>]
    [] ~ n.leaf /\ ~ other.leaf /\ HasRoomFor(n, other) -> Fitting(n.children \o other.children)
    [] ~ n.leaf /\ ~ other.leaf /\ ~ HasRoomFor(n, other) ->
         KeepLeft(DistributeWith(n.children, other.children))

PrependSibling(n, other) ==
  CASE n.leaf /\ other.leaf -> [node |-> n, residual |-> <<other>>]
    [] ~ n.leaf /\ ~ other.leaf /\ HasRoomFor(n, other) -> Fitting(other.children \o n.children)
    [] ~ n.leaf /\ ~ other.leaf /\ ~ HasRoomFor(n, other) ->
         KeepRight(DistributeWith(other.children, n.children))

\* Above it: the residual of the edge child goes in beside it.
AppendResidual(c, residual) ==
  CASE residual = <<>> -> Fitting(c)
    [] residual # <<>> /\ Len(c) < MAX_CHILDREN -> Fitting(Append(c, Child(residual[1])))
    [] residual # <<>> /\ Len(c) >= MAX_CHILDREN -> KeepLeft(PushSplit(c, Child(residual[1])))

PrependResidual(c, residual) ==
  CASE residual = <<>> -> Fitting(c)
    [] residual # <<>> /\ Len(c) < MAX_CHILDREN -> Fitting(<<Child(residual[1])>> \o c)
    [] residual # <<>> /\ Len(c) >= MAX_CHILDREN ->
         KeepRight(InsertSplit(c, 1, Child(residual[1])))

WithLast(c, r)  == AppendResidual([c EXCEPT ![Len(c)] = Child(r.node)], r.residual)
WithFirst(c, r) == PrependResidual([c EXCEPT ![1] = Child(r.node)], r.residual)

\* The children of a node above the target depth.
ChildrenAbove(n) == CASE ~ n.leaf -> n.children

AppendAtDepth(n, other, depth) ==
  LET edge[k \in 0..depth] ==
        IF k = 0 THEN n ELSE Last(ChildrenAbove(edge[k - 1])).node
      result[k \in 0..depth] ==
        IF k = 0 THEN AppendSibling(edge[depth], other)
        ELSE WithLast(edge[depth - k].children, result[k - 1])
  IN  result[depth]

PrependAtDepth(n, other, depth) ==
  LET edge[k \in 0..depth] ==
        IF k = 0 THEN n ELSE Head(ChildrenAbove(edge[k - 1])).node
      result[k \in 0..depth] ==
        IF k = 0 THEN PrependSibling(edge[depth], other)
        ELSE WithFirst(edge[depth - k].children, result[k - 1])
  IN  result[depth]

-----------------------------------------------------------------------------
(* split: the two parts of a node, its leaves h levels down, cut at a char *)
(* strictly inside it.                                                     *)

SplitCall(n, ch) == [node |-> n, ch |-> ch]

SplitOfChild(c, i, ch) == SplitCall(c[i].node, ch - PrefixInfo(c, i - 1).chars)

SplitBelow(call) ==
  SplitOfChild(call.node.children, SearchCharIdx(call.node.children, call.ch), call.ch)

SplitLeafAt(call) == Leaves(CutAt(call.node.text, CharToByteIdx(call.node.text, call.ch)))

SplitChildren(c, k) == Internals(SplitOffChildren(c, k))

SplitAround(c, i, parts) ==
  << Internal(Append(SubSeq(c, 1, i - 1), Child(parts[1]))),
     Internal(<<Child(parts[2])>> \o SubSeq(c, i + 1, Len(c))) >>

\* The node of children c cut at char ch of child i, whose own parts are used
\* when the cut is strictly inside it.
SplitAtChild(c, i, ch, parts) ==
  CASE ch = 0 -> SplitChildren(c, i - 1)
    [] ch # 0 /\ ch = c[i].info.chars -> SplitChildren(c, i)
    [] ch \notin {0, c[i].info.chars} -> SplitAround(c, i, parts)

SplitInChild(c, i, ch, parts) == SplitAtChild(c, i, ch - PrefixInfo(c, i - 1).chars, parts)

SplitAfter(call, parts) ==
  SplitInChild(call.node.children, SearchCharIdx(call.node.children, call.ch), call.ch, parts)

SplitAlong(n, h, ch) ==
  LET call[k \in 0..h] ==
        IF k = 0 THEN SplitCall(n, ch) ELSE SplitBelow(call[k - 1])
      result[k \in 0..h] ==
        IF k = 0 THEN SplitLeafAt(call[h]) ELSE SplitAfter(call[h - k], result[k - 1])
  IN  result[h]
=============================================================================
