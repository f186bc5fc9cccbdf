------------------------------- MODULE Builder -------------------------------
(***************************************************************************)
(* The operators of RopeBuilder (rope_builder.rs) on a builder value: the  *)
(* stack of the nodes down the right edge of the tree being built (bottom  *)
(* of the stack first, the root), the buffer of text that does not fill a  *)
(* leaf yet, and last_chunk_len_bytes.                                     *)
(***************************************************************************)
EXTENDS Tree, TLC

NewBuilder == [stack |-> <<EmptyNode>>, buffer |-> <<>>, last |-> 0]

-----------------------------------------------------------------------------
(* append_leaf_node *)

RECURSIVE PushUp(_, _, _)

\* The loop that adds node below stack position k, splitting full nodes on
\* the way up; position 0 is above the root.
SplitUp(stack, halves, k) ==
  PushUp([stack EXCEPT ![k] = Internal(halves[2])], Internal(halves[1]), k - 1)

PushUp(stack, node, k) ==
  IF k = 0 THEN <<Internal(<<Child(node)>>)>> \o stack
  ELSE IF Len(stack[k].children) < MAX_CHILDREN - 1
  THEN [stack EXCEPT ![k] = Internal(Append(stack[k].children, Child(node)))]
  ELSE SplitUp(stack, PushSplit(stack[k].children, Child(node)), k)

AppendLeafNode(stack, leaf) ==
  LET last == Last(stack)
  IN  CASE last.leaf /\ last.text = <<>> -> Append(Front(stack), leaf)
        [] last.leaf /\ last.text # <<>> ->
             Append(Front(stack), Internal(<<Child(last), Child(leaf)>>))
        [] ~ last.leaf -> PushUp(stack, leaf, Len(stack))

-----------------------------------------------------------------------------
(* get_next_leaf_text: the leaf to add (use: "none", "leaf" for text that   *)
(* bypasses the buffer, "buffer" for the buffer itself), the buffer after   *)
(* the call and the text that is left.                                     *)

\* Mutant: a leaf may end in a CR whose LF has not come yet.
AfterLastCr(text, cut) == cut

\* A cut moved back off a CR at the end of the text.
BeforeLastCr(text, cut) ==
  IF cut = Len(text) /\ Last(text) = CR THEN cut - 1 ELSE cut

WholeCut(text) == FindGoodSplit(Min2(MAX_BYTES, Len(text) - 1), text, TRUE)

FillCut(buffer, text) ==
  BeforeLastCr(text, FindGoodSplit(MAX_BYTES - Len(buffer), text, TRUE))

\* The leaf takes text up to cut, after what is in the buffer.
TakeLeaf(use, buffer, text, cut) ==
  [use |-> use, leaf |-> buffer \o Slice(text, 0, cut), buffer |-> <<>>,
   rest |-> From(text, cut)]

NextLeafText(buffer, text, isLast) ==
  LET enough == Len(text) + Len(buffer) >= MAX_BYTES
  IN  CASE enough /\ buffer = <<>> -> TakeLeaf("leaf", buffer, text, WholeCut(text))
        [] enough /\ buffer # <<>> -> TakeLeaf("buffer", buffer, text, FillCut(buffer, text))
        [] ~ enough /\ isLast ->
             TakeLeaf(IF buffer # <<>> THEN "buffer"
                      ELSE IF text # <<>> THEN "leaf" ELSE "none",
                      buffer, text, Len(text))
        [] ~ enough /\ ~ isLast ->
             [use |-> "none", leaf |-> <<>>, buffer |-> buffer \o text, rest |-> <<>>]

-----------------------------------------------------------------------------
(* append_internal, finish_internal *)

RECURSIVE AppendInternal(_, _, _), ZipUpStack(_)

\* One round of the loop: the leaf, if there is one, goes into the tree.
TakeNext(b, next, isLast) ==
  LET b1 == [b EXCEPT !.buffer = next.buffer, !.last = Len(next.rest)]
  IN  IF next.use = "none" THEN b1
      ELSE AppendInternal([b1 EXCEPT !.stack = AppendLeafNode(b.stack, Leaf(next.leaf))],
                          next.rest, isLast)

AppendInternal(b, chunk, isLast) ==
  LET more == chunk # <<>> \/ (b.buffer # <<>> /\ isLast)
  IN  CASE ~ more -> b
        [] more /\ Assert(Len(b.buffer) < MAX_BYTES, "RopeBuilder: buffer is already full") ->
             TakeNext(b, NextLeafText(b.buffer, chunk, isLast), isLast)

\* Each node of the stack becomes the last child of the one below it.
ZipUpStack(stack) ==
  LET k == Len(stack)
  IN  IF k = 1 THEN stack[1]
      ELSE ZipUpStack(Append(SubSeq(stack, 1, k - 2),
             Internal(Append(stack[k - 1].children, Child(stack[k])))))

RECURSIVE PullUpSingularNodes(_)

\* Rope::pull_up_singular_nodes.
PullUpSingularNodes(n) ==
  IF ~ n.leaf /\ Len(n.children) = 1 THEN PullUpSingularNodes(n.children[1].node)
  ELSE n

\* The chars of a tree before its byte b.
CharsBefore(n, b) == InfoFromStr(Slice(TextOf(n), 0, b)).chars

\* The tree of bytes bytes and chars chars, its last node merged if the last
\* chunk left it small.
FixLastChunk(n, info, last) ==
  IF last < MIN_BYTES /\ last # info.bytes
  THEN FixTreeSeam(n, info.chars - CharsBefore(n, info.bytes - last)).node ELSE n

FixBuilt(n, last) == FixLastChunk(n, NodeInfo(n), last)

FinishInternal(b) ==
  PullUpSingularNodes(FixBuilt(ZipFixRight(ZipUpStack(b.stack)).node, b.last))

Finish(b) == FinishInternal(AppendInternal(b, <<>>, TRUE))

BuildAtOnce(text) == FinishInternal(AppendInternal(NewBuilder, text, TRUE))
=============================================================================
