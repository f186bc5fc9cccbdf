------------------------------- MODULE Chunks -------------------------------
(***************************************************************************)
(* The Chunks iterator (iter.rs) as a value: the nodes from the root to    *)
(* the parent of the leaf that comes next, each with the position of the   *)
(* child taken, and the byte of the range at which that leaf starts.  The  *)
(* light form is that of a text in one piece.                              *)
(***************************************************************************)
EXTENDS RopeSlice

FullChunks(stack, total, b) ==
  [full |-> TRUE, node_stack |-> stack, total_bytes |-> total, byte_idx |-> b]

LightChunks(t, isEnd) == [full |-> FALSE, text |-> t, is_end |-> isEnd]

\* What a call leaves behind and what it returns.
Gives(it, item) == [iter |-> it, out |-> <<item>>]
Ends(it)        == [iter |-> it, out |-> <<>>]

-----------------------------------------------------------------------------
(* Moving a stack.  An entry is [node, i]: a node and a child position.    *)

Entry(n, i) == [node |-> n, i |-> i]

AtLastChild(entry) == entry.i >= Len(entry.node.children)

ChildAt(entry) == entry.node.children[entry.i].node

\* The levels at which the stack can go on to the right, to the left.
RightLevels(stack) == {k \in DOMAIN stack : ~ AtLastChild(stack[k])}
LeftLevels(stack)  == {k \in DOMAIN stack : stack[k].i > 1}

Moved(stack, k, d) == [SubSeq(stack, 1, k) EXCEPT ![k].i = @ + d]

RECURSIVE DownFirst(_, _), DownLast(_, _)

\* Back down to the depth, by first children, by last children.
DownFirst(stack, depth) ==
  IF Len(stack) = depth THEN stack
  ELSE DownFirst(Append(stack, Entry(ChildAt(Last(stack)), 1)), depth)

LastEntry(n) == Entry(n, Len(n.children))

DownLast(stack, depth) ==
  IF Len(stack) = depth THEN stack
  ELSE DownLast(Append(stack, LastEntry(ChildAt(Last(stack)))), depth)

ToRight(stack, levels) == DownFirst(Moved(stack, Max(levels), 1), Len(stack))
ToLeft(stack, levels)  == DownLast(Moved(stack, Max(levels), -1), Len(stack))

-----------------------------------------------------------------------------
(* next_impl, prev_impl *)

\* A chunk that starts at byte b of the range, cut to the range.
Clipped(t, b, total) == Slice(t, Max2(0 - b, 0), Min2(Len(t), total - b))

NextOnStack(it, stack) ==
  LET t == ChildAt(Last(stack)).text
  IN  Gives([it EXCEPT !.node_stack = Moved(stack, Len(stack), 1),
                       !.byte_idx = @ + Len(t)],
            Clipped(t, it.byte_idx, it.total_bytes))

NextFull(it, stack, levels) ==
  CASE it.byte_idx >= it.total_bytes -> Ends(it)
    [] it.byte_idx < it.total_bytes /\ Last(stack).i <= Len(Last(stack).node.children) ->
         NextOnStack(it, stack)
    [] it.byte_idx < it.total_bytes /\ Last(stack).i > Len(Last(stack).node.children) ->
         IF levels = {} THEN Ends(it) ELSE NextOnStack(it, ToRight(stack, levels))

ChunksNext(it) ==
  CASE it.full -> NextFull(it, it.node_stack, RightLevels(it.node_stack))
    [] ~ it.full /\ (it.is_end \/ it.text = <<>>) -> Ends(it)
    [] ~ it.full /\ ~ (it.is_end \/ it.text = <<>>) ->
         Gives([it EXCEPT !.is_end = TRUE], it.text)

PrevOnStack(it, stack) ==
  LET t == ChildAt(Last(stack)).text
  IN  Gives([it EXCEPT !.node_stack = stack, !.byte_idx = @ - Len(t)],
            Clipped(t, it.byte_idx - Len(t), it.total_bytes))

PrevFull(it, stack, levels) ==
  IF it.byte_idx <= 0 \/ levels = {} THEN Ends(it)
  ELSE PrevOnStack(it, ToLeft(stack, levels))

ChunksPrev(it) ==
  CASE it.full -> PrevFull(it, it.node_stack, LeftLevels(it.node_stack))
    [] ~ it.full /\ (~ it.is_end \/ it.text = <<>>) -> Ends(it)
    [] ~ it.full /\ ~ (~ it.is_end \/ it.text = <<>>) ->
         Gives([it EXCEPT !.is_end = FALSE], it.text)

-----------------------------------------------------------------------------
(* new_with_range_at_byte: the iterator at a byte of the range from s to e *)
(* of a node, and the summary of the text before its next chunk.           *)

RECURSIVE PathToByte(_, _, _, _)

\* The stack of a byte, the summary before its leaf, its offset in the leaf.
PathInChild(n, i, b, stack, acc) ==
  PathToByte(n.children[i].node, b - PrefixInfo(n.children, i - 1).bytes,
             Append(stack, Entry(n, i)), InfoAdd(acc, PrefixInfo(n.children, i - 1)))

PathToByte(n, b, stack, acc) ==
  IF n.leaf THEN [stack |-> stack, info |-> acc, text |-> n.text, offset |-> b]
  ELSE PathInChild(n, SearchByteIdx(n.children, b), b, stack, acc)

StartedAt(it, info) == [iter |-> it, info |-> info]

\* Mutant: an end inside a leaf is not moved past that leaf.
FullAtUnmoved(p, at, s, e) ==
  StartedAt(FullChunks(p.stack, e.bytes - s.bytes, p.info.bytes - s.bytes), p.info)

\* An iterator at the end of the range is past the leaf that the end is in.
FullAt(p, at, s, e) ==
  IF at < e.bytes \/ p.offset = 0
  THEN StartedAt(FullChunks(p.stack, e.bytes - s.bytes, p.info.bytes - s.bytes), p.info)
  ELSE StartedAt(FullChunks(Moved(p.stack, Len(p.stack), 1), e.bytes - s.bytes,
                            p.info.bytes + Len(p.text) - s.bytes), e)

AtLeast(r, s) ==
  [r EXCEPT !.info = [bytes |-> Max2(r.info.bytes, s.bytes),
                      chars |-> Max2(r.info.chars, s.chars),
                      utf16 |-> 0,
                      line_breaks |-> Max2(r.info.line_breaks, s.line_breaks)]]

ChunksOfLeaf(t, isEnd) ==
  StartedAt(LightChunks(t, isEnd), IF isEnd THEN InfoFromStr(t) ELSE InfoNew)

ChunksAtByte(n, at, s, e) ==
  CASE s.bytes = e.bytes -> StartedAt(LightChunks(<<>>, FALSE), InfoNew)
    [] s.bytes # e.bytes /\ n.leaf ->
         ChunksOfLeaf(Slice(n.text, s.bytes, e.bytes), at = e.bytes)
    [] s.bytes # e.bytes /\ ~ n.leaf ->
         AtLeast(FullAt(PathToByte(n, at, <<>>, InfoNew), at, s, e), s)

\* new_with_range_at_char, new_with_range_at_line_break: at the chunk of a
\* char or a line break; endIdx stands for the end of the range.
ChunksAtIndex(n, unit, at, endIdx, s, e) ==
  ChunksAtByte(n, IF at = endIdx THEN e.bytes
                  ELSE Max2(GetChunkAt(n, unit, at).info.bytes, s.bytes), s, e)

ChunksAtChar(n, at, s, e) == ChunksAtIndex(n, "chars", at, e.chars, s, e)

ChunksAtLineBreak(n, at, s, e) ==
  ChunksAtIndex(n, "line_breaks", at, e.line_breaks + 1, s, e)
=============================================================================
