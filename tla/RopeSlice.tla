------------------------------ MODULE RopeSlice ------------------------------
(***************************************************************************)
(* RopeSlice (slice.rs) as a value: a range of the text below an internal  *)
(* node, given by the summaries of the text before its two ends, or, when  *)
(* one leaf holds all of it, a small text with its counts.                 *)
(***************************************************************************)
EXTENDS Builder

FullSlice(n, s, e)   == [light |-> FALSE, node |-> n, start |-> s, end |-> e]
LightSlice(t, count) == [light |-> TRUE, text |-> t, count |-> count]

\* From<&str>
SliceOfStr(t) == LightSlice(t, InfoFromStr(t))

\* len_bytes, len_chars and, one less than it, len_lines
Length(s, unit) == IF s.light THEN s.count[unit] ELSE s.end[unit] - s.start[unit]

LenLines(s) == Length(s, "line_breaks") + 1

\* The text of a slice.
SliceText(s) ==
  IF s.light THEN s.text ELSE Slice(TextOf(s.node), s.start.bytes, s.end.bytes)

-----------------------------------------------------------------------------
(* node.rs: the chunk at an index, and the summary of the text before one  *)

Search(c, unit, idx) ==
  CASE unit = "bytes"       -> SearchByteIdx(c, idx)
    [] unit = "chars"       -> SearchCharIdx(c, idx)
    [] unit = "line_breaks" -> SearchLineBreakIdx(c, idx)

RECURSIVE ChunkBelow(_, _, _, _)

ChunkInChild(c, i, unit, idx, acc) ==
  ChunkBelow(c[i].node, unit, idx - PrefixInfo(c, i - 1)[unit],
             InfoAdd(acc, PrefixInfo(c, i - 1)))

ChunkBelow(n, unit, idx, acc) ==
  IF n.leaf THEN [text |-> n.text, info |-> acc]
  ELSE ChunkInChild(n.children, Search(n.children, unit, idx), unit, idx, acc)

\* get_chunk_at_byte, get_chunk_at_char, get_chunk_at_line_break: the chunk
\* and the summary of the text before it.
GetChunkAt(n, unit, idx) == ChunkBelow(n, unit, idx, InfoNew)

\* The line breaks of t that end in its first b bytes; a CRLF that is cut at b
\* does not.
ByteToLineIdx(t, b) == Cardinality({i \in 1..b : IsLineBreak(t, i)})

InfoInChunk(k, b) ==
  InfoAdd(k.info, [InfoFromStr(Slice(k.text, 0, b)) EXCEPT
                     !.line_breaks = ByteToLineIdx(k.text, b)])

InfoAtCharOf(k, ch) == InfoInChunk(k, CharToByteIdx(k.text, ch - k.info.chars))

CharToTextInfo(n, ch) == InfoAtCharOf(GetChunkAt(n, "chars", ch), ch)

InfoAtByteOf(k, b) == InfoInChunk(k, b - k.info.bytes)

ByteToTextInfo(n, b) == InfoAtByteOf(GetChunkAt(n, "bytes", b), b)

\* Whether a cut of t at byte b divides a CRLF.
CutsCrlf(t, b) == b > 0 /\ b < Len(t) /\ t[b] = CR /\ t[b + 1] = LF

IsCrlfSplitOf(k, ch) == CutsCrlf(k.text, CharToByteIdx(k.text, ch - k.info.chars))

IsCrlfSplit(n, ch) == IsCrlfSplitOf(GetChunkAt(n, "chars", ch), ch)

-----------------------------------------------------------------------------
(* new_with_range, new_with_byte_range *)

WholeSlice(n) ==
  IF n.leaf THEN SliceOfStr(n.text) ELSE FullSlice(n, InfoNew, NodeInfo(n))

\* The children of c that hold all of a range.
Holders(c, unit, s, e) ==
  {i \in DOMAIN c : PrefixInfo(c, i - 1)[unit] <= s /\ e <= PrefixInfo(c, i)[unit]}

\* Mutant: the CR that the end of the slice cuts off its LF is not counted.
CharRangeUncorrected(n, s, e) == FullSlice(n, CharToTextInfo(n, s), CharToTextInfo(n, e))

\* A CR cut off its LF by the end of the slice is one more line break.
CharRange(n, s, e) ==
  FullSlice(n, CharToTextInfo(n, s),
            AddBreaks(CharToTextInfo(n, e),
                      IF CrLines /\ IsCrlfSplit(n, e) THEN 1 ELSE 0))

ByteRange(n, s, e) == FullSlice(n, ByteToTextInfo(n, s), ByteToTextInfo(n, e))

RangeOfNode(n, unit, s, e) ==
  IF unit = "chars" THEN CharRange(n, s, e) ELSE ByteRange(n, s, e)

RangeOfLeaf(t, unit, s, e) ==
  SliceOfStr(IF unit = "chars" THEN Slice(t, CharToByteIdx(t, s), CharToByteIdx(t, e))
             ELSE Slice(t, s, e))

RECURSIVE DeepestSlice(_, _, _, _)

\* Down to the deepest node that holds all of the range.
SliceInChild(n, holders, unit, s, e) ==
  IF holders = {} THEN RangeOfNode(n, unit, s, e)
  ELSE DeepestSlice(n.children[Min(holders)].node, unit,
                    s - PrefixInfo(n.children, Min(holders) - 1)[unit],
                    e - PrefixInfo(n.children, Min(holders) - 1)[unit])

DeepestSlice(n, unit, s, e) ==
  IF n.leaf THEN RangeOfLeaf(n.text, unit, s, e)
  ELSE SliceInChild(n, Holders(n.children, unit, s, e), unit, s, e)

\* The chars or the bytes s..e below n; bytes must be on char boundaries.
NewWithRange(n, unit, s, e) ==
  IF s = 0 /\ e = NodeInfo(n)[unit] THEN WholeSlice(n) ELSE DeepestSlice(n, unit, s, e)
=============================================================================
