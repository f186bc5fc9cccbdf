------------------------------- MODULE Lookups -------------------------------
(***************************************************************************)
(* The methods of Rope and RopeSlice that look something up: conversions   *)
(* between the indices of bytes, chars, lines and UTF-16 code units, the   *)
(* chunk, byte, char or line at an index, and slices.  All go down the     *)
(* tree to one chunk by cached summaries and finish in its text.  A result *)
(* is a sequence of at most one item; it is empty for None and Err.        *)
(***************************************************************************)
EXTENDS Lines

-----------------------------------------------------------------------------
(* str_utils.rs *)

\* The char that byte b is a byte of.
ByteToCharIdx(t, b) ==
  Cardinality({i \in 1..Min2(b + 1, Len(t)) : t[i] # Cont}) - OneIf(b < Len(t))

CharToLineIdx(t, ch) == ByteToLineIdx(t, CharToByteIdx(t, ch))

LineToCharIdx(t, l) == ByteToCharIdx(t, LineToByteIdx(t, l))

\* The surrogate pairs before the char of byte b.
ByteToUtf16SurrogateIdx(t, b) ==
  InfoFromStr(Slice(t, 0, Max({i \in 0..b : IsCharBoundary(t, i)}))).utf16

\* The UTF-16 code units of a text with the summary info.
Utf16Units(info) == info.chars + info.utf16

\* The char that code unit u is part of.
Utf16ToCharIdx(t, u) ==
  Cardinality({c \in 1..InfoFromStr(t).chars :
                 Utf16Units(InfoFromStr(Slice(t, 0, CharToByteIdx(t, c)))) <= u})

\* Index i of a text as another kind of index.
Converted(t, from, to, i) ==
  CASE from = "bytes" /\ to = "chars"       -> ByteToCharIdx(t, i)
    [] from = "bytes" /\ to = "line_breaks" -> ByteToLineIdx(t, i)
    [] from = "chars" /\ to = "bytes"       -> CharToByteIdx(t, i)
    [] from = "chars" /\ to = "line_breaks" -> CharToLineIdx(t, i)
    [] from = "line_breaks" /\ to = "bytes" -> LineToByteIdx(t, i)
    [] from = "line_breaks" /\ to = "chars" -> LineToCharIdx(t, i)

-----------------------------------------------------------------------------
(* node_children.rs and node.rs: the chunk of a UTF-16 code unit *)

SearchUtf16Idx(c, u) == FirstChild(c, 1, LAMBDA end : u < Utf16Units(end))

RECURSIVE Utf16Below(_, _, _)

Utf16InChild(c, i, u, acc) ==
  Utf16Below(c[i].node, u - Utf16Units(PrefixInfo(c, i - 1)), InfoAdd(acc, PrefixInfo(c, i - 1)))

Utf16Below(n, u, acc) ==
  IF n.leaf THEN [text |-> n.text, info |-> acc]
  ELSE Utf16InChild(n.children, SearchUtf16Idx(n.children, u), u, acc)

GetChunkAtUtf16(n, u) == Utf16Below(n, u, InfoNew)

-----------------------------------------------------------------------------
(* get_chunk_at_byte, get_chunk_at_char, get_chunk_at_line_break *)

Units == {"bytes", "chars", "line_breaks"}

\* The length of a rope in lines counts the line after the last break.
RopeLimit(n, unit)  == NodeInfo(n)[unit] + OneIf(unit = "line_breaks")
SliceLimit(s, unit) == Length(s, unit) + OneIf(unit = "line_breaks")

RopeChunkAt(n, unit, i) == IF i > RopeLimit(n, unit) THEN <<>> ELSE << GetChunkAt(n, unit, i) >>

\* Mutant: what lies before the slice is not cut off.
ClippedAtEnd(s, k) ==
  [text |-> Slice(k.text, 0, Min2(Len(k.text), s.end.bytes - k.info.bytes)),
   info |-> [u \in Units |-> Max2(k.info[u] - s.start[u], 0)]]

\* A chunk and its place as a slice shows them.
ClippedChunk(s, k) ==
  [text |-> Slice(k.text, Max2(s.start.bytes - k.info.bytes, 0),
                  Min2(Len(k.text), s.end.bytes - k.info.bytes)),
   info |-> [u \in Units |-> Max2(k.info[u] - s.start[u], 0)]]

\* Mutant: the first line of a slice is looked for by its line break.
NodeChunkByBreak(s, unit, i) ==
  IF unit = "line_breaks" /\ i = LenLines(s) THEN GetChunkAt(s.node, "bytes", s.end.bytes)
  ELSE GetChunkAt(s.node, unit, s.start[unit] + i)

\* The first line of a slice and what follows its last are found by their bytes.
NodeChunkFor(s, unit, i) ==
  CASE unit = "line_breaks" /\ i = 0 -> GetChunkAt(s.node, "bytes", s.start.bytes)
    [] unit = "line_breaks" /\ i = LenLines(s) -> GetChunkAt(s.node, "bytes", s.end.bytes)
    [] unit # "line_breaks" \/ i \notin {0, LenLines(s)} ->
         GetChunkAt(s.node, unit, s.start[unit] + i)

SliceChunkAt(s, unit, i) ==
  CASE i > SliceLimit(s, unit) -> <<>>
    [] i <= SliceLimit(s, unit) /\ s.light -> << [text |-> s.text, info |-> InfoNew] >>
    [] i <= SliceLimit(s, unit) /\ ~ s.light -> << ClippedChunk(s, NodeChunkFor(s, unit, i)) >>

-----------------------------------------------------------------------------
(* try_byte_to_char and so on: found is the chunk of index i, if there is one *)

InChunkOf(k, from, to, i) == k.info[to] + Converted(k.text, from, to, i - k.info[from])

ConvertedIn(found, from, to, i) ==
  IF found = <<>> THEN <<>> ELSE << InChunkOf(found[1], from, to, i) >>

RopeConvert(n, from, to, i) ==
  IF from = "line_breaks" /\ i = RopeLimit(n, from) THEN << NodeInfo(n)[to] >>
  ELSE ConvertedIn(RopeChunkAt(n, from, i), from, to, i)

SliceConvert(s, from, to, i) ==
  IF from = "line_breaks" /\ i = SliceLimit(s, from) THEN << Length(s, to) >>
  ELSE ConvertedIn(SliceChunkAt(s, from, i), from, to, i)

\* The code units before char ch, which is in chunk k.
Utf16OfChar(k, ch) ==
  ch + k.info.utf16 + ByteToUtf16SurrogateIdx(k.text, CharToByteIdx(k.text, ch - k.info.chars))

CharOfUtf16(k, u) == k.info.chars + Utf16ToCharIdx(k.text, u - Utf16Units(k.info))

RopeCharToUtf16(n, ch) ==
  IF ch > NodeInfo(n).chars THEN <<>> ELSE << Utf16OfChar(GetChunkAt(n, "chars", ch), ch) >>

RopeUtf16ToChar(n, u) ==
  IF u > Utf16Units(NodeInfo(n)) THEN <<>> ELSE << CharOfUtf16(GetChunkAtUtf16(n, u), u) >>

\* len_utf16_cu
LenUtf16(s) == Length(s, "chars") + Length(s, "utf16")

\* Mutant: the surrogate pairs before the slice are counted in.
SliceCharToUtf16Whole(s, ch) ==
  CASE ch > Length(s, "chars") -> <<>>
    [] ch <= Length(s, "chars") /\ s.light ->
         << ch + ByteToUtf16SurrogateIdx(s.text, CharToByteIdx(s.text, ch)) >>
    [] ch <= Length(s, "chars") /\ ~ s.light ->
         << Utf16OfChar(GetChunkAt(s.node, "chars", ch + s.start.chars), ch + s.start.chars)
              - s.start.chars >>

SliceCharToUtf16(s, ch) ==
  CASE ch > Length(s, "chars") -> <<>>
    [] ch <= Length(s, "chars") /\ s.light ->
         << ch + ByteToUtf16SurrogateIdx(s.text, CharToByteIdx(s.text, ch)) >>
    [] ch <= Length(s, "chars") /\ ~ s.light ->
         << Utf16OfChar(GetChunkAt(s.node, "chars", ch + s.start.chars), ch + s.start.chars)
              - Utf16Units(s.start) >>

SliceUtf16ToChar(s, u) ==
  CASE u > LenUtf16(s) -> <<>>
    [] u <= LenUtf16(s) /\ s.light -> << Utf16ToCharIdx(s.text, u) >>
    [] u <= LenUtf16(s) /\ ~ s.light ->
         << CharOfUtf16(GetChunkAtUtf16(s.node, u + Utf16Units(s.start)), u + Utf16Units(s.start))
              - s.start.chars >>

-----------------------------------------------------------------------------
(* get_byte, get_char *)

ByteOf(k, b) == k.text[b - k.info.bytes + 1]

\* The encoding of the char that starts at byte b of t.
CharFrom(t, b) == Slice(t, b, Min({i \in (b + 1)..Len(t) : IsCharBoundary(t, i)}))

CharOf(k, ch) == CharFrom(k.text, CharToByteIdx(k.text, ch - k.info.chars))

RopeGetByte(n, b) ==
  IF b < NodeInfo(n).bytes THEN << ByteOf(RopeChunkAt(n, "bytes", b)[1], b) >> ELSE <<>>

RopeGetChar(n, ch) ==
  IF ch < NodeInfo(n).chars THEN << CharOf(RopeChunkAt(n, "chars", ch)[1], ch) >> ELSE <<>>

SliceGetByte(s, b) ==
  IF b < Length(s, "bytes") THEN << ByteOf(SliceChunkAt(s, "bytes", b)[1], b) >> ELSE <<>>

SliceGetChar(s, ch) ==
  IF ch < Length(s, "chars") THEN << CharOf(SliceChunkAt(s, "chars", ch)[1], ch) >> ELSE <<>>
=============================================================================
