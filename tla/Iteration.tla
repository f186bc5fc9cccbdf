------------------------------ MODULE Iteration ------------------------------
(***************************************************************************)
(* A program that makes one iterator over a rope or a slice, at an index   *)
(* it chooses, and calls its next, prev and reverse in any order.          *)
(***************************************************************************)
EXTENDS BytesChars, Lines

CONSTANTS
  Sources,  (* what is iterated: <<t, k, v>>, the text of a rope, a kind   *)
            (* of iterator and a view of the rope.                         *)
  CutEnds   (* whether byte slices may end between a CR and its LF.        *)

Kinds == {"bytes", "chars", "lines", "chunks_at_byte", "chunks_at_char", "chunks_at_line_break"}
Views == {"rope", "slice", "light_slice", "byte_slice"}

ASSUME SourcesAssumption ==
  /\ \A src \in Sources : src[1] \in Seq(Byte) /\ src[2] \in Kinds /\ src[3] \in Views
  /\ CutEnds \in BOOLEAN

VARIABLES
  kind,         \* the method that made the iterator
  slice,        \* what it iterates over
  items,        \* the items of the text that it is to yield, and how many of
  start,        \* them are before the index that it was asked to start at
  place,        \* for Chunks: the summary of the text before that was returned
  iter,         \* the iterator
  is_reversed,
  out           \* the result of the last call, a sequence of at most one item

source == <<kind, slice, items, start, place>>
vars == <<source, iter, is_reversed, out>>

-----------------------------------------------------------------------------
(* Ropes and slices.  A rope is iterated as the range of all its text, even *)
(* when its root is a leaf.                                                *)

Ranges(n, unit) == {r \in (0..NodeInfo(n)[unit]) \X (0..NodeInfo(n)[unit]) : r[1] <= r[2]}

ByteRanges(n) ==
  {r \in Ranges(n, "bytes") :
     /\ IsCharBoundary(TextOf(n), r[1])
     /\ IsCharBoundary(TextOf(n), r[2])
     /\ CutEnds \/ ~ CutsCrlf(TextOf(n), r[2])}

CharSlices(n) == {NewWithRange(n, "chars", r[1], r[2]) : r \in Ranges(n, "chars")}

SlicesOf(n, view) ==
  CASE view = "rope"        -> {FullSlice(n, InfoNew, NodeInfo(n))}
    [] view = "slice"       -> {s \in CharSlices(n) : ~ s.light}
    [] view = "light_slice" -> {s \in CharSlices(n) : s.light}
    [] view = "byte_slice"  -> {NewWithRange(n, "bytes", r[1], r[2]) : r \in ByteRanges(n)}

-----------------------------------------------------------------------------
(* get_bytes_at, get_chars_at, get_lines_at, get_chunks_at_byte,           *)
(* get_chunks_at_char, get_chunks_at_line_break: the iterators made.       *)

Unit(k) ==
  CASE k \in {"bytes", "chunks_at_byte"} -> "bytes"
    [] k \in {"chars", "chunks_at_char"} -> "chars"
    [] k \in {"lines", "chunks_at_line_break"} -> "line_breaks"

\* The greatest index that may be asked for.
LastIndex(s, k) == IF Unit(k) = "line_breaks" THEN LenLines(s) ELSE Length(s, Unit(k))

UnitIterator(s, unit, i) ==
  IF s.light THEN UnitFromStrAt(unit, s.text, i)
  ELSE UnitAt(s.node, unit, s.start[unit] + i, s.start, s.end)

LinesIterator(s, i) ==
  IF s.light THEN LinesFromStrAt(s.text, i, LenLines(s))
  ELSE LinesAt(s.node, s.start.line_breaks + i, s.start, s.end)

\* Of a text in one piece: the end is asked for by the index of the unit's end.
LightChunksAt(s, unit, i) ==
  StartedAt(LightChunks(s.text, i = s.count[unit]),
            IF i = s.count[unit] THEN s.count ELSE InfoNew)

\* A rope asks for line break 0 as for any other: the same chunk.
FullChunksAt(s, k, i) ==
  CASE k = "chunks_at_byte" -> ChunksAtByte(s.node, s.start.bytes + i, s.start, s.end)
    [] k = "chunks_at_char" -> ChunksAtChar(s.node, s.start.chars + i, s.start, s.end)
    [] k = "chunks_at_line_break" /\ i = 0 ->
         ChunksAtByte(s.node, s.start.bytes, s.start, s.end)
    [] k = "chunks_at_line_break" /\ i = LenLines(s) ->
         ChunksAtByte(s.node, s.end.bytes, s.start, s.end)
    [] k = "chunks_at_line_break" /\ i \notin {0, LenLines(s)} ->
         ChunksAtLineBreak(s.node, s.start.line_breaks + i, s.start, s.end)

FromStart(info, s) ==
  [u \in {"bytes", "chars", "line_breaks"} |-> Max2(info[u] - s[u], 0)]

Relative(c, s) == StartedAt(c.iter, FromStart(c.info, s))

ChunksIterator(s, k, i) ==
  IF s.light THEN Relative(LightChunksAt(s, Unit(k), i), InfoNew)
  ELSE Relative(FullChunksAt(s, k, i), s.start)

Made(s, k, i) ==
  CASE k \in {"bytes", "chars"} -> StartedAt(UnitIterator(s, Unit(k), i), InfoNew)
    [] k = "lines" -> StartedAt(LinesIterator(s, i), InfoNew)
    [] k \notin {"bytes", "chars", "lines"} -> ChunksIterator(s, k, i)

-----------------------------------------------------------------------------
(* What is iterated over, from the text alone                              *)

\* A text cut after each of the given bytes.
CutAfter(t, ends) ==
  LET seq == SelectSeq([i \in DOMAIN t |-> i], LAMBDA i : i \in ends)
  IN  [i \in DOMAIN seq |-> Slice(t, IF i = 1 THEN 0 ELSE seq[i - 1], seq[i])]

BytesOf(t) == CutAfter(t, DOMAIN t)
CharsOf(t) == CutAfter(t, Boundaries(t) \ {0})

\* The last line is what follows the last line break.
LinesOf(t) ==
  Append(CutAfter(t, {i \in DOMAIN t : IsLineBreak(t, i)}),
         From(t, Max({0} \cup {i \in DOMAIN t : IsLineBreak(t, i)})))

\* The leaves of a rope, cut to the range of a slice.
LeafEnds(ls) == {Len(FlattenSeq(SubSeq(ls, 1, i))) : i \in DOMAIN ls}

ChunkEnds(s) ==
  IF s.light THEN {Len(s.text)}
  ELSE {Min2(e, s.end.bytes) - s.start.bytes : e \in LeafEnds(LeafTexts(s.node))}

ChunksOf(s) == CutAfter(SliceText(s), {e \in ChunkEnds(s) : e > 0})

ItemsOf(s, k) ==
  CASE k = "bytes" -> BytesOf(SliceText(s))
    [] k = "chars" -> CharsOf(SliceText(s))
    [] k = "lines" -> LinesOf(SliceText(s))
    [] k \notin {"bytes", "chars", "lines"} -> ChunksOf(s)

\* The summary of the first i items.
InfoOfFirst(all, i) == InfoFromStr(FlattenSeq(SubSeq(all, 1, i)))

\* The items before index i.  A chunk contains the bytes and chars that it
\* holds, and the line breaks: the first in which the line break is counted, the
\* start of the text being line break 0.
ItemsBefore(all, k, i, last) ==
  CASE k \in {"bytes", "chars", "lines"} -> i
    [] k \notin {"bytes", "chars", "lines"} /\ i = last -> Len(all)
    [] k = "chunks_at_line_break" /\ i # last ->
         Cardinality({j \in DOMAIN all : InfoOfFirst(all, j).line_breaks < i})
    [] k \in {"chunks_at_byte", "chunks_at_char"} /\ i # last ->
         Cardinality({j \in DOMAIN all : InfoOfFirst(all, j)[Unit(k)] <= i})

-----------------------------------------------------------------------------

StartsAs(c, i) ==
  /\ iter = c.iter
  /\ place = c.info
  /\ start = ItemsBefore(items, kind, i, LastIndex(slice, kind))

Init ==
  \E src \in Sources :
    /\ kind = src[2]
    /\ slice \in SlicesOf(BuildAtOnce(src[1]), src[3])
    /\ items = ItemsOf(slice, kind)
    /\ \E i \in 0..LastIndex(slice, kind) : StartsAs(Made(slice, kind, i), i)
    /\ is_reversed = FALSE
    /\ out = <<>>

NextImpl(it) ==
  CASE kind \in {"bytes", "chars"} -> UnitNext(it)
    [] kind = "lines" -> LinesNext(it)
    [] kind \notin {"bytes", "chars", "lines"} -> ChunksNext(it)

PrevImpl(it) ==
  CASE kind \in {"bytes", "chars"} -> UnitPrev(it)
    [] kind = "lines" -> LinesPrev(it)
    [] kind \notin {"bytes", "chars", "lines"} -> ChunksPrev(it)

Returns(r) == iter' = r.iter /\ out' = r.out

\* The methods next, prev and reverse.
NextItem ==
  /\ Returns(IF is_reversed THEN PrevImpl(iter) ELSE NextImpl(iter))
  /\ UNCHANGED <<source, is_reversed>>

PrevItem ==
  /\ Returns(IF is_reversed THEN NextImpl(iter) ELSE PrevImpl(iter))
  /\ UNCHANGED <<source, is_reversed>>

ReverseIt ==
  /\ is_reversed' = ~ is_reversed
  /\ UNCHANGED <<source, iter, out>>

Next == NextItem \/ PrevItem \/ ReverseIt

Spec == Init /\ [][Next]_vars

-----------------------------------------------------------------------------

\* The items before the iterator.  For chunks: those that start before the byte
\* of the range at which the next leaf starts.
ChunksBefore(it) ==
  IF it.full
  THEN Cardinality({i \in DOMAIN items : InfoOfFirst(items, i - 1).bytes < it.byte_idx})
  ELSE IF it.is_end THEN Len(items) ELSE 0

Position ==
  CASE kind \in {"bytes", "chars"} -> iter.total - iter.remaining
    [] kind = "lines" -> iter.line_idx
    [] kind \notin {"bytes", "chars", "lines"} -> ChunksBefore(iter)

ItemText(item) == IF kind = "lines" THEN SliceText(item) ELSE item

IterCursor ==
  INSTANCE Cursor WITH pos <- Position, out <- [i \in DOMAIN out |-> ItemText(out[i])]

\* Every iterator, over ropes and slices whatever their leaves, is a cursor
\* over the items of the text, in any order of next, prev and reverse, from
\* the index asked for.
ImplementsCursor == IterCursor!Spec

\* size_hint is exact, as ExactSizeIterator demands.
SizeHintExact ==
  LET left == IF is_reversed THEN Position ELSE Len(items) - Position
  IN  CASE kind \in {"bytes", "chars"} -> UnitSizeHint(iter, is_reversed) = left
        [] kind = "lines" -> LinesSizeHint(iter, is_reversed) = left
        [] kind \notin {"bytes", "chars", "lines"} -> TRUE

\* The byte, char and line that a Chunks iterator is made with are those at
\* which the next chunk starts.
PlaceReported ==
  kind \notin {"bytes", "chars", "lines"} =>
    \A u \in {"bytes", "chars", "line_breaks"} : place[u] = InfoOfFirst(items, start)[u]

\* The counts that a yielded line carries, which are summed up on the way
\* through the tree and not counted, are those of its text.
LineCounted(s) ==
  \A u \in {"chars", "utf16", "line_breaks"} :
    Length(s, u) = InfoFromStr(SliceText(s))[u]

LinesCounted == kind = "lines" /\ out # <<>> => LineCounted(out[1])

\* The counts of the lines that the iterators over more than one leaf yield
\* are those of their texts.
TreeLinesCounted == kind = "lines" /\ iter.full /\ out # <<>> => LineCounted(out[1])

\* Positions of the tree are children of their nodes, but for the last one, which
\* next_impl leaves past the last leaf of its node.
StackInBounds(stack) ==
  \A k \in DOMAIN stack :
    stack[k].i \in 1..(Len(stack[k].node.children) + OneIf(k = Len(stack)))

\* Every index that an iterator uses unchecked is within what it is an index of.
TypeOK ==
  /\ kind \in Kinds
  /\ is_reversed \in BOOLEAN
  /\ Len(out) <= 1
  /\ kind \in {"bytes", "chars"} =>
       iter.byte_idx \in 0..Len(iter.cur_chunk) /\ iter.remaining \in 0..iter.total
  /\ kind = "lines" => iter.line_idx \in 0..iter.total_lines
  /\ kind = "lines" /\ iter.full => iter.leaf_byte_idx \in 0..Len(iter.text)
  /\ kind \notin {"bytes", "chars"} /\ iter.full => StackInBounds(iter.node_stack)
=============================================================================
