------------------------------- MODULE Slicing -------------------------------
(***************************************************************************)
(* get_slice, get_byte_slice and get_line of Rope and RopeSlice.  A result *)
(* is a slice, or the error that there is none for.                        *)
(***************************************************************************)
EXTENDS Lookups

Ok(s)  == [ok |-> TRUE, slice |-> s]
Err(e) == [ok |-> FALSE, error |-> e]

-----------------------------------------------------------------------------
(* lib.rs: the bounds of a range.  Unbounded is no number, which is -1.    *)

Included(n) == [kind |-> "included", n |-> n]
Excluded(n) == [kind |-> "excluded", n |-> n]
Unbounded   == [kind |-> "unbounded"]

StartBoundToNum(b) ==
  CASE b.kind = "included"  -> b.n
    [] b.kind = "excluded"  -> b.n + 1
    [] b.kind = "unbounded" -> -1

EndBoundToNum(b) ==
  CASE b.kind = "included"  -> b.n + 1
    [] b.kind = "excluded"  -> b.n
    [] b.kind = "unbounded" -> -1

OrElse(num, default) == IF num = -1 THEN default ELSE num

-----------------------------------------------------------------------------
(* get_slice *)

RopeRange(n, s, e) ==
  IF s <= e /\ e <= CharCount(n) THEN Ok(NewWithRange(n, "chars", s, e)) ELSE Err("None")

RopeGetSlice(n, first, past) ==
  RopeRange(n, OrElse(StartBoundToNum(first), 0), OrElse(EndBoundToNum(past), CharCount(n)))

\* Chars s..e of a text in one piece, whose chars are not counted again.
LightRange(t, s, e) ==
  LET part == Slice(t, CharToByteIdx(t, s), CharToByteIdx(t, e))
  IN  LightSlice(part, [InfoFromStr(part) EXCEPT !.chars = e - s])

SliceRange(v, s, e) ==
  CASE s > e \/ e > Length(v, "chars") -> Err("None")
    [] s <= e /\ e <= Length(v, "chars") /\ v.light -> Ok(LightRange(v.text, s, e))
    [] s <= e /\ e <= Length(v, "chars") /\ ~ v.light ->
         Ok(NewWithRange(v.node, "chars", v.start.chars + s, v.start.chars + e))

\* The whole of a slice is that slice.
SliceGetSlice(v, first, past) ==
  IF first = Unbounded /\ past = Unbounded THEN Ok(v)
  ELSE SliceRange(v, OrElse(StartBoundToNum(first), 0),
                  OrElse(EndBoundToNum(past), Length(v, "chars")))

-----------------------------------------------------------------------------
(* get_byte_slice_impl *)

\* The error of a range of a text of len bytes; -1 is a bound not given.
RangeError(s, e, len) ==
  CASE e # -1 /\ s > e -> "ByteRangeInvalid"
    [] (e = -1 \/ s <= e) /\ (e > len \/ (e = -1 /\ s > len)) -> "ByteRangeOutOfBounds"
    [] (e = -1 \/ s <= e) /\ ~ (e > len \/ (e = -1 /\ s > len)) -> "none"

\* new_with_byte_range, which looks whether the bytes are char boundaries.
NewWithByteRange(n, s, e) ==
  IF IsCharBoundary(TextOf(n), s) /\ IsCharBoundary(TextOf(n), e)
  THEN Ok(NewWithRange(n, "bytes", s, e)) ELSE Err("ByteRangeNotCharBoundary")

RopeByteRange(n, s, e) ==
  IF RangeError(s, e, NodeInfo(n).bytes) # "none" THEN Err(RangeError(s, e, NodeInfo(n).bytes))
  ELSE NewWithByteRange(n, OrElse(s, 0), OrElse(e, NodeInfo(n).bytes))

RopeGetByteSlice(n, first, past) ==
  RopeByteRange(n, StartBoundToNum(first), EndBoundToNum(past))

LightByteRange(t, s, e) ==
  IF IsCharBoundary(t, s) /\ IsCharBoundary(t, e) THEN Ok(SliceOfStr(Slice(t, s, e)))
  ELSE Err("ByteRangeNotCharBoundary")

BytesOfSlice(v, s, e) ==
  IF v.light THEN LightByteRange(v.text, s, e)
  ELSE NewWithByteRange(v.node, v.start.bytes + s, v.start.bytes + e)

SliceByteRange(v, s, e) ==
  IF RangeError(s, e, Length(v, "bytes")) # "none"
  THEN Err(RangeError(s, e, Length(v, "bytes")))
  ELSE BytesOfSlice(v, OrElse(s, 0), OrElse(e, Length(v, "bytes")))

SliceGetByteSlice(v, first, past) ==
  IF first = Unbounded /\ past = Unbounded THEN Ok(v)
  ELSE SliceByteRange(v, StartBoundToNum(first), EndBoundToNum(past))

-----------------------------------------------------------------------------
(* get_line: from the chunks of the line's start and of the next line's.   *)

\* A line that is in one chunk, taken from its text.
LineOfChunk(text, isLast) ==
  LineSlice(Slice(text, 0, LineToByteIdx(text, 1)), OneIf(~ isLast))

\* Mutant: the line is not counted from the chunk's first.
LineInChunkAbsolute(k, line, isLast) ==
  LineOfChunk(From(k.text, LineToByteIdx(k.text, line)), isLast)

LineInChunk(k, line, isLast) ==
  LineOfChunk(From(k.text, LineToByteIdx(k.text, line - k.info.line_breaks)), isLast)

\* The char at which a line starts that is in chunk k.
LineStartIn(k, line) == InChunkOf(k, "line_breaks", "chars", line)

RopeLineFrom(n, k1, k2, line) ==
  IF k1.info.chars = k2.info.chars
  THEN Ok(LineInChunk(k1, line, line = NodeInfo(n).line_breaks))
  ELSE RopeRange(n, LineStartIn(k1, line), LineStartIn(k2, line + 1))

RopeGetLine(n, line) ==
  IF line > NodeInfo(n).line_breaks THEN Err("None")
  ELSE RopeLineFrom(n, RopeChunkAt(n, "line_breaks", line)[1],
                    RopeChunkAt(n, "line_breaks", line + 1)[1], line)

SliceLineFrom(v, k1, k2, line) ==
  IF k1.info.chars = k2.info.chars
  THEN Ok(LineInChunk(k1, line, line = Length(v, "line_breaks")))
  ELSE SliceRange(v, LineStartIn(k1, line), LineStartIn(k2, line + 1))

SliceGetLine(v, line) ==
  IF line > Length(v, "line_breaks") THEN Err("None")
  ELSE SliceLineFrom(v, SliceChunkAt(v, "line_breaks", line)[1],
                     SliceChunkAt(v, "line_breaks", line + 1)[1], line)
=============================================================================
