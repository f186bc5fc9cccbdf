----------------------------- MODULE BytesChars -----------------------------
(***************************************************************************)
(* The Bytes and Chars iterators (iter.rs) as values: a Chunks iterator,   *)
(* the chunk last taken from it and the byte in that chunk.  After a call  *)
(* of next_impl the Chunks iterator is past that chunk, after one of       *)
(* prev_impl before it.  The two iterators are the same code but for the   *)
(* width of a step and for how they are built; unit says which it is.      *)
(***************************************************************************)
EXTENDS Chunks

UnitIter(unit, chunks, chunk, b, total, remaining) ==
  [unit |-> unit, chunk_iter |-> chunks, cur_chunk |-> chunk, byte_idx |-> b,
   last_call_was_prev_impl |-> FALSE, total |-> total, remaining |-> remaining]

\* The text of a call's result, empty when there is none.
OutOr(r) == IF r.out = <<>> THEN <<>> ELSE r.out[1]

-----------------------------------------------------------------------------
(* Steps *)

\* The char boundaries of a text.
Boundaries(t) == {b \in 0..Len(t) : IsCharBoundary(t, b)}

After(unit, t, b) ==
  IF unit = "bytes" THEN b + 1 ELSE Min({i \in Boundaries(t) : i > b})

Before(unit, t, b) ==
  IF unit = "bytes" THEN b - 1 ELSE Max({i \in Boundaries(t) : i < b})

\* Mutant: a change of direction does not move the Chunks iterator.
TurnedForwardNot(it) == [it EXCEPT !.last_call_was_prev_impl = FALSE]

TurnedForward(it) ==
  IF ~ it.last_call_was_prev_impl THEN it
  ELSE [it EXCEPT !.chunk_iter = ChunksNext(it.chunk_iter).iter,
                  !.last_call_was_prev_impl = FALSE]

TurnedBackward(it) ==
  IF it.last_call_was_prev_impl THEN it
  ELSE [it EXCEPT !.chunk_iter = ChunksPrev(it.chunk_iter).iter,
                  !.last_call_was_prev_impl = TRUE]

InChunk(it, r, b) == [it EXCEPT !.chunk_iter = r.iter, !.cur_chunk = r.out[1], !.byte_idx = b]

StepOver(it, to) ==
  Gives([it EXCEPT !.byte_idx = to, !.remaining = @ - 1],
        Slice(it.cur_chunk, it.byte_idx, to))

StepBack(it, to) ==
  Gives([it EXCEPT !.byte_idx = to, !.remaining = @ + 1],
        Slice(it.cur_chunk, to, it.byte_idx))

StepOverIn(it) == StepOver(it, After(it.unit, it.cur_chunk, it.byte_idx))
StepBackIn(it) == StepBack(it, Before(it.unit, it.cur_chunk, it.byte_idx))

NextChunkOf(it, r) ==
  IF r.out = <<>> THEN Ends([it EXCEPT !.chunk_iter = r.iter])
  ELSE StepOverIn(InChunk(it, r, 0))

PrevChunkOf(it, r) ==
  IF r.out = <<>> THEN Ends([it EXCEPT !.chunk_iter = r.iter])
  ELSE StepBackIn(InChunk(it, r, Len(r.out[1])))

NextFacing(it) ==
  IF it.byte_idx < Len(it.cur_chunk) THEN StepOverIn(it)
  ELSE NextChunkOf(it, ChunksNext(it.chunk_iter))

PrevFacing(it) ==
  IF it.byte_idx # 0 THEN StepBackIn(it) ELSE PrevChunkOf(it, ChunksPrev(it.chunk_iter))

\* next_impl, prev_impl
UnitNext(it) == NextFacing(TurnedForward(it))
UnitPrev(it) == PrevFacing(TurnedBackward(it))

\* size_hint
UnitSizeHint(it, reversed) == IF reversed THEN it.total - it.remaining ELSE it.remaining

-----------------------------------------------------------------------------
(* new_with_range_at, from_str_at *)

\* byte_idx: the byte of cur_chunk where the iterator stands; first is the
\* byte or the char of the range at which that chunk starts.
StandAt(unit, t, at, first) ==
  IF unit = "bytes" THEN at - first ELSE CharToByteIdx(t, at - first)

UnitIn(unit, iter, t, at, first, s, e) ==
  UnitIter(unit, iter, t, StandAt(unit, t, at, first), e[unit] - s[unit], e[unit] - at)

\* Of the last chunk of the range, t, the index it starts at.
LastChunkStart(n, unit, t, info, at, s) ==
  IF unit = "bytes" THEN info.bytes - Len(t)
  ELSE Max2(GetChunkAt(n, "chars", at - 1).info.chars, s.chars)

UnitFromNext(unit, c, r, at, s, e) ==
  UnitIn(unit, r.iter, r.out[1], at, c.info[unit], s, e)

UnitFromPrev(n, unit, c, r, at, s, e) ==
  UnitIn(unit, ChunksNext(r.iter).iter, r.out[1], at,
         LastChunkStart(n, unit, r.out[1], c.info, at, s), s, e)

UnitFromChunks(n, unit, c, at, s, e) ==
  CASE s[unit] = e[unit] -> UnitIn(unit, c.iter, <<>>, at, c.info[unit], s, e)
    [] s[unit] # e[unit] /\ at < e[unit] ->
         UnitFromNext(unit, c, ChunksNext(c.iter), at, s, e)
    [] s[unit] # e[unit] /\ at >= e[unit] ->
         UnitFromPrev(n, unit, c, ChunksPrev(c.iter), at, s, e)

UnitAt(n, unit, at, s, e) ==
  UnitFromChunks(n, unit,
    IF unit = "bytes" THEN ChunksAtByte(n, at, s, e) ELSE ChunksAtChar(n, at, s, e),
    at, s, e)

\* Of a text in one piece: the remaining units are counted.
UnitFromStr(unit, r, t, b, total) ==
  UnitIter(unit, r.iter, OutOr(r), b, total, InfoFromStr(From(t, b))[unit])

UnitFromStrAt(unit, t, at) ==
  UnitFromStr(unit, ChunksNext(LightChunks(t, FALSE)), t, StandAt(unit, t, at, 0),
              InfoFromStr(t)[unit])
=============================================================================
