------------------------------ MODULE Comparing ------------------------------
(***************************************************************************)
(* Equality, order and hashes of ropes and slices (slice.rs, rope.rs).     *)
(* Texts are compared chunk by chunk, whatever the boundaries of the       *)
(* chunks on either side; a hasher is given them in blocks of one size.    *)
(***************************************************************************)
EXTENDS Chunks

CONSTANT BLOCK_SIZE  (* the bytes that a hasher is given at once.          *)

ASSUME BlockSizeAssumption == BLOCK_SIZE \in Nat \ {0}

-----------------------------------------------------------------------------
(* The chunks of a slice *)

ChunksOfSlice(s) ==
  IF s.light THEN LightChunks(s.text, FALSE)
  ELSE ChunksAtByte(s.node, s.start.bytes, s.start, s.end).iter

RECURSIVE Collected(_, _)

CollectedAfter(next, done) ==
  IF next.out = <<>> THEN done ELSE Collected(next.iter, done \o next.out)

\* All that the iterator yields.
Collected(it, done) == CollectedAfter(ChunksNext(it), done)

AllChunks(s) == Collected(ChunksOfSlice(s), <<>>)

\* One side of a comparison: the chunk being compared and those to come.
Side(chunk, rest) == [chunk |-> chunk, rest |-> rest]

SideOf(chunks) == IF chunks = <<>> THEN Side(<<>>, <<>>) ELSE Side(chunks[1], Tail(chunks))

\* An empty chunk is replaced by the next one, if there is one.
Refilled(side) ==
  IF side.chunk = <<>> /\ side.rest # <<>> THEN SideOf(side.rest) ELSE side

AtEnd(side) == side.chunk = <<>> /\ side.rest = <<>>

-----------------------------------------------------------------------------
(* eq *)

RECURSIVE SameChunks(_, _)

\* Mutant: as cmp does it, what was compared of the longer chunk is not cut off.
SameRoundStale(a, b, n) ==
  IF Slice(a.chunk, 0, n) # Slice(b.chunk, 0, n) THEN FALSE
  ELSE IF Len(a.chunk) > n THEN SameChunks(Side(From(a.chunk, n), a.rest), Side(<<>>, b.rest))
  ELSE SameChunks(Side(<<>>, a.rest), b)

\* One round: the first n bytes of both chunks, n being the length of the
\* shorter, are compared and cut off.
SameRound(a, b, n) ==
  IF Slice(a.chunk, 0, n) # Slice(b.chunk, 0, n) THEN FALSE
  ELSE SameChunks(Side(From(a.chunk, n), a.rest), Side(From(b.chunk, n), b.rest))

SameFilled(a, b) ==
  IF AtEnd(a) \/ AtEnd(b) THEN TRUE
  ELSE SameRound(a, b, Min2(Len(a.chunk), Len(b.chunk)))

SameChunks(a, b) == SameFilled(Refilled(a), Refilled(b))

SliceEq(s1, s2) ==
  /\ Length(s1, "bytes") = Length(s2, "bytes")
  /\ SameChunks(SideOf(AllChunks(s1)), SideOf(AllChunks(s2)))

\* With a str: chunk by chunk at the places of the str they belong to.
ChunksAreAt(chunks, t) ==
  \A i \in DOMAIN chunks :
    LET idx == Len(FlattenSeq(SubSeq(chunks, 1, i - 1)))
    IN  chunks[i] = Slice(t, idx, idx + Len(chunks[i]))

StrEq(s, t) ==
  IF s.light THEN s.text = t
  ELSE Length(s, "bytes") = Len(t) /\ ChunksAreAt(AllChunks(s), t)

\* Ropes are compared as the slices of all their text.
RopeEq(n1, n2) == SliceEq(WholeSlice(n1), WholeSlice(n2))

-----------------------------------------------------------------------------
(* cmp *)

\* The bytes in the order of their values.
ByteRank(b) ==
  CHOOSE i \in 1..6 : << LF, CR, Ascii, Cont, Lead2, Lead4 >>[i] = b

OrderOfNumbers(i, j) == CASE i < j -> "Less" [] i = j -> "Equal" [] i > j -> "Greater"

\* The order of byte strings: by the first byte that differs, or by length.
OrderOfBytes(t, u) ==
  LET differ == {i \in 1..Min2(Len(t), Len(u)) : t[i] # u[i]}
  IN  IF differ = {} THEN OrderOfNumbers(Len(t), Len(u))
      ELSE OrderOfNumbers(ByteRank(t[Min(differ)]), ByteRank(u[Min(differ)]))

RECURSIVE OrderOfChunks(_, _, _)

\* One round: when the left chunk is the shorter, it is emptied before its
\* length is taken off the right one, from which nothing is taken off then.
OrderRound(a, b, byLength) ==
  CASE Len(a.chunk) >= Len(b.chunk) ->
         IF OrderOfBytes(Slice(a.chunk, 0, Len(b.chunk)), b.chunk) # "Equal"
         THEN OrderOfBytes(Slice(a.chunk, 0, Len(b.chunk)), b.chunk)
         ELSE OrderOfChunks(Side(From(a.chunk, Len(b.chunk)), a.rest), Side(<<>>, b.rest),
                            byLength)
    [] Len(a.chunk) < Len(b.chunk) ->
         IF OrderOfBytes(a.chunk, Slice(b.chunk, 0, Len(a.chunk))) # "Equal"
         THEN OrderOfBytes(a.chunk, Slice(b.chunk, 0, Len(a.chunk)))
         ELSE OrderOfChunks(Side(<<>>, a.rest), b, byLength)

OrderFilled(a, b, byLength) ==
  IF AtEnd(a) \/ AtEnd(b) THEN byLength ELSE OrderRound(a, b, byLength)

OrderOfChunks(a, b, byLength) == OrderFilled(Refilled(a), Refilled(b), byLength)

SliceCmp(s1, s2) ==
  OrderOfChunks(SideOf(AllChunks(s1)), SideOf(AllChunks(s2)),
                OrderOfNumbers(Length(s1, "bytes"), Length(s2, "bytes")))

-----------------------------------------------------------------------------
(* hash *)

\* The writes to the hasher, and the buffer of what is not written yet.
Hashed(written, buffer) == [written |-> written, buffer |-> buffer]

RECURSIVE HashData(_, _)

\* Mutant: a chunk that is longer than a block is written at once.
HashRoundWhole(h, data) ==
  CASE h.buffer = <<>> /\ Len(data) >= BLOCK_SIZE ->
         Hashed(Append(h.written, data), <<>>)
    [] Len(h.buffer) = BLOCK_SIZE -> HashData(Hashed(Append(h.written, h.buffer), <<>>), data)
    [] Len(h.buffer) < BLOCK_SIZE /\ ~ (h.buffer = <<>> /\ Len(data) >= BLOCK_SIZE) ->
         LET n == Min2(BLOCK_SIZE - Len(h.buffer), Len(data))
         IN  HashData(Hashed(h.written, h.buffer \o Slice(data, 0, n)), From(data, n))

HashRound(h, data) ==
  CASE h.buffer = <<>> /\ Len(data) >= BLOCK_SIZE ->
         HashData(Hashed(Append(h.written, Slice(data, 0, BLOCK_SIZE)), <<>>),
                  From(data, BLOCK_SIZE))
    [] Len(h.buffer) = BLOCK_SIZE -> HashData(Hashed(Append(h.written, h.buffer), <<>>), data)
    [] Len(h.buffer) < BLOCK_SIZE /\ ~ (h.buffer = <<>> /\ Len(data) >= BLOCK_SIZE) ->
         LET n == Min2(BLOCK_SIZE - Len(h.buffer), Len(data))
         IN  HashData(Hashed(h.written, h.buffer \o Slice(data, 0, n)), From(data, n))

\* The while loop over the data of one chunk.
HashData(h, data) == IF data = <<>> THEN h ELSE HashRound(h, data)

WrittenBy(h) == IF h.buffer = <<>> THEN h.written ELSE Append(h.written, h.buffer)

\* The calls of Hasher::write; the byte 0xff that follows is the same for all.
HashWrites(s) == WrittenBy(FoldLeft(HashData, Hashed(<<>>, <<>>), AllChunks(s)))
=============================================================================
