------------------------------- MODULE RopeOps -------------------------------
(***************************************************************************)
(* The editing methods of Rope (rope.rs) on root nodes.                    *)
(***************************************************************************)
EXTENDS RopeSlice

CONSTANT SpliceFactor  (* a text longer than this many leaves is spliced in *)
                       (* as a rope: 6 in the code, smaller in small models. *)

ASSUME SpliceFactorAssumption == SpliceFactor \in Nat \ {0}

-----------------------------------------------------------------------------
(* insert_internal, try_insert, try_insert_char *)

FirstEdit(root, ch, text) ==
  EditChunkAtChar(root, ch, NodeInfo(root), TextEdit(text, ch = 0))

\* What remained of the text is now in the tree, but for the LF at its start.
LfInserted(root, ch, text) ==
  Rerooted(EditChunkAtChar(root, ch, NodeInfo(root), LfEdit(Tail(text))))

SecondEdit(first, ch, text) ==
  IF first.seam THEN LfInserted(Rerooted(first), ch - 1, text) ELSE Rerooted(first)

\* Mutant: the leading LF goes to the chunk after the seam.
InsertInternalRight(root, ch, text) ==
  SecondEdit(FirstEdit(root, ch, text), ch + 1, text)

InsertInternal(root, ch, text) == SecondEdit(FirstEdit(root, ch, text), ch, text)

RECURSIVE InsertChunks(_, _, _)

InsertLastChunk(root, ch, parts) ==
  InsertChunks(InsertInternal(root, ch, parts[2]), ch, parts[1])

\* The text goes in chunk by chunk, from its end, at the same char.
InsertChunks(root, ch, text) ==
  LET start == Len(text) - Min2(MAX_BYTES - 4, Len(text))
  IN  IF text = <<>> THEN root
      ELSE InsertLastChunk(root, ch, CutAt(text, FindGoodSplit(start, text, FALSE)))

-----------------------------------------------------------------------------
(* try_split_off: the rope that stays and the one returned *)

\* A cut at either end leaves the rope whole; parts are the two trees otherwise.
SplitRope(root, ch, parts) ==
  CASE ch = 0 -> <<EmptyNode, root>>
    [] ch # 0 /\ ch = CharCount(root) -> <<root, EmptyNode>>
    [] ch \notin {0, CharCount(root)} -> parts

ZipHalves(halves) ==
  << PullUpSingularNodes(ZipFixRight(halves[1]).node),
     PullUpSingularNodes(ZipFixLeft(halves[2]).node) >>

SplitOffRope(root, ch) == SplitRope(root, ch, ZipHalves(SplitNode(root, ch)))

-----------------------------------------------------------------------------
(* append *)

UnderRoot(l, r) == Internal(<<Child(l), Child(r)>>)

Appended(a) == IF a.residual = <<>> THEN a.node ELSE UnderRoot(a.node, a.residual[1])

Prepended(p) == IF p.residual = <<>> THEN p.node ELSE UnderRoot(p.residual[1], p.node)

\* Mutant: what did not fit on the left goes to the right.
JoinedSwapped(l, r) ==
  IF Depth(l) > Depth(r) THEN Appended(AppendAtDepth(l, r, Depth(l) - Depth(r)))
  ELSE Appended(PrependAtDepth(r, l, Depth(r) - Depth(l)))

\* The two trees joined, the shallower grafted onto the other.
Joined(l, r) ==
  IF Depth(l) > Depth(r) THEN Appended(AppendAtDepth(l, r, Depth(l) - Depth(r)))
  ELSE Prepended(PrependAtDepth(r, l, Depth(r) - Depth(l)))

\* A seam mended, and the small nodes along it merged, where the flag says so.
MendAt(n, pos, crlf) == IF crlf THEN FixCrlfSeam(n, pos) ELSE n

FixAtChar(n, ch, small) == IF small THEN FixTreeSeam(n, ch).node ELSE n

JoinSeam(l, r, li, ri, crlf) ==
  PullUpSingularNodes(FixAtChar(MendAt(Joined(l, r), li.bytes, crlf), li.chars,
                                li.bytes < MIN_BYTES \/ ri.bytes < MIN_BYTES))

AppendRope(l, r) ==
  CASE CharCount(l) = 0 -> r
    [] CharCount(l) # 0 /\ CharCount(r) = 0 -> l
    [] CharCount(l) # 0 /\ CharCount(r) # 0 ->
         JoinSeam(l, r, NodeInfo(l), NodeInfo(r), FirstLeaf(r)[1] = LF)

\* The text between the two parts of the rope.
Spliced(halves, middle) == AppendRope(AppendRope(halves[1], middle), halves[2])

TryInsert(root, ch, text) ==
  IF Len(text) > MAX_BYTES * SpliceFactor
  THEN Spliced(SplitOffRope(root, ch), BuildAtOnce(text))
  ELSE InsertChunks(root, ch, text)

-----------------------------------------------------------------------------
(* try_remove *)

\* The byte at which char ch of a tree starts.
ByteOfChar(root, ch) == CharToByteIdx(TextOf(root), ch)

\* The seams of a removal at char s, as far as its result r asks for it.
AfterRemoval(r, s, crlf) ==
  PullUpSingularNodes(FixAtChar(MendAt(r.node, ByteOfChar(r.node, s), crlf), s, r.fix))

RemovedRope(r, s) == AfterRemoval(r, s, r.seam)

RemoveRope(root, s, e) ==
  IF s = 0 /\ e = CharCount(root) THEN EmptyNode
  ELSE RemovedRope(RemoveCharRange(root, s, e, NodeInfo(root)), s)

-----------------------------------------------------------------------------
(* From<RopeSlice>: the rope of a slice, cut out of the slice's node.  The  *)
(* start is cut where it was before the end was.                           *)

KeepTo(n, e) ==
  IF e < CharCount(n) THEN PullUpSingularNodes(ZipFixRight(SplitNode(n, e)[1]).node) ELSE n

KeepFrom(n, s) ==
  IF s > 0 THEN PullUpSingularNodes(ZipFixLeft(SplitNode(n, s)[2]).node) ELSE n

RopeOfSlice(s) ==
  IF s.light THEN BuildAtOnce(s.text) ELSE KeepFrom(KeepTo(s.node, s.end.chars), s.start.chars)

-----------------------------------------------------------------------------
(* shrink_to_fit: every chunk, in order, through a new builder *)

ShrinkRope(root) ==
  Finish(FoldLeft(LAMBDA b, t : AppendInternal(b, t, FALSE), NewBuilder, LeafTexts(root)))
=============================================================================
