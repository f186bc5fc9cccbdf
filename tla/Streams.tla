------------------------------- MODULE Streams -------------------------------
(***************************************************************************)
(* Ropes that come in pieces, as in FromReader, and go out in pieces: the  *)
(* builder finishes a rope, and the program writes it with Rope::write_to. *)
(***************************************************************************)
EXTENDS Chunks, FromReader

VARIABLES
  chunks,    \* the iterator of write_to
  sink,      \* what the writer has taken
  writing    \* whether write_to was called, or what it returned

output == <<chunks, sink, writing>>
vars == <<intake, output>>

\* The RopeBuilder, and the rope that it finishes to.
FedBuilder ==
  FoldLeft(LAMBDA b, t : AppendInternal(b, t, FALSE), NewBuilder, appended)

BuiltRope == Finish(FedBuilder)

-----------------------------------------------------------------------------
(* write_to                                                                *)

StartWriting ==
  /\ at = "built" /\ writing = "no"
  /\ chunks' = ChunksAtByte(BuiltRope, 0, InfoNew, NodeInfo(BuiltRope)).iter
  /\ writing' = "write_to"
  /\ UNCHANGED <<intake, sink>>

\* Mutant: the writer may take a part of a chunk, and the call goes on.
WriteOutOnce(next) ==
  \/ /\ next.out = <<>>
     /\ writing' = "written"
     /\ UNCHANGED sink
  \/ /\ next.out # <<>>
     /\ \E n \in 0..Len(next.out[1]) : sink' = sink \o Slice(next.out[1], 0, n)
     /\ UNCHANGED writing

\* The writer takes all of a chunk, or fails when it has taken some of it.
WriteOut(next) ==
  \/ /\ next.out = <<>>
     /\ writing' = "written"
     /\ UNCHANGED sink
  \/ /\ next.out # <<>>
     /\ sink' = sink \o next.out[1]
     /\ UNCHANGED writing
  \/ /\ next.out # <<>>
     /\ \E n \in 0..Len(next.out[1]) : sink' = sink \o Slice(next.out[1], 0, n)
     /\ writing' = "write error"

WriteChunk ==
  /\ writing = "write_to"
  /\ chunks' = ChunksNext(chunks).iter
  /\ WriteOut(ChunksNext(chunks))
  /\ UNCHANGED intake

-----------------------------------------------------------------------------

Init == ReaderInit /\ chunks = LightChunks(<<>>, FALSE) /\ sink = <<>> /\ writing = "no"

Next ==
  \/ Read /\ UNCHANGED output
  \/ ReadFails /\ UNCHANGED output
  \/ AppendChunk /\ UNCHANGED output
  \/ FinishBuild /\ UNCHANGED output
  \/ StartWriting
  \/ WriteChunk

\* A call that was made goes on: its thread runs, and each of its reads and
\* writes returns.  The program need not make a call.
Spec ==
  /\ Init /\ [][Next]_vars
  /\ WF_vars(Read /\ UNCHANGED output) /\ WF_vars(WriteChunk)

-----------------------------------------------------------------------------
(* Properties                                                              *)

TypeOK ==
  /\ ReaderTyped
  /\ sink \in Seq(Byte)
  /\ writing \in {"no", "write_to", "written", "write error"}

BuilderText == FlattenSeq([i \in DOMAIN FedBuilder.stack |-> TextOf(FedBuilder.stack[i])])
                 \o FedBuilder.buffer

WellFormed(root) ==
  /\ Accurate(root)
  /\ Balanced(root)
  /\ Populated(root)
  /\ root.leaf \/ Len(root.children) >= 2
  /\ CrlfSeams(root)
  /\ \A i \in DOMAIN LeafTexts(root) :
       /\ Len(LeafTexts(root)[i]) < MAX_BYTES + 4
       /\ root.leaf \/ LeafTexts(root)[i] # <<>>

\* The builder holds what was appended to it, in its tree and its buffer, however
\* the text was cut, and the rope has it all.  The tree is well-formed: a CR and an
\* LF that come in different chunks are in one leaf, leaves are not too large or
\* empty, all are at one depth, the right edge has enough children.
BuiltRight ==
  /\ at \in {"from_reader", "feeding"} => BuilderText = FlattenSeq(appended)
  /\ at = "built" /\ writing = "no" =>
       TextOf(BuiltRope) = FlattenSeq(appended) /\ WellFormed(BuiltRope)

\* What was written is what was read, from its start, and all of it if the
\* call says so.
WrittenAsRead ==
  /\ IsPrefix(sink, given)
  /\ writing = "written" => sink = given

\* from_reader returns for every stream that ends, whatever its reads return;
\* so does write_to.
CallsReturn ==
  /\ at = "from_reader" ~> at \in {"built", "read error", "invalid"}
  /\ writing = "write_to" ~> writing \in {"written", "write error"}
=============================================================================
