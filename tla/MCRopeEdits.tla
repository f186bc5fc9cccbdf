----------------------------- MODULE MCRopeEdits -----------------------------
(***************************************************************************)
(* Instances of Rope for TLC: a few edits of ropes that are built from     *)
(* longer texts, so that their trees have three levels and more.           *)
(***************************************************************************)
EXTENDS MCRope

VARIABLE edits  \* the number of edits made so far

\* A program that makes a few edits to its ropes, which hold some of the texts
\* at first; kind says of what kind the edits are.
EditProgram(kind, users, n, starts, texts, max) ==
  [kind |-> kind, ropes |-> users, edits |-> n, starts |-> starts, texts |-> texts,
   max_len |-> max]

EditsInit ==
  /\ edits = 0
  /\ program \in Programs
  /\ call = [op |-> "none"]
  /\ \E f \in [program.ropes -> program.starts] :
       ropes = [h \in Handles |-> IF h \in program.ropes THEN BuildAtOnce(Encode(f[h]))
                                 ELSE EmptyNode]

InPlace ==
  /\ program.kind = "in place"
  /\ \E h \in program.ropes :
       FromStr(h) \/ Insert(h) \/ InsertChar(h) \/ RemoveChars(h) \/ ShrinkToFit(h)

Joins ==
  /\ program.kind = "joins"
  /\ \E h \in program.ropes : \E g \in program.ropes \ {h} :
       SplitOff(h, g) \/ AppendTo(h, g) \/ Clone(h, g)

\* A rope made of a slice, and then edited or sliced again.
Slices ==
  /\ program.kind = "slices"
  /\ \E h \in program.ropes : FromSlice(h, h) \/ (edits > 0 /\ Insert(h))

EditsNext ==
  /\ edits < program.edits
  /\ edits' = edits + 1
  /\ InPlace \/ Joins \/ Slices
  /\ UNCHANGED program

EditsSpec == EditsInit /\ [][EditsNext]_<<vars, edits>>

\* The behaviours do not depend on the last call.
EditsView == <<ropes, edits, program>>

\* The tree invariant of NodesPopulated, but for the texts with four-byte chars:
\* there, a mended seam can leave a node with too few children, as a comment on
\* fix_crlf_seam admits.
NodesPopulatedNarrow ==
  (\A t \in program.texts : Lead4 \notin {t[i] : i \in DOMAIN t}) => NodesPopulated

\* design.md, the invariants of a tree: what an operation breaks, its own
\* repairs mend, and not the next operation's.
TreeInvariants ==
  /\ InfosAccurate
  /\ LeavesAtOneDepth /\ NodesPopulatedNarrow /\ NoEmptyLeaf
  /\ SeamsUncut /\ LeafOverfillBounded

OneRope == {"a"}
TwoRopes == {"a", "b"}

\* Line breaks of all kinds, at every offset from a leaf boundary.
Lines == << CR, LF, Ascii, Ascii, CR, LF, CR, CR, LF, LF, Ascii, Lead2, CR, LF,
            LF, CR, LF, Ascii, CR, LF, CR, LF >>
LinesProgram ==
  EditProgram("in place", OneRope, 2, {Lines}, {Lines, <<LF>>, <<CR>>, <<CR, LF, Ascii>>}, 25)
JoinsProgram ==
  EditProgram("joins", TwoRopes, 4, {Lines, <<LF, CR>>}, {Lines, <<LF, CR>>}, 30)
SlicesProgram == EditProgram("slices", OneRope, 2, {Lines}, {Lines, <<LF>>}, 25)

\* Four-byte chars with CRs and LFs between them: leaves of one byte occur.
Wide1 == << Lead4, CR, LF, Lead4, CR, Lead4, LF, CR, Lead4, CR, LF, Lead4, CR, Lead4 >>
Wide2 == << CR, Lead4, LF, Lead4, CR, Lead4, LF, Lead4, CR, Lead4, LF, Lead4 >>
Wide3 == << Ascii, Lead4, LF, CR, Lead4, LF, CR, Lead4, LF, CR, Lead4, Ascii, CR, Lead4 >>
WideStart == {Wide1, Wide2, Wide3}
WideProgram ==
  EditProgram("in place", OneRope, 2, WideStart,
              WideStart \cup {<<LF>>, <<CR>>, <<Lead4>>}, 36)

AllPrograms == {LinesProgram, JoinsProgram, SlicesProgram, WideProgram}

\* Leaves that are all close to half full, and a text that starts with an LF.
FragStart == {As(4) \o Fs(19)}
FragPrograms ==
  {EditProgram("in place", OneRope, 2, FragStart, FragStart \cup {<<LF, LF>>}, 82)}
=============================================================================
