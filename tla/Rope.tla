-------------------------------- MODULE Rope --------------------------------
(***************************************************************************)
(* A program that edits a few ropes through the public methods of Rope.    *)
(* The state is the tree of each rope.  Clones share their nodes, but the  *)
(* methods only change nodes through Arc::make_mut, so a rope is a value   *)
(* here; that this is so is the subject of another module.                 *)
(***************************************************************************)
EXTENDS RopeOps

CONSTANTS
  Handles,   (* the rope variables of the program.                         *)
  Programs   (* the programs: the texts that one inserts and builds ropes  *)
             (* from, as chars, and a bound on the bytes of its ropes.     *)

VARIABLES
  ropes,  \* the root node of each rope
  call,   \* the last call and its arguments: what the program asked for
  program \* which of the programs this is

vars == <<ropes, call, program>>

Text(h) == TextOf(ropes[h])

\* The chars of a text, each named by its first byte.
Chars(t) == SelectSeq(t, LAMBDA b : b # Cont)

\* The UTF-8 encoding of a text.
Encode(t) ==
  FlattenSeq([i \in DOMAIN t |-> CHOOSE e \in CharEncodings : e[1] = t[i]])

EncodedTexts == {Encode(t) : t \in program.texts}

Fits(h, n) == NodeInfo(ropes[h]).bytes + n <= program.max_len

-----------------------------------------------------------------------------
(* One action per editing method *)

\* Rope::from_str
FromStr(h) ==
  \E t \in EncodedTexts :
    /\ Len(t) <= program.max_len
    /\ ropes' = [ropes EXCEPT ![h] = BuildAtOnce(t)]
    /\ call' = [op |-> "from_str", rope |-> h, text |-> Chars(t)]

\* Rope::insert
Insert(h) ==
  \E ch \in 0..CharCount(ropes[h]), t \in EncodedTexts :
    /\ Fits(h, Len(t))
    /\ ropes' = [ropes EXCEPT ![h] = TryInsert(ropes[h], ch, t)]
    /\ call' = [op |-> "insert", rope |-> h, at |-> ch, text |-> Chars(t)]

\* Rope::insert_char
InsertChar(h) ==
  \E ch \in 0..CharCount(ropes[h]), t \in EncodedTexts \cap CharEncodings :
    /\ Fits(h, Len(t))
    /\ ropes' = [ropes EXCEPT ![h] = InsertInternal(ropes[h], ch, t)]
    /\ call' = [op |-> "insert", rope |-> h, at |-> ch, text |-> Chars(t)]

\* Rope::remove
RemoveChars(h) ==
  \E s \in 0..CharCount(ropes[h]) : \E e \in s..CharCount(ropes[h]) :
    /\ ropes' = [ropes EXCEPT ![h] = RemoveRope(ropes[h], s, e)]
    /\ call' = [op |-> "remove", rope |-> h, from |-> s, to |-> e]

\* let g = h.split_off(ch)
SplitOff(h, g) ==
  \E ch \in 0..CharCount(ropes[h]) :
    LET halves == SplitOffRope(ropes[h], ch)
    IN  /\ ropes' = [ropes EXCEPT ![h] = halves[1], ![g] = halves[2]]
        /\ call' = [op |-> "split_off", rope |-> h, at |-> ch, other |-> g]

\* h.append(g), which consumes g
AppendTo(h, g) ==
  /\ Fits(h, NodeInfo(ropes[g]).bytes)
  /\ ropes' = [ropes EXCEPT ![h] = AppendRope(ropes[h], ropes[g]), ![g] = EmptyNode]
  /\ call' = [op |-> "append", rope |-> h, other |-> g]

\* let g = h.clone()
Clone(h, g) ==
  /\ ropes' = [ropes EXCEPT ![g] = ropes[h]]
  /\ call' = [op |-> "clone", rope |-> h, other |-> g]

\* let g = Rope::from(h.slice(s..e)); g may be h
FromSlice(h, g) ==
  \E s \in 0..CharCount(ropes[h]) : \E e \in s..CharCount(ropes[h]) :
    /\ ropes' = [ropes EXCEPT ![g] = RopeOfSlice(NewWithRange(ropes[h], "chars", s, e))]
    /\ call' = [op |-> "from_slice", rope |-> h, from |-> s, to |-> e, other |-> g]

\* Rope::shrink_to_fit
ShrinkToFit(h) ==
  /\ ropes' = [ropes EXCEPT ![h] = ShrinkRope(ropes[h])]
  /\ call' = [op |-> "shrink_to_fit", rope |-> h]

Init ==
  /\ program \in Programs
  /\ ropes = [h \in Handles |-> EmptyNode]
  /\ call = [op |-> "none"]

Next ==
  /\ \E h \in Handles :
       \/ FromStr(h) \/ Insert(h) \/ InsertChar(h) \/ RemoveChars(h) \/ ShrinkToFit(h)
       \/ \E g \in Handles \ {h} :
            SplitOff(h, g) \/ AppendTo(h, g) \/ Clone(h, g) \/ FromSlice(h, g)
  /\ UNCHANGED program

Spec == Init /\ [][Next]_vars

-----------------------------------------------------------------------------
(* The tree invariants of design.md                                        *)

\* Every node of a tree with the parts the methods rely on: leaves hold
\* texts, internal nodes hold between one and MAX_CHILDREN children.
RECURSIVE IsNode(_)

IsNode(n) ==
  IF n.leaf THEN n.text \in Seq(Byte)
  ELSE /\ Len(n.children) \in 1..MAX_CHILDREN
       /\ \A i \in DOMAIN n.children :
            /\ n.children[i].info \in TextInfo
            /\ IsNode(n.children[i].node)

TypeOK == \A h \in Handles : IsNode(ropes[h])

\* The metadata that every search relies on (Node::assert_integrity): each
\* cached info, most of them updated by deltas and not recounted, is that of
\* the text below it.  This includes the line breaks of CRLF pairs that the
\* edits join, cut or move.
InfosAccurate == \A h \in Handles : Accurate(ropes[h])

\* Node::assert_balance: append and split_off graft and cut subtrees, and yet
\* all leaves of a rope stay at one depth.
LeavesAtOneDepth == \A h \in Handles : Balanced(ropes[h])

\* Node::assert_node_size: pull_up_singular_nodes leaves no root with one
\* child, and the merging leaves no other internal node with too few.
NodesPopulated ==
  \A h \in Handles :
    /\ ropes[h].leaf \/ Len(ropes[h].children) >= 2
    /\ Populated(ropes[h])

\* design.md: the rope stays a B-tree.
BTreeShape == LeavesAtOneDepth /\ NodesPopulated

\* No leaf is empty but that of an empty rope.
NoEmptyLeaf ==
  \A h \in Handles : ~ ropes[h].leaf =>
    \A i \in DOMAIN LeafTexts(ropes[h]) : LeafTexts(ropes[h])[i] # <<>>

\* No leaf boundary, wherever the edits of neighbours have moved it, lies in
\* a CRLF pair or in a code point.
SeamsUncut == \A h \in Handles : CrlfSeams(ropes[h])

\* The exceptions to the size of a leaf do not add up.  A leaf is left too
\* large to keep a CRLF whole, to put a leading LF on the chunk before, or by
\* the builder to keep the char that crosses the boundary; however many edits
\* follow each other, it holds less than one more char than it should.
LeafOverfillBounded ==
  \A h \in Handles : \A i \in DOMAIN LeafTexts(ropes[h]) :
    Len(LeafTexts(ropes[h])[i]) < MAX_BYTES + 4

-----------------------------------------------------------------------------
(* A rope stores a text: the chars of its leaves.                          *)

Texts == UNION {p.texts : p \in Programs}

Abstract == INSTANCE AbstractRope WITH content <- [h \in Handles |-> Chars(Text(h))]

\* Every method changes the text of its ropes as the documentation says, at
\* the chars and with the text that the call names, and no other rope.
ImplementsAbstract == Abstract!Spec
=============================================================================
