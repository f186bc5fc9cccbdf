------------------------------- MODULE MCRope -------------------------------
(***************************************************************************)
(* Instances of Rope for TLC: every rope that any sequence of edits leads  *)
(* to, up to a length.                                                     *)
(***************************************************************************)
EXTENDS Rope

As(n) == [i \in 1..n |-> Ascii]
Fs(n) == [i \in 1..n |-> Lead4]

\* The behaviours do not depend on the last call.
RopesView == <<ropes, program>>

Program(texts, max) == [texts |-> texts, max_len |-> max]

\* One letter: every tree shape, no line breaks.
ShapeTexts == {As(1), As(3), As(7)}

\* A leading LF pushed onto the leaf before, and chars too wide to divide.
PushedLfTexts == {<<LF>>, <<Lead4>>}

\* Every way of putting CRs and LFs together and taking them apart.
CrlfTexts == {<<CR>>, <<LF>>, <<CR, LF, Ascii>>}

EditPrograms == {Program(ShapeTexts, 14), Program(PushedLfTexts, 11), Program(CrlfTexts, 6)}

CrlfPrograms == {Program(CrlfTexts, 5)}
=============================================================================
