------------------------------ MODULE MCStreams ------------------------------
(***************************************************************************)
(* Instances of Streams for TLC.                                           *)
(***************************************************************************)
EXTENDS Streams

\* Every short stream: broken chars of all kinds, cut off by the end or not.
ShortInputs == BoundedSeq({Ascii, Lead2, Lead4, Cont, CR}, 3)

\* Texts of several leaves, with chars and CRLFs of all widths.
TextA == << Lead4, Cont, Cont, Cont, CR, LF, Lead2, Cont, CR, LF, Ascii, CR, LF >>
TextB == << CR, CR, LF, Lead2, Cont, Ascii, CR, LF, Lead4, Cont, Cont, Cont >>

\* More than the buffer holds after a byte that is not valid.
BadEarly == <<Ascii, Cont>> \o [i \in 1..12 |-> Ascii]
BadLate  == [i \in 1..9 |-> Ascii] \o <<Lead4, Cont, Cont, Ascii, Ascii, Lead2>>

MCInputs == ShortInputs \cup {TextA, TextB, BadEarly, BadLate}

\* A text of many leaves: a tree with inner nodes below its root.
Wide == <<Lead4, Cont, Cont, Cont>>
Long == Wide \o Wide \o <<CR, LF>> \o Wide \o Wide \o Wide \o <<CR, LF>> \o Wide

MCFeeds == {TextA, TextB, Long, <<>>}
=============================================================================
