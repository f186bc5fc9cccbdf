----------------------------- MODULE MCIteration -----------------------------
(***************************************************************************)
(* Instances of Iteration for TLC.                                         *)
(***************************************************************************)
EXTENDS Iteration

\* Pieces of a text, of the length of a leaf or near it.
Plain == <<Ascii, Ascii, Ascii, Ascii, Ascii>>
Early == <<Ascii, LF, Ascii, Ascii, Ascii>>
Ended == <<Ascii, Ascii, Ascii, Ascii, LF>>
Crlf  == <<Ascii, Ascii, Ascii, CR, LF>>
Crs   == <<CR, CR, Ascii, Ascii, CR>>
Wide  == <<Ascii, Lead4, Cont, Cont, Cont>>
Mixed == <<Lead2, Cont, CR, LF, Ascii>>

\* The texts made of up to n of the pieces.
Joins(pieces, n) == {FlattenSeq(s) : s \in BoundedSeq(pieces, n)}

\* Chars of all widths, cut anywhere; no text.
UnitTexts ==
  {FlattenSeq(<<Wide, Mixed, Wide, Mixed>>), FlattenSeq(<<Mixed, Plain, Crlf>>), Mixed, <<>>}

ChunkTexts == Joins({Ended, Mixed}, 3)

\* Lines that end in another leaf or subtree than they start in, or at the ends
\* of leaves.
LineTexts ==
  {FlattenSeq(s) : s \in [1..4 -> {Plain, Crlf}]} \cup {FlattenSeq(<<Crs, Early, Mixed>>)}
    \cup {Early, Crlf, Plain}

AllSources ==
  (UnitTexts \X {"bytes", "chars"} \X Views)
    \cup (ChunkTexts \X {"chunks_at_byte", "chunks_at_char"} \X Views)
    \cup (ChunkTexts \X {"chunks_at_line_break"} \X {"rope", "slice"})
    \cup (LineTexts \X {"lines"} \X {"rope", "slice", "light_slice"})

\* Where the code does not do what is said of it.
LineOfOneLeaf == {Early, Plain} \X {"lines"} \X {"rope"}
LinesOfBytes == {FlattenSeq(<<Crlf, Crlf>>)} \X {"lines"} \X {"byte_slice"}
=============================================================================
