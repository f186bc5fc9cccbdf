------------------------------ MODULE MCQueries ------------------------------
(***************************************************************************)
(* Instances of Queries for TLC.                                           *)
(***************************************************************************)
EXTENDS Queries

\* Three levels of nodes: chars of all widths, line breaks of all kinds at the
\* ends of leaves and inside them.
Breaking == << Ascii, CR, LF, Lead4, Cont, Cont, Cont, CR, CR, LF, Lead2, Cont, LF, Ascii, CR >>
Wide     == << Lead4, Cont, Cont, Cont, Lead2, Cont, Ascii, LF, Lead4, Cont, Cont, Cont >>
Plain    == << Ascii, LF, Ascii >>

Breaks   == << CR, LF, CR, LF, LF, CR, CR, LF, Ascii, CR, LF, CR, LF >>
Mixed    == << Lead2, Cont, Lead4, Cont, Cont, Cont, CR, LF, Lead2, Cont, CR, Ascii, LF, Ascii,
               Lead4, Cont, Cont, Cont >>

AllTexts == {Breaking, Wide, Plain, Breaks, Mixed, <<>>}

\* The behaviours do not depend on the last call.
QueriesView == <<root, sliced, view>>
=============================================================================
