------------------------------ MODULE TextView ------------------------------
(***************************************************************************)
(* What the documentation of slices promises: a view of a text, which is   *)
(* narrowed to a range of its chars or bytes, or to one of its lines, or   *)
(* is left as it was when there is no such range or line.  A text is a     *)
(* sequence of chars, a char the sequence of its bytes.                    *)
(***************************************************************************)
EXTENDS Integers, Sequences, SequencesExt, FiniteSetsExt

CONSTANTS
  CarriageReturn, LineFeed,  (* two chars.                                 *)
  CrBreaks                   (* whether a lone CR is a line break.         *)

VARIABLES
  text,    \* the chars in view
  call,    \* the call that is made
  answer   \* what became of it: "ok" or an error

-----------------------------------------------------------------------------

\* The first index of a range, and the one after its last, among 0..n.
First(b) ==
  CASE b.kind = "unbounded" -> 0 [] b.kind = "included" -> b.n [] b.kind = "excluded" -> b.n + 1

Past(b, n) ==
  CASE b.kind = "unbounded" -> n [] b.kind = "included" -> b.n + 1 [] b.kind = "excluded" -> b.n

Width(chars) == Len(FlattenSeq(chars))

\* The positions in t that have b bytes before them: one or none.
AtByte(t, b) == {i \in 0..Len(t) : Width(SubSeq(t, 1, i)) = b}

IsBreak(t, i) ==
  \/ t[i] = LineFeed
  \/ CrBreaks /\ t[i] = CarriageReturn /\ ~ (i < Len(t) /\ t[i + 1] = LineFeed)

Breaks(t) == {i \in DOMAIN t : IsBreak(t, i)}

\* The chars before line l, and before the line after it.
LineStart(t, l) ==
  IF l = 0 THEN 0
  ELSE CHOOSE i \in Breaks(t) : Cardinality({j \in Breaks(t) : j <= i}) = l

LineEnd(t, l) == IF l = Cardinality(Breaks(t)) THEN Len(t) ELSE LineStart(t, l + 1)

-----------------------------------------------------------------------------
(* The calls, on the chars t in view                                       *)

Narrow(t, s, e) == text' = SubSeq(t, s + 1, e) /\ answer' = "ok"

Refuse(t, error) == text' = t /\ answer' = error

ByChars(t, s, e) ==
  \/ s <= e /\ e <= Len(t) /\ Narrow(t, s, e)
  \/ ~ (s <= e /\ e <= Len(t)) /\ Refuse(t, "None")

\* A range that ends before it starts is invalid, even out of bounds; what has
\* no end is only ever out of bounds.
ByBytes(t, s, e, width) ==
  \/ s > e /\ call'.past.kind # "unbounded" /\ Refuse(t, "ByteRangeInvalid")
  \/ s > e /\ call'.past.kind = "unbounded" /\ Refuse(t, "ByteRangeOutOfBounds")
  \/ s <= e /\ e > width /\ Refuse(t, "ByteRangeOutOfBounds")
  \/ /\ s <= e /\ e <= width
     /\ AtByte(t, s) = {} \/ AtByte(t, e) = {}
     /\ Refuse(t, "ByteRangeNotCharBoundary")
  \/ s <= e /\ \E i \in AtByte(t, s), j \in AtByte(t, e) : Narrow(t, i, j)

ByLine(t, l, breaks) ==
  \/ l <= breaks /\ Narrow(t, LineStart(t, l), LineEnd(t, l))
  \/ l > breaks /\ Refuse(t, "None")

Next ==
  \E t \in {text} :
    \/ call'.op = "slice" /\ ByChars(t, First(call'.first), Past(call'.past, Len(t)))
    \/ /\ call'.op = "byte_slice"
       /\ ByBytes(t, First(call'.first), Past(call'.past, Width(t)), Width(t))
    \/ call'.op = "line" /\ ByLine(t, call'.line, Cardinality(Breaks(t)))

Spec == answer = "none" /\ [][Next]_<<text, call, answer>>
=============================================================================
