------------------------------ MODULE RopeText ------------------------------
(***************************************************************************)
(* The text layer of ropey: UTF-8 bytes, the text summaries that every     *)
(* tree node keeps about its children, the CRLF-aware break finding of     *)
(* crlf.rs and the chunk editing of node_text.rs.                          *)
(*                                                                         *)
(* A byte is one of six symbols, so that a text is a sequence of bytes     *)
(* that still knows what the code asks of a byte: does it continue a code  *)
(* point, does it start one that needs a UTF-16 surrogate pair, is it CR   *)
(* or LF.  Byte and char indices are 0-based, as in the code; sequences    *)
(* are 1-based, so the byte at index i of t is t[i + 1].                   *)
(***************************************************************************)
EXTENDS Integers, FiniteSets, Sequences, FiniteSetsExt

CONSTANTS
  CrLines,    (* whether a lone CR is a line break (feature cr_lines).     *)
  MAX_BYTES,  (* the most bytes a leaf holds, CRLF exceptions aside.       *)
  MIN_BYTES   (* a leaf with fewer bytes is merged with a neighbour.       *)

ASSUME CrLinesAssumption == CrLines \in BOOLEAN
ASSUME LeafBoundsAssumption ==
  /\ MAX_BYTES \in Nat \ 0..4
  /\ MIN_BYTES = (MAX_BYTES \div 2) - (MAX_BYTES \div 32)

-----------------------------------------------------------------------------
(* Bytes, chars and texts *)

Ascii == "a"
Lead2 == "e"     \* first byte of a two-byte code point
Lead4 == "f"     \* first byte of a four-byte code point
Cont  == "x"     \* 0b10xxxxxx
CR    == "cr"
LF    == "lf"

Byte == {Ascii, Lead2, Lead4, Cont, CR, LF}

\* The UTF-8 encodings of the chars the models draw their texts from.
CharEncodings ==
  { <<Ascii>>, <<CR>>, <<LF>>, <<Lead2, Cont>>, <<Lead4, Cont, Cont, Cont>> }

\* How many continuation bytes a byte asks for.
Following(b) == IF b = Lead2 THEN 1 ELSE IF b = Lead4 THEN 3 ELSE 0

\* The first byte of a char is followed by the continuation bytes that it asks
\* for, and there are no others.
Utf8(t) ==
  \A i \in 1..Len(t) :
    /\ \A k \in 1..Following(t[i]) : i + k \in 1..Len(t) /\ t[i + k] = Cont
    /\ t[i] = Cont => \E k \in 1..3 : i - k \in 1..Len(t) /\ k <= Following(t[i - k])

\* No code point lies across byte b.
IsCharBoundary(t, b) == b = Len(t) \/ t[b + 1] # Cont

\* text[a..b] of Rust.
Slice(t, a, b) == SubSeq(t, a + 1, b)

\* text[a..] of Rust.
From(t, a) == Slice(t, a, Len(t))

\* The two parts of a text cut at byte i.
CutAt(t, i) == <<Slice(t, 0, i), From(t, i)>>

Min2(a, b) == IF a < b THEN a ELSE b
Max2(a, b) == IF a < b THEN b ELSE a

-----------------------------------------------------------------------------
(* TextInfo: the summary of a text *)

TextInfo == [bytes : Int, chars : Int, utf16 : Int, line_breaks : Int]

InfoNew == [bytes |-> 0, chars |-> 0, utf16 |-> 0, line_breaks |-> 0]

IsLineBreak(t, i) ==
  \/ t[i] = LF
  \/ /\ CrLines
     /\ t[i] = CR
     /\ ~ (i < Len(t) /\ t[i + 1] = LF)

InfoFromStr(t) ==
  [ bytes       |-> Len(t),
    chars       |-> Cardinality({i \in DOMAIN t : t[i] # Cont}),
    utf16       |-> Cardinality({i \in DOMAIN t : t[i] = Lead4}),
    line_breaks |-> Cardinality({i \in DOMAIN t : IsLineBreak(t, i)}) ]

InfoAdd(a, b) ==
  [ bytes |-> a.bytes + b.bytes, chars |-> a.chars + b.chars,
    utf16 |-> a.utf16 + b.utf16, line_breaks |-> a.line_breaks + b.line_breaks ]

InfoSub(a, b) ==
  [ bytes |-> a.bytes - b.bytes, chars |-> a.chars - b.chars,
    utf16 |-> a.utf16 - b.utf16, line_breaks |-> a.line_breaks - b.line_breaks ]

AddBreaks(info, n) == [info EXCEPT !.line_breaks = @ + n]

\* The byte index of char c, clamped to the end of the text.
CharToByteIdx(t, c) ==
  LET starts == {i \in DOMAIN t : t[i] # Cont}
  IN  IF c >= Cardinality(starts) THEN Len(t)
      ELSE CHOOSE b \in 0..(Len(t) - 1) :
             /\ b + 1 \in starts
             /\ Cardinality({i \in starts : i <= b}) = c

-----------------------------------------------------------------------------
(* crlf.rs: places where a text may be cut *)

\* A cut between the bytes l and r splits neither a code point nor a CRLF.
CutAllowed(l, r) == r # Cont /\ ~ (l = CR /\ r = LF)

IsBreak(i, t) == i = 0 \/ i = Len(t) \/ CutAllowed(t[i], t[i + 1])

SeamIsBreak(l, r) == CutAllowed(l[Len(l)], r[1])

PrevBreak(i, t) ==
  IF i = 0 THEN 0 ELSE Max({b \in 0..(i - 1) : IsBreak(b, t)})

NextBreak(i, t) ==
  IF i = Len(t) THEN i ELSE Min({b \in (i + 1)..Len(t) : IsBreak(b, t)})

\* The nearer to i of a cut before and one after it, when both are internal.
NearerCut(i, left, right, len) ==
  IF left = 0 \/ (right # len /\ i - left >= right - i) THEN right ELSE left

NearestInternalBreak(i, t) ==
  NearerCut(i, IF IsBreak(i, t) /\ i # Len(t) THEN i ELSE PrevBreak(i, t),
            NextBreak(i, t), Len(t))

\* The cut preferred out of one before and one after, on the side of the bias
\* unless that is the end of the text.
BiasedCut(prev, next, len, biasLeft) ==
  IF (biasLeft /\ prev > 0) \/ (~ biasLeft /\ next >= len) THEN prev ELSE next

FindGoodSplit(i, t, biasLeft) ==
  IF IsBreak(i, t) THEN i
  ELSE BiasedCut(PrevBreak(i, t), NextBreak(i, t), Len(t), biasLeft)

-----------------------------------------------------------------------------
(* node_text.rs: editing the text of a leaf *)

InsertStr(t, i, s) == Slice(t, 0, i) \o s \o From(t, i)

RemoveRange(t, a, b) == Slice(t, 0, a) \o From(t, b)

\* insert_str_split: the two halves of the text with s inserted at i.  The cut
\* is looked for in a window of at most eight bytes around the middle.
SplitNearMiddle(w) ==
  LET mid   == Len(w) \div 2
      start == mid - Min2(4, mid)
      end   == Min2(mid + 4, Len(w))
  IN  CutAt(w, start + NearestInternalBreak(mid - start, Slice(w, start, end)))

InsertStrSplit(t, i, s) == SplitNearMiddle(InsertStr(t, i, s))

PushStrSplit(t, s) == InsertStrSplit(t, Len(t), s)

\* Where the joined text of a left part of n bytes is cut again, from the last
\* cut in the left part and the first in the right part.
SegmentCut(lSplit, rSplit, n, len) ==
  IF lSplit # 0 /\ (rSplit = len \/ n > len - n) THEN lSplit ELSE rSplit

\* fix_segment_seam: the two texts with a CRLF (or a code point) that lay
\* across their seam moved wholly to one side.
FixSegmentSeam(l, r) ==
  IF SeamIsBreak(l, r) THEN <<l, r>>
  ELSE CutAt(l \o r, SegmentCut(PrevBreak(Len(l), l), Len(l) + NextBreak(0, r),
                                Len(l), Len(l) + Len(r)))
=============================================================================
