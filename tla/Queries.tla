------------------------------- MODULE Queries -------------------------------
(***************************************************************************)
(* A program that looks at a rope: it takes slices of it and slices of     *)
(* those, by chars, bytes or lines, and looks things up in what it has.    *)
(* What it looks up changes nothing, and is the subject of invariants over *)
(* all the indices it may ask for.                                         *)
(***************************************************************************)
EXTENDS Slicing, Comparing

CONSTANTS
  Texts,   (* the texts of the ropes.                                      *)
  CutEnds  (* whether byte slices may end between a CR and its LF.         *)

ASSUME TextsAssumption == Texts \subseteq Seq(Byte) /\ CutEnds \in BOOLEAN

VARIABLES
  root,    \* the rope
  sliced,  \* whether a slice is in view, or the rope
  view,    \* what is in view, a rope being the slice of all its text
  chars,   \* the chars that are seen there
  call,    \* the last call
  answer   \* what became of it: "ok" or an error

vars == <<root, sliced, view, chars, call, answer>>

Text == SliceText(view)

-----------------------------------------------------------------------------
(* Slices *)

\* The chars of a text, each as its bytes.
CharsOf(t) ==
  LET starts == SelectSeq([i \in DOMAIN t |-> i], LAMBDA i : t[i] # Cont)
  IN  [c \in DOMAIN starts |-> CharFrom(t, starts[c] - 1)]

Narrowed(r) ==
  \/ /\ r.ok
     /\ view' = r.slice
     /\ chars' = CharsOf(SliceText(r.slice))
     /\ sliced' = TRUE
     /\ answer' = "ok"
  \/ /\ ~ r.ok
     /\ answer' = r.error
     /\ UNCHANGED <<view, chars, sliced>>

\* Bounds of each kind, within the length and just outside of it.
FirstBounds(len) == {Included(n) : n \in 0..(len + 1)} \cup {Excluded(0), Unbounded}
PastBounds(len)  == {Excluded(n) : n \in 0..(len + 1)} \cup {Included(0), Included(len), Unbounded}

\* slice, get_slice
TakeSlice ==
  \E first \in FirstBounds(Length(view, "chars")), past \in PastBounds(Length(view, "chars")) :
    /\ call' = [op |-> "slice", first |-> first, past |-> past]
    /\ Narrowed(IF sliced THEN SliceGetSlice(view, first, past)
                ELSE RopeGetSlice(root, first, past))
    /\ UNCHANGED root

\* Whether a byte slice would end between a CR and its LF, in one leaf apart.
EndCutsCrlf(past) ==
  /\ ~ view.light
  /\ CutsCrlf(TextOf(view.node),
              view.start.bytes + OrElse(EndBoundToNum(past), Length(view, "bytes")))

\* byte_slice, get_byte_slice
TakeByteSlice ==
  \E first \in FirstBounds(Length(view, "bytes")), past \in PastBounds(Length(view, "bytes")) :
    /\ CutEnds \/ ~ EndCutsCrlf(past)
    /\ call' = [op |-> "byte_slice", first |-> first, past |-> past]
    /\ Narrowed(IF sliced THEN SliceGetByteSlice(view, first, past)
                ELSE RopeGetByteSlice(root, first, past))
    /\ UNCHANGED root

\* line, get_line
TakeLine ==
  \E line \in 0..(LenLines(view) + 1) :
    /\ call' = [op |-> "line", line |-> line]
    /\ Narrowed(IF sliced THEN SliceGetLine(view, line) ELSE RopeGetLine(root, line))
    /\ UNCHANGED root

Init ==
  /\ \E t \in Texts : root = BuildAtOnce(t)
  /\ sliced = FALSE
  /\ view = FullSlice(root, InfoNew, NodeInfo(root))
  /\ chars = CharsOf(SliceText(view))
  /\ call = [op |-> "none"]
  /\ answer = "none"

Next == TakeSlice \/ TakeByteSlice \/ TakeLine

Spec == Init /\ [][Next]_vars

-----------------------------------------------------------------------------
(* Slices of slices *)

View == INSTANCE TextView WITH
          text <- chars, CarriageReturn <- <<CR>>, LineFeed <- <<LF>>,
          CrBreaks <- CrLines

\* Slices of slices, whatever nodes of the tree they hold on to, show the chars
\* that their bounds say, or there is the error that the documentation says.
ImplementsView == View!Spec

\* The counts that a slice keeps, or computes from the summaries at its ends,
\* are those of its text: also where an end divides a CRLF.
SliceCounted ==
  \A u \in {"bytes", "chars", "utf16", "line_breaks"} :
    Length(view, u) = InfoFromStr(Text)[u]

-----------------------------------------------------------------------------
(* What is looked up *)

Limit(unit) == InfoFromStr(Text)[unit] + OneIf(unit = "line_breaks")

\* The index that is asked for, as a flat text would convert it.
Expected(from, to, i) ==
  CASE i > Limit(from) -> <<>>
    [] i <= Limit(from) /\ from = "line_breaks" /\ i = Limit(from) -> << InfoFromStr(Text)[to] >>
    [] i <= Limit(from) /\ ~ (from = "line_breaks" /\ i = Limit(from)) ->
         << Converted(Text, from, to, i) >>

Convert(from, to, i) ==
  IF sliced THEN SliceConvert(view, from, to, i) ELSE RopeConvert(root, from, to, i)

\* The conversions that there are: none leads to a line from one.
Conversions == {<<"bytes", "chars">>, <<"bytes", "line_breaks">>, <<"chars", "bytes">>,
                <<"chars", "line_breaks">>, <<"line_breaks", "bytes">>, <<"line_breaks", "chars">>}

\* Every conversion of every index, by a walk down the tree and a look into one
\* chunk, gives what it gives for the text in one piece.
ConversionsRight ==
  \A c \in Conversions : \A i \in 0..(Limit(c[1]) + 1) :
    Convert(c[1], c[2], i) = Expected(c[1], c[2], i)

CharToUtf16(ch) == IF sliced THEN SliceCharToUtf16(view, ch) ELSE RopeCharToUtf16(root, ch)
Utf16ToChar(u)  == IF sliced THEN SliceUtf16ToChar(view, u) ELSE RopeUtf16ToChar(root, u)

\* A char's first code unit comes after those of the chars before it, and both
\* code units of a surrogate pair belong to their char.
Utf16Right ==
  LET units(ch) == Utf16Units(InfoFromStr(Slice(Text, 0, CharToByteIdx(Text, ch))))
      count     == Len(chars)
  IN  /\ \A ch \in 0..count : CharToUtf16(ch) = << units(ch) >>
      /\ \A ch \in 0..(count - 1) : \A u \in units(ch)..(units(ch + 1) - 1) :
           Utf16ToChar(u) = << ch >>
      /\ Utf16ToChar(units(count)) = << count >>
      /\ CharToUtf16(count + 1) = <<>> /\ Utf16ToChar(units(count) + 1) = <<>>

GetByte(b)  == IF sliced THEN SliceGetByte(view, b) ELSE RopeGetByte(root, b)
GetChar(ch) == IF sliced THEN SliceGetChar(view, ch) ELSE RopeGetChar(root, ch)

\* get_byte and get_char find every byte and char, and none after the last.
ItemsFound ==
  /\ \A b \in 1..Len(Text) : GetByte(b - 1) = << Text[b] >>
  /\ \A ch \in 1..Len(chars) : GetChar(ch - 1) = << chars[ch] >>
  /\ GetByte(Len(Text)) = <<>> /\ GetChar(Len(chars)) = <<>>

ChunkAt(unit, i) == IF sliced THEN SliceChunkAt(view, unit, i) ELSE RopeChunkAt(root, unit, i)

\* A chunk found lies in view at the byte, char and line that are told of it,
\* and holds the index that was asked for.
ChunkPlaced(k, unit, i) ==
  LET before == Slice(Text, 0, k.info.bytes)
      with   == before \o k.text
  IN  /\ with = Slice(Text, 0, Len(with))
      /\ \A u \in Units : k.info[u] = InfoFromStr(before)[u]
      /\ k.info[unit] <= i
      /\ i <= InfoFromStr(with)[unit] + OneIf(with = Text /\ unit = "line_breaks")

\* Each lookup finds the item or the chunk at its index.
LookupsRight ==
  /\ ItemsFound
  /\ \A unit \in Units : \A i \in 0..Limit(unit) :
       ChunkPlaced(ChunkAt(unit, i)[1], unit, i)

-----------------------------------------------------------------------------
(* Equality, order, hashes *)

\* Texts like that of chars cs: the same, shorter, longer, one char replaced.
Likes(cs) ==
  {cs, Append(cs, <<Ascii>>), SubSeq(cs, 2, Len(cs)), SubSeq(cs, 1, Len(cs) - 1)}
    \cup {SubSeq(cs, 1, i - 1) \o <<c>> \o SubSeq(cs, i + 1, Len(cs)) :
            i \in DOMAIN cs, c \in {<<Ascii>>, <<LF>>}}

\* Ropes of such texts, whose chunks are not those of the view.
Others == {WholeSlice(BuildAtOnce(FlattenSeq(cs))) : cs \in Likes(chars)}

\* Two slices are equal if their texts are, whatever their chunks; so are a
\* slice and a str.
EqualityByText ==
  \A o \in Others :
    /\ SliceEq(view, o) = (Text = SliceText(o))
    /\ SliceEq(o, view) = (Text = SliceText(o))
    /\ StrEq(view, SliceText(o)) = (Text = SliceText(o))

\* tests/proptest_tests.rs, pt_cmp: slices are in the order of their texts.
OrderByText ==
  \A o \in Others : /\ SliceCmp(view, o) = OrderOfBytes(Text, SliceText(o))
                    /\ SliceCmp(o, view) = OrderOfBytes(SliceText(o), Text)

\* Equal texts have equal hashes: what a hasher is given are the blocks of the
\* text, and the rest of it.
HashByText ==
  LET blocks == (Len(Text) + BLOCK_SIZE - 1) \div BLOCK_SIZE
  IN  /\ Len(HashWrites(view)) = blocks
      /\ \A i \in 1..blocks :
           HashWrites(view)[i] = Slice(Text, (i - 1) * BLOCK_SIZE, Min2(i * BLOCK_SIZE, Len(Text)))
=============================================================================
