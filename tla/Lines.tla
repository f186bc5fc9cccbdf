-------------------------------- MODULE Lines --------------------------------
(***************************************************************************)
(* The Lines iterator (iter.rs) as a value.  In its full form it stands at *)
(* a byte of a leaf, with a stack as in Chunks; a line that lies in more   *)
(* than one leaf is yielded as a slice of the deepest node that holds it,  *)
(* whose ends are summed up on the way there.                              *)
(***************************************************************************)
EXTENDS Chunks

-----------------------------------------------------------------------------
(* str_utils.rs *)

IsBreakByte(b) == b = LF \/ (CrLines /\ b = CR)

\* The byte after the first l line breaks, or the end of the text.
LineToByteIdx(t, l) ==
  LET ends == {i \in DOMAIN t : IsLineBreak(t, i)}
  IN  CASE l = 0 -> 0
        [] l > Cardinality(ends) -> Len(t)
        [] l \in 1..Cardinality(ends) ->
             CHOOSE i \in ends : Cardinality({j \in ends : j <= i}) = l

EndsWithLineBreak(t) == t # <<>> /\ IsBreakByte(Last(t))

LastLineStart(t) == Max({0} \cup {i \in DOMAIN t : IsBreakByte(t[i])})

\* The text without one line break at its end.
TrimLineBreak(t) ==
  CASE ~ EndsWithLineBreak(t) -> t
    [] EndsWithLineBreak(t) /\ CrLines /\ CutsCrlf(t, Len(t) - 1) -> Slice(t, 0, Len(t) - 2)
    [] EndsWithLineBreak(t) /\ ~ (CrLines /\ CutsCrlf(t, Len(t) - 1)) -> Front(t)

-----------------------------------------------------------------------------
(* The iterator *)

LightLines(t, b, atEnd, l, total) ==
  [full |-> FALSE, text |-> t, byte_idx |-> b, at_end |-> atEnd, line_idx |-> l,
   total_lines |-> total]

FullLines(stack, leafByte, bytes, t, b, atEnd, l, total) ==
  [full |-> TRUE, node_stack |-> stack, leaf_byte_idx |-> leafByte,
   total_bytes |-> bytes, text |-> t, byte_idx |-> b, at_end |-> atEnd,
   line_idx |-> l, total_lines |-> total]

\* The counts of a line in one piece, given its line breaks.
LineCount(t, breaks) == [InfoFromStr(t) EXCEPT !.line_breaks = breaks]

OneIf(b) == IF b THEN 1 ELSE 0

LineSlice(t, breaks) == LightSlice(t, LineCount(t, breaks))

-----------------------------------------------------------------------------
(* from_str_at, new_with_range_at *)

LinesFromStrAt(t, line, lines) ==
  LightLines(t, LineToByteIdx(t, line), line >= lines, Min2(line, lines), lines)

\* The child with the line's start, within the bytes s..e.
SearchLine(c, line, s, e) ==
  FirstChild(c, 1, LAMBDA end : end.bytes >= e \/ (line <= end.line_breaks /\ end.bytes > s))

RECURSIVE PathToLine(_, _, _, _, _, _)

PathInLineChild(n, i, acc, line, s, e, stack, before) ==
  PathToLine(n.children[i].node, line - acc.line_breaks, Max2(s - acc.bytes, 0),
             e - acc.bytes, Append(stack, Entry(n, i)), before + acc.bytes)

PathAtLineChild(n, i, line, s, e, stack, before) ==
  PathInLineChild(n, i, PrefixInfo(n.children, i - 1), line, s, e, stack, before)

\* The stack of a line's start, and, relative to its leaf, the line, the end
\* of the range and the start.
PathToLine(n, line, s, e, stack, before) ==
  IF n.leaf
  THEN [stack |-> stack, text |-> n.text, line |-> line, end |-> e, before |-> before,
        at |-> Min2(Max2(LineToByteIdx(n.text, line), s), e)]
  ELSE PathAtLineChild(n, SearchLine(n.children, line, s, e), line, s, e, stack, before)

\* Mutant: whether an empty last line is left is not looked at.
StartsAtEndByte(p) == p.at = p.end

StartsAtEnd(p) ==
  p.at = p.end /\ p.line > ByteToLineIdx(Slice(p.text, 0, p.end), p.end)

LinesAtPath(p, line, s, e) ==
  FullLines(p.stack, p.at, e.bytes - s.bytes, p.text, p.before + p.at - s.bytes,
            StartsAtEnd(p), line - s.line_breaks, e.line_breaks + 1 - s.line_breaks)

LinesAt(n, line, s, e) ==
  CASE s.bytes = e.bytes -> LightLines(<<>>, 0, FALSE, 0, 1)
    [] s.bytes # e.bytes /\ n.leaf ->
         LinesFromStrAt(Slice(n.text, s.bytes, e.bytes), line - s.line_breaks,
                        e.line_breaks + 1 - s.line_breaks)
    [] s.bytes # e.bytes /\ ~ n.leaf ->
         LinesAtPath(PathToLine(n, line, s.bytes, e.bytes, <<>>, 0), line, s, e)

-----------------------------------------------------------------------------
(* A line in more than one leaf.  top is the level of the node that holds  *)
(* what was seen of it (shared_parent), pos the summary, below that node,  *)
(* of the text up to its first end seen, len that of what was seen.        *)

Span(top, pos, len, many) == [top |-> top, pos |-> pos, len |-> len, many |-> many]

\* The summary, from the node at level k on, of the text before the node at
\* the level top.
RECURSIVE BeforeLevels(_, _, _)

BeforeLevels(stack, k, top) ==
  IF k = top THEN InfoNew
  ELSE InfoAdd(PrefixInfo(stack[k].node.children, stack[k].i - 1),
               BeforeLevels(stack, k + 1, top))

\* The span, seen from level k of the stack if that is higher up.
Widened(span, stack, k) ==
  IF k >= span.top THEN span
  ELSE [span EXCEPT !.top = k, !.pos = InfoAdd(@, BeforeLevels(stack, k, span.top))]

\* A whole chunk goes into the span.
Longer(span, info) == [span EXCEPT !.len = InfoAdd(@, info), !.many = TRUE]

ChildInfo(entry) == entry.node.children[entry.i].info

\* The iterator with the stack on a new leaf, its text taken.
OnLeaf(it, stack) == [it EXCEPT !.node_stack = stack, !.text = ChildAt(Last(stack)).text]

-----------------------------------------------------------------------------
(* next_impl, full form *)

\* Mutant: every line is said to end with a line break.
TailLineBroken(it, span, t, breaks) ==
  IF span.many
  THEN FullSlice(it.node_stack[span.top].node, span.pos,
                 InfoAdd(InfoAdd(span.pos, span.len), LineCount(t, 1)))
  ELSE LineSlice(t, breaks)

TailLine(it, span, t, breaks) ==
  IF span.many
  THEN FullSlice(it.node_stack[span.top].node, span.pos,
                 InfoAdd(InfoAdd(span.pos, span.len), LineCount(t, breaks)))
  ELSE LineSlice(t, breaks)

\* The line ends after n bytes of the leaf, the iterator with it.
EndOfLine(it, span, n, breaks) ==
  Gives([it EXCEPT !.byte_idx = @ + n, !.leaf_byte_idx = n],
        TailLine(it, span, Slice(it.text, 0, n), breaks))

LastOfRange(it, span, n, ends) ==
  EndOfLine([it EXCEPT !.at_end = ~ ends], span, n, OneIf(ends))

TailInLeaf(it, span, n, available) ==
  IF n >= available
  THEN LastOfRange(it, span, available, EndsWithLineBreak(Slice(it.text, 0, available)))
  ELSE EndOfLine(it, span, n, 1)

RECURSIVE NextLeafOfLine(_, _, _)

\* The next leaf of the line, whose child info is given.
LeafOfLine(it, stack, span, info, available) ==
  CASE info.line_breaks # 0 ->
         TailInLeaf(OnLeaf(it, stack), span, LineToByteIdx(ChildAt(Last(stack)).text, 1),
                    available)
    [] info.line_breaks = 0 /\ info.bytes >= available ->
         LastOfRange(OnLeaf(it, stack), span, available, FALSE)
    [] info.line_breaks = 0 /\ info.bytes < available ->
         NextLeafOfLine([it EXCEPT !.byte_idx = @ + info.bytes], stack, Longer(span, info))

LeafOfLineAt(it, stack, span) ==
  LeafOfLine(it, stack, span, ChildInfo(Last(stack)), it.total_bytes - it.byte_idx)

NextLeafOfLine(it, stack, span) ==
  LeafOfLineAt(it, ToRight(stack, RightLevels(stack)),
               Widened(span, stack, Max(RightLevels(stack))))

\* A line that starts with head and goes on in the next leaf.
CrossForward(it, head, entry) ==
  NextLeafOfLine([it EXCEPT !.byte_idx = @ + Len(head)], it.node_stack,
    Span(Len(it.node_stack),
         InfoSub(PrefixInfo(entry.node.children, entry.i), InfoFromStr(head)),
         InfoFromStr(head), head # <<>>))

LineInHead(it, line, breaks) ==
  Gives([it EXCEPT !.byte_idx = @ + Len(line), !.leaf_byte_idx = @ + Len(line)],
        LineSlice(line, breaks))

LastInHead(it, line) ==
  LineInHead([it EXCEPT !.at_end = ~ EndsWithLineBreak(line)], line,
             OneIf(EndsWithLineBreak(line)))

\* From a leaf's rest, of which n bytes are up to its first line break.
NextFromHead(it, head, n, available) ==
  CASE n >= available -> LastInHead(it, Slice(head, 0, available))
    [] n < available /\ (n # Len(head) \/ EndsWithLineBreak(head)) ->
         LineInHead(it, Slice(head, 0, n), 1)
    [] n < available /\ ~ (n # Len(head) \/ EndsWithLineBreak(head)) ->
         CrossForward(it, head, Last(it.node_stack))

NextAfterLeafByte(it, head) ==
  NextFromHead([it EXCEPT !.line_idx = @ + 1], head, LineToByteIdx(head, 1),
               it.total_bytes - it.byte_idx)

EmptyLastLine(it) ==
  Gives([it EXCEPT !.at_end = TRUE, !.line_idx = @ + 1], LineSlice(<<>>, 0))

NextFullLine(it) ==
  CASE it.at_end -> Ends(it)
    [] ~ it.at_end /\ it.byte_idx = it.total_bytes -> EmptyLastLine(it)
    [] ~ it.at_end /\ it.byte_idx # it.total_bytes ->
         NextAfterLeafByte(it, From(it.text, it.leaf_byte_idx))

-----------------------------------------------------------------------------
(* prev_impl, full form *)

HeadLine(it, span, t) ==
  IF span.many
  THEN FullSlice(it.node_stack[span.top].node,
                 InfoSub(InfoSub(span.pos, LineCount(t, 0)), span.len), span.pos)
  ELSE LineSlice(t, 0)

\* The line starts at byte n of the leaf, and the iterator is there.
StartOfLine(it, span, n) ==
  Gives([it EXCEPT !.byte_idx = @ - (Len(it.text) - n), !.leaf_byte_idx = n],
        HeadLine(it, span, From(it.text, n)))

StartOnLeaf(it, span) ==
  StartOfLine(it, span, Max2(LastLineStart(it.text), Len(it.text) - it.byte_idx))

RECURSIVE PrevLeafOfLine(_, _, _)

LeafBefore(it, stack, span, info) ==
  CASE info.line_breaks # 0 -> StartOnLeaf(OnLeaf(it, stack), span)
    [] info.line_breaks = 0 /\ info.bytes >= it.byte_idx ->
         StartOfLine(OnLeaf(it, stack), span, info.bytes - it.byte_idx)
    [] info.line_breaks = 0 /\ info.bytes < it.byte_idx ->
         PrevLeafOfLine([it EXCEPT !.byte_idx = @ - info.bytes], stack, Longer(span, info))

LeafBeforeAt(it, stack, span) == LeafBefore(it, stack, span, ChildInfo(Last(stack)))

PrevLeafOfLine(it, stack, span) ==
  LeafBeforeAt(it, ToLeft(stack, LeftLevels(stack)),
               Widened(span, stack, Max(LeftLevels(stack))))

\* A line whose end is tail and that starts in an earlier leaf.
CrossBackward(it, tail, entry) ==
  PrevLeafOfLine([it EXCEPT !.byte_idx = @ - Len(tail)], it.node_stack,
    Span(Len(it.node_stack),
         InfoAdd(PrefixInfo(entry.node.children, entry.i - 1), InfoFromStr(tail)),
         InfoFromStr(tail), tail # <<>>))

LineInTail(it, line, ends) ==
  Gives([it EXCEPT !.byte_idx = @ - Len(line), !.leaf_byte_idx = @ - Len(line)],
        LineSlice(line, OneIf(ends)))

\* The line at the end of tail starts at its byte n, or before the tail.
PrevFromTail(it, tail, n, ends) ==
  CASE Len(tail) - n >= it.byte_idx -> LineInTail(it, From(tail, Len(tail) - it.byte_idx), ends)
    [] Len(tail) - n < it.byte_idx /\ n > 0 -> LineInTail(it, From(tail, n), ends)
    [] Len(tail) - n < it.byte_idx /\ n = 0 -> CrossBackward(it, tail, Last(it.node_stack))

PrevBeforeLeafByte(it, tail, ends) ==
  PrevFromTail([it EXCEPT !.line_idx = @ - 1, !.at_end = FALSE], tail,
               LastLineStart(TrimLineBreak(tail)), ends)

EmptyLineBefore(it) ==
  Gives([it EXCEPT !.at_end = FALSE, !.line_idx = @ - 1], LineSlice(<<>>, 0))

PrevOfTail(it, tail) ==
  CASE it.at_end /\ EndsWithLineBreak(tail) -> EmptyLineBefore(it)
    [] it.at_end /\ ~ EndsWithLineBreak(tail) -> PrevBeforeLeafByte(it, tail, FALSE)
    [] ~ it.at_end /\ it.byte_idx = 0 -> Ends(it)
    [] ~ it.at_end /\ it.byte_idx # 0 -> PrevBeforeLeafByte(it, tail, TRUE)

PrevFullLine(it) == PrevOfTail(it, Slice(it.text, 0, it.leaf_byte_idx))

-----------------------------------------------------------------------------
(* next_impl and prev_impl, light form *)

LightLineTo(it, n) ==
  Gives([it EXCEPT !.byte_idx = n, !.line_idx = @ + 1,
                   !.at_end = n = Len(it.text) /\ ~ EndsWithLineBreak(it.text)],
        SliceOfStr(Slice(it.text, it.byte_idx, n)))

NextLightLine(it) ==
  CASE it.at_end -> Ends(it)
    [] ~ it.at_end /\ it.byte_idx = Len(it.text) -> EmptyLastLine(it)
    [] ~ it.at_end /\ it.byte_idx # Len(it.text) ->
         LightLineTo(it, it.byte_idx + LineToByteIdx(From(it.text, it.byte_idx), 1))

\* Every line is said to end with a line break.
LightLineFrom(it, n) ==
  Gives([it EXCEPT !.byte_idx = n, !.line_idx = @ - 1, !.at_end = FALSE],
        LineSlice(Slice(it.text, n, it.byte_idx), 1))

PrevLightLine(it) ==
  CASE it.at_end /\ (it.text = <<>> \/ EndsWithLineBreak(it.text)) -> EmptyLineBefore(it)
    [] ~ it.at_end /\ it.byte_idx = 0 -> Ends(it)
    [] \/ it.at_end /\ ~ (it.text = <<>> \/ EndsWithLineBreak(it.text))
       \/ ~ it.at_end /\ it.byte_idx # 0 ->
         LightLineFrom(it, LastLineStart(TrimLineBreak(Slice(it.text, 0, it.byte_idx))))

-----------------------------------------------------------------------------

LinesNext(it) == IF it.full THEN NextFullLine(it) ELSE NextLightLine(it)
LinesPrev(it) == IF it.full THEN PrevFullLine(it) ELSE PrevLightLine(it)

\* size_hint
LinesSizeHint(it, reversed) == IF reversed THEN it.line_idx ELSE it.total_lines - it.line_idx
=============================================================================
