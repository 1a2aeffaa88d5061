------------------------------- MODULE Editor -------------------------------
(***************************************************************************)
(* The prompt editor (src/tui/components/editor): a text with a cursor, in *)
(* which a long paste is folded to one item, a kill buffer, a history, a   *)
(* palette of suggestions and a window onto the wrapped lines.             *)
(*                                                                         *)
(* A text is a sequence of UTF-16 units.  A unit is its character and, as  *)
(* a ghost, its place in the paste it came with, 0 when it was typed or    *)
(* its paste was short.  "hi" and "lo" are the halves of a wide character, *)
(* "mark" is a character that joins the one before it.                     *)
(***************************************************************************)
EXTENDS Integers, Sequences, FiniteSets, SequencesExt, FiniteSetsExt

CONSTANTS Typed,         \* what a key may type: sequences of characters
          Pasted,        \* what a bracketed paste may bring
          Threshold,     \* LONG_PASTE_CHARACTER_THRESHOLD
          MarkerWidth,   \* columns of "[Pasted N chars]"
          Suggested,     \* per prefix character, the names it completes, in order
          Sizes,         \* pairs <<columns, rows>> at which the editor is rendered
          PaletteRows,   \* rows of the palette at such a size
          MaxHistory,    \* 100 in the code
          MaxImages,     \* MAX_INPUT_IMAGES
          MaxEdits       \* bound: texts and images inserted in a behaviour

ASSUME EditorAssumption ==
  /\ Threshold \in Nat \ {0} /\ MarkerWidth \in Nat \ {0}
  /\ MaxHistory \in Nat \ {0} /\ MaxImages \in Nat

VARIABLES
  input,        \* EditorTextState: value, cursor, collapsed pastes, kill buffer
  history,      \* submitted texts with their folds, the latest first
  historyIndex, \* the entry shown, -1 for none
  view,         \* inputColumns, inputVisibleLines, inputViewportStartLine (-1: none)
  palette,      \* the ListViewport of the suggestions and lastPaletteKey
  images,       \* how many images are attached
  edits         \* bound: texts and images inserted so far

editorVars == <<input, history, historyIndex, view, palette, images, edits>>

-----------------------------------------------------------------------------
(* Texts *)

Unit(c, place) == [char |-> c, place |-> place]
Chars(text) == [i \in DOMAIN text |-> text[i].char]
Plain(chars) == [i \in DOMAIN chars |-> Unit(chars[i], 0)]
Numbered(chars) == [i \in DOMAIN chars |-> Unit(chars[i], i)]
Slice(text, from, to) == SubSeq(text, from + 1, to)

Least(a, b) == IF a < b THEN a ELSE b
Greatest(a, b) == IF a > b THEN a ELSE b

normalizeLineEndings(chars) ==
  LET kept == SelectSeq([i \in DOMAIN chars |-> <<chars[i], IF i < Len(chars) THEN chars[i + 1] ELSE "">>],
                        LAMBDA pair : pair # <<"\r", "\n">>)
  IN [i \in DOMAIN kept |-> IF kept[i][1] = "\r" THEN "\n" ELSE kept[i][1]]

Joins(before, after) == after = "lo" \/ (after = "mark" /\ before # "\n")

\* graphemeBoundaries
Boundaries(chars) ==
  {i \in 0..Len(chars) : i \in {0, Len(chars)} \/ ~Joins(chars[i], chars[i + 1])}

characterCountOf(text) == Cardinality(Boundaries(Chars(text))) - 1

IsSpace(c) == c \in {" ", "\n"}

\* String.prototype.trim: how many units it drops at the start, and where it ends
TrimStart(text) ==
  LET solid == {i \in DOMAIN text : ~IsSpace(text[i].char)}
  IN IF solid = {} THEN Len(text) ELSE Min(solid) - 1
TrimEnd(text) ==
  LET solid == {i \in DOMAIN text : ~IsSpace(text[i].char)}
  IN IF solid = {} THEN Len(text) ELSE Max(solid)
Trimmed(text) == Slice(text, TrimStart(text), TrimEnd(text))

-----------------------------------------------------------------------------
(* Folded pastes and the places a cursor may stand at *)

Fold(from, to, count) == [start |-> from, end |-> to, count |-> count]
Moved(fold, by) == [fold EXCEPT !.start = @ + by, !.end = @ + by]
InOrder(folds) == SortSeq(folds, LAMBDA f, g : f.start < g.start)

validCollapsedPastes(s) ==
  FoldLeft(LAMBDA kept, f : IF (IF kept = <<>> THEN 0 ELSE Last(kept).end) <= f.start
                            THEN Append(kept, f) ELSE kept,
           <<>>,
           InOrder(SelectSeq(s.folds, LAMBDA f : f.start >= 0 /\ f.end > f.start /\ f.end <= Len(s.value))))

\* The grapheme boundaries of the text between folds, and the folds' edges.
EditorBoundaries(s) ==
  LET Edge(i) == \E k \in DOMAIN s.folds : i \in {s.folds[k].start, s.folds[k].end}
      Hidden(i) == \E k \in DOMAIN s.folds : s.folds[k].start < i /\ i < s.folds[k].end
      bounds == Boundaries(Chars(s.value))
  IN {i \in 0..Len(s.value) : Edge(i) \/ (~Hidden(i) /\ i \in bounds)}

clampToEditorBoundary(s, offset) ==
  LET around == {k \in DOMAIN s.folds : s.folds[k].start < offset /\ offset < s.folds[k].end}
  IN IF offset <= 0 THEN 0
     ELSE IF offset >= Len(s.value) THEN Len(s.value)
     ELSE IF around # {}
          THEN LET f == s.folds[CHOOSE k \in around : TRUE]
               IN IF offset - f.start <= f.end - offset THEN f.start ELSE f.end
     ELSE Max({b \in EditorBoundaries(s) : b <= offset})

previousEditorBoundary(s, offset) == Max({0} \cup {b \in EditorBoundaries(s) : b < offset})
nextEditorBoundary(s, offset) == Min({Len(s.value)} \cup {b \in EditorBoundaries(s) : b > offset})

createEditorUnits(s) ==
  LET kind(from, to) ==
        IF \E k \in DOMAIN s.folds : s.folds[k].start = from /\ s.folds[k].end = to THEN "paste"
        ELSE IF \A i \in (from + 1)..to : IsSpace(s.value[i].char) THEN "whitespace"
        ELSE IF \A i \in (from + 1)..to : s.value[i].char = "a" THEN "word"
        ELSE "punctuation"
      unit(from) == LET to == nextEditorBoundary(s, from)
                    IN [start |-> from, end |-> to, kind |-> kind(from, to)]
  IN {unit(b) : b \in EditorBoundaries(s) \ {Len(s.value)}}

\* From offset back, or on, over the units of these kinds: where that stops.
BackOver(units, offset, kinds) ==
  Max({u.end : u \in {v \in units : v.end <= offset /\ v.kind \notin kinds}} \cup {0})
OnOver(units, length, offset, kinds) ==
  Min({u.start : u \in {v \in units : v.start >= offset /\ v.kind \notin kinds}} \cup {length})

\* A word is a fold, or a run of word units.
WordStart(units, wordEnd) ==
  IF \E u \in units : u.kind = "paste" /\ u.end = wordEnd
  THEN (CHOOSE u \in units : u.kind = "paste" /\ u.end = wordEnd).start
  ELSE BackOver(units, wordEnd, {"word"})
WordEnd(units, length, wordStart) ==
  IF \E u \in units : u.kind = "paste" /\ u.start = wordStart
  THEN (CHOOSE u \in units : u.kind = "paste" /\ u.start = wordStart).end
  ELSE OnOver(units, length, wordStart, {"word"})

previousWordBoundary(units, offset) ==
  WordStart(units, BackOver(units, offset, {"whitespace", "punctuation"}))

nextWordBoundary(units, length, offset) ==
  WordEnd(units, length, OnOver(units, length, offset, {"whitespace", "punctuation"}))

previousWhitespaceWordBoundary(units, offset) ==
  BackOver(units, BackOver(units, offset, {"whitespace"}),
           {"word", "punctuation", "paste"})

-----------------------------------------------------------------------------
(* What is displayed: every fold is replaced by a marker *)

Marker == [i \in 1..MarkerWidth |-> "#"]

\* Offset o of one text in the other: spans pair their folds.
MapOffset(spans, o) ==
  LET around == {k \in DOMAIN spans : spans[k].from[1] <= o /\ o <= spans[k].from[2]}
      grown(k) == (spans[k].to[2] - spans[k].to[1]) - (spans[k].from[2] - spans[k].from[1])
      span == spans[Min(around)]
  IN IF around = {} THEN o + MapThenSumSet(grown, {k \in DOMAIN spans : spans[k].from[2] < o})
     ELSE IF o - span.from[1] <= span.from[2] - o THEN span.to[1] ELSE span.to[2]

\* The folds in the source and in what is displayed.
Spans(folds) ==
  LET grown(j) == MarkerWidth - (folds[j].end - folds[j].start)
      at(k) == folds[k].start + MapThenSumSet(grown, 1..(k - 1))
  IN [k \in DOMAIN folds |-> [from |-> <<folds[k].start, folds[k].end>>,
                              to   |-> <<at(k), at(k) + MarkerWidth>>]]

Displayed(s, folds, spans) ==
  LET after(k) == IF k = 0 THEN 0 ELSE folds[k].end
      before(k) == Slice(s.value, after(k - 1), folds[k].start)
  IN [value  |-> FlattenSeq([k \in DOMAIN folds |-> Chars(before(k)) \o Marker])
                   \o Chars(Slice(s.value, after(Len(folds)), Len(s.value))),
      spans  |-> spans,
      cursor |-> MapOffset(spans, s.cursor)]

WithFolds(s, folds) == Displayed(s, folds, Spans(folds))

createEditorDisplayState(s) == WithFolds(s, validCollapsedPastes(s))

displayOffsetToSourceOffset(display, offset) ==
  MapOffset([k \in DOMAIN display.spans |-> [from |-> display.spans[k].to, to |-> display.spans[k].from]], offset)

currentDisplayLineBoundary(display, boundary) ==
  LET breaks == {i \in DOMAIN display.value : display.value[i] = "\n"}
  IN IF boundary = "start" THEN Max({0} \cup {i \in breaks : i <= display.cursor})
     ELSE Min({Len(display.value)} \cup {i - 1 : i \in {j \in breaks : j > display.cursor}})

editorLineBoundary(display, boundary) ==
  displayOffsetToSourceOffset(display, currentDisplayLineBoundary(display, boundary))

\* A forward kill at the end of a line takes the break.
EndToKill(display, to) ==
  displayOffsetToSourceOffset(display,
    IF display.cursor = to /\ to < Len(display.value) THEN to + 1 ELSE to)

editorKillLineBoundary(display, boundary) ==
  IF boundary = "start" THEN editorLineBoundary(display, "start")
                        ELSE EndToKill(display, currentDisplayLineBoundary(display, "end"))

-----------------------------------------------------------------------------
(* Wrapped lines: offsets into what is displayed *)

\* A glyph is as wide as the character it begins with.
WidthOf(char) == IF char = "hi" THEN 2 ELSE IF char \in {"lo", "mark"} THEN 0 ELSE 1

GlyphStarts(chars, from, to) == {b \in Boundaries(chars) : from <= b /\ b < to}
GlyphEnd(chars, from) == Min({b \in Boundaries(chars) : b > from})

WidthBetween(chars, from, to) ==
  MapThenSumSet(LAMBDA i : WidthOf(chars[i]), (from + 1)..to)

createLine(offset) == [start |-> offset, end |-> offset]

wrapInputValue(chars, columns) ==
  LET within == Boundaries(chars)
      bounds == SelectSeq([i \in 1..(Len(chars) + 1) |-> i - 1], LAMBDA b : b \in within)
      full(line, b) ==
        line.end > line.start /\ WidthBetween(chars, line.start, b) + WidthOf(chars[b + 1]) > columns
      place(lines, b, end) ==
        IF chars[b + 1] = "\n" THEN Append(lines, createLine(b + 1))
        ELSE IF full(Last(lines), b) THEN Append(lines, [start |-> b, end |-> end])
        ELSE [lines EXCEPT ![Len(lines)].end = end]
  IN FoldLeft(LAMBDA lines, k : place(lines, bounds[k], bounds[k + 1]), <<createLine(0)>>,
              [k \in 1..(Len(bounds) - 1) |-> k])

\* The index of the cursor's line: at a soft wrap it is the next one.
findCursorLine(lines, offset) ==
  LET starts == {i \in DOMAIN lines : i > 1 /\ lines[i].start = offset}
      holds == {i \in DOMAIN lines : lines[i].start <= offset /\ offset <= lines[i].end}
  IN IF starts # {} THEN Min(starts) ELSE IF holds # {} THEN Min(holds) ELSE Len(lines)

\* The first of rows lines to show, from 0; preferred is -1 for none.
resolveStartLine(lineCount, cursorLine, rows, preferred) ==
  LET maxStart == Greatest(0, lineCount - rows)
      lowest == cursorLine - rows + 1
  IN Greatest(0, IF preferred = -1 THEN Least(lowest, maxStart)
                 ELSE Least(Greatest(preferred, lowest), Least(cursorLine, maxStart)))

LinesStart(lines, cursor, rows, preferred) ==
  resolveStartLine(Len(lines), findCursorLine(lines, cursor) - 1, rows, preferred)

createInputLayout(display, columns, rows, preferred) ==
  LinesStart(wrapInputValue(display.value, columns), display.cursor, rows, preferred)

cursorColumn(chars, line, cursor) ==
  MapThenSumSet(LAMBDA b : WidthOf(chars[b + 1]),
                {b \in GlyphStarts(chars, line.start, line.end) : GlyphEnd(chars, b) <= cursor})

cursorOffsetForColumn(chars, line, column) ==
  LET fits(b) == /\ WidthBetween(chars, line.start, b) < column
                 /\ WidthBetween(chars, line.start, GlyphEnd(chars, b)) <= column
  IN Min({line.end} \cup {b \in GlyphStarts(chars, line.start, line.end) : ~fits(b)})

VerticalTo(display, line, target) ==
  displayOffsetToSourceOffset(display,
    cursorOffsetForColumn(display.value, target, cursorColumn(display.value, line, display.cursor)))

FromLine(display, lines, at, direction) ==
  IF at + direction \notin DOMAIN lines THEN -1 ELSE VerticalTo(display, lines[at], lines[at + direction])

VerticalFrom(display, lines, direction) ==
  FromLine(display, lines, findCursorLine(lines, display.cursor), direction)

\* The source offset one wrapped line up or down, -1 when there is no such line.
moveInputCursorVertically(display, columns, direction) ==
  VerticalFrom(display, wrapInputValue(display.value, columns), direction)

-----------------------------------------------------------------------------
(* The reducer: applyEditorAction on a state with valid folds and cursor *)

NotPushed(s, text, folds) ==
  [s EXCEPT !.value = Slice(s.value, 0, s.cursor) \o text \o Slice(s.value, s.cursor, Len(s.value)),
            !.cursor = s.cursor + Len(text),
            !.folds = InOrder(s.folds \o [k \in DOMAIN folds |-> Moved(folds[k], s.cursor)])]

insertText(s, text, folds) ==
  LET n == Len(text)
      pushed == [k \in DOMAIN s.folds |->
                   IF s.folds[k].start >= s.cursor THEN Moved(s.folds[k], n) ELSE s.folds[k]]
      brought == [k \in DOMAIN folds |-> Moved(folds[k], s.cursor)]
  IN [s EXCEPT !.value = Slice(s.value, 0, s.cursor) \o text \o Slice(s.value, s.cursor, Len(s.value)),
               !.cursor = s.cursor + n,
               !.folds = InOrder(pushed \o brought)]

expandRange(folds, from, to) ==
  FoldLeft(LAMBDA range, f : IF f.start < range[2] /\ f.end > range[1]
                             THEN <<Least(range[1], f.start), Greatest(range[2], f.end)>> ELSE range,
           <<from, to>>, folds)

Within(folds, from, to) == SelectSeq(folds, LAMBDA f : f.start >= from /\ f.end <= to)

KillFoldsUnmoved(s, from, to, cursor, storeKill) ==
  LET next == [s EXCEPT !.cursor = Least(cursor, from),
                        !.value = Slice(s.value, 0, from) \o Slice(s.value, to, Len(s.value)),
                        !.folds = SelectSeq(s.folds, LAMBDA f : f.end <= from)]
  IN IF storeKill /\ from # to
     THEN [next EXCEPT !.kill = [value |-> Slice(s.value, from, to), folds |-> Within(s.folds, from, to)]]
     ELSE next

DeleteRange(s, from, to, cursor, storeKill) ==
  LET kept == SelectSeq(s.folds, LAMBDA f : f.end <= from)
      after == SelectSeq(s.folds, LAMBDA f : f.end > from /\ f.start >= to)
      inside == Within(s.folds, from, to)
      next == [s EXCEPT !.cursor = Least(cursor, from),
                        !.value = Slice(s.value, 0, from) \o Slice(s.value, to, Len(s.value)),
                        !.folds = kept \o [k \in DOMAIN after |-> Moved(after[k], from - to)]]
  IN IF from = to THEN [s EXCEPT !.cursor = Least(cursor, from)]
     ELSE IF storeKill
     THEN [next EXCEPT !.kill = [value |-> Slice(s.value, from, to),
                                 folds |-> [k \in DOMAIN inside |-> Moved(inside[k], -from)]]]
     ELSE next

deleteTextRange(s, range, cursor, storeKill) == DeleteRange(s, range[1], range[2], cursor, storeKill)

NoKill == [value |-> <<>>, folds |-> <<>>]
yank(s) == IF s.kill.value = <<>> THEN s ELSE insertText(s, s.kill.value, s.kill.folds)

Moves == {"moveLeft", "moveRight", "moveWordLeft", "moveWordRight", "moveLineStart", "moveLineEnd"}
Deletions == {"deleteBefore", "deleteAfter"}
Kills == {"killWordBefore", "killWhitespaceWordBefore", "killWordAfter", "killLineBefore", "killLineAfter"}

\* Where a move goes to, and the other end of what a deletion takes.
CharacterTarget(s, action) ==
  IF action \in {"moveLeft", "deleteBefore"} THEN previousEditorBoundary(s, s.cursor)
                                             ELSE nextEditorBoundary(s, s.cursor)
WordTarget(units, length, offset, action) ==
  CASE action \in {"moveWordLeft", "killWordBefore"} -> previousWordBoundary(units, offset)
    [] action \in {"moveWordRight", "killWordAfter"} -> nextWordBoundary(units, length, offset)
    [] action = "killWhitespaceWordBefore"           -> previousWhitespaceWordBoundary(units, offset)
LineTarget(display, action) ==
  CASE action = "moveLineStart"  -> editorLineBoundary(display, "start")
    [] action = "moveLineEnd"    -> editorLineBoundary(display, "end")
    [] action = "killLineBefore" -> editorKillLineBoundary(display, "start")
    [] action = "killLineAfter"  -> editorKillLineBoundary(display, "end")

Target(s, action) ==
  IF action \in {"moveLeft", "moveRight"} \cup Deletions THEN CharacterTarget(s, action)
  ELSE IF action \in {"moveLineStart", "moveLineEnd", "killLineBefore", "killLineAfter"}
  THEN LineTarget(createEditorDisplayState(s), action)
  ELSE WordTarget(createEditorUnits(s), Len(s.value), s.cursor, action)

Clamped(s) == [s EXCEPT !.cursor = clampToEditorBoundary(s, s.cursor)]
Valid(s) == Clamped([s EXCEPT !.folds = validCollapsedPastes(s)])

To(s, action, target) ==
  IF action \in Moves THEN [s EXCEPT !.cursor = target]
  ELSE deleteTextRange(s, expandRange(s.folds, Least(target, s.cursor), Greatest(target, s.cursor)),
                       Least(target, s.cursor), action \in Kills)

On(s, action) == To(s, action, Target(s, action))

applyEditorAction(state, action) == On(Valid(state), action)

\* What a bracketed paste inserts: a long one is folded.
pasteOf(text, count) ==
  IF count >= Threshold THEN [value |-> Numbered(text), folds |-> <<Fold(0, Len(text), count)>>]
                        ELSE [value |-> Plain(text), folds |-> <<>>]

createPasteAction(text) == pasteOf(text, characterCountOf(Plain(text)))

insertAction(s, text) == insertText(s, text.value, text.folds)
pasteText(s, chars) == insertAction(s, createPasteAction(normalizeLineEndings(chars)))

-----------------------------------------------------------------------------
(* The palette: getPaletteState and ListViewport *)

NoPalette == [kind |-> "none", query |-> <<>>, shown |-> FALSE, names |-> <<>>]

\* The leading token, a prefix character and what follows up to a space.
TokenEnd(chars) == Min({Len(chars)} \cup {i - 1 : i \in {j \in DOMAIN chars : IsSpace(chars[j])}})

paletteOf(chars, tokenEnd) ==
  IF chars = <<>> \/ chars[1] \notin DOMAIN Suggested THEN NoPalette
  ELSE [kind |-> chars[1], query |-> SubSeq(chars, 2, tokenEnd), shown |-> tokenEnd = Len(chars),
        names |-> SelectSeq(Suggested[chars[1]],
                            LAMBDA name : IsPrefix(SubSeq(chars, 2, tokenEnd), name))]

getPaletteState(text) == paletteOf(Chars(text), TokenEnd(Chars(text)))

clamp(n, least, most) == Greatest(least, Least(most, n))
maxStart(viewport, length) == Greatest(0, length - viewport.limit)

ensureSelectedVisible(viewport, length) ==
  LET selected == IF length = 0 THEN 0 ELSE clamp(viewport.selected, 0, length - 1)
      start == clamp(viewport.start, 0, maxStart(viewport, length))
  IN [viewport EXCEPT !.selected = selected,
                      !.start = IF selected < start THEN selected
                                ELSE IF selected >= start + viewport.limit
                                THEN selected - viewport.limit + 1 ELSE start]

moveTo(viewport, index, length) == ensureSelectedVisible([viewport EXCEPT !.selected = index], length)

SyncTo(viewport, key, length) ==
  [moveTo(viewport, IF key # viewport.key THEN 0 ELSE viewport.selected, length) EXCEPT !.key = key]

SyncState(viewport, state) == SyncTo(viewport, <<state.kind, state.query>>, Len(state.names))

syncPaletteSelection(viewport, text) == SyncState(viewport, getPaletteState(text))

-----------------------------------------------------------------------------
(* What the Editor's methods do to its fields *)

\* applyAction and what else ends in syncPaletteSelection
ShowInput(next) ==
  /\ input' = next
  /\ palette' = syncPaletteSelection(palette, next.value)

IndexStays(next) == ShowInput(next) /\ UNCHANGED historyIndex

applyAction(next) ==
  /\ ShowInput(next)
  /\ historyIndex' = IF Chars(next.value) # Chars(input.value) THEN -1 ELSE historyIndex

\* setText, then the folds that navigateHistory puts back
setText(text, folds, index) ==
  /\ ShowInput([value |-> text, cursor |-> Len(text), folds |-> folds, kill |-> input.kill])
  /\ view' = [view EXCEPT !.start = -1]
  /\ historyIndex' = index

clear == setText(<<>>, <<>>, -1) /\ images' = 0

EntryUncut(text) ==
  IF Chars(Trimmed(input.value)) # Chars(text) THEN [value |-> Plain(Chars(text)), folds |-> <<>>]
  ELSE [value |-> text, folds |-> SelectSeq(input.folds, LAMBDA f : f.end <= Len(text))]

\* The folds of an entry made from input: cut where trim cut it, and unfolded
\* when what is left of one is short.
createHistoryEntry(text) ==
  LET from == TrimStart(input.value)
      to == from + Len(text)
      cut(f) == LET start == Greatest(f.start, from)
                    end == Least(f.end, to)
                IN [start |-> start - from, end |-> end - from,
                    count |-> IF start = f.start /\ end = f.end THEN f.count
                              ELSE characterCountOf(Slice(input.value, start, Greatest(start, end)))]
      cuts == [k \in DOMAIN input.folds |-> cut(input.folds[k])]
  IN IF Chars(Trimmed(input.value)) # Chars(text) THEN [value |-> Plain(Chars(text)), folds |-> <<>>]
     ELSE [value |-> [i \in DOMAIN text |-> IF \E k \in DOMAIN cuts : /\ cuts[k].start < i /\ i <= cuts[k].end
                                                                     /\ cuts[k].count < Threshold
                                            THEN Unit(text[i].char, 0) ELSE text[i]],
           folds |-> SelectSeq(cuts, LAMBDA f : f.start < f.end /\ f.count >= Threshold)]

addToHistory(text) ==
  LET prompt == Trimmed(text)
      entries == <<createHistoryEntry(prompt)>> \o history
  IN history' = IF prompt = <<>> \/ (history # <<>> /\ Chars(history[1].value) = Chars(prompt)) THEN history
                ELSE SubSeq(entries, 1, Least(Len(entries), MaxHistory))

-----------------------------------------------------------------------------
(* Keys *)

EditorInit ==
  /\ input = [value |-> <<>>, cursor |-> 0, folds |-> <<>>, kill |-> NoKill]
  /\ history = <<>> /\ historyIndex = -1
  /\ view = [columns |-> 80, rows |-> 5, start |-> -1]
  /\ palette = [selected |-> 0, start |-> 0, limit |-> 10, key |-> <<>>]
  /\ images = 0
  /\ edits = 0

Inserts == edits < MaxEdits /\ edits' = edits + 1

Type(chars) ==
  /\ Inserts
  /\ applyAction(insertText(Valid(input), Plain(chars), <<>>))
  /\ UNCHANGED <<history, view, images>>

Paste(chars) ==
  /\ Inserts
  /\ applyAction(pasteText(Valid(input), chars))
  /\ UNCHANGED <<history, view, images>>

Yank ==
  /\ input.kill # NoKill /\ Inserts
  /\ applyAction(yank(Valid(input)))
  /\ UNCHANGED <<history, view, images>>

\* Backspace in an empty editor takes the last image off.
Edit(action) ==
  /\ IF action = "deleteBefore" /\ input.value = <<>> /\ images > 0
     THEN images' = images - 1 /\ UNCHANGED <<input, palette, historyIndex>>
     ELSE applyAction(applyEditorAction(input, action)) /\ UNCHANGED images
  /\ UNCHANGED <<history, view, edits>>

navigateHistory(direction) ==
  LET index == historyIndex + direction
  IN IF index \notin -1..(Len(history) - 1) \/ history = <<>>
     THEN UNCHANGED <<input, palette, historyIndex, view>>
     ELSE IF index = -1 THEN setText(<<>>, <<>>, -1)
     ELSE setText(history[index + 1].value, history[index + 1].folds, index)

PaletteTakes(state, direction) ==
  /\ palette' = moveTo(palette, palette.selected + direction, Len(state.names))
  /\ UNCHANGED <<input, historyIndex, view>>

Takes(state) == state.shown /\ state.names # <<>>

moveVertically(display, offset) ==
  /\ ShowInput([input EXCEPT !.cursor = offset])
  /\ view' = [view EXCEPT !.start = createInputLayout(display, view.columns, view.rows, view.start)]
  /\ UNCHANGED historyIndex

findInputCursorLine(display, columns) ==
  findCursorLine(wrapInputValue(display.value, columns), display.cursor) - 1

moveToBoundary(atEdge) ==
  /\ ShowInput(atEdge)
  /\ view' = [view EXCEPT !.start =
       IF atEdge.cursor = 0 THEN 0
       ELSE Greatest(0, findInputCursorLine(createEditorDisplayState(atEdge), view.columns) - view.rows + 1)]
  /\ UNCHANGED historyIndex

\* An arrow: the palette, else a line, else an end of the text, else the history.
ArrowOn(display, offset, edge, direction) ==
  IF offset # -1 THEN moveVertically(display, offset)
  ELSE IF input.cursor # edge THEN moveToBoundary([input EXCEPT !.cursor = edge])
  ELSE navigateHistory(-direction)

ArrowIn(display, direction) ==
  ArrowOn(display, moveInputCursorVertically(display, view.columns, direction),
          IF direction = -1 THEN 0 ELSE Len(input.value), direction)

Arrow(direction) ==
  /\ \E state \in {getPaletteState(input.value)} :
       IF Takes(state) THEN PaletteTakes(state, direction)
                       ELSE ArrowIn(createEditorDisplayState(input), direction)
  /\ UNCHANGED <<history, images, edits>>

\* Ctrl+P and Ctrl+N
HistoryKey(direction) ==
  /\ \E state \in {getPaletteState(input.value)} :
       IF Takes(state) THEN PaletteTakes(state, direction) ELSE navigateHistory(-direction)
  /\ UNCHANGED <<history, images, edits>>

\* createSubmit: a command by its exact name or the selected one, a template
\* likewise while its palette is shown, else the text as it is.
createSubmit(state) ==
  LET exact == state.kind # "none" /\ Contains(Suggested[state.kind], state.query)
      selected == state.names # <<>> /\ (state.kind = "/" \/ state.shown)
  IN IF ~exact /\ ~selected THEN [type |-> "message", text |-> input.value]
     ELSE [type |-> IF state.kind = "/" THEN "command" ELSE "message",
           text |-> Plain(IF exact THEN state.query ELSE state.names[palette.selected + 1])]

NothingDone == UNCHANGED <<input, history, historyIndex, view, palette, images>>

\* submitPrompt and queuePrompt: a blank prompt, or one the conversation does
\* not take now, leaves the editor as it is.
Sends(submit) ==
  \/ /\ Trimmed(submit.text) # <<>> \/ images > 0
     /\ addToHistory(submit.text)
     /\ clear
  \/ NothingDone

\* Most commands clear the editor, the others leave it.
Commands == (clear /\ UNCHANGED history) \/ NothingDone

Enter ==
  /\ \E submit \in {createSubmit(getPaletteState(input.value))} :
       IF submit.type = "message" THEN Sends(submit) ELSE Commands
  /\ UNCHANGED edits

complete(state, name) ==
  /\ Inserts
  /\ setText(Plain(<<state.kind>> \o name \o <<" ">>), <<>>, -1)
  /\ UNCHANGED <<history, images>>

Tab ==
  \E state \in {getPaletteState(input.value)} :
    IF Takes(state) THEN complete(state, state.names[palette.selected + 1])
    ELSE /\ \E submit \in {createSubmit(state)} :
              IF submit.type = "message" THEN Sends(submit) ELSE NothingDone
         /\ UNCHANGED edits

\* From the clipboard, or from a file: then the command's text goes.
AttachImage(fromFile) ==
  /\ images < MaxImages /\ Inserts
  /\ images' = images + 1
  /\ IF fromFile THEN setText(<<>>, <<>>, -1) ELSE UNCHANGED <<input, historyIndex, view, palette>>
  /\ UNCHANGED history

\* render() at a size: where the window onto the lines starts, and how many
\* suggestions fit.
Render(size) ==
  /\ view' = [columns |-> size[1], rows |-> size[2],
              start |-> createInputLayout(createEditorDisplayState(input), size[1], size[2], view.start)]
  /\ \E state \in {getPaletteState(input.value)} :
       palette' = IF Takes(state)
                  THEN ensureSelectedVisible([palette EXCEPT !.limit = PaletteRows[size]], Len(state.names))
                  ELSE palette
  /\ UNCHANGED <<input, history, historyIndex, images, edits>>

EditorNext ==
  \/ \E chars \in Typed : Type(chars)
  \/ \E chars \in Pasted : Paste(chars)
  \/ Yank
  \/ \E action \in Moves \cup Deletions \cup Kills : Edit(action)
  \/ \E direction \in {-1, 1} : Arrow(direction) \/ HistoryKey(direction)
  \/ Enter
  \/ Tab
  \/ \E fromFile \in BOOLEAN : AttachImage(fromFile)
  \/ \E size \in Sizes : Render(size)

EditorSpec == EditorInit /\ [][EditorNext]_editorVars

-----------------------------------------------------------------------------
(* Properties *)

EditorTypeOK ==
  /\ input.cursor \in 0..Len(input.value)
  /\ historyIndex \in -1..(Len(history) - 1)
  /\ Len(history) <= MaxHistory /\ images \in 0..MaxImages

\* The folds of a text are in order and apart.  Each hides consecutive text of
\* one paste and says how many characters that is, and the text of a long
\* paste is nowhere unfolded.
FoldsAreExact(text, folds) ==
  /\ \A k \in DOMAIN folds :
       LET f == folds[k]
       IN /\ (IF k = 1 THEN 0 ELSE folds[k - 1].end) <= f.start /\ f.start < f.end /\ f.end <= Len(text)
          /\ text[f.start + 1].place > 0
          /\ \A i \in (f.start + 2)..f.end : text[i].place = text[i - 1].place + 1
          /\ f.count = characterCountOf(Slice(text, f.start, f.end))
  /\ \A i \in DOMAIN text :
       text[i].place > 0 => \E k \in DOMAIN folds : folds[k].start < i /\ i <= folds[k].end

\* Wherever a text goes, its folds go with it: through edits, into the kill
\* buffer and back, into the history and out of it.
FoldsStayWithTheirText ==
  /\ FoldsAreExact(input.value, input.folds)
  /\ FoldsAreExact(input.kill.value, input.kill.folds)
  /\ \A k \in DOMAIN history : FoldsAreExact(history[k].value, history[k].folds)

\* The cursor never stands inside a fold or a character, and no move along
\* lines or words takes it there.
CursorStandsBetween ==
  /\ input.cursor \in EditorBoundaries(input)
  /\ {Target(input, action) : action \in Moves} \subseteq EditorBoundaries(input)
  /\ {moveInputCursorVertically(createEditorDisplayState(input), size[1], direction) :
        size \in Sizes, direction \in {-1, 1}} \subseteq EditorBoundaries(input) \cup {-1}

\* Ctrl+Y right after any kill gives back the text and its folds.
YankUndoesAKill ==
  LET same(s, t) == s.value = t.value /\ s.folds = t.folds
      undone(killed) == killed.value = input.value \/ same(yank(Valid(killed)), input)
  IN \A action \in Kills : undone(applyEditorAction(input, action))

\* At any size the window onto the lines holds the cursor's line and is full
\* when there are lines enough.
WindowShowsTheCursor ==
  LET shows(lines, cursorLine, start, rows) ==
        /\ start <= cursorLine /\ cursorLine < start + rows
        /\ start <= Greatest(0, Len(lines) - rows)
      fits(chars, lines, columns) ==
        \A i \in DOMAIN lines : \/ WidthBetween(chars, lines[i].start, lines[i].end) <= columns
                               \/ Cardinality(GlyphStarts(chars, lines[i].start, lines[i].end)) = 1
      holds(display, lines, size) ==
        /\ shows(lines, findCursorLine(lines, display.cursor) - 1,
                 LinesStart(lines, display.cursor, size[2], view.start), size[2])
        /\ fits(display.value, lines, size[1])
      at(display, size) == holds(display, wrapInputValue(display.value, size[1]), size)
  IN \A size \in Sizes : at(createEditorDisplayState(input), size)

\* While an entry of the history is the one shown, the input is that entry.
HistoryIsWhatItShows ==
  historyIndex >= 0 => /\ Chars(input.value) = Chars(history[historyIndex + 1].value)
                       /\ input.folds = history[historyIndex + 1].folds

\* The selection is one of the suggestions for the text as it is, and in the
\* window of the palette.
PaletteFollowsTheText ==
  LET state == getPaletteState(input.value)
  IN palette.key # <<>> =>
       /\ palette.key = <<state.kind, state.query>>
       /\ palette.selected < Greatest(1, Len(state.names))
       /\ palette.start <= palette.selected /\ palette.selected < palette.start + palette.limit
       /\ palette.start <= maxStart(palette, Len(state.names))

EditorIsSafe ==
  /\ EditorTypeOK
  /\ FoldsStayWithTheirText
  /\ CursorStandsBetween
  /\ YankUndoesAKill
  /\ WindowShowsTheCursor
  /\ HistoryIsWhatItShows
  /\ PaletteFollowsTheText

=============================================================================
