------------------------------- MODULE Screen -------------------------------
(***************************************************************************)
(* The terminal UI's painter (src/tui/runtime/tui.ts): a frame of lines    *)
(* that changes at any time is put on the main screen of a terminal by     *)
(* repainting only what changed, with relative cursor moves.  Rows that    *)
(* scrolled off the top cannot be reached again, short of a full repaint.  *)
(*                                                                         *)
(* The terminal is external: it has a height and a cursor, moves stop at   *)
(* its edges, and a line feed on the last row scrolls.  What it shows      *)
(* after a resize is unknown, and it is not resized back to the size of    *)
(* the last frame before the next one.  A frame line is one row, a text is *)
(* a model value; columns are left out.                                    *)
(***************************************************************************)
EXTENDS Integers, Sequences, SequencesExt

CONSTANTS Texts,      \* what a line may say
          Heights,    \* bound: rows of the terminal
          FrameLines  \* bound: lines of a frame

ASSUME ScreenAssumption == Heights \subseteq Nat \ {0} /\ FrameLines \in Nat

VARIABLES
  frame,   \* what render() returns: lines, and the row of the cursor or -1
  tty,     \* the terminal: its rows, its cursor's row, and whether it shows
  painter  \* the fields of Tui

screenVars == <<frame, tty, painter>>

Blank == "blank"
Unknown == "unknown"

AtLeast(n, least) == IF n < least THEN least ELSE n
AtMost(n, most) == IF n > most THEN most ELSE n

Frames == UNION {[lines : [1..n -> Texts], cursor : -1..(n - 1)] : n \in 0..FrameLines}

ScreenTypeOK ==
  /\ frame \in Frames
  /\ tty.at \in 0..(Len(tty.rows) - 1)
  /\ painter.previousViewportTop \in Nat /\ painter.hardwareCursorRow \in Nat

-----------------------------------------------------------------------------
(* What the terminal does with what is written to it *)

Height == Len(tty.rows)

\* CSI A and CSI B
CursorBy(t, delta) == [t EXCEPT !.at = AtLeast(AtMost(@ + delta, Len(t.rows) - 1), 0)]

\* CR LF
LineFeed(t) == IF t.at = Len(t.rows) - 1 THEN [t EXCEPT !.rows = Append(Tail(@), Blank)]
                                         ELSE CursorBy(t, 1)

\* CSI 2K and a text
Put(t, text) == [t EXCEPT !.rows[t.at + 1] = text]

PutAll(t, texts) ==
  IF texts = <<>> THEN t
  ELSE FoldLeft(LAMBDA u, text : Put(LineFeed(u), text), Put(t, Head(texts)), Tail(texts))

\* CSI 2J, CSI H
Cleared(t) == [rows |-> [i \in DOMAIN t.rows |-> Blank], at |-> 0, shown |-> FALSE]

-----------------------------------------------------------------------------
(* Painting.  A painting is the terminal it leaves and the row of the frame *)
(* at which it leaves the cursor.                                           *)

viewportTopFor(lineCount) == AtLeast(lineCount, Height) - Height

moveToRow(painting, row) ==
  [tty |-> CursorBy(painting.tty, row - painting.row), row |-> row]

PutLines(painting, texts, lastRow) ==
  [tty |-> PutAll(painting.tty, texts), row |-> lastRow]

appendHardwareCursorPosition(painting, top) ==
  IF frame.cursor \in top..(top + Height - 1)
  THEN [moveToRow(painting, frame.cursor) EXCEPT !.tty.shown = TRUE]
  ELSE painting

\* How a painting ends, in both kinds of render.
Painted(painting, top) ==
  LET positioned == appendHardwareCursorPosition(painting, top) IN
  /\ tty' = positioned.tty
  /\ painter' = [painter EXCEPT !.renderRequested = FALSE, !.hasRendered = TRUE,
                   !.previousLines = frame.lines, !.previousHeight = Height,
                   !.previousViewportTop = top, !.hardwareCursorRow = positioned.row]

fullRender ==
  Painted(PutLines([tty |-> Cleared(tty), row |-> 0], frame.lines,
                   AtLeast(Len(frame.lines) - 1, 0)),
          viewportTopFor(Len(frame.lines)))

\* The rows, counted from 0, at which two frames with such a row differ.
findChangedRange(previous, lines) ==
  {i \in 0..(AtMost(Len(previous), Len(lines)) - 1) : previous[i + 1] # lines[i + 1]}

FirstOf(rows) == CHOOSE i \in rows : \A j \in rows : i <= j
LastOf(rows) == CHOOSE i \in rows : \A j \in rows : i >= j

isAddressable(row) ==
  row \in painter.previousViewportTop..(painter.previousViewportTop + Height - 1)

\* renderChangedLines() gives up where a row it needs has scrolled off.
CanRenderChanged(changed) ==
  LET previousCount == Len(painter.previousLines)  count == Len(frame.lines) IN
  /\ isAddressable(painter.hardwareCursorRow)
  /\ changed # {} => isAddressable(FirstOf(changed)) /\ isAddressable(LastOf(changed))
  /\ count > previousCount => isAddressable(AtLeast(previousCount - 1, 0))
  /\ count < previousCount => isAddressable(count)

\* Repaints from the first to the last changed line, also what lies between.
ChangedRepainted(painting, changed) ==
  IF changed = {} THEN painting
  ELSE PutLines(moveToRow(painting, FirstOf(changed)),
                SubSeq(frame.lines, FirstOf(changed) + 1, LastOf(changed) + 1), LastOf(changed))

NewAppended(painting) ==
  LET previousCount == Len(painter.previousLines)  count == Len(frame.lines)
      anchor == moveToRow(painting, AtLeast(previousCount - 1, 0)) IN
  IF count <= previousCount THEN painting
  ELSE PutLines(IF previousCount = 0 THEN anchor ELSE [anchor EXCEPT !.tty = LineFeed(@)],
                SubSeq(frame.lines, previousCount + 1, count), count - 1)

\* Mutant of OldErased: the cursor is left on the last erased row.
OldErasedThere(painting) ==
  LET previousCount == Len(painter.previousLines)  count == Len(frame.lines) IN
  IF count >= previousCount THEN painting
  ELSE [PutLines(moveToRow(painting, count),
                 [i \in 1..(previousCount - count) |-> Blank], previousCount - 1)
        EXCEPT !.row = AtLeast(count - 1, 0)]

OldErased(painting) ==
  LET previousCount == Len(painter.previousLines)  count == Len(frame.lines) IN
  IF count >= previousCount THEN painting
  ELSE moveToRow(PutLines(moveToRow(painting, count),
                          [i \in 1..(previousCount - count) |-> Blank], previousCount - 1),
                 AtLeast(count - 1, 0))

\* Mutant of TopAfter: appending forgets that the terminal scrolled.
TopAfterStays == painter.previousViewportTop

\* An append may scroll; a local shrink never brings rows back.
TopAfter ==
  IF Len(frame.lines) > Len(painter.previousLines)
  THEN AtLeast(painter.previousViewportTop, viewportTopFor(Len(frame.lines)))
  ELSE painter.previousViewportTop

renderChangedLines(changed) ==
  Painted(OldErased(NewAppended(ChangedRepainted(
            [tty |-> [tty EXCEPT !.shown = FALSE], row |-> painter.hardwareCursorRow], changed))),
          TopAfter)

\* The same lines: only the cursor may have moved.
positionHardwareCursor ==
  LET top == painter.previousViewportTop
      here == [tty |-> tty, row |-> painter.hardwareCursorRow] IN
  IF frame.cursor \in top..(top + Height - 1)
  THEN Painted(here, top)
  ELSE /\ tty' = [tty EXCEPT !.shown = FALSE]
       /\ painter' = [painter EXCEPT !.renderRequested = FALSE]

\* Mutant of NeedsFullRender: after a resize only what changed is repainted.
NeedsFullOfSize(changed) ==
  \/ ~painter.hasRendered
  \/ changed # {} /\ FirstOf(changed) < painter.previousViewportTop
  \/ ~CanRenderChanged(changed)

NeedsFullRender(changed) ==
  \/ ~painter.hasRendered
  \/ painter.previousHeight # Height
  \/ changed # {} /\ FirstOf(changed) < painter.previousViewportTop
  \/ /\ Len(frame.lines) < Len(painter.previousLines)
     /\ AtLeast(Len(frame.lines) - 1, 0) < painter.previousViewportTop
  \/ ~CanRenderChanged(changed)

SameLines == painter.hasRendered /\ painter.previousHeight = Height /\ painter.previousLines = frame.lines

\* The timer of requestRender(), or the microtask of start().
renderNow ==
  LET changed == findChangedRange(painter.previousLines, frame.lines) IN
  /\ painter.renderRequested
  /\ CASE SameLines -> positionHardwareCursor
       [] ~SameLines /\ NeedsFullRender(changed) -> fullRender
       [] OTHER -> renderChangedLines(changed)
  /\ UNCHANGED frame

-----------------------------------------------------------------------------
requestRender(p) == [p EXCEPT !.renderRequested = @ \/ ~p.stopped]

ScreenInit ==
  /\ frame \in Frames
  /\ \E h \in Heights : tty = [rows |-> [i \in 1..h |-> Unknown], at |-> 0, shown |-> TRUE]
  /\ painter = [stopped |-> TRUE, renderRequested |-> FALSE, hasRendered |-> FALSE,
                previousLines |-> <<>>, previousHeight |-> 0, previousViewportTop |-> 0,
                hardwareCursorRow |-> 0]

\* start(); a painter starts once.
StartPainter ==
  /\ painter.stopped /\ ~painter.hasRendered /\ tty.shown
  /\ painter' = [painter EXCEPT !.stopped = FALSE, !.renderRequested = TRUE]
  /\ tty' = [tty EXCEPT !.shown = FALSE]
  /\ UNCHANGED frame

\* A component changes and asks for a frame.
FrameChanges ==
  /\ frame' \in Frames
  /\ painter' = requestRender(painter)
  /\ ~painter.stopped
  /\ UNCHANGED tty

\* The terminal's resize event.
Resized ==
  /\ ~painter.stopped
  /\ \E h \in Heights \ {painter.previousHeight}, row \in Heights :
       /\ h # Height /\ row <= h
       /\ tty' = [tty EXCEPT !.rows = [i \in 1..h |-> Unknown], !.at = row - 1]
  /\ painter' = requestRender(painter)
  /\ UNCHANGED frame

\* stop(): the goodbye stays on a cleared screen.
StopPainter ==
  /\ ~painter.stopped
  /\ painter' = [painter EXCEPT !.stopped = TRUE, !.renderRequested = FALSE]
  /\ tty' = [CursorBy(Cleared(tty), 1) EXCEPT !.shown = TRUE]
  /\ UNCHANGED frame

ScreenNext == renderNow \/ StartPainter \/ FrameChanges \/ Resized \/ StopPainter

ScreenSpec == ScreenInit /\ [][ScreenNext]_screenVars

-----------------------------------------------------------------------------
(* Properties *)

\* What the terminal shows is the last frame from the first line that is still
\* addressable, and nothing else: no line is left over from an earlier frame or
\* missing, whatever grew, shrank, scrolled or changed in between.
ShowsTheFrame ==
  painter.hasRendered /\ ~painter.stopped /\ painter.previousHeight = Height =>
    \A i \in 1..Height :
      LET line == painter.previousViewportTop + i IN
      tty.rows[i] = IF line <= Len(painter.previousLines) THEN painter.previousLines[line] ELSE Blank

\* The painter knows where the terminal's cursor is, so relative moves are exact,
\* and the last line of the frame is on the screen.
KnowsTheCursor ==
  painter.hasRendered /\ ~painter.stopped /\ painter.previousHeight = Height =>
    /\ tty.at = painter.hardwareCursorRow - painter.previousViewportTop
    /\ Len(painter.previousLines) <= painter.previousViewportTop + Height
    /\ painter.previousLines # <<>> => painter.previousViewportTop < Len(painter.previousLines)

\* A change or a resize that is not on the screen yet will be: requests that were
\* coalesced with an earlier one are not lost.
RepaintIsPending ==
  ~painter.stopped /\ (painter.previousLines # frame.lines \/ painter.previousHeight # Height)
    => painter.renderRequested

ScreenIsFaithful == ScreenTypeOK /\ ShowsTheFrame /\ KnowsTheCursor /\ RepaintIsPending

=============================================================================
