----------------------------- MODULE MCTerminal -----------------------------
(***************************************************************************)
(* One instance of the terminal interface: keys that arrive, the editor    *)
(* that takes them, the area under the transcript and its dialogs, the     *)
(* transcript, and the painter of the screen.  Which of them a behaviour   *)
(* exercises is chosen at the start, the others stay where they begin, so  *)
(* that TLC's states are the sum of theirs and not the product.            *)
(***************************************************************************)
EXTENDS StdinKeys, Editor, BottomArea, TranscriptView, Screen, TLC

VARIABLE part

Parts == {"stdin", "editor", "bottom", "transcript", "screen"}
terminalVars == <<part, stdinVars, editorVars, bottomVars, transcriptVars, screenVars>>

\* A part that is not exercised begins in one of its initial states.
TerminalInit ==
  /\ part \in Parts
  /\ StdinInit
  /\ part # "stdin" => script = (CHOOSE s \in Scripts : TRUE)
  /\ EditorInit
  /\ IF part = "bottom" THEN BottomInit \/ PickerInit ELSE BottomInit
  /\ TranscriptInit
  /\ IF part = "screen" THEN ScreenInit
     ELSE /\ frame = [lines |-> <<>>, cursor |-> -1]
          /\ ScreenInit
          /\ Height = (CHOOSE h \in Heights : TRUE)

TerminalNext ==
  /\ UNCHANGED part
  /\ \/ /\ part = "stdin" /\ StdinNext
        /\ UNCHANGED <<editorVars, bottomVars, transcriptVars, screenVars>>
     \/ /\ part = "editor" /\ EditorNext
        /\ UNCHANGED <<stdinVars, bottomVars, transcriptVars, screenVars>>
     \/ /\ part = "bottom" /\ BottomNext
        /\ UNCHANGED <<stdinVars, editorVars, transcriptVars, screenVars>>
     \/ /\ part = "transcript" /\ TranscriptNext
        /\ UNCHANGED <<stdinVars, editorVars, bottomVars, screenVars>>
     \/ /\ part = "screen" /\ ScreenNext
        /\ UNCHANGED <<stdinVars, editorVars, bottomVars, transcriptVars>>

TerminalSpec == TerminalInit /\ [][TerminalNext]_terminalVars

-----------------------------------------------------------------------------
\* A character of one and of two bytes, Escape, sequences of two bytes and of
\* more with either terminator, and pastes that hold a sequence or a marker.
MCKeys ==
  {<<"x">>, <<"hi", "lo">>, <<"esc">>, <<"esc", "x">>, <<"esc", "[", "x">>,
   <<"esc", "O", "hi", "lo">>, <<"esc", "]", "x", "esc", "\\">>, <<"esc", "]", "bel">>,
   PasteStart \o PasteEnd, PasteStart \o <<"esc", "[", "x">> \o PasteEnd,
   PasteStart \o PasteStart \o <<"esc">> \o PasteEnd}
MCScripts == UNION {[1..n -> MCKeys] : n \in 1..2}

\* A word separator and the prefix of a command, a paste that is folded, and
\* two commands of which one begins the other, in an editor of two rows.
MCTyped == {<<" ">>, <<"/">>}
MCPasted == {<<"hi", "lo", " ", "\r", "\n">>}
MCSuggested == ("/" :> << <<"a", "a">>, <<"a">> >>) @@ (":" :> << <<"a">> >>)
MCSizes == {<<3, 2>>}
MCPaletteRows == <<3, 2>> :> 1

\* A shell command whose approval may be remembered, and a task of the user.
MCCommandOf == [c \in AskedCalls |-> IF c = "shell1" THEN "ls" ELSE ""]
MCNameOf == <<"run_code", "todo_write">>

-----------------------------------------------------------------------------
\* The dialogs under the transcript take turns: an approval is asked about and
\* answered once, and what holds queued runs back is on the screen unless one of
\* the ways that BottomArea records in `buried` has covered it.
DialogsAreSafe == part = "bottom" => BottomIsSafe

\* The terminal is faithful both ways.  The keys pressed and the texts pasted reach
\* the focused component whole and in order, and what is typed, folded, recalled or
\* completed is edited as shown; the transcript tells what the run did and what a
\* resume would tell, and the screen shows the frame.
TerminalIsFaithful ==
  /\ part = "stdin" => StdinIsFaithful
  /\ part = "editor" => EditorIsSafe
  /\ part = "transcript" => TranscriptIsSafe
  /\ part = "screen" => ScreenIsFaithful
=============================================================================
