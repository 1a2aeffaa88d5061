----------------------------- MODULE StdinKeys -----------------------------
(***************************************************************************)
(* From the bytes a terminal sends to the keys and pastes a component gets *)
(* (src/tui/runtime/stdin-buffer.ts and src/tui/utils/bracketed-paste.ts). *)
(* Chunks end anywhere, also inside an escape sequence, a paste marker or  *)
(* a surrogate pair; a timer gives up waiting for the rest.                *)
(*                                                                         *)
(* A character is "esc", a surrogate half, or itself; "0" and "1" stand    *)
(* for the parameters 200 and 201 of the paste markers, and "x" for any    *)
(* other character.  The terminal is external and sends a script of keys;  *)
(* the sequences that ESC [ M, ESC P and ESC _ begin are left out.         *)
(***************************************************************************)
EXTENDS Naturals, SequencesExt

CONSTANTS Scripts,         \* bound: the sequences of keys the terminal may send
          CutAfterEscapes  \* whether a chunk may end between two Escape bytes
                           \* and the rest of the sequence the second begins

PasteStart == <<"esc", "[", "0", "~">>
PasteEnd == <<"esc", "[", "1", "~">>

VARIABLES
  script,   \* the keys sent
  position, \* bytes of the script read
  stdin,    \* the fields of StdinBuffer
  pasting,  \* BracketedPasteBuffer: its buffer, or NotPasting
  inputs,   \* what the focused component was given: keys and pasted texts
  cutEarly  \* history: the timer fired although more of a key was to come

stdinVars == <<script, position, stdin, pasting, inputs, cutEarly>>

NotPasting == <<"none">>

Bytes == FlattenSeq(script)

\* The code positions at which `part` occurs in `text`, from 1.
IndicesOf(text, part) ==
  {i \in 1..(Len(text) - Len(part) + 1) : SubSeq(text, i, i + Len(part) - 1) = part}

First(indices) == CHOOSE i \in indices : \A j \in indices : i <= j

Beyond(text, n) == SubSeq(text, n + 1, Len(text))

-----------------------------------------------------------------------------
(* The length of what the buffer starts with; 0 if more must come. *)

\* Mutant of codePointLengthAt: half a surrogate pair is a character.
codeUnitLengthAt(input, i) == IF i > Len(input) THEN 0 ELSE 1

codePointLengthAt(input, i) ==
  CASE i > Len(input) -> 0
    [] i <= Len(input) /\ input[i] # "hi" -> 1
    [] i = Len(input) /\ input[i] = "hi" -> 0
    [] OTHER -> IF input[i + 1] = "lo" THEN 2 ELSE 1

\* Final bytes are 0x40 to 0x7e; digits are not.
csiSequenceLength(input) ==
  LET finals == {i \in 3..Len(input) : input[i] \in {"[", "]", "O", "x", "~"}} IN
  IF finals = {} THEN 0 ELSE First(finals)

\* An operating system command ends with BEL or with ESC \.
terminatedSequenceLength(input) ==
  LET ends == {i + 1 : i \in IndicesOf(Beyond(input, 2), <<"esc", "\\">>)}
              \cup IndicesOf(Beyond(input, 2), <<"bel">>) IN
  IF ends = {} THEN 0 ELSE First(ends) + 2

isEscapeSequenceIntroducer(input, i) == i <= Len(input) /\ input[i] \in {"[", "]", "O"}

\* Mutant of escapeSequenceLength: an Escape before another sequence is its modifier.
EscapeModifies(input) ==
  CASE Len(input) < 2 -> 0
    [] Len(input) >= 2 /\ input[2] = "[" -> csiSequenceLength(input)
    [] Len(input) >= 2 /\ input[2] = "]" -> terminatedSequenceLength(input)
    [] OTHER -> LET length == codePointLengthAt(input, IF input[2] = "O" THEN 3 ELSE 2) IN
                IF length = 0 THEN 0 ELSE length + (IF input[2] = "O" THEN 2 ELSE 1)

escapeSequenceLength(input) ==
  CASE Len(input) < 2 -> 0
    [] Len(input) >= 2 /\ input[2] = "esc" /\ isEscapeSequenceIntroducer(input, 3) -> 1
    [] Len(input) >= 2 /\ input[2] = "[" -> csiSequenceLength(input)
    [] Len(input) >= 2 /\ input[2] = "]" -> terminatedSequenceLength(input)
    [] OTHER -> LET length == codePointLengthAt(input, IF input[2] = "O" THEN 3 ELSE 2) IN
                IF length = 0 THEN 0 ELSE length + (IF input[2] = "O" THEN 2 ELSE 1)

-----------------------------------------------------------------------------
NoPaste == <<"none">>

\* Mutant of PasteEndsIn: the end marker is looked for in the last chunk only.
PasteEndsInChunk(paste, added) ==
  {i + Len(paste) - Len(added) : i \in IndicesOf(added, PasteEnd)}

PasteEndsIn(paste, added) == IndicesOf(paste, PasteEnd)

\* drain(): the buffer, the paste and the inputs it leaves, and whether it waits.
RECURSIVE drain(_)
drain(s) ==
  IF s.paste # NoPaste
  THEN LET paste == s.paste \o s.buffer  ends == PasteEndsIn(paste, s.buffer) IN
       IF ends = {} THEN [s EXCEPT !.paste = paste, !.buffer = <<>>]
       ELSE drain([s EXCEPT !.paste = NoPaste,
                       !.buffer = Beyond(paste, First(ends) + Len(PasteEnd) - 1),
                       !.out = Append(@, PasteStart \o SubSeq(paste, 1, First(ends) - 1) \o PasteEnd)])
  ELSE IF s.buffer = <<>> THEN s
  ELSE LET length == IF Head(s.buffer) = "esc" THEN escapeSequenceLength(s.buffer)
                                               ELSE codePointLengthAt(s.buffer, 1)
           sequence == SubSeq(s.buffer, 1, length)
           rest == [s EXCEPT !.buffer = Beyond(@, length)] IN
       IF length = 0 THEN [s EXCEPT !.timer = TRUE]
       ELSE IF sequence = PasteStart THEN drain([rest EXCEPT !.paste = <<>>])
       ELSE drain([rest EXCEPT !.out = Append(@, sequence)])

\* BracketedPasteBuffer.consume() with Editor.handleInput: a key, or a pasted
\* text, and what the buffer keeps.
Consumed(state, data) ==
  LET starts == IndicesOf(data, PasteStart)
      opened == IF starts = {} THEN state.buffer ELSE <<>>
      added == IF starts = {} THEN data
               ELSE SubSeq(data, 1, First(starts) - 1) \o Beyond(data, First(starts) + Len(PasteStart) - 1)
      text == opened \o added
      ends == IndicesOf(text, PasteEnd) IN
  IF starts = {} /\ state.buffer = NotPasting
  THEN [state EXCEPT !.inputs = Append(@, [kind |-> "key", text |-> data])]
  ELSE IF ends = {} THEN [state EXCEPT !.buffer = text]
  ELSE LET remaining == Beyond(text, First(ends) + Len(PasteEnd) - 1)
           given == [state EXCEPT !.buffer = NotPasting,
                       !.inputs = Append(@, [kind |-> "paste", text |-> SubSeq(text, 1, First(ends) - 1)])] IN
       IF remaining = <<>> THEN given
       ELSE [given EXCEPT !.inputs = Append(@, [kind |-> "key", text |-> remaining])]

\* The component gets what the buffer puts out, in order.
Deliver(out) ==
  LET after == FoldLeft(Consumed, [buffer |-> pasting, inputs |-> inputs], out) IN
  pasting' = after.buffer /\ inputs' = after.inputs

-----------------------------------------------------------------------------
StdinInit ==
  /\ script \in Scripts
  /\ position = 0
  /\ stdin = [buffer |-> <<>>, paste |-> NoPaste, timer |-> FALSE]
  /\ pasting = NotPasting
  /\ inputs = <<>>
  /\ cutEarly = FALSE

KeyEnd(n) == Len(FlattenSeq(SubSeq(script, 1, n)))

\* A key follows an Escape key when the timer has fired, unless it is an escape
\* sequence, as terminals send at once; and those are not cut after their first
\* byte then, which would make an ESC ESC of it.
MayRead(n) ==
  \A k \in 1..(Len(script) - 1) :
    script[k] = <<"esc">> /\ KeyEnd(k) \in position..(position + n - 1) =>
      \/ /\ isEscapeSequenceIntroducer(script[k + 1], 2)
         /\ position + n = KeyEnd(k) + 1 => CutAfterEscapes
      \/ position = KeyEnd(k) /\ ~stdin.timer

\* process(): a chunk arrives; the timer is cleared.
ProcessChunk ==
  /\ \E n \in 1..(Len(Bytes) - position) :
       /\ MayRead(n)
       /\ position' = position + n
       /\ LET after == drain([stdin EXCEPT !.timer = FALSE,
                                 !.buffer = @ \o SubSeq(Bytes, position + 1, position + n)]
                               @@ [out |-> <<>>]) IN
          /\ stdin' = [f \in DOMAIN stdin |-> after[f]]
          /\ Deliver(after.out)
  /\ UNCHANGED <<script, cutEarly>>

\* The timer of scheduleTimeout(): what is there is a key.
TimeoutElapses ==
  /\ stdin.timer
  /\ stdin' = [stdin EXCEPT !.buffer = <<>>, !.timer = FALSE]
  /\ IF stdin.buffer = <<>> THEN UNCHANGED <<pasting, inputs>> ELSE Deliver(<<stdin.buffer>>)
  /\ cutEarly' = (cutEarly \/ position \notin {KeyEnd(n) : n \in 0..Len(script)})
  /\ UNCHANGED <<script, position>>

StdinNext == ProcessChunk \/ TimeoutElapses

StdinSpec == StdinInit /\ [][StdinNext]_stdinVars

-----------------------------------------------------------------------------
(* Properties *)

AsInput(key) ==
  IF Len(key) >= 8 /\ SubSeq(key, 1, 4) = PasteStart
  THEN [kind |-> "paste", text |-> SubSeq(key, 5, Len(key) - 4)]
  ELSE [kind |-> "key", text |-> key]

AsBytes(input) ==
  IF input.kind = "paste" THEN PasteStart \o input.text \o PasteEnd ELSE input.text

\* However the bytes are cut into chunks, a component gets the keys that were
\* pressed and the texts that were pasted, in order; the timer decides only about
\* a lone Escape, unless it fires within a key.
KeysAsPressed ==
  ~cutEarly => /\ Len(inputs) <= Len(script)
           /\ \A i \in DOMAIN inputs : inputs[i] = AsInput(script[i])
           /\ position = Len(Bytes) /\ ~stdin.timer => Len(inputs) = Len(script)

\* Nothing that was read is lost or repeated, also when a key was given up.
BytesAreKept ==
  LET open == IF stdin.paste = NoPaste THEN <<>> ELSE PasteStart \o stdin.paste IN
  FlattenSeq([i \in DOMAIN inputs |-> AsBytes(inputs[i])]) \o open \o stdin.buffer
    = SubSeq(Bytes, 1, position)

\* A component is never left in a paste it has begun, and what is pasted is one
\* input: none of it is typed.
PastesAreWhole ==
  /\ pasting = NotPasting
  /\ stdin.buffer # <<>> => stdin.timer
  /\ \A i \in DOMAIN inputs : inputs[i].kind = "paste" => IndicesOf(inputs[i].text, PasteEnd) = {}

StdinIsFaithful == KeysAsPressed /\ BytesAreKept /\ PastesAreWhole
=============================================================================
