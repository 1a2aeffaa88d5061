------------------------- MODULE ToolRuntimeProofs -------------------------
(***************************************************************************)
(* Proofs about a turn's tool calls and what they run: a command in its    *)
(* process group, whose result says what became of it, the calls that a    *)
(* run_code script nests in one call, and, from PoolStates on, the pool    *)
(* that runs the calls of one message, which implements ToolTurn.          *)
(***************************************************************************)
EXTENDS ToolPool, CommandProcess, NestedCalls, SequenceTheorems, FiniteSetTheorems, TLAPS

Chunks == [Streams -> 0..MaxChunks]

CommandShape ==
  /\ group \in [members : SUBSET {"shell", "child"}, code : {NoCode, "0", "1"},
                escaped : BOOLEAN, forks : Nat]
  /\ command \in [phase : {"resolving", "waiting", "polling", "stopping", "draining", "closing", "done"},
                  tool : {"shell", "job"}, deadline : BOOLEAN, aborted : BOOLEAN,
                  reason : {"none", "timeout", "abort", "failure"},
                  stop : {"none", "term", "kill", "quiet", "lingers"},
                  code : {NoCode, "0", "1"}, known : BOOLEAN, quiescent : BOOLEAN, cut : BOOLEAN]
  /\ written \in Chunks
  /\ pipe \in [Streams -> [state : {"reading", "ended", "failed"}, passed : 0..MaxChunks]]
  /\ partial \in [latest : {NoPartial} \cup {<<o>> : o \in Chunks}, timer : BOOLEAN, emitted : Chunks]

\* No shell was started: before the spawn, or it failed.
NothingStarted ==
  /\ ~PipesAreOpen /\ group.code = NoCode
  /\ written = Nothing /\ Output = Nothing
  /\ \A s \in Streams : pipe[s].state = "reading"
  /\ partial = [latest |-> NoPartial, timer |-> FALSE, emitted |-> Nothing]

\* The command stops for the reason it noted, and says it is quiet of an empty
\* group only, which stays empty.
StopHasReason ==
  /\ (command.reason = "none") = (command.stop = "none")
  /\ command.reason = "abort" => command.aborted
  /\ command.reason = "timeout" => ~command.deadline
  /\ command.reason = "failure" => Failed \/ ~command.known
  /\ command.phase = "resolving" => command.reason = "none" /\ command.code = NoCode
  /\ command.stop = "quiet" => ~isProcessGroupRunning

ExitIsKnown ==
  command.phase \notin {"resolving", "waiting"} /\ command.known
    => "shell" \notin group.members /\ command.code = group.code

DrainIsQuiet ==
  command.phase \in {"draining", "closing", "done"} /\ command.quiescent => ~isProcessGroupRunning

\* A pipe that was not cut off has been read to its end.
EndsAreEnds ==
  /\ ~command.cut => \A s \in Streams :
       pipe[s].state = "ended" => ~PipesAreOpen /\ pipe[s].passed = written[s]
  /\ command.phase = "closing" /\ ~command.cut => ReadersAreDone

\* What a shell call showed last, or is about to show, is what was read.
ShownIsRead ==
  command.tool = "shell" => IF partial.latest = NoPartial THEN partial.emitted = Output
                            ELSE partial.latest = <<Output>>

DoneIsReported ==
  CommandIsDone =>
    /\ ~partial.timer /\ partial.latest = NoPartial
    /\ \/ /\ NothingStarted
          /\ outcome.says \in {"aborted", "error"}
          /\ outcome.says = "aborted" => command.aborted
       \/ ReadersAreDone /\ outcome = Reported(command)

CommandInv ==
  /\ CommandShape
  /\ command.phase = "resolving" => NothingStarted
  /\ StopHasReason /\ ExitIsKnown /\ DrainIsQuiet /\ EndsAreEnds /\ ShownIsRead /\ DoneIsReported

-----------------------------------------------------------------------------
(* What is shown of the output *)

PartialType == [latest : {NoPartial} \cup {<<o>> : o \in Chunks}, timer : BOOLEAN, emitted : Chunks]

Shows(p, output) == IF p.latest = NoPartial THEN p.emitted = output ELSE p.latest = <<output>>

\* A waiting update is not an empty one.
LEMMA LatestIsPartial == \A o : <<o>> # NoPartial /\ <<o>>[1] = o
<1>1. ASSUME NEW o PROVE <<o>> # NoPartial /\ <<o>>[1] = o
  <2>1. Len(<<o>>) = 1 /\ Len(NoPartial) = 0
    BY DEF NoPartial
  <2>. QED BY <2>1
<1>. QED BY <1>1

\* Emitting shows the same, and leaves nothing to be shown.
LEMMA EmitShows ==
  ASSUME NEW p \in PartialType
  PROVE  /\ Emit(p) \in PartialType /\ Emit(p).latest = NoPartial
         /\ Emit(p).timer = p.timer
         /\ \A o \in Chunks : Shows(p, o) => Shows(Emit(p), o)
<1>1. CASE p.latest = NoPartial
  BY <1>1 DEF Emit
<1>2. CASE p.latest # NoPartial
  <2>1. PICK o \in Chunks : p.latest = <<o>>
    BY <1>2 DEF PartialType
  <2>2. p.latest[1] = o
    BY <2>1, LatestIsPartial
  <2>3. Emit(p) = [p EXCEPT !.latest = NoPartial, !.emitted = o]
    BY <1>2, <2>2 DEF Emit
  <2>4. ASSUME NEW q \in Chunks, Shows(p, q) PROVE q = o
    BY <1>2, <2>1, <2>4 DEF Shows
  <2>. QED BY <2>3, <2>4 DEF PartialType, Shows
<1>. QED BY <1>1, <1>2

LEMMA FlushShows ==
  ASSUME NEW p \in PartialType
  PROVE  /\ flush(p) \in PartialType /\ flush(p).latest = NoPartial /\ ~flush(p).timer
         /\ \A o \in Chunks : Shows(p, o) => Shows(flush(p), o)
<1>. DEFINE q == [p EXCEPT !.timer = FALSE]
<1>1. q \in PartialType /\ ~q.timer /\ \A o \in Chunks : Shows(p, o) => Shows(q, o)
  BY DEF PartialType, Shows
<1>2. flush(p) = Emit(q)
  BY DEF flush
<1>. HIDE DEF q
<1>. QED BY <1>1, <1>2, EmitShows

\* A chunk that was read is shown, at once or by the timer.
LEMMA PartialShows ==
  ASSUME NEW p \in PartialType, NEW o \in Chunks, NEW elapsed \in BOOLEAN
  PROVE  /\ PartialOf(p, o, elapsed) \in PartialType
         /\ command.tool = "shell" => Shows(PartialOf(p, o, elapsed), o)
<1>. DEFINE newest == [p EXCEPT !.latest = <<o>>]
            ended == [newest EXCEPT !.timer = FALSE]
            later == [newest EXCEPT !.timer = TRUE]
<1>1. newest \in PartialType /\ newest.latest = <<o>>
  BY DEF PartialType
<1>2. /\ ended \in PartialType /\ ended.latest = <<o>>
      /\ later \in PartialType /\ later.latest = <<o>>
  BY <1>1 DEF PartialType
<1>3. Shows(ended, o) /\ Shows(later, o)
  BY <1>2, LatestIsPartial DEF Shows
<1>4. /\ Emit(ended) \in PartialType
      /\ Shows(Emit(ended), o)
  BY <1>2, <1>3, EmitShows
<1>5. PartialOf(p, o, elapsed) = IF command.tool = "job" THEN p
                                 ELSE IF elapsed THEN Emit(ended) ELSE later
  BY DEF PartialOf
<1>. HIDE DEF newest, ended, later
<1>. QED BY <1>2, <1>3, <1>4, <1>5

-----------------------------------------------------------------------------
(* The invariant of a command *)

LEMMA CommandInitInv == CommandInit => CommandInv
<1>. SUFFICES ASSUME CommandInit PROVE CommandInv
  OBVIOUS
<1>1. PICK kind \in {"shell", "job"}, timed \in BOOLEAN :
        command = [phase |-> "resolving", tool |-> kind, deadline |-> timed, aborted |-> FALSE,
                   reason |-> "none", stop |-> "none", code |-> NoCode, known |-> TRUE,
                   quiescent |-> TRUE, cut |-> FALSE]
  BY DEF CommandInit
<1>2. Nothing \in Chunks /\ Output = Nothing
  BY CommandAssumption DEF CommandInit, Nothing, Chunks, Output
<1>3. CommandShape
  BY <1>2, CommandAssumption DEF CommandInit, CommandShape
<1>4. NothingStarted
  BY <1>2 DEF CommandInit, NothingStarted, PipesAreOpen
<1>. QED
  BY <1>3, <1>4 DEF CommandInit, CommandInv, NothingStarted, StopHasReason, ExitIsKnown, DrainIsQuiet,
     EndsAreEnds, ShownIsRead, DoneIsReported, CommandIsDone

LEMMA CommandStep == CommandInv /\ [CommandNext]_commandVars => CommandInv'
<1>. SUFFICES ASSUME CommandInv, [CommandNext]_commandVars PROVE CommandInv'
  OBVIOUS
<1>. USE CommandAssumption DEF CommandInv
<1>1. ASSUME NEW s \in Streams, Writes(s) PROVE CommandInv'
  <2>1. CommandShape'
    BY <1>1 DEF Writes, CommandShape, Chunks
  <2>2. (command.phase = "resolving" => NothingStarted)' /\ StopHasReason'
    BY <1>1 DEF Writes, NothingStarted, StopHasReason, Failed, isProcessGroupRunning
  <2>3. ExitIsKnown' /\ DrainIsQuiet'
    BY <1>1 DEF Writes, ExitIsKnown, DrainIsQuiet, isProcessGroupRunning
  <2>4. EndsAreEnds'
    BY <1>1 DEF Writes, EndsAreEnds, ReadersAreDone
  <2>5. ShownIsRead'
    BY <1>1 DEF Writes, CommandShape, ShownIsRead, Output
  <2>6. DoneIsReported'
    BY <1>1 DEF Writes, DoneIsReported, CommandIsDone, ReadersAreDone, Failed, NothingStarted, Reported
  <2>. QED BY <2>1, <2>2, <2>3, <2>4, <2>5, <2>6
<1>2. CASE Forks
  <2>1. CommandShape'
    <3>1. group' = [group EXCEPT !.members = @ \cup {"child"}, !.forks = @ - 1]
            \/ group' = [group EXCEPT !.escaped = TRUE, !.forks = @ - 1]
      BY <1>2 DEF Forks
    <3>2. group.forks - 1 \in Nat /\ group.members \cup {"child"} \in SUBSET {"shell", "child"}
      BY <1>2 DEF Forks, CommandShape
    <3>3. group' \in [members : SUBSET {"shell", "child"}, code : {NoCode, "0", "1"},
                      escaped : BOOLEAN, forks : Nat]
      BY <3>1, <3>2 DEF CommandShape
    <3>. QED BY <1>2, <3>3 DEF Forks, CommandShape
  <2>2. (command.phase = "resolving" => NothingStarted)' /\ StopHasReason'
    BY <1>2 DEF Forks, NothingStarted, StopHasReason, Failed, PipesAreOpen, isProcessGroupRunning
  <2>3. ExitIsKnown' /\ DrainIsQuiet'
    BY <1>2 DEF Forks, ExitIsKnown, DrainIsQuiet, isProcessGroupRunning
  <2>4. EndsAreEnds'
    BY <1>2 DEF Forks, EndsAreEnds, ReadersAreDone, PipesAreOpen
  <2>5. ShownIsRead'
    BY <1>2 DEF Forks, CommandShape, ShownIsRead, Output
  <2>6. DoneIsReported'
    BY <1>2 DEF Forks, DoneIsReported, CommandIsDone, ReadersAreDone, Failed, NothingStarted, PipesAreOpen,
       Reported
  <2>. QED BY <2>1, <2>2, <2>3, <2>4, <2>5, <2>6
<1>3. CASE Exits
  <2>1. CommandShape'
    <3>1. \/ \E code \in {"0", "1"} :
              group' = [group EXCEPT !.members = @ \ {"shell"}, !.code = code]
          \/ group' = [group EXCEPT !.members = @ \ {"child"}]
          \/ group' = [group EXCEPT !.escaped = FALSE]
      BY <1>3 DEF Exits
    <3>2. /\ group.members \ {"shell"} \in SUBSET {"shell", "child"}
          /\ group.members \ {"child"} \in SUBSET {"shell", "child"}
      BY DEF CommandShape
    <3>3. group' \in [members : SUBSET {"shell", "child"}, code : {NoCode, "0", "1"},
                      escaped : BOOLEAN, forks : Nat]
      BY <3>1, <3>2 DEF CommandShape
    <3>. QED BY <1>3, <3>3 DEF Exits, CommandShape
  <2>2. (command.phase = "resolving" => NothingStarted)' /\ StopHasReason'
    BY <1>3 DEF Exits, CommandShape, NothingStarted, StopHasReason, Failed, PipesAreOpen,
       isProcessGroupRunning
  <2>3. ExitIsKnown' /\ DrainIsQuiet'
    BY <1>3 DEF Exits, CommandShape, ExitIsKnown, DrainIsQuiet, isProcessGroupRunning
  <2>4. EndsAreEnds'
    BY <1>3 DEF Exits, EndsAreEnds, ReadersAreDone, PipesAreOpen
  <2>5. ShownIsRead'
    BY <1>3 DEF Exits, CommandShape, ShownIsRead, Output
  <2>6. DoneIsReported'
    BY <1>3 DEF Exits, DoneIsReported, CommandIsDone, ReadersAreDone, Failed, NothingStarted, PipesAreOpen,
       Reported
  <2>. QED BY <2>1, <2>2, <2>3, <2>4, <2>5, <2>6
<1>4. CASE ShellKilled
  <2>1. CommandShape'
    BY <1>4 DEF ShellKilled, CommandShape, Chunks
  <2>2. (command.phase = "resolving" => NothingStarted)' /\ StopHasReason'
    BY <1>4 DEF ShellKilled, StopHasReason, Failed, isProcessGroupRunning
  <2>3. ExitIsKnown' /\ DrainIsQuiet'
    BY <1>4 DEF ShellKilled, ExitIsKnown, DrainIsQuiet, isProcessGroupRunning
  <2>4. EndsAreEnds'
    BY <1>4 DEF ShellKilled, EndsAreEnds, ReadersAreDone, PipesAreOpen
  <2>5. ShownIsRead'
    BY <1>4 DEF ShellKilled, CommandShape, ShownIsRead, Output
  <2>6. DoneIsReported'
    BY <1>4 DEF ShellKilled, DoneIsReported, CommandIsDone, ReadersAreDone, Failed, NothingStarted,
       PipesAreOpen, Reported
  <2>. QED BY <2>1, <2>2, <2>3, <2>4, <2>5, <2>6
<1>5. CASE SignalAborts
  <2>1. CommandShape'
    BY <1>5 DEF SignalAborts, requestStop, CommandShape
  <2>2. (command.phase = "resolving" => NothingStarted)' /\ StopHasReason'
    BY <1>5 DEF SignalAborts, requestStop, IsListening, NothingStarted, StopHasReason, Output, Failed,
       PipesAreOpen, isProcessGroupRunning
  <2>3. ExitIsKnown' /\ DrainIsQuiet'
    BY <1>5 DEF SignalAborts, requestStop, ExitIsKnown, DrainIsQuiet, isProcessGroupRunning
  <2>4. EndsAreEnds'
    BY <1>5 DEF SignalAborts, requestStop, EndsAreEnds, ReadersAreDone, PipesAreOpen
  <2>5. ShownIsRead'
    BY <1>5 DEF SignalAborts, requestStop, ShownIsRead, Output
  <2>6. DoneIsReported'
    BY <1>5 DEF SignalAborts, requestStop, DoneIsReported, CommandIsDone
  <2>. QED BY <2>1, <2>2, <2>3, <2>4, <2>5, <2>6
<1>6. ASSUME NEW s \in Streams, ReadFails(s) PROVE CommandInv'
  <2>1. CommandShape'
    BY <1>6 DEF ReadFails, requestStop, CommandShape
  <2>2. (command.phase = "resolving" => NothingStarted)' /\ StopHasReason'
    BY <1>6 DEF ReadFails, requestStop, IsReading, CommandShape, StopHasReason, Failed, isProcessGroupRunning
  <2>3. ExitIsKnown' /\ DrainIsQuiet'
    BY <1>6 DEF ReadFails, requestStop, ExitIsKnown, DrainIsQuiet, isProcessGroupRunning
  <2>4. EndsAreEnds'
    BY <1>6 DEF ReadFails, requestStop, EndsAreEnds, PipesAreOpen
  <2>5. ShownIsRead'
    BY <1>6 DEF ReadFails, requestStop, ShownIsRead, Output
  <2>6. DoneIsReported'
    BY <1>6 DEF ReadFails, requestStop, IsReading, DoneIsReported, CommandIsDone
  <2>. QED BY <2>1, <2>2, <2>3, <2>4, <2>5, <2>6
<1>7. CASE Spawns
  <2>1. CommandShape'
    BY <1>7 DEF Spawns, CommandShape, Chunks
  <2>2. (command.phase = "resolving" => NothingStarted)' /\ StopHasReason'
    BY <1>7 DEF Spawns, StopHasReason
  <2>3. ExitIsKnown' /\ DrainIsQuiet'
    BY <1>7 DEF Spawns, ExitIsKnown, DrainIsQuiet
  <2>4. EndsAreEnds'
    BY <1>7 DEF Spawns, EndsAreEnds, NothingStarted
  <2>5. ShownIsRead'
    BY <1>7 DEF Spawns, CommandShape, ShownIsRead, Output
  <2>6. DoneIsReported'
    BY <1>7 DEF Spawns, DoneIsReported, CommandIsDone
  <2>. QED BY <2>1, <2>2, <2>3, <2>4, <2>5, <2>6
<1>8. CASE StartFails
  <2>1. CommandShape'
    BY <1>8 DEF StartFails, CommandShape, Chunks
  <2>2. (command.phase = "resolving" => NothingStarted)' /\ StopHasReason'
    BY <1>8 DEF StartFails, StopHasReason
  <2>3. ExitIsKnown' /\ DrainIsQuiet'
    BY <1>8 DEF StartFails, ExitIsKnown, DrainIsQuiet, StopHasReason, NothingStarted, PipesAreOpen,
       isProcessGroupRunning
  <2>4. EndsAreEnds'
    BY <1>8 DEF StartFails, EndsAreEnds, PipesAreOpen
  <2>5. ShownIsRead'
    BY <1>8 DEF StartFails, CommandShape, ShownIsRead, Output
  <2>6. DoneIsReported'
    <3>1. NothingStarted'
      BY <1>8 DEF StartFails, NothingStarted, PipesAreOpen, Output
    <3>2. outcome'.says \in {"aborted", "error"} /\ (outcome'.says = "aborted" => command.aborted)
      BY <1>8 DEF StartFails
    <3>3. command'.aborted = command.aborted
      BY <1>8 DEF StartFails, CommandShape
    <3>. QED BY <3>1, <3>2, <3>3 DEF DoneIsReported, NothingStarted
  <2>. QED BY <2>1, <2>2, <2>3, <2>4, <2>5, <2>6
<1>9. CASE ShellExited
  <2>1. CommandShape'
    BY <1>9, ZenonT(30) DEF ShellExited, requestStop, CommandShape
  <2>2. (command.phase = "resolving" => NothingStarted)' /\ StopHasReason'
    BY <1>9, ZenonT(30) DEF ShellExited, requestStop, CommandShape, NothingStarted, StopHasReason, Output,
       Failed, PipesAreOpen, isProcessGroupRunning
  <2>3. ExitIsKnown' /\ DrainIsQuiet'
    BY <1>9, ZenonT(30) DEF ShellExited, requestStop, CommandShape, ExitIsKnown, DrainIsQuiet
  <2>4. EndsAreEnds'
    BY <1>9, ZenonT(30) DEF ShellExited, requestStop, CommandShape, EndsAreEnds, PipesAreOpen
  <2>5. ShownIsRead'
    <3>1. command'.tool = command.tool /\ UNCHANGED <<partial, pipe>>
      BY <1>9 DEF ShellExited, requestStop, CommandShape
    <3>. QED BY <3>1 DEF ShownIsRead, Output
  <2>6. DoneIsReported'
    BY <1>9 DEF ShellExited, requestStop, CommandShape, DoneIsReported, CommandIsDone
  <2>. QED BY <2>1, <2>2, <2>3, <2>4, <2>5, <2>6
<1>10. CASE GroupPolled
  <2>1. CommandShape'
    BY <1>10 DEF GroupPolled, CommandShape, Chunks
  <2>2. (command.phase = "resolving" => NothingStarted)' /\ StopHasReason'
    BY <1>10 DEF GroupPolled, StopHasReason
  <2>3. ExitIsKnown' /\ DrainIsQuiet'
    BY <1>10 DEF GroupPolled, ExitIsKnown, DrainIsQuiet, isProcessGroupRunning
  <2>4. EndsAreEnds'
    BY <1>10 DEF GroupPolled, EndsAreEnds, PipesAreOpen
  <2>5. ShownIsRead'
    BY <1>10 DEF GroupPolled, CommandShape, ShownIsRead, Output
  <2>6. DoneIsReported'
    BY <1>10 DEF GroupPolled, DoneIsReported, CommandIsDone
  <2>. QED BY <2>1, <2>2, <2>3, <2>4, <2>5, <2>6
<1>11. CASE StopAwaited
  <2>1. CommandShape'
    BY <1>11 DEF StopAwaited, CommandShape, Chunks
  <2>2. (command.phase = "resolving" => NothingStarted)' /\ StopHasReason'
    BY <1>11 DEF StopAwaited, StopHasReason, Failed, isProcessGroupRunning
  <2>3. ExitIsKnown' /\ DrainIsQuiet'
    BY <1>11 DEF StopAwaited, ExitIsKnown, DrainIsQuiet
  <2>4. EndsAreEnds'
    BY <1>11 DEF StopAwaited, EndsAreEnds, PipesAreOpen
  <2>5. ShownIsRead'
    BY <1>11 DEF StopAwaited, CommandShape, ShownIsRead, Output
  <2>6. DoneIsReported'
    BY <1>11 DEF StopAwaited, DoneIsReported, CommandIsDone
  <2>. QED BY <2>1, <2>2, <2>3, <2>4, <2>5, <2>6
<1>12. CASE GroupStopped
  <2>1. CommandShape'
    BY <1>12 DEF GroupStopped, CommandShape, Chunks
  <2>2. (command.phase = "resolving" => NothingStarted)' /\ StopHasReason'
    BY <1>12 DEF GroupStopped, StopHasReason, Failed, isProcessGroupRunning
  <2>3. ExitIsKnown' /\ DrainIsQuiet'
    BY <1>12 DEF GroupStopped, CommandShape, ExitIsKnown, DrainIsQuiet, StopHasReason, isProcessGroupRunning
  <2>4. EndsAreEnds'
    BY <1>12 DEF GroupStopped, EndsAreEnds, PipesAreOpen
  <2>5. ShownIsRead'
    BY <1>12 DEF GroupStopped, CommandShape, ShownIsRead, Output
  <2>6. DoneIsReported'
    BY <1>12 DEF GroupStopped, DoneIsReported, CommandIsDone
  <2>. QED BY <2>1, <2>2, <2>3, <2>4, <2>5, <2>6
<1>13. CASE GroupIsGone
  <2>1. CommandShape'
    BY <1>13 DEF GroupIsGone, CommandShape, Chunks
  <2>2. (command.phase = "resolving" => NothingStarted)' /\ StopHasReason'
    BY <1>13 DEF GroupIsGone, StopHasReason, Failed, isProcessGroupRunning
  <2>3. ExitIsKnown' /\ DrainIsQuiet'
    BY <1>13 DEF GroupIsGone, ExitIsKnown, DrainIsQuiet, isProcessGroupRunning
  <2>4. EndsAreEnds'
    BY <1>13 DEF GroupIsGone, EndsAreEnds, ReadersAreDone, PipesAreOpen
  <2>5. ShownIsRead'
    BY <1>13 DEF GroupIsGone, CommandShape, ShownIsRead, Output
  <2>6. DoneIsReported'
    BY <1>13, ZenonT(30) DEF GroupIsGone, CommandShape, DoneIsReported, CommandIsDone, ReadersAreDone,
       Failed, NothingStarted, PipesAreOpen, Output, Reported, ResultOf
  <2>. QED BY <2>1, <2>2, <2>3, <2>4, <2>5, <2>6
<1>14. CASE GracePasses
  <2>1. CommandShape'
    BY <1>14 DEF GracePasses, CommandShape, Chunks
  <2>2. (command.phase = "resolving" => NothingStarted)' /\ StopHasReason'
    BY <1>14 DEF GracePasses, StopHasReason, Failed
  <2>3. ExitIsKnown' /\ DrainIsQuiet'
    BY <1>14 DEF GracePasses, ExitIsKnown, DrainIsQuiet
  <2>4. EndsAreEnds'
    BY <1>14 DEF GracePasses, EndsAreEnds, ReadersAreDone, PipesAreOpen
  <2>5. ShownIsRead'
    BY <1>14 DEF GracePasses, CommandShape, ShownIsRead, Output
  <2>6. DoneIsReported'
    BY <1>14, ZenonT(30) DEF GracePasses, CommandShape, DoneIsReported, CommandIsDone, ReadersAreDone,
       Failed, NothingStarted, PipesAreOpen, Output, Reported, ResultOf
  <2>. QED BY <2>1, <2>2, <2>3, <2>4, <2>5, <2>6
<1>15. CASE DeadlinePasses
  <2>1. CommandShape'
    BY <1>15 DEF DeadlinePasses, requestStop, CommandShape
  <2>2. (command.phase = "resolving" => NothingStarted)' /\ StopHasReason'
    BY <1>15 DEF DeadlinePasses, requestStop, IsListening, StopHasReason, Failed, isProcessGroupRunning
  <2>3. ExitIsKnown' /\ DrainIsQuiet'
    BY <1>15 DEF DeadlinePasses, requestStop, IsListening, ExitIsKnown, DrainIsQuiet
  <2>4. EndsAreEnds'
    BY <1>15 DEF DeadlinePasses, requestStop, IsListening, EndsAreEnds, PipesAreOpen
  <2>5. ShownIsRead'
    BY <1>15 DEF DeadlinePasses, requestStop, ShownIsRead, Output
  <2>6. DoneIsReported'
    BY <1>15 DEF DeadlinePasses, requestStop, IsListening, DoneIsReported, CommandIsDone
  <2>. QED BY <2>1, <2>2, <2>3, <2>4, <2>5, <2>6
<1>16. CASE OutputDrained
  <2>1. CommandShape'
    BY <1>16 DEF OutputDrained, CommandShape, Chunks
  <2>2. (command.phase = "resolving" => NothingStarted)' /\ StopHasReason'
    BY <1>16 DEF OutputDrained, StopHasReason, Failed, isProcessGroupRunning
  <2>3. ExitIsKnown' /\ DrainIsQuiet'
    BY <1>16 DEF OutputDrained, ExitIsKnown, DrainIsQuiet, isProcessGroupRunning
  <2>4. EndsAreEnds'
    BY <1>16 DEF OutputDrained, EndsAreEnds, ReadersAreDone, PipesAreOpen
  <2>5. ShownIsRead'
    BY <1>16 DEF OutputDrained, CommandShape, ShownIsRead, Output
  <2>6. DoneIsReported'
    BY <1>16 DEF OutputDrained, DoneIsReported, CommandIsDone
  <2>. QED BY <2>1, <2>2, <2>3, <2>4, <2>5, <2>6
<1>17. CASE DrainPasses
  <2>1. CommandShape'
    BY <1>17 DEF DrainPasses, CommandShape, Chunks
  <2>2. (command.phase = "resolving" => NothingStarted)' /\ StopHasReason'
    BY <1>17 DEF DrainPasses, StopHasReason, Failed, isProcessGroupRunning
  <2>3. ExitIsKnown' /\ DrainIsQuiet'
    BY <1>17 DEF DrainPasses, ExitIsKnown, DrainIsQuiet, isProcessGroupRunning
  <2>4. EndsAreEnds'
    BY <1>17 DEF DrainPasses, EndsAreEnds
  <2>5. ShownIsRead'
    BY <1>17 DEF DrainPasses, CommandShape, ShownIsRead, Output
  <2>6. DoneIsReported'
    BY <1>17 DEF DrainPasses, DoneIsReported, CommandIsDone
  <2>. QED BY <2>1, <2>2, <2>3, <2>4, <2>5, <2>6
<1>18. CASE Returns
  <2>1. CommandShape'
    <3>1. partial \in PartialType
      BY DEF CommandShape, PartialType
    <3>2. partial' \in PartialType
      BY <1>18, <3>1, FlushShows DEF Returns
    <3>. QED BY <1>18, <3>2 DEF Returns, CommandShape, PartialType
  <2>2. (command.phase = "resolving" => NothingStarted)' /\ StopHasReason'
    BY <1>18 DEF Returns, StopHasReason, Failed, isProcessGroupRunning
  <2>3. ExitIsKnown' /\ DrainIsQuiet'
    BY <1>18 DEF Returns, ExitIsKnown, DrainIsQuiet, isProcessGroupRunning
  <2>4. EndsAreEnds'
    BY <1>18 DEF Returns, EndsAreEnds, PipesAreOpen
  <2>5. ShownIsRead'
    <3>1. partial \in PartialType /\ Output \in Chunks
      BY DEF CommandShape, PartialType, Output, Chunks
    <3>2. Shows(partial, Output) => Shows(partial', Output)
      BY <1>18, <3>1, FlushShows DEF Returns
    <3>3. Output' = Output /\ command'.tool = command.tool
      BY <1>18 DEF Returns, Output, CommandShape
    <3>. QED BY <3>2, <3>3 DEF ShownIsRead, Shows
  <2>6. DoneIsReported'
    <3>1. partial \in PartialType
      BY DEF CommandShape, PartialType
    <3>2. ~partial'.timer /\ partial'.latest = NoPartial
      BY <1>18, <3>1, FlushShows DEF Returns
    <3>3. ReadersAreDone' /\ outcome' = Reported(command)
      BY <1>18 DEF Returns, ReadersAreDone
    <3>4. Reported(command)' = Reported(command)
      <4>1. /\ command'.reason = command.reason /\ command'.code = command.code
            /\ command'.known = command.known /\ command'.quiescent = command.quiescent
            /\ command'.tool = command.tool
        BY <1>18 DEF Returns, CommandShape
      <4>2. Failed' = Failed
        BY <1>18 DEF Returns, Failed
      <4>. QED BY <4>1, <4>2 DEF Reported, ResultOf
    <3>. QED BY <3>2, <3>3, <3>4 DEF DoneIsReported
  <2>. QED BY <2>1, <2>2, <2>3, <2>4, <2>5, <2>6
<1>19. ASSUME NEW s \in Streams, Reads(s) PROVE CommandInv'
  <2>b. /\ Output' \in Chunks /\ partial' \in PartialType
        /\ command.tool = "shell" => Shows(partial', Output')
        /\ pipe' \in [Streams -> [state : {"reading", "ended", "failed"}, passed : 0..MaxChunks]]
    <3>1. pipe' \in [Streams -> [state : {"reading", "ended", "failed"}, passed : 0..MaxChunks]]
      BY <1>19 DEF Reads, CommandShape, Chunks
    <3>2. Output' \in Chunks
      BY <3>1 DEF Output, Chunks
    <3>3. partial \in PartialType
      BY DEF CommandShape, PartialType
    <3>4. PICK elapsed \in BOOLEAN : partial' = PartialOf(partial, Output', elapsed)
      BY <1>19 DEF Reads
    <3>. QED BY <3>1, <3>2, <3>3, <3>4, PartialShows
  <2>a. UNCHANGED <<group, written, command>>
    BY <1>19 DEF Reads
  <2>1. CommandShape'
    BY <2>b, <2>a DEF CommandShape, PartialType
  <2>2. (command.phase = "resolving" => NothingStarted)' /\ StopHasReason'
    BY <1>19 DEF Reads, IsReading, StopHasReason, Failed, isProcessGroupRunning
  <2>3. ExitIsKnown' /\ DrainIsQuiet'
    BY <1>19 DEF Reads, ExitIsKnown, DrainIsQuiet, isProcessGroupRunning
  <2>4. EndsAreEnds'
    BY <1>19 DEF Reads, IsReading, EndsAreEnds, ReadersAreDone, PipesAreOpen
  <2>5. ShownIsRead'
    BY <2>b, <2>a DEF ShownIsRead, Shows
  <2>6. DoneIsReported'
    BY <1>19 DEF Reads, IsReading, DoneIsReported, CommandIsDone
  <2>. QED BY <2>1, <2>2, <2>3, <2>4, <2>5, <2>6
<1>20. ASSUME NEW s \in Streams, ReadEnds(s) PROVE CommandInv'
  <2>1. CommandShape'
    BY <1>20 DEF ReadEnds, IsReading, CommandShape, Chunks
  <2>2. (command.phase = "resolving" => NothingStarted)' /\ StopHasReason'
    BY <1>20 DEF ReadEnds, IsReading, StopHasReason, Failed, isProcessGroupRunning
  <2>3. ExitIsKnown' /\ DrainIsQuiet'
    BY <1>20 DEF ReadEnds, ExitIsKnown, DrainIsQuiet, isProcessGroupRunning
  <2>4. EndsAreEnds'
    BY <1>20 DEF ReadEnds, IsReading, EndsAreEnds, ReadersAreDone, PipesAreOpen
  <2>5. ShownIsRead'
    BY <1>20 DEF ReadEnds, ShownIsRead, Output
  <2>6. DoneIsReported'
    BY <1>20 DEF ReadEnds, IsReading, DoneIsReported, CommandIsDone
  <2>. QED BY <2>1, <2>2, <2>3, <2>4, <2>5, <2>6
<1>21. CASE PartialTimer
  <2>1. CommandShape'
    <3>1. partial \in PartialType
      BY DEF CommandShape, PartialType
    <3>2. partial' \in PartialType
      BY <1>21, <3>1, FlushShows DEF PartialTimer
    <3>. QED BY <1>21, <3>2 DEF PartialTimer, CommandShape, PartialType
  <2>2. (command.phase = "resolving" => NothingStarted)' /\ StopHasReason'
    BY <1>21 DEF PartialTimer, NothingStarted, StopHasReason, Failed, isProcessGroupRunning
  <2>3. ExitIsKnown' /\ DrainIsQuiet'
    BY <1>21 DEF PartialTimer, ExitIsKnown, DrainIsQuiet, isProcessGroupRunning
  <2>4. EndsAreEnds'
    BY <1>21 DEF PartialTimer, EndsAreEnds, ReadersAreDone, PipesAreOpen
  <2>5. ShownIsRead'
    <3>1. partial \in PartialType /\ Output \in Chunks
      BY DEF CommandShape, PartialType, Output, Chunks
    <3>2. Shows(partial, Output) => Shows(partial', Output)
      BY <1>21, <3>1, FlushShows DEF PartialTimer
    <3>3. Output' = Output /\ command'.tool = command.tool
      BY <1>21 DEF PartialTimer, Output, CommandShape
    <3>. QED BY <3>2, <3>3 DEF ShownIsRead, Shows
  <2>6. DoneIsReported'
    BY <1>21 DEF PartialTimer, DoneIsReported, CommandIsDone
  <2>. QED BY <2>1, <2>2, <2>3, <2>4, <2>5, <2>6
<1>22. CASE UNCHANGED commandVars
  <2>1. CommandShape'
    BY <1>22 DEF commandVars, CommandShape, Chunks
  <2>2. (command.phase = "resolving" => NothingStarted)' /\ StopHasReason'
    BY <1>22 DEF commandVars, NothingStarted, StopHasReason, Output, Failed, PipesAreOpen,
       isProcessGroupRunning
  <2>3. ExitIsKnown' /\ DrainIsQuiet'
    BY <1>22 DEF commandVars, ExitIsKnown, DrainIsQuiet, isProcessGroupRunning
  <2>4. EndsAreEnds'
    BY <1>22 DEF commandVars, EndsAreEnds, ReadersAreDone, PipesAreOpen
  <2>5. ShownIsRead'
    BY <1>22 DEF commandVars, CommandShape, ShownIsRead, Output
  <2>6. DoneIsReported'
    BY <1>22 DEF commandVars, CommandShape, DoneIsReported, CommandIsDone, ReadersAreDone, Failed,
       NothingStarted, PipesAreOpen, Output, Reported, ResultOf
  <2>. QED BY <2>1, <2>2, <2>3, <2>4, <2>5, <2>6
<1>. QED
  BY <1>1, <1>2, <1>3, <1>4, <1>5, <1>6, <1>7, <1>8, <1>9, <1>10, <1>11, <1>12, <1>13, <1>14, <1>15, <1>16,
     <1>17, <1>18, <1>19, <1>20, <1>21, <1>22 DEF CommandNext, CommandWorld, CommandGoesOn

\* The invariant, of every behaviour.
THEOREM CommandInvariance == CommandSpec => []CommandInv
<1>. QED BY CommandInitInv, CommandStep, PTL DEF CommandSpec

\* What a command's end says of it is so: nothing runs on that is said to have
\* ended, its code is the shell's and its stop has the reason given, and its
\* output is whole unless it was cut off (command-process.ts:85-113, 189-226).
THEOREM CommandSafe == CommandSpec => []CommandIsSafe
<1>1. CommandInv => CommandIsSafe
  <2>. SUFFICES ASSUME CommandInv PROVE CommandIsSafe
    OBVIOUS
  <2>. USE DEF CommandInv
  <2>1. CommandTypeOK
    BY DEF CommandShape, Chunks, CommandTypeOK
  <2>2. NothingIsLeftRunning
    <3>1. CASE NothingStarted
      BY <3>1 DEF NothingStarted, NothingIsLeftRunning, PipesAreOpen, isProcessGroupRunning
    <3>2. CASE ~NothingStarted
      <4>1. CommandIsDone => outcome = Reported(command)
        BY <3>2 DEF DoneIsReported
      <4>2. ~command.quiescent => Reported(command).says \in {"error", "aborted", "unknown"}
        <5>1. ASSUME ~command.quiescent PROVE ResultOf(command).says = "unknown"
          BY <5>1 DEF ResultOf
        <5>. QED BY <5>1 DEF Reported
      <4>. QED BY <4>1, <4>2 DEF DrainIsQuiet, CommandIsDone, NothingIsLeftRunning
    <3>. QED BY <3>1, <3>2
  <2>3. OutcomeOfCommand
    <3>1. ASSUME CommandIsDone, outcome = Reported(command)
          PROVE  /\ outcome.says \in {"cancelled", "aborted"} => command.reason = "abort"
                 /\ outcome.says = "timed out" => command.reason = "timeout"
                 /\ outcome.says \in {"completed", "failed"} =>
                      /\ command.reason \notin {"abort", "timeout"} /\ command.known /\ ~Failed
                      /\ outcome.code = command.code
                      /\ (outcome.says = "completed") = (command.code = "0")
      BY <3>1 DEF Reported, ResultOf
    <3>2. ASSUME CommandIsDone, outcome = Reported(command) PROVE OutcomeOfCommand
      BY <3>1, <3>2 DEF CommandShape, CommandIsDone, StopHasReason, ExitIsKnown, OutcomeOfCommand
    <3>3. ASSUME outcome.says \in {"aborted", "error"}, outcome.says = "aborted" => command.aborted
          PROVE  OutcomeOfCommand
      BY <3>3 DEF OutcomeOfCommand
    <3>. QED BY <3>2, <3>3 DEF DoneIsReported, OutcomeOfCommand
  <2>4. OutputIsWhole
    <3>1. CASE NothingStarted
      BY <3>1 DEF OutputIsWhole, NothingStarted
    <3>2. CASE ~NothingStarted
      BY <3>2 DEF CommandShape, Chunks, EndsAreEnds, ShownIsRead, DoneIsReported, OutputIsWhole, Reported,
         Failed, ReadersAreDone, Output
    <3>. QED BY <3>1, <3>2
  <2>. QED BY <2>1, <2>2, <2>3, <2>4 DEF CommandIsSafe
<1>. QED BY CommandInvariance, <1>1, PTL

-----------------------------------------------------------------------------
(* The invariant of nested calls *)

NestedPhases == {"new", "queued", "approving", "starting", "executing", "cancelling", "ending", "done"}
UnderWay == {"approving", "starting", "executing", "cancelling", "ending"}
Phased(phases, p) == {c \in NestedCall : phases[c] = p}
ActiveIn(phases) == {c \in NestedCall : phases[c] \in UnderWay}

\* s holds the members of S once each.
Lists(s, S) ==
  /\ \A i \in 1..Len(s) : s[i] \in S
  /\ \A c \in S : \E i \in 1..Len(s) : s[i] = c
  /\ \A i, j \in 1..Len(s) : s[i] = s[j] => i = j

Counted(phases, n, blocked) ==
  /\ n = Cardinality(ActiveIn(phases))
  /\ blocked = (ActiveIn(phases) \cap exclusive # {})
  /\ \A c \in ActiveIn(phases) \cap exclusive : ActiveIn(phases) = {c}

WaitsFor(asked, waiting, timer) ==
  /\ waiting = Cardinality(asked)
  /\ timer = IF asked = {} THEN "armed" ELSE "paused"

\* A tool executes undisturbed only while the script and run_code go on.
SignalsAgree ==
  /\ script = "running" => cancelledCalls = {}
  /\ script = "returned" =>
       \A c \in NestedCall : nestedPhase[c] \notin {"new", "done"} => c \in cancelledCalls
  /\ In("executing") # {} => outer = "running" /\ script = "running"
  /\ In("cancelling") \cup detached # {} => outer # "running" \/ script = "returned"
  /\ outer = "settled" => script = "returned"

NestedShape ==
  /\ exclusive \subseteq NestedCall /\ nestedPhase \in [NestedCall -> NestedPhases]
  /\ queue \in Seq(NestedCall) /\ nestedApprovals \in Seq(NestedCall)
  /\ activeCount \in 0..NestedLimit /\ exclusiveActive \in BOOLEAN
  /\ nestedAsking \in BOOLEAN /\ detached \subseteq NestedCall /\ cancelledCalls \subseteq NestedCall
  /\ script \in {"running", "returned"}
  /\ outer \in {"running", "interrupted", "settled", "unknown"}
  /\ waitingApprovals \in Nat /\ deadline \in {"armed", "paused", "off"}

NestedInv ==
  /\ NestedShape
  /\ Lists(queue, Phased(nestedPhase, "queued"))
  /\ Lists(nestedApprovals, Phased(nestedPhase, "approving"))
  /\ Counted(nestedPhase, activeCount, exclusiveActive)
  /\ NoSlotIsWasted
  /\ outer = "running" => WaitsFor(Phased(nestedPhase, "approving"), waitingApprovals, deadline)
  /\ SignalsAgree

-----------------------------------------------------------------------------
(* What is invoked of the queue *)

\* A set of positions that has all smaller ones is a prefix.
LEMMA PrefixOfPositions ==
  ASSUME NEW m \in Nat, NEW S, S \subseteq 1..m, \A i \in S : \A j \in 1..i : j \in S
  PROVE  Cardinality(S) \in 0..m /\ S = 1..Cardinality(S)
<1>1. /\ IsFiniteSet(1..m) /\ Cardinality(1..m) = m
  <2>1. IsFiniteSet(1..m) /\ Cardinality(1..m) = IF 1 > m THEN 0 ELSE m - 1 + 1
    BY FS_Interval
  <2>. QED BY <2>1
<1>2. /\ IsFiniteSet(S) /\ Cardinality(S) \in Nat /\ Cardinality(S) <= m
  BY <1>1, FS_Subset, FS_CardinalityType
<1>. DEFINE k == Cardinality(S)
<1>3. ASSUME NEW i \in S PROVE i <= k
  <2>1. i \in Nat /\ i >= 1 /\ 1..i \subseteq S
    OBVIOUS
  <2>2. Cardinality(1..i) = i
    BY <2>1, FS_Interval
  <2>3. Cardinality(1..i) <= k
    BY <1>2, <2>1, FS_Subset
  <2>. QED BY <2>2, <2>3
<1>4. S \subseteq 1..k
  BY <1>2, <1>3
<1>5. IsFiniteSet(1..k) /\ Cardinality(1..k) = k
  <2>1. IsFiniteSet(1..k) /\ Cardinality(1..k) = IF 1 > k THEN 0 ELSE k - 1 + 1
    <3>. k \in Int /\ 1 \in Int
      BY <1>2
    <3>. HIDE DEF k
    <3>. QED BY FS_Interval
  <2>. QED BY <1>2, <2>1
<1>6. S = 1..k
  BY <1>4, <1>5, FS_Subset
<1>. QED BY <1>2, <1>6

LEMMA InvokedMember ==
  ASSUME NEW q, q \in Seq(NestedCall), NEW n, NEW blocked, NEW i
  PROVE  i \in Invoked(q, n, blocked) <=>
           /\ i \in 1..Len(q) /\ ~blocked /\ n + i <= NestedLimit
           /\ \A j \in 1..i : q[j] \in exclusive => j = 1 /\ i = 1 /\ n = 0
<1>1. DOMAIN q = 1..Len(q)
  OBVIOUS
<1>. QED BY <1>1, Zenon DEF Invoked

LEMMA InvokedIsPrefix ==
  ASSUME NEW q \in Seq(NestedCall), NEW n \in Nat, NEW blocked \in BOOLEAN
  PROVE  LET k == Cardinality(Invoked(q, n, blocked))
         IN  /\ k \in 0..Len(q) /\ Invoked(q, n, blocked) = 1..k
             /\ k > 0 => ~blocked /\ n + k <= NestedLimit
             /\ \A i \in 1..k : q[i] \in exclusive => k = 1 /\ n = 0
<1>. DEFINE S == Invoked(q, n, blocked)
            k == Cardinality(S)
<1>1. S \subseteq 1..Len(q)
  BY DEF Invoked
<1>2. ASSUME NEW i \in S, NEW j \in 1..i PROVE j \in S
  BY <1>1, NestedAssumption DEF Invoked
<1>3. k \in 0..Len(q) /\ S = 1..k
  <2>. Len(q) \in Nat /\ \A i \in S : \A j \in 1..i : j \in S
    BY <1>2
  <2>. HIDE DEF S
  <2>. QED BY <1>1, PrefixOfPositions
<1>4. k > 0 => k \in S
  BY <1>3
<1>5. k > 0 => ~blocked /\ n + k <= NestedLimit
  BY <1>4 DEF Invoked
<1>6. ASSUME NEW i \in 1..k, q[i] \in exclusive PROVE k = 1 /\ n = 0
  <2>1. k \in S
    BY <1>3, <1>4, <1>6
  <2>. QED BY <1>6, <2>1 DEF Invoked
<1>. QED BY <1>3, <1>5, <1>6

\* Nothing of the rest of the queue could have been invoked as well.
LEMMA RestIsNotInvoked ==
  ASSUME NEW q, q \in Seq(NestedCall), NEW n, n \in Nat, NEW blocked, blocked \in BOOLEAN,
         NEW k, k \in 0..Len(q), Invoked(q, n, blocked) = 1..k,
         NEW rest, rest \in Seq(NestedCall), Len(rest) = Len(q) - k,
         \A i \in 1..Len(rest) : rest[i] = q[k + i],
         NEW full, full \in BOOLEAN, full <=> blocked \/ \E i \in 1..k : q[i] \in exclusive
  PROVE  Invoked(rest, n + k, full) = {}
<1>1. k \in Nat /\ Len(q) \in Nat
  OBVIOUS
<1>2. SUFFICES ASSUME NEW i, i \in Invoked(rest, n + k, full) PROVE FALSE
  OBVIOUS
<1>3. /\ i \in 1..Len(rest) /\ ~full /\ n + k + i <= NestedLimit
      /\ rest[1] \in exclusive => n + k = 0
  <2>1. /\ i \in 1..Len(rest) /\ ~full /\ n + k + i <= NestedLimit
        /\ \A j \in 1..i : rest[j] \in exclusive => j = 1 /\ i = 1 /\ n + k = 0
    <3>1. rest \in Seq(NestedCall)
      OBVIOUS
    <3>. QED BY <3>1, <1>2, InvokedMember
  <2>2. Len(rest) \in Nat
    OBVIOUS
  <2>3. 1 \in 1..i
    BY <2>1, <2>2
  <2>. QED BY <2>1, <2>3
<1>4. k + 1 \in 1..Len(q) /\ rest[1] = q[k + 1]
  BY <1>3
<1>5. ~blocked /\ \A j \in 1..k : q[j] \notin exclusive
  BY <1>3
<1>6. n + (k + 1) <= NestedLimit
  BY <1>3, NestedAssumption
<1>7. ASSUME NEW j \in 1..(k + 1), q[j] \in exclusive PROVE j = 1 /\ k + 1 = 1 /\ n = 0
  BY <1>3, <1>4, <1>5, <1>7
<1>8. k + 1 \in Invoked(q, n, blocked)
  <2>1. \A j \in 1..(k + 1) : q[j] \in exclusive => j = 1 /\ k + 1 = 1 /\ n = 0
    BY <1>7
  <2>. QED BY <1>4, <1>5, <1>6, <2>1, InvokedMember, Zenon
<1>9. k + 1 \in 1..k
  BY <1>8, Zenon
<1>. QED BY <1>1, <1>9

LEMMA DrainKeeps ==
  ASSUME NestedShape,
         NEW q, q \in Seq(NestedCall), NEW n, n \in 0..NestedLimit,
         NEW blocked, blocked \in BOOLEAN,
         NEW phases, phases \in [NestedCall -> NestedPhases],
         Lists(q, Phased(phases, "queued")), Lists(nestedApprovals, Phased(phases, "approving")),
         Counted(phases, n, blocked),
         outer = "running" => WaitsFor(Phased(phases, "approving"), waitingApprovals, deadline),
         DrainNested(q, n, blocked, phases), UNCHANGED <<exclusive, outer>>
  PROVE  /\ queue' \in Seq(NestedCall) /\ nestedApprovals' \in Seq(NestedCall)
         /\ nestedPhase' \in [NestedCall -> NestedPhases]
         /\ activeCount' \in 0..NestedLimit /\ exclusiveActive' \in BOOLEAN
         /\ waitingApprovals' \in Nat /\ deadline' \in {"armed", "paused", "off"}
         /\ Lists(queue, Phased(nestedPhase, "queued"))'
         /\ Lists(nestedApprovals, Phased(nestedPhase, "approving"))'
         /\ Counted(nestedPhase, activeCount, exclusiveActive)'
         /\ NoSlotIsWasted'
         /\ (outer = "running" => WaitsFor(Phased(nestedPhase, "approving"), waitingApprovals, deadline))'
         /\ \A c \in NestedCall : nestedPhase'[c] # phases[c] =>
              phases[c] = "queued" /\ nestedPhase'[c] = "approving"
<1>. DEFINE k == Cardinality(Invoked(q, n, blocked))
            rest == SubSeq(q, k + 1, Len(q))
            started == SubSeq(q, 1, k)
            T == {q[i] : i \in 1..k}
<1>1. /\ NestedLimit \in Nat /\ NestedLimit > 0 /\ IsFiniteSet(NestedCall)
      /\ n \in Nat /\ Len(q) \in Nat
  BY NestedAssumption
<1>2. /\ k \in 0..Len(q) /\ Invoked(q, n, blocked) = 1..k
      /\ k > 0 => ~blocked /\ n + k <= NestedLimit
      /\ \A i \in 1..k : q[i] \in exclusive => k = 1 /\ n = 0
  BY <1>1, InvokedIsPrefix
<1>3. /\ queue' = rest /\ activeCount' = n + k
      /\ exclusiveActive' = (blocked \/ \E i \in 1..k : q[i] \in exclusive)
      /\ nestedPhase' = [c \in NestedCall |-> IF c \in ToSet(started) THEN "approving" ELSE phases[c]]
      /\ nestedApprovals' = nestedApprovals \o started
      /\ IF k = 0 \/ outer # "running" THEN UNCHANGED <<waitingApprovals, deadline>>
         ELSE waitingApprovals' = waitingApprovals + k /\ deadline' = "paused"
  BY DEF DrainNested
<1>. HIDE DEF k
<1>4. k \in Nat
  BY <1>1, <1>2
<1>5. /\ rest \in Seq(NestedCall) /\ Len(rest) = Len(q) - k
      /\ \A i \in 1..Len(rest) : rest[i] = q[k + i]
  <2>1. \A i \in (k + 1)..Len(q) : q[i] \in NestedCall
    BY <1>1, <1>2, <1>4
  <2>2. /\ rest \in Seq(NestedCall)
        /\ Len(rest) = IF k + 1 <= Len(q) THEN Len(q) - (k + 1) + 1 ELSE 0
        /\ \A i \in 1..(Len(q) - (k + 1) + 1) : rest[i] = q[(k + 1) + i - 1]
    BY <1>1, <1>4, <2>1, SubSeqProperties
  <2>. QED BY <1>1, <1>2, <1>4, <2>2
<1>6. /\ started \in Seq(NestedCall) /\ Len(started) = k
      /\ \A i \in 1..k : started[i] = q[i]
  <2>1. \A i \in 1..k : q[i] \in NestedCall
    BY <1>1, <1>2, <1>4
  <2>2. /\ started \in Seq(NestedCall)
        /\ Len(started) = IF 1 <= k THEN k - 1 + 1 ELSE 0
        /\ \A i \in 1..(k - 1 + 1) : started[i] = q[1 + i - 1]
    BY <1>1, <1>4, <2>1, SubSeqProperties
  <2>. QED BY <1>1, <1>2, <1>4, <2>2
<1>7. ToSet(started) = T
  <2>1. DOMAIN started = 1..k
    BY <1>6
  <2>. QED BY <1>6, <2>1 DEF ToSet
<1>. HIDE DEF rest, started
<1>8. /\ \A i \in 1..Len(q) : q[i] \in NestedCall /\ phases[q[i]] = "queued"
      /\ \A c \in NestedCall : phases[c] = "queued" => \E i \in 1..Len(q) : q[i] = c
      /\ \A i, j \in 1..Len(q) : q[i] = q[j] => i = j
  BY DEF Lists, Phased
<1>9. /\ T \subseteq NestedCall /\ \A c \in T : phases[c] = "queued"
  BY <1>1, <1>2, <1>4, <1>8
<1>10. IsFiniteSet(T) /\ Cardinality(T) = k
  <2>. DEFINE f == [i \in 1..k |-> q[i]]
  <2>1. f \in Bijection(1..k, T)
    BY <1>2, <1>4, <1>8 DEF Bijection, Injection, Surjection, IsInjective
  <2>2. ExistsBijection(1..k, T)
    BY <2>1 DEF ExistsBijection
  <2>3. IsFiniteSet(1..k) /\ Cardinality(1..k) = IF 1 > k THEN 0 ELSE k - 1 + 1
    BY <1>4, FS_Interval
  <2>. QED BY <1>4, <2>2, <2>3, FS_Bijection
<1>11. nestedPhase' = [c \in NestedCall |-> IF c \in T THEN "approving" ELSE phases[c]]
  BY <1>3, <1>7
<1>. HIDE DEF T
<1>12. /\ nestedPhase' \in [NestedCall -> NestedPhases]
       /\ \A c \in NestedCall : nestedPhase'[c] # phases[c] =>
             phases[c] = "queued" /\ nestedPhase'[c] = "approving"
       /\ \A c \in NestedCall : nestedPhase'[c] = IF c \in T THEN "approving" ELSE phases[c]
  BY <1>9, <1>11 DEF NestedPhases
<1>13. /\ Phased(nestedPhase', "queued") = Phased(phases, "queued") \ T
       /\ Phased(nestedPhase', "approving") = Phased(phases, "approving") \cup T
       /\ ActiveIn(nestedPhase') = ActiveIn(phases) \cup T
       /\ Phased(phases, "approving") \cap T = {} /\ ActiveIn(phases) \cap T = {}
  BY <1>9, <1>12 DEF Phased, ActiveIn, UnderWay
<1>14. Lists(rest, Phased(nestedPhase', "queued"))
  <2>1. ASSUME NEW i \in 1..Len(rest) PROVE rest[i] \in Phased(phases, "queued") \ T
    <3>1. k + i \in 1..Len(q) /\ rest[i] = q[k + i]
      BY <1>1, <1>2, <1>4, <1>5
    <3>2. \A j \in 1..k : q[j] # q[k + i]
      BY <1>1, <1>2, <1>4, <1>8, <3>1
    <3>. QED BY <1>8, <3>1, <3>2 DEF Phased, T
  <2>2. ASSUME NEW c \in Phased(phases, "queued") \ T PROVE \E i \in 1..Len(rest) : rest[i] = c
    <3>1. PICK i \in 1..Len(q) : q[i] = c
      BY <1>8 DEF Phased
    <3>2. i > k
      BY <1>1, <1>4, <3>1 DEF T
    <3>3. i - k \in 1..Len(rest) /\ k + (i - k) = i
      BY <1>1, <1>2, <1>4, <1>5, <3>2
    <3>. QED BY <1>5, <3>1, <3>3
  <2>3. ASSUME NEW i \in 1..Len(rest), NEW j \in 1..Len(rest), rest[i] = rest[j] PROVE i = j
    <3>1. k + i \in 1..Len(q) /\ k + j \in 1..Len(q) /\ q[k + i] = q[k + j]
      BY <1>1, <1>2, <1>4, <1>5, <2>3
    <3>2. k + i = k + j
      BY <1>8, <3>1
    <3>. QED BY <1>1, <1>4, <1>5, <3>2
  <2>. QED BY <1>13, <2>1, <2>2, <2>3 DEF Lists
<1>15. /\ nestedApprovals' \in Seq(NestedCall)
       /\ Lists(nestedApprovals', Phased(nestedPhase', "approving"))
  <2>. DEFINE a == nestedApprovals
              b == a \o started
  <2>1. a \in Seq(NestedCall) /\ Len(a) \in Nat
    BY DEF NestedShape
  <2>2. /\ b \in Seq(NestedCall) /\ Len(b) = Len(a) + k
        /\ \A i \in 1..(Len(a) + k) : b[i] = IF i <= Len(a) THEN a[i] ELSE started[i - Len(a)]
    BY <1>6, <2>1, ConcatProperties
  <2>3. /\ \A i \in 1..Len(a) : a[i] \in Phased(phases, "approving")
        /\ \A c \in Phased(phases, "approving") : \E i \in 1..Len(a) : a[i] = c
        /\ \A i, j \in 1..Len(a) : a[i] = a[j] => i = j
    BY DEF Lists
  <2>4. /\ \A i \in 1..k : started[i] \in T
        /\ \A c \in T : \E i \in 1..k : started[i] = c
        /\ \A i, j \in 1..k : started[i] = started[j] => i = j
    <3>1. 1..k \subseteq 1..Len(q)
      BY <1>1, <1>2, <1>4
    <3>. QED BY <1>6, <1>8, <3>1 DEF T
  <2>. HIDE DEF a, b
  <2>5. ASSUME NEW i \in 1..Len(b) PROVE b[i] \in Phased(phases, "approving") \cup T
    <3>1. CASE i <= Len(a)
      BY <2>1, <2>2, <2>3, <3>1
    <3>2. CASE i > Len(a)
      <4>1. i - Len(a) \in 1..k /\ b[i] = started[i - Len(a)]
        BY <1>4, <2>1, <2>2, <3>2
      <4>. QED BY <2>4, <4>1
    <3>. QED BY <2>1, <2>2, <3>1, <3>2, <1>4
  <2>6. ASSUME NEW c \in Phased(phases, "approving") \cup T PROVE \E i \in 1..Len(b) : b[i] = c
    <3>1. CASE c \in Phased(phases, "approving")
      <4>1. PICK i \in 1..Len(a) : a[i] = c
        BY <2>3, <3>1
      <4>2. i \in 1..Len(b) /\ b[i] = c
        BY <1>4, <2>1, <2>2, <4>1
      <4>. QED BY <4>2
    <3>2. CASE c \in T
      <4>1. PICK i \in 1..k : started[i] = c
        BY <2>4, <3>2
      <4>2. Len(a) + i \in 1..Len(b) /\ b[Len(a) + i] = started[(Len(a) + i) - Len(a)]
        BY <1>4, <2>1, <2>2
      <4>3. (Len(a) + i) - Len(a) = i
        BY <1>4, <2>1
      <4>. QED BY <4>1, <4>2, <4>3
    <3>. QED BY <3>1, <3>2
  <2>7. ASSUME NEW i \in 1..Len(b), NEW j \in 1..Len(b), b[i] = b[j], i < j PROVE FALSE
    <3>1. i \in Nat /\ j \in Nat /\ i >= 1 /\ j <= Len(a) + k
      BY <1>4, <2>1, <2>2
    <3>2. CASE j <= Len(a)
      <4>1. i \in 1..Len(a) /\ j \in 1..Len(a) /\ a[i] = a[j]
        BY <2>2, <2>7, <3>2
      <4>. QED BY <2>3, <2>7, <3>1, <4>1
    <3>3. CASE i <= Len(a) /\ j > Len(a)
      <4>1. i \in 1..Len(a) /\ b[i] = a[i]
        BY <2>1, <2>2, <3>1, <3>3
      <4>2. j - Len(a) \in 1..k /\ b[j] = started[j - Len(a)]
        BY <1>4, <2>1, <2>2, <3>1, <3>3
      <4>. QED BY <1>13, <2>3, <2>4, <2>7, <4>1, <4>2
    <3>4. CASE i > Len(a)
      <4>1. i - Len(a) \in 1..k /\ b[i] = started[i - Len(a)]
        BY <1>4, <2>2, <3>4
      <4>2. j - Len(a) \in 1..k /\ b[j] = started[j - Len(a)]
        BY <1>4, <2>2, <2>7, <3>4
      <4>3. i - Len(a) = j - Len(a)
        BY <2>4, <2>7, <4>1, <4>2
      <4>. QED BY <2>1, <2>7, <3>1, <4>3
    <3>. QED BY <3>2, <3>3, <3>4
  <2>8. \A i, j \in 1..Len(b) : b[i] = b[j] => i = j
    <3>. SUFFICES ASSUME NEW i \in 1..Len(b), NEW j \in 1..Len(b), b[i] = b[j], i # j PROVE FALSE
      OBVIOUS
    <3>1. i < j \/ j < i
      BY <1>4, <2>1, <2>2
    <3>. QED BY <2>7, <3>1
  <2>9. Lists(b, Phased(phases, "approving") \cup T)
    BY <2>5, <2>6, <2>8 DEF Lists
  <2>10. nestedApprovals' = b
    BY <1>3 DEF a, b
  <2>. QED BY <1>13, <2>2, <2>9, <2>10
<1>16. /\ activeCount' \in 0..NestedLimit /\ exclusiveActive' \in BOOLEAN
       /\ Counted(nestedPhase', activeCount', exclusiveActive')
  <2>1. activeCount' \in 0..NestedLimit
    BY <1>1, <1>2, <1>3, <1>4
  <2>2. /\ IsFiniteSet(ActiveIn(phases)) /\ IsFiniteSet({})
        /\ Cardinality(ActiveIn(phases)) \in Nat /\ Cardinality({}) = 0
        /\ (Cardinality(ActiveIn(phases)) = 0 <=> ActiveIn(phases) = {})
    BY <1>1, FS_Subset, FS_CardinalityType, FS_EmptySet DEF ActiveIn
  <2>3. Cardinality(ActiveIn(nestedPhase')) = n + k
    <3>1. Cardinality(ActiveIn(phases) \cup T)
            = Cardinality(ActiveIn(phases)) + Cardinality(T) - Cardinality(ActiveIn(phases) \cap T)
      BY <1>10, <2>2, FS_Union
    <3>2. /\ Cardinality(ActiveIn(phases) \cap T) = 0
          /\ Cardinality(ActiveIn(nestedPhase')) = Cardinality(ActiveIn(phases) \cup T)
      BY <1>13, <2>2, Zenon
    <3>. QED BY <1>4, <1>10, <3>1, <3>2 DEF Counted
  <2>4. (\E i \in 1..k : q[i] \in exclusive) <=> T \cap exclusive # {}
    BY DEF T
  <2>5. exclusiveActive' \in BOOLEAN /\ exclusiveActive' <=> ActiveIn(nestedPhase') \cap exclusive # {}
    BY <1>3, <1>13, <2>4 DEF Counted
  <2>6. ASSUME NEW c \in ActiveIn(nestedPhase') \cap exclusive PROVE ActiveIn(nestedPhase') = {c}
    <3>1. CASE c \in T
      <4>1. PICK i \in 1..k : c = q[i]
        BY <3>1 DEF T
      <4>2. k = 1 /\ n = 0
        BY <1>2, <2>6, <4>1
      <4>3. ActiveIn(phases) = {}
        BY <2>2, <4>2 DEF Counted
      <4>4. T = {c}
        BY <4>1, <4>2 DEF T
      <4>. QED BY <1>13, <4>3, <4>4
    <3>2. CASE c \in ActiveIn(phases)
      <4>1. ActiveIn(phases) = {c} /\ blocked
        BY <2>6, <3>2 DEF Counted
      <4>2. k = 0
        BY <1>2, <1>4, <4>1
      <4>3. T = {}
        BY <4>2 DEF T
      <4>. QED BY <1>13, <4>1, <4>3
    <3>. QED BY <1>13, <2>6, <3>1, <3>2
  <2>. QED BY <1>3, <2>1, <2>3, <2>5, <2>6 DEF Counted
<1>17. Invoked(queue', activeCount', exclusiveActive') = {}
  <2>1. exclusiveActive' <=> blocked \/ \E i \in 1..k : q[i] \in exclusive
    BY <1>3
  <2>. QED BY <1>1, <1>2, <1>3, <1>5, RestIsNotInvoked, ZenonT(30)
<1>18. /\ waitingApprovals' \in Nat /\ deadline' \in {"armed", "paused", "off"}
       /\ outer = "running" => WaitsFor(Phased(nestedPhase', "approving"), waitingApprovals', deadline')
  <2>1. IsFiniteSet(Phased(phases, "approving")) /\ Cardinality(Phased(phases, "approving")) \in Nat
    BY <1>1, FS_Subset, FS_CardinalityType DEF Phased
  <2>2. Cardinality(Phased(nestedPhase', "approving")) = Cardinality(Phased(phases, "approving")) + k
    <3>1. Cardinality(Phased(phases, "approving") \cup T)
            = Cardinality(Phased(phases, "approving")) + Cardinality(T)
              - Cardinality(Phased(phases, "approving") \cap T)
      BY <1>10, <2>1, FS_Union
    <3>2. /\ Cardinality(Phased(phases, "approving") \cap T) = 0
          /\ Cardinality(Phased(nestedPhase', "approving"))
               = Cardinality(Phased(phases, "approving") \cup T)
      BY <1>13, FS_EmptySet, Zenon
    <3>. QED BY <1>4, <1>10, <2>1, <3>1, <3>2
  <2>3. waitingApprovals \in Nat /\ deadline \in {"armed", "paused", "off"}
    BY DEF NestedShape
  <2>4. CASE k = 0
    <3>1. T = {}
      BY <2>4 DEF T
    <3>. QED BY <1>3, <1>13, <2>3, <2>4, <3>1
  <2>5. CASE k # 0
    <3>1. T # {}
      <4>1. 1 \in 1..k
        BY <1>4, <2>5
      <4>. QED BY <4>1 DEF T
    <3>2. Phased(nestedPhase', "approving") # {}
      BY <1>13, <3>1
    <3>. QED BY <1>3, <1>4, <2>2, <2>3, <2>5, <3>2 DEF WaitsFor
  <2>. QED BY <2>4, <2>5
<1>19. NoSlotIsWasted'
  BY <1>17 DEF NoSlotIsWasted, Invoked
<1>20. Lists(queue, Phased(nestedPhase, "queued"))'
  BY <1>3, <1>14 DEF Lists, Phased
<1>21. Lists(nestedApprovals, Phased(nestedPhase, "approving"))'
  BY <1>15 DEF Lists, Phased
<1>22. Counted(nestedPhase, activeCount, exclusiveActive)'
  BY <1>16 DEF Counted, ActiveIn
<1>23. (outer = "running" => WaitsFor(Phased(nestedPhase, "approving"), waitingApprovals, deadline))'
  BY <1>18 DEF WaitsFor, Phased
<1>. QED BY <1>3, <1>5, <1>12, <1>15, <1>16, <1>18, <1>19, <1>20, <1>22

-----------------------------------------------------------------------------
\* A step that moves calls neither in or out of the queues nor in or out of
\* those under way disturbs neither the queues nor the counters.
LEMMA QueuesKeep ==
  ASSUME NestedInv, nestedPhase' \in [NestedCall -> NestedPhases],
         UNCHANGED <<exclusive, queue, activeCount, exclusiveActive, nestedApprovals>>,
         \A c \in NestedCall : nestedPhase'[c] # nestedPhase[c] =>
           nestedPhase[c] \in UnderWay \ {"approving"} /\ nestedPhase'[c] \in UnderWay \ {"approving"}
  PROVE  /\ Lists(queue, Phased(nestedPhase, "queued"))'
         /\ Lists(nestedApprovals, Phased(nestedPhase, "approving"))'
         /\ Counted(nestedPhase, activeCount, exclusiveActive)'
         /\ NoSlotIsWasted'
         /\ Phased(nestedPhase', "approving") = Phased(nestedPhase, "approving")
<1>1. /\ ActiveIn(nestedPhase') = ActiveIn(nestedPhase)
      /\ Phased(nestedPhase', "queued") = Phased(nestedPhase, "queued")
      /\ Phased(nestedPhase', "approving") = Phased(nestedPhase, "approving")
  BY DEF ActiveIn, Phased, UnderWay
<1>2. /\ Lists(queue', Phased(nestedPhase', "queued"))
      /\ Lists(nestedApprovals', Phased(nestedPhase', "approving"))
      /\ Counted(nestedPhase', activeCount', exclusiveActive')
  BY <1>1 DEF NestedInv, Counted
<1>3. Lists(queue, Phased(nestedPhase, "queued"))'
  BY <1>2 DEF Lists, Phased
<1>4. Lists(nestedApprovals, Phased(nestedPhase, "approving"))'
  BY <1>2 DEF Lists, Phased
<1>5. Counted(nestedPhase, activeCount, exclusiveActive)'
  BY <1>2 DEF Counted, ActiveIn
<1>6. NoSlotIsWasted'
  BY DEF NestedInv, NoSlotIsWasted, Invoked
<1>. QED BY <1>1, <1>3, <1>4, <1>5, <1>6

\* The tools that an interruption or a cancellation reaches.
LEMMA InterruptedMember ==
  ASSUME NEW out, NEW cancelled, NEW phases, phases \in [NestedCall -> NestedPhases]
  PROVE  /\ Interrupted(out, cancelled, phases) \in [NestedCall -> NestedPhases]
         /\ \A c \in NestedCall : Interrupted(out, cancelled, phases)[c] =
              IF phases[c] = "executing" /\ (out # "running" \/ c \in cancelled)
              THEN "cancelling" ELSE phases[c]
  BY DEF Interrupted, NestedPhases

LEMMA NestedInitInv == NestedInit => NestedInv
<1>. SUFFICES ASSUME NestedInit PROVE NestedInv
  OBVIOUS
<1>1. NestedShape
  <2>1. 0 \in 0..NestedLimit /\ <<>> \in Seq(NestedCall)
    BY NestedAssumption
  <2>2. [c \in NestedCall |-> "new"] \in [NestedCall -> NestedPhases]
    BY DEF NestedPhases
  <2>. QED BY <2>1, <2>2 DEF NestedInit, NestedShape
<1>2. /\ ActiveIn(nestedPhase) = {} /\ Phased(nestedPhase, "queued") = {}
      /\ Phased(nestedPhase, "approving") = {}
  BY DEF NestedInit, ActiveIn, Phased, UnderWay
<1>3. Cardinality({}) = 0
  BY FS_EmptySet
<1>4. Lists(<<>>, {})
  BY DEF Lists
<1>5. Counted(nestedPhase, 0, FALSE) /\ WaitsFor({}, 0, "armed")
  BY <1>2, <1>3 DEF Counted, WaitsFor
<1>6. NoSlotIsWasted
  BY DEF NestedInit, NoSlotIsWasted, Invoked
<1>7. SignalsAgree
  BY DEF NestedInit, SignalsAgree, In
<1>. QED BY <1>1, <1>2, <1>4, <1>5, <1>6, <1>7 DEF NestedInit, NestedInv

LEMMA NestedStep == NestedInv /\ [NestedNext]_nestedVars => NestedInv'
<1>. SUFFICES ASSUME NestedInv, [NestedNext]_nestedVars PROVE NestedInv'
  OBVIOUS
<1>. USE DEF NestedInv
<1>a. NestedShape /\ SignalsAgree
  OBVIOUS
<1>1. ASSUME NEW c \in NestedCall, CallNested(c) PROVE NestedInv'
  <2>. DEFINE phases == [nestedPhase EXCEPT ![c] = "queued"]
              q == Append(queue, c)
  <2>1. /\ script = "running" /\ nestedPhase[c] = "new"
        /\ DrainNested(q, activeCount, exclusiveActive, phases)
        /\ UNCHANGED <<exclusive, nestedAsking, cancelledCalls, detached, script, outer>>
    BY <1>1 DEF CallNested
  <2>2. /\ phases \in [NestedCall -> NestedPhases]
        /\ \A x \in NestedCall : phases[x] = IF x = c THEN "queued" ELSE nestedPhase[x]
    BY DEF NestedShape, NestedPhases
  <2>3. /\ queue \in Seq(NestedCall) /\ Len(queue) \in Nat
        /\ q \in Seq(NestedCall) /\ Len(q) = Len(queue) + 1
        /\ \A i \in 1..Len(queue) : q[i] = queue[i]
        /\ q[Len(queue) + 1] = c
    BY AppendProperties DEF NestedShape
  <2>. HIDE DEF phases, q
  <2>4. /\ Phased(phases, "queued") = Phased(nestedPhase, "queued") \cup {c}
        /\ c \notin Phased(nestedPhase, "queued")
        /\ Phased(phases, "approving") = Phased(nestedPhase, "approving")
        /\ ActiveIn(phases) = ActiveIn(nestedPhase)
    BY <2>1, <2>2 DEF Phased, ActiveIn, UnderWay
  <2>5. Lists(q, Phased(phases, "queued"))
    <3>1. /\ \A i \in 1..Len(queue) : queue[i] \in Phased(nestedPhase, "queued")
          /\ \A x \in Phased(nestedPhase, "queued") : \E i \in 1..Len(queue) : queue[i] = x
          /\ \A i, j \in 1..Len(queue) : queue[i] = queue[j] => i = j
      BY DEF Lists
    <3>2. 1..Len(q) = 1..Len(queue) \cup {Len(queue) + 1}
      BY <2>3
    <3>3. \A i \in 1..Len(q) : q[i] \in Phased(phases, "queued")
      BY <2>3, <2>4, <3>1, <3>2
    <3>4. \A x \in Phased(phases, "queued") : \E i \in 1..Len(q) : q[i] = x
      BY <2>3, <2>4, <3>1, <3>2
    <3>5. \A i, j \in 1..Len(q) : q[i] = q[j] => i = j
      BY <2>3, <2>4, <3>1, <3>2
    <3>. QED BY <3>3, <3>4, <3>5 DEF Lists
  <2>6. /\ Lists(nestedApprovals, Phased(phases, "approving"))
        /\ Counted(phases, activeCount, exclusiveActive)
        /\ outer = "running" => WaitsFor(Phased(phases, "approving"), waitingApprovals, deadline)
    BY <2>4 DEF Counted
  <2>7. activeCount \in 0..NestedLimit /\ exclusiveActive \in BOOLEAN
    BY DEF NestedShape
  <2>8. /\ queue' \in Seq(NestedCall) /\ nestedApprovals' \in Seq(NestedCall)
        /\ nestedPhase' \in [NestedCall -> NestedPhases]
        /\ activeCount' \in 0..NestedLimit /\ exclusiveActive' \in BOOLEAN
        /\ waitingApprovals' \in Nat /\ deadline' \in {"armed", "paused", "off"}
        /\ Lists(queue, Phased(nestedPhase, "queued"))'
        /\ Lists(nestedApprovals, Phased(nestedPhase, "approving"))'
        /\ Counted(nestedPhase, activeCount, exclusiveActive)'
        /\ NoSlotIsWasted'
        /\ (outer = "running" => WaitsFor(Phased(nestedPhase, "approving"), waitingApprovals, deadline))'
        /\ \A x \in NestedCall : nestedPhase'[x] # phases[x] =>
             phases[x] = "queued" /\ nestedPhase'[x] = "approving"
    BY <2>1, <2>2, <2>3, <2>5, <2>6, <2>7, DrainKeeps
  <2>9. NestedShape'
    BY <2>1, <2>8 DEF NestedShape
  <2>10. SignalsAgree'
    BY <2>1, <2>2, <2>8 DEF SignalsAgree, In
  <2>. QED BY <2>8, <2>9, <2>10
<1>2. ASSUME NEW c \in NestedCall, FinishNested(c) PROVE NestedInv'
  <2>. DEFINE phases == [nestedPhase EXCEPT ![c] = "done"]
              n == activeCount - 1
  <2>1. /\ nestedPhase[c] = "ending" /\ DrainNested(queue, n, FALSE, phases)
        /\ UNCHANGED <<exclusive, nestedAsking, cancelledCalls, detached, script, outer>>
    BY <1>2 DEF FinishNested
  <2>2. /\ phases \in [NestedCall -> NestedPhases]
        /\ \A x \in NestedCall : phases[x] = IF x = c THEN "done" ELSE nestedPhase[x]
    BY DEF NestedShape, NestedPhases
  <2>. HIDE DEF phases
  <2>3. /\ Phased(phases, "queued") = Phased(nestedPhase, "queued")
        /\ Phased(phases, "approving") = Phased(nestedPhase, "approving")
        /\ ActiveIn(phases) = ActiveIn(nestedPhase) \ {c} /\ c \in ActiveIn(nestedPhase)
    BY <2>1, <2>2 DEF Phased, ActiveIn, UnderWay
  <2>4. IsFiniteSet(ActiveIn(nestedPhase))
    BY NestedAssumption, FS_Subset DEF ActiveIn
  <2>5. /\ Cardinality(ActiveIn(nestedPhase) \ {c}) = Cardinality(ActiveIn(nestedPhase)) - 1
        /\ Cardinality(ActiveIn(nestedPhase) \ {c}) \in Nat
    <3>1. IsFiniteSet(ActiveIn(nestedPhase) \ {c})
      BY <2>4, FS_RemoveElement
    <3>. QED BY <2>3, <2>4, <3>1, FS_RemoveElement, FS_CardinalityType
  <2>6. /\ n = Cardinality(ActiveIn(phases)) /\ n \in 0..NestedLimit
    <3>1. activeCount = Cardinality(ActiveIn(nestedPhase)) /\ activeCount \in 0..NestedLimit
      BY DEF Counted, NestedShape
    <3>2. Cardinality(ActiveIn(phases)) = Cardinality(ActiveIn(nestedPhase) \ {c})
      BY <2>3
    <3>. QED BY <2>5, <3>1, <3>2, NestedAssumption
  <2>7. ActiveIn(phases) \cap exclusive = {}
    BY <2>3 DEF Counted
  <2>8. /\ Counted(phases, n, FALSE) /\ Lists(queue, Phased(phases, "queued"))
        /\ Lists(nestedApprovals, Phased(phases, "approving"))
        /\ outer = "running" => WaitsFor(Phased(phases, "approving"), waitingApprovals, deadline)
    BY <2>3, <2>6, <2>7 DEF Counted
  <2>9. queue \in Seq(NestedCall)
    BY DEF NestedShape
  <2>. HIDE DEF n
  <2>10. /\ queue' \in Seq(NestedCall) /\ nestedApprovals' \in Seq(NestedCall)
        /\ nestedPhase' \in [NestedCall -> NestedPhases]
        /\ activeCount' \in 0..NestedLimit /\ exclusiveActive' \in BOOLEAN
        /\ waitingApprovals' \in Nat /\ deadline' \in {"armed", "paused", "off"}
        /\ Lists(queue, Phased(nestedPhase, "queued"))'
        /\ Lists(nestedApprovals, Phased(nestedPhase, "approving"))'
        /\ Counted(nestedPhase, activeCount, exclusiveActive)'
        /\ NoSlotIsWasted'
        /\ (outer = "running" => WaitsFor(Phased(nestedPhase, "approving"), waitingApprovals, deadline))'
        /\ \A x \in NestedCall : nestedPhase'[x] # phases[x] =>
             phases[x] = "queued" /\ nestedPhase'[x] = "approving"
    BY <2>1, <2>2, <2>6, <2>8, <2>9, DrainKeeps
  <2>11. NestedShape'
    BY <2>1, <2>10 DEF NestedShape
  <2>12. SignalsAgree'
    BY <2>1, <2>2, <2>10 DEF SignalsAgree, In
  <2>. QED BY <2>10, <2>11, <2>12
<1>3. ASSUME NEW approved \in BOOLEAN, ApprovalReturns(approved) PROVE NestedInv'
  <2>. DEFINE c == Head(nestedApprovals)
              phases == [nestedPhase EXCEPT ![c] = IF approved THEN "starting" ELSE "ending"]
  <2>1. /\ nestedApprovals # <<>> /\ nestedApprovals' = Tail(nestedApprovals) /\ nestedAsking' = FALSE
        /\ EndWait /\ outer' \in {outer, OnAbortRun(c)}
        /\ nestedPhase' = Interrupted(outer', cancelledCalls, phases)
        /\ UNCHANGED <<exclusive, queue, activeCount, exclusiveActive, cancelledCalls, detached, script>>
    BY <1>3 DEF ApprovalReturns
  <2>2. /\ nestedApprovals \in Seq(NestedCall) /\ Len(nestedApprovals) \in Nat
        /\ Len(nestedApprovals) >= 1 /\ c = nestedApprovals[1]
        /\ Tail(nestedApprovals) \in Seq(NestedCall)
        /\ Len(Tail(nestedApprovals)) = Len(nestedApprovals) - 1
        /\ \A i \in 1..(Len(nestedApprovals) - 1) : Tail(nestedApprovals)[i] = nestedApprovals[i + 1]
    BY <2>1 DEF NestedShape
  <2>3. c \in NestedCall /\ nestedPhase[c] = "approving"
    BY <2>2 DEF Lists, Phased
  <2>4. /\ phases \in [NestedCall -> NestedPhases]
        /\ \A x \in NestedCall : phases[x] = IF x # c THEN nestedPhase[x]
                                     ELSE IF approved THEN "starting" ELSE "ending"
    BY <2>3 DEF NestedShape, NestedPhases
  <2>. HIDE DEF phases, c
  <2>5. /\ nestedPhase' \in [NestedCall -> NestedPhases]
        /\ \A x \in NestedCall : nestedPhase'[x] =
             IF phases[x] = "executing" /\ (outer' # "running" \/ x \in cancelledCalls)
             THEN "cancelling" ELSE phases[x]
    BY <2>1, <2>4, InterruptedMember
  <2>6. outer' \in {"running", "interrupted", "settled", "unknown"} /\ (outer # "running" => outer' = outer)
    BY <2>1 DEF NestedShape, OnAbortRun
  <2>7. /\ Phased(nestedPhase', "queued") = Phased(nestedPhase, "queued")
        /\ Phased(nestedPhase', "approving") = Phased(nestedPhase, "approving") \ {c}
        /\ c \in Phased(nestedPhase, "approving")
        /\ ActiveIn(nestedPhase') = ActiveIn(nestedPhase)
    BY <2>3, <2>4, <2>5 DEF Phased, ActiveIn, UnderWay
  <2>8. Lists(nestedApprovals', Phased(nestedPhase', "approving"))
    <3>. DEFINE a == nestedApprovals
                t == Tail(nestedApprovals)
    <3>1. /\ \A i \in 1..Len(a) : a[i] \in Phased(nestedPhase, "approving")
          /\ \A x \in Phased(nestedPhase, "approving") : \E i \in 1..Len(a) : a[i] = x
          /\ \A i, j \in 1..Len(a) : a[i] = a[j] => i = j
      BY DEF Lists
    <3>. HIDE DEF a, t
    <3>2. /\ Len(a) \in Nat /\ Len(a) >= 1 /\ c = a[1] /\ Len(t) = Len(a) - 1
          /\ \A i \in 1..(Len(a) - 1) : t[i] = a[i + 1]
      BY <2>2 DEF a, t
    <3>3. \A i \in 1..Len(t) : t[i] \in Phased(nestedPhase, "approving") \ {c}
      BY <3>1, <3>2
    <3>4. ASSUME NEW x \in Phased(nestedPhase, "approving") \ {c} PROVE \E i \in 1..Len(t) : t[i] = x
      <4>1. PICK i \in 1..Len(a) : a[i] = x
        BY <3>1
      <4>2. i # 1
        BY <3>2, <3>4, <4>1
      <4>3. i - 1 \in 1..Len(t) /\ t[i - 1] = a[(i - 1) + 1] /\ (i - 1) + 1 = i
        BY <3>2, <4>2
      <4>. QED BY <4>1, <4>3
    <3>5. \A i, j \in 1..Len(t) : t[i] = t[j] => i = j
      BY <3>1, <3>2
    <3>6. nestedApprovals' = t
      BY <2>1 DEF t
    <3>. QED BY <2>7, <3>3, <3>4, <3>5, <3>6 DEF Lists
  <2>9. /\ waitingApprovals' \in Nat /\ deadline' \in {"armed", "paused", "off"}
        /\ outer' = "running" =>
             WaitsFor(Phased(nestedPhase', "approving"), waitingApprovals', deadline')
    <3>1. IsFiniteSet(Phased(nestedPhase, "approving"))
      BY NestedAssumption, FS_Subset DEF Phased
    <3>2. /\ IsFiniteSet(Phased(nestedPhase, "approving") \ {c})
          /\ Cardinality(Phased(nestedPhase, "approving") \ {c})
               = Cardinality(Phased(nestedPhase, "approving")) - 1
      BY <2>7, <3>1, FS_RemoveElement
    <3>3. /\ Cardinality(Phased(nestedPhase, "approving") \ {c}) \in Nat
          /\ Cardinality(Phased(nestedPhase, "approving") \ {c}) = 0
               <=> Phased(nestedPhase, "approving") \ {c} = {}
      BY <3>2, FS_CardinalityType, FS_EmptySet
    <3>4. CASE outer = "running"
      <4>1. WaitsFor(Phased(nestedPhase, "approving"), waitingApprovals, deadline)
        BY <3>4
      <4>2. waitingApprovals = Cardinality(Phased(nestedPhase, "approving")) /\ deadline = "paused"
        BY <2>7, <4>1 DEF WaitsFor
      <4>3. /\ waitingApprovals' = waitingApprovals - 1
            /\ deadline' = IF waitingApprovals = 1 THEN "armed" ELSE deadline
        BY <2>1, <3>4 DEF EndWait
      <4>4. Cardinality(Phased(nestedPhase', "approving"))
              = Cardinality(Phased(nestedPhase, "approving") \ {c})
        BY <2>7
      <4>5. waitingApprovals \in Nat
        BY DEF NestedShape
      <4>. QED BY <2>7, <3>2, <3>3, <4>2, <4>3, <4>4 DEF WaitsFor
    <3>5. CASE outer # "running"
      BY <2>1, <2>6, <3>5 DEF EndWait, NestedShape
    <3>. QED BY <3>4, <3>5
  <2>10. NestedShape'
    BY <2>1, <2>2, <2>5, <2>6, <2>9 DEF NestedShape
  <2>11. SignalsAgree'
    <3>1. \A x \in NestedCall : nestedPhase'[x] = "executing" =>
             nestedPhase[x] = "executing" /\ outer' = "running"
      BY <2>4, <2>5
    <3>2. \A x \in NestedCall : nestedPhase'[x] = "cancelling" =>
             nestedPhase[x] = "cancelling" \/ outer' # "running" \/ script = "returned"
      BY <2>4, <2>5 DEF SignalsAgree, NestedShape
    <3>3. \A x \in NestedCall : nestedPhase'[x] \notin {"new", "done"} => nestedPhase[x] \notin {"new", "done"}
      BY <2>3, <2>4, <2>5
    <3>4. outer' # "settled" \/ outer = "settled"
      BY <2>1 DEF OnAbortRun
    <3>. QED BY <2>1, <2>6, <3>1, <3>2, <3>3, <3>4 DEF SignalsAgree, In
  <2>12. Lists(queue, Phased(nestedPhase, "queued"))'
    BY <2>1, <2>7 DEF Lists, Phased
  <2>13. Lists(nestedApprovals, Phased(nestedPhase, "approving"))'
    BY <2>8 DEF Lists, Phased
  <2>14. Counted(nestedPhase, activeCount, exclusiveActive)'
    BY <2>1, <2>7 DEF Counted, ActiveIn
  <2>15. NoSlotIsWasted'
    BY <2>1 DEF NoSlotIsWasted, Invoked
  <2>16. (outer = "running" => WaitsFor(Phased(nestedPhase, "approving"), waitingApprovals, deadline))'
    BY <2>9 DEF WaitsFor, Phased
  <2>. QED BY <2>10, <2>11, <2>12, <2>13, <2>14, <2>15, <2>16
<1>4. ASSUME NEW c \in NestedCall, StartNested(c) PROVE NestedInv'
  <2>. DEFINE phases == [nestedPhase EXCEPT ![c] = "executing"]
  <2>1. /\ nestedPhase[c] = "starting" /\ nestedPhase' = Interrupted(outer, cancelledCalls, phases)
        /\ UNCHANGED <<exclusive, queue, activeCount, exclusiveActive, nestedApprovals>>
        /\ UNCHANGED <<nestedAsking, cancelledCalls, detached, script, outer, waitingApprovals, deadline>>
    BY <1>4 DEF StartNested
  <2>2. /\ nestedPhase' \in [NestedCall -> NestedPhases]
        /\ \A x \in NestedCall : nestedPhase'[x] # nestedPhase[x] =>
             nestedPhase[x] \in UnderWay \ {"approving"} /\ nestedPhase'[x] \in UnderWay \ {"approving"}
    <3>1. /\ phases \in [NestedCall -> NestedPhases]
          /\ \A x \in NestedCall : phases[x] = IF x = c THEN "executing" ELSE nestedPhase[x]
      BY DEF NestedShape, NestedPhases
    <3>. HIDE DEF phases
    <3>2. /\ nestedPhase' \in [NestedCall -> NestedPhases]
          /\ \A x \in NestedCall : nestedPhase'[x] =
               IF phases[x] = "executing" /\ (outer # "running" \/ x \in cancelledCalls)
               THEN "cancelling" ELSE phases[x]
      BY <2>1, <3>1, InterruptedMember
    <3>. QED BY <2>1, <3>1, <3>2 DEF UnderWay
  <2>3. /\ Lists(queue, Phased(nestedPhase, "queued"))'
        /\ Lists(nestedApprovals, Phased(nestedPhase, "approving"))'
        /\ Counted(nestedPhase, activeCount, exclusiveActive)'
        /\ NoSlotIsWasted'
        /\ Phased(nestedPhase', "approving") = Phased(nestedPhase, "approving")
    BY <2>1, <2>2, QueuesKeep
  <2>4. (outer = "running" => WaitsFor(Phased(nestedPhase, "approving"), waitingApprovals, deadline))'
    BY <2>1, <2>3 DEF WaitsFor, Phased
  <2>5. NestedShape'
    BY <2>1, <2>2 DEF NestedShape
  <2>6. SignalsAgree'
    <3>1. \A x \in NestedCall : phases[x] = IF x = c THEN "executing" ELSE nestedPhase[x]
      BY DEF NestedShape
    <3>2. phases \in [NestedCall -> NestedPhases]
      BY DEF NestedShape, NestedPhases
    <3>. HIDE DEF phases
    <3>3. \A x \in NestedCall : nestedPhase'[x] =
             IF phases[x] = "executing" /\ (outer # "running" \/ x \in cancelledCalls)
             THEN "cancelling" ELSE phases[x]
      BY <2>1, <3>2, InterruptedMember
    <3>. QED BY <2>1, <3>1, <3>3 DEF SignalsAgree, In, NestedShape
  <2>. QED BY <2>3, <2>4, <2>5, <2>6
<1>5. ASSUME NEW c \in NestedCall, ToolReturns(c) \/ GraceEnds(c) PROVE NestedInv'
  <2>1. /\ nestedPhase[c] \in {"executing", "cancelling"} /\ nestedPhase' = [nestedPhase EXCEPT ![c] = "ending"]
        /\ detached' = detached \/ (nestedPhase[c] = "cancelling" /\ detached' = detached \cup {c})
        /\ UNCHANGED <<exclusive, queue, activeCount, exclusiveActive, nestedApprovals>>
        /\ UNCHANGED <<nestedAsking, cancelledCalls, script, outer, waitingApprovals, deadline>>
    BY <1>5 DEF ToolReturns, GraceEnds
  <2>2. /\ nestedPhase' \in [NestedCall -> NestedPhases]
        /\ \A x \in NestedCall : nestedPhase'[x] # nestedPhase[x] =>
             nestedPhase[x] \in UnderWay \ {"approving"} /\ nestedPhase'[x] \in UnderWay \ {"approving"}
    BY <2>1 DEF NestedShape, NestedPhases, UnderWay
  <2>3. /\ Lists(queue, Phased(nestedPhase, "queued"))'
        /\ Lists(nestedApprovals, Phased(nestedPhase, "approving"))'
        /\ Counted(nestedPhase, activeCount, exclusiveActive)'
        /\ NoSlotIsWasted'
        /\ Phased(nestedPhase', "approving") = Phased(nestedPhase, "approving")
    BY <2>1, <2>2, QueuesKeep
  <2>4. (outer = "running" => WaitsFor(Phased(nestedPhase, "approving"), waitingApprovals, deadline))'
    BY <2>1, <2>3 DEF WaitsFor, Phased
  <2>5. NestedShape'
    BY <2>1, <2>2 DEF NestedShape
  <2>6. SignalsAgree'
    BY <2>1 DEF SignalsAgree, In, NestedShape
  <2>. QED BY <2>3, <2>4, <2>5, <2>6
<1>6. ASSUME NEW c \in NestedCall, NestedDeadline(c) PROVE NestedInv'
  <2>. DEFINE phases == [nestedPhase EXCEPT ![c] = "cancelling"]
  <2>1. /\ nestedPhase[c] = "executing" /\ outer' = OnAbortRun(c)
        /\ nestedPhase' = Interrupted(outer', cancelledCalls, phases)
        /\ UNCHANGED <<exclusive, queue, activeCount, exclusiveActive, nestedApprovals>>
        /\ UNCHANGED <<nestedAsking, cancelledCalls, detached, script, waitingApprovals, deadline>>
    BY <1>6 DEF NestedDeadline
  <2>2. /\ nestedPhase' \in [NestedCall -> NestedPhases]
        /\ \A x \in NestedCall : nestedPhase'[x] # nestedPhase[x] =>
             nestedPhase[x] \in UnderWay \ {"approving"} /\ nestedPhase'[x] \in UnderWay \ {"approving"}
    <3>1. /\ phases \in [NestedCall -> NestedPhases]
          /\ \A x \in NestedCall : phases[x] = IF x = c THEN "cancelling" ELSE nestedPhase[x]
      BY DEF NestedShape, NestedPhases
    <3>. HIDE DEF phases
    <3>2. /\ nestedPhase' \in [NestedCall -> NestedPhases]
          /\ \A x \in NestedCall : nestedPhase'[x] =
               IF phases[x] = "executing" /\ (outer' # "running" \/ x \in cancelledCalls)
               THEN "cancelling" ELSE phases[x]
      BY <2>1, <3>1, InterruptedMember
    <3>. QED BY <2>1, <3>1, <3>2 DEF UnderWay
  <2>3. /\ Lists(queue, Phased(nestedPhase, "queued"))'
        /\ Lists(nestedApprovals, Phased(nestedPhase, "approving"))'
        /\ Counted(nestedPhase, activeCount, exclusiveActive)'
        /\ NoSlotIsWasted'
        /\ Phased(nestedPhase', "approving") = Phased(nestedPhase, "approving")
    BY <2>1, <2>2, QueuesKeep
  <2>4. (outer = "running" => WaitsFor(Phased(nestedPhase, "approving"), waitingApprovals, deadline))'
    BY <2>1, <2>3 DEF WaitsFor, Phased, OnAbortRun
  <2>5. NestedShape'
    BY <2>1, <2>2 DEF NestedShape, OnAbortRun
  <2>6. SignalsAgree'
    <3>1. outer = "running" /\ script = "running" /\ cancelledCalls = {}
      BY <2>1 DEF SignalsAgree, In
    <3>2. outer' = "interrupted"
      BY <2>1, <3>1 DEF OnAbortRun, IsAborted
    <3>3. /\ phases \in [NestedCall -> NestedPhases]
          /\ \A x \in NestedCall : phases[x] = IF x = c THEN "cancelling" ELSE nestedPhase[x]
      BY DEF NestedShape, NestedPhases
    <3>. HIDE DEF phases
    <3>4. \A x \in NestedCall : nestedPhase'[x] # "executing"
      BY <2>1, <3>2, <3>3, InterruptedMember
    <3>. QED BY <2>1, <3>2, <3>4 DEF SignalsAgree, In
  <2>. QED BY <2>3, <2>4, <2>5, <2>6
<1>7. CASE ScriptReturns
  <2>1. /\ script = "running" /\ script' = "returned"
        /\ cancelledCalls' = cancelledCalls \cup {c \in NestedCall : nestedPhase[c] \notin {"new", "done"}}
        /\ nestedPhase' = Interrupted(outer, cancelledCalls', nestedPhase)
        /\ UNCHANGED <<exclusive, queue, activeCount, exclusiveActive, nestedApprovals>>
        /\ UNCHANGED <<nestedAsking, detached, outer, waitingApprovals, deadline>>
    BY <1>7 DEF ScriptReturns
  <2>2. /\ nestedPhase' \in [NestedCall -> NestedPhases]
        /\ \A x \in NestedCall : nestedPhase'[x] # nestedPhase[x] =>
             nestedPhase[x] \in UnderWay \ {"approving"} /\ nestedPhase'[x] \in UnderWay \ {"approving"}
    BY <2>1, InterruptedMember DEF NestedShape, UnderWay
  <2>3. /\ Lists(queue, Phased(nestedPhase, "queued"))'
        /\ Lists(nestedApprovals, Phased(nestedPhase, "approving"))'
        /\ Counted(nestedPhase, activeCount, exclusiveActive)'
        /\ NoSlotIsWasted'
        /\ Phased(nestedPhase', "approving") = Phased(nestedPhase, "approving")
    BY <2>1, <2>2, QueuesKeep
  <2>4. (outer = "running" => WaitsFor(Phased(nestedPhase, "approving"), waitingApprovals, deadline))'
    BY <2>1, <2>3 DEF WaitsFor, Phased
  <2>5. NestedShape'
    BY <2>1, <2>2 DEF NestedShape
  <2>6. SignalsAgree'
    <3>1. \A x \in NestedCall : nestedPhase'[x] =
             IF nestedPhase[x] = "executing" /\ (outer # "running" \/ x \in cancelledCalls')
             THEN "cancelling" ELSE nestedPhase[x]
      BY <2>1, InterruptedMember DEF NestedShape
    <3>. QED BY <2>1, <3>1 DEF SignalsAgree, In
  <2>. QED BY <2>3, <2>4, <2>5, <2>6
<1>8. ASSUME NEW reason, OuterInterrupted(reason) PROVE NestedInv'
  <2>1. /\ outer = "running" /\ outer' = "interrupted"
        /\ nestedPhase' = Interrupted(outer', cancelledCalls, nestedPhase)
        /\ UNCHANGED <<exclusive, queue, activeCount, exclusiveActive, nestedApprovals>>
        /\ UNCHANGED <<nestedAsking, cancelledCalls, detached, script, waitingApprovals, deadline>>
    BY <1>8 DEF OuterInterrupted
  <2>2. /\ nestedPhase' \in [NestedCall -> NestedPhases]
        /\ \A x \in NestedCall : nestedPhase'[x] # nestedPhase[x] =>
             nestedPhase[x] \in UnderWay \ {"approving"} /\ nestedPhase'[x] \in UnderWay \ {"approving"}
    BY <2>1, InterruptedMember DEF NestedShape, UnderWay
  <2>3. /\ Lists(queue, Phased(nestedPhase, "queued"))'
        /\ Lists(nestedApprovals, Phased(nestedPhase, "approving"))'
        /\ Counted(nestedPhase, activeCount, exclusiveActive)'
        /\ NoSlotIsWasted'
        /\ Phased(nestedPhase', "approving") = Phased(nestedPhase, "approving")
    BY <2>1, <2>2, QueuesKeep
  <2>4. (outer = "running" => WaitsFor(Phased(nestedPhase, "approving"), waitingApprovals, deadline))'
    BY <2>1, <2>3 DEF WaitsFor, Phased
  <2>5. NestedShape'
    BY <2>1, <2>2 DEF NestedShape
  <2>6. SignalsAgree'
    <3>1. \A x \in NestedCall : nestedPhase'[x] =
             IF nestedPhase[x] = "executing" THEN "cancelling" ELSE nestedPhase[x]
      BY <2>1, InterruptedMember DEF NestedShape
    <3>. QED BY <2>1, <3>1 DEF SignalsAgree, In
  <2>. QED BY <2>3, <2>4, <2>5, <2>6
<1>9. CASE OuterReturns
  <2>1. /\ outer \in {"running", "interrupted"} /\ deadline' = "off" /\ UNCHANGED nestedPhase
        /\ \/ outer' = "unknown" /\ outer = "interrupted"
           \/ outer' = "settled" /\ script = "returned"
        /\ UNCHANGED <<exclusive, queue, activeCount, exclusiveActive, nestedApprovals>>
        /\ UNCHANGED <<nestedAsking, cancelledCalls, detached, script, waitingApprovals>>
    BY <1>9 DEF OuterReturns
  <2>2. /\ nestedPhase' \in [NestedCall -> NestedPhases]
        /\ \A x \in NestedCall : nestedPhase'[x] # nestedPhase[x] =>
             nestedPhase[x] \in UnderWay \ {"approving"} /\ nestedPhase'[x] \in UnderWay \ {"approving"}
    BY <2>1 DEF NestedShape
  <2>3. /\ Lists(queue, Phased(nestedPhase, "queued"))'
        /\ Lists(nestedApprovals, Phased(nestedPhase, "approving"))'
        /\ Counted(nestedPhase, activeCount, exclusiveActive)'
        /\ NoSlotIsWasted'
        /\ Phased(nestedPhase', "approving") = Phased(nestedPhase, "approving")
    BY <2>1, <2>2, QueuesKeep
  <2>4. (outer = "running" => WaitsFor(Phased(nestedPhase, "approving"), waitingApprovals, deadline))'
    BY <2>1, <2>3 DEF WaitsFor, Phased
  <2>5. NestedShape'
    BY <2>1, <2>2 DEF NestedShape
  <2>6. SignalsAgree'
    BY <2>1 DEF SignalsAgree, In
  <2>. QED BY <2>3, <2>4, <2>5, <2>6
<1>10. CASE AskApproval \/ UNCHANGED nestedVars
  <2>1. /\ nestedAsking' \in BOOLEAN /\ UNCHANGED nestedPhase
        /\ UNCHANGED <<exclusive, queue, activeCount, exclusiveActive, nestedApprovals>>
        /\ UNCHANGED <<cancelledCalls, detached, script, outer, waitingApprovals, deadline>>
    BY <1>10 DEF AskApproval, nestedVars, NestedShape
  <2>2. /\ nestedPhase' \in [NestedCall -> NestedPhases]
        /\ \A x \in NestedCall : nestedPhase'[x] # nestedPhase[x] =>
             nestedPhase[x] \in UnderWay \ {"approving"} /\ nestedPhase'[x] \in UnderWay \ {"approving"}
    BY <2>1 DEF NestedShape
  <2>3. /\ Lists(queue, Phased(nestedPhase, "queued"))'
        /\ Lists(nestedApprovals, Phased(nestedPhase, "approving"))'
        /\ Counted(nestedPhase, activeCount, exclusiveActive)'
        /\ NoSlotIsWasted'
        /\ Phased(nestedPhase', "approving") = Phased(nestedPhase, "approving")
    BY <2>1, <2>2, QueuesKeep
  <2>4. (outer = "running" => WaitsFor(Phased(nestedPhase, "approving"), waitingApprovals, deadline))'
    BY <2>1, <2>3 DEF WaitsFor, Phased
  <2>5. NestedShape'
    BY <2>1, <2>2 DEF NestedShape
  <2>6. SignalsAgree'
    BY <2>1 DEF SignalsAgree, In
  <2>. QED BY <2>3, <2>4, <2>5, <2>6
<1>. QED
  BY <1>1, <1>2, <1>3, <1>4, <1>5, <1>6, <1>7, <1>8, <1>9, <1>10 DEF NestedNext, NestedGoesOn

\* The invariant, of every behaviour.
THEOREM NestedInvariance == NestedSpec => []NestedInv
<1>. QED BY NestedInitInv, NestedStep, PTL DEF NestedSpec

\* The barrier, the counters, the pause of the outer deadline and the queue
\* agree with the calls under way, whatever the script, its tools, hooks and
\* signals do (nested.ts:57-104, 110-163, invocation.ts:84-113).
THEOREM NestedSafe == NestedSpec => []NestedIsSafe
<1>1. NestedInv => NestedIsSafe
  <2>. SUFFICES ASSUME NestedInv PROVE NestedIsSafe
    OBVIOUS
  <2>. USE DEF NestedInv
  <2>1. NestedTypeOK
    BY DEF NestedShape, NestedPhases, NestedTypeOK
  <2>2. /\ NestedActive = ActiveIn(nestedPhase) /\ In("approving") = Phased(nestedPhase, "approving")
    BY DEF NestedActive, In, ActiveIn, UnderWay, Phased
  <2>3. \A c \in In("executing") \cap exclusive : detached \subseteq {c}
    BY DEF SignalsAgree
  <2>4. ExclusiveIsAlone
    BY <2>2, <2>3 DEF Counted, ExclusiveIsAlone
  <2>5. ToSet(nestedApprovals) = In("approving")
    <3>1. DOMAIN nestedApprovals = 1..Len(nestedApprovals)
      BY DEF NestedShape
    <3>. QED BY <2>2, <3>1 DEF Lists, ToSet
  <2>6. DeadlineWaitsForApprovals
    BY <2>2, <2>5 DEF WaitsFor, DeadlineWaitsForApprovals
  <2>. QED BY <2>1, <2>4, <2>6 DEF NestedIsSafe
<1>. QED BY NestedInvariance, <1>1, PTL

\* What the script left behind cannot stop run_code once it has returned, and
\* nobody is asked about a call that is cancelled already (nested.ts:121-130).
THEOREM LeftCallsDoNotInterrupt == NestedSpec => LeftCallsAreHarmless
<1>. DEFINE Harmless ==
       /\ outer' = "interrupted" /\ outer = "running" /\ script = "returned" =>
            \E reason \in {"deadline", "run_aborted"} : OuterInterrupted(reason)
       /\ nestedAsking' /\ ~nestedAsking => ~IsAborted(Head(nestedApprovals))
<1>1. ASSUME NestedInv, [NestedNext]_nestedVars PROVE Harmless \/ UNCHANGED nestedVars
  <2>1. ASSUME NEW approved \in BOOLEAN, ApprovalReturns(approved) PROVE Harmless
    <3>. DEFINE c == Head(nestedApprovals)
    <3>1. nestedApprovals \in Seq(NestedCall) /\ nestedApprovals # <<>>
      BY <1>1, <2>1 DEF ApprovalReturns, NestedInv, NestedShape
    <3>2. c = nestedApprovals[1] /\ 1 \in 1..Len(nestedApprovals)
      BY <3>1
    <3>3. c \in NestedCall /\ nestedPhase[c] = "approving"
      BY <1>1, <3>2 DEF NestedInv, Lists, Phased
    <3>. HIDE DEF c
    <3>4. script = "returned" => IsAborted(c)
      BY <1>1, <3>3 DEF NestedInv, SignalsAgree, IsAborted
    <3>5. outer' \in {outer, OnAbortRun(c)} /\ ~nestedAsking'
      BY <2>1 DEF ApprovalReturns, c
    <3>. QED BY <3>4, <3>5 DEF OnAbortRun
  <2>2. ASSUME NEW c \in NestedCall, NestedDeadline(c) PROVE Harmless
    BY <1>1, <2>2 DEF NestedDeadline, NestedInv, SignalsAgree, In
  <2>3. ASSUME NEW c \in NestedCall,
               CallNested(c) \/ ToolReturns(c) \/ StartNested(c) \/ GraceEnds(c) \/ FinishNested(c)
        PROVE  Harmless
    <3>1. outer' = outer /\ nestedAsking' = nestedAsking
      BY <2>3 DEF CallNested, ToolReturns, StartNested, GraceEnds, FinishNested
    <3>. QED BY <3>1
  <2>4. ASSUME NEW reason \in {"deadline", "run_aborted"}, OuterInterrupted(reason) PROVE Harmless
    <3>1. ~(nestedAsking' /\ ~nestedAsking)
      BY <2>4 DEF OuterInterrupted
    <3>. QED BY <2>4, <3>1
  <2>5. CASE ScriptReturns \/ OuterReturns
    BY <2>5 DEF ScriptReturns, OuterReturns
  <2>6. CASE AskApproval
    BY <2>6 DEF AskApproval
  <2>. QED BY <1>1, <2>1, <2>2, <2>3, <2>4, <2>5, <2>6 DEF NestedNext, NestedGoesOn
<1>. QED BY NestedInvariance, <1>1, PTL DEF NestedSpec, LeftCallsAreHarmless
-----------------------------------------------------------------------------
(* The inductive invariant.  Its parts are stated of a scheduler state p,
   phases ph, and what the tools do, so that they can be said both of the
   state an action computes and of what Apply makes of that. *)
PoolStates ==
  [last : 0..N, next : 1..(N + 1), stopped : BOOLEAN, abortRun : BOOLEAN, failure : BOOLEAN]

Waiting == {"rejected", "approval", "starting"}
Executing == {"running", "grace"}
Over == {"publishing", "slotted"}

\* The scheduler has claimed calls of its group only, and stopped for a reason.
SchedulerOK(p) ==
  /\ p \in PoolStates
  /\ p.next <= p.last + 1
  /\ p.stopped <=> p.abortRun \/ p.failure

\* A call that was not started has no result; one that runs beyond its grace
\* period stopped the pool, and is the only one to run when it has a result.
CallOK(c, p, ph, phys, res) ==
  /\ ph[c] \in {"queued"} \cup Waiting => phys[c] = "no" /\ res[c] = "none"
  /\ ph[c] \in Executing => phys[c] = "running" /\ res[c] = "none"
  /\ ph[c] = "grace" => p.abortRun
  /\ ph[c] \in Over =>
       /\ res[c] # "none"
       /\ res[c] \in {"outcome", "interrupted"} => phys[c] = "settled"
       /\ res[c] \in {"cancelled", "answered"} => phys[c] = "no"
       /\ phys[c] = "running" => res[c] \in {"unknown", "error"} /\ p.abortRun
       /\ res[c] \in {"interrupted", "unknown"} => p.abortRun

\* The calls before next were claimed; a later one was not, unless it was
\* cancelled by a pool that was stopped.
ClaimOK(c, p, ph, phys) ==
  /\ c < p.next => ph[c] # "queued"
  /\ c >= p.next => ph[c] \in {"queued"} \cup Over /\ phys[c] = "no"
  /\ c >= p.next /\ c <= p.last /\ ph[c] # "queued" => p.stopped

\* The calls that hold a worker of the group, or still run without one.
Holds(c, p, ph, phys) == c < p.next /\ (ph[c] # "slotted" \/ phys[c] = "running")
Workers(p, ph, phys) == {c \in Calls : Holds(c, p, ph, phys)}

\* Those and the calls that the group may still claim are free to run together,
\* and there is a worker for each that runs.
GroupOK(p, ph, phys) ==
  \A c, d \in Calls :
    /\ c # d
    /\ Holds(c, p, ph, phys) \/ c \in p.next..p.last
    /\ Holds(d, p, ph, phys) \/ d \in p.next..p.last
    => Joins(c)
WorkersOK(p, ph, phys) == Cardinality(Workers(p, ph, phys)) <= MaxParallel

\* Each call that waits for its approval is queued once or is being asked about.
ApprovalsOK(ph, asks, asked) ==
  /\ asks \in Seq(Calls) /\ asked \in 0..N
  /\ \A k \in 1..Len(asks) : ph[asks[k]] = "approval" /\ asks[k] # asked
  /\ \A j, k \in 1..Len(asks) : asks[j] = asks[k] => j = k
  /\ asked # 0 => ph[asked] = "approval"

CallsOK(p, ph, phys, res) ==
  \A c \in Calls : CallOK(c, p, ph, phys, res) /\ ClaimOK(c, p, ph, phys)

TypesOK(ph, phys, res) ==
  /\ ph \in [Calls -> CallPhases]
  /\ phys \in [Calls -> {"no", "running", "settled"}]
  /\ res \in [Calls -> Results \cup {"none"}]

Sound(p, ph, phys, res, asks, asked) ==
  /\ SchedulerOK(p) /\ TypesOK(ph, phys, res) /\ CallsOK(p, ph, phys, res)
  /\ GroupOK(p, ph, phys) /\ WorkersOK(p, ph, phys) /\ ApprovalsOK(ph, asks, asked)

\* A pool that was not stopped and has calls left to claim has a worker.
HasWorker(p, ph) ==
  ~p.stopped /\ p.next <= p.last => \E c \in Calls : c < p.next /\ ph[c] # "slotted"

InGroup == pc \in {"group", "failing"}

\* What execute() has committed, and where its calls are.
CommittedOK ==
  /\ committed \in Seq([call : Calls, result : Results]) /\ Len(committed) <= N
  /\ \A k \in 1..Len(committed) :
       /\ phase[k] = "slotted"
       /\ committed[k] = [call |-> k, result |-> result[k]]

TurnOK ==
  /\ ~InGroup => \A c \in Calls : phase[c] \in {"queued", "slotted"}
  /\ pc = "turn" => \A c \in Calls : c >= NextCall => phase[c] = "queued"
  /\ pc = "rest" => NextCall <= N /\ \A c \in Calls : c > NextCall => phase[c] = "queued"
  /\ pc \in {"context", "done"} => Len(committed) = N
  /\ pc \in {"turn", "rest", "context", "done"} =>
       pool.last < NextCall /\ ~pool.failure /\ (pool.abortRun => turnAborted)
  /\ InGroup => /\ NextCall <= pool.last + 1
                /\ \A c \in Calls : c > pool.last => phase[c] = "queued"
                /\ HasWorker(pool, phase)

OwnTypeOK ==
  /\ tool \in [Calls -> Tools] /\ pc \in PCs
  /\ eventError \in BOOLEAN /\ aborted \in BOOLEAN /\ turnAborted \in BOOLEAN
  /\ faults \in 0..FaultBound

PoolInv ==
  /\ OwnTypeOK /\ CommittedOK /\ TurnOK
  /\ Sound(pool, phase, physical, result, approvals, asking)

-----------------------------------------------------------------------------
(* The scheduler and what it interrupts. *)
LEMMA StopTypes ==
  ASSUME NEW p, SchedulerOK(p)
  PROVE  /\ SchedulerOK(StopForAbort(p)) /\ SchedulerOK(StopForFailure(p))
         /\ StopForAbort(p).next = p.next /\ StopForAbort(p).last = p.last
         /\ StopForAbort(p).failure = p.failure /\ StopForAbort(p).abortRun
         /\ StopForAbort(p).stopped
         /\ StopForFailure(p).next = p.next /\ StopForFailure(p).last = p.last
         /\ StopForFailure(p).abortRun = p.abortRun /\ StopForFailure(p).stopped
BY DEF SchedulerOK, PoolStates, StopForAbort, StopForFailure

\* What Apply changes: running calls may be interrupted, which stops the pool.
LEMMA ApplyEffect ==
  ASSUME NEW p, NEW ph, NEW signal, Apply(p, ph, signal), SchedulerOK(p), ph \in [Calls -> CallPhases]
  PROVE  /\ SchedulerOK(pool') /\ phase' \in [Calls -> CallPhases]
         /\ pool'.next = p.next /\ pool'.last = p.last /\ pool'.failure = p.failure
         /\ p.stopped => pool'.stopped
         /\ p.abortRun => pool'.abortRun
         /\ \A c \in Calls : \/ phase'[c] = ph[c]
                             \/ ph[c] = "running" /\ phase'[c] = "grace" /\ pool'.abortRun
         /\ pool' # p => \E c \in Calls : ph[c] = "running"
<1> DEFINE cut == {c \in Calls : ph[c] = "running" /\ (signal \/ p.stopped)}
<1>1. /\ phase' = [c \in Calls |-> IF c \in cut THEN "grace" ELSE ph[c]]
      /\ pool' = IF cut = {} THEN p ELSE StopForAbort(p)
  BY DEF Apply
<1>2. phase' \in [Calls -> CallPhases]
  BY <1>1 DEF CallPhases
<1>3. CASE cut = {}
  BY <1>1, <1>2, <1>3
<1>4. CASE cut # {}
  BY <1>1, <1>2, <1>4, StopTypes
<1> QED BY <1>3, <1>4

\* It keeps the parts of the invariant that speak of calls.
LEMMA ApplyKeeps ==
  ASSUME NEW p, NEW ph, NEW signal, Apply(p, ph, signal), UNCHANGED tool,
         Sound(p, ph, physical', result', approvals', asking')
  PROVE  Sound(pool, phase, physical, result, approvals, asking)'
<1> USE DEF Sound
<1>1. /\ SchedulerOK(pool') /\ phase' \in [Calls -> CallPhases]
      /\ pool'.next = p.next /\ pool'.last = p.last
      /\ p.stopped => pool'.stopped
      /\ p.abortRun => pool'.abortRun
      /\ \A c \in Calls : \/ phase'[c] = ph[c]
                          \/ ph[c] = "running" /\ phase'[c] = "grace" /\ pool'.abortRun
  BY ApplyEffect DEF TypesOK
<1>2. TypesOK(phase', physical', result')
  BY <1>1 DEF TypesOK
<1>3. CallsOK(pool', phase', physical', result')
  <2> SUFFICES ASSUME NEW c \in Calls
               PROVE  CallOK(c, pool', phase', physical', result') /\ ClaimOK(c, pool', phase', physical')
    BY DEF CallsOK
  <2>1. CallOK(c, p, ph, physical', result') /\ ClaimOK(c, p, ph, physical')
    BY DEF CallsOK
  <2> QED BY <1>1, <2>1 DEF CallOK, ClaimOK, Waiting, Executing, Over
<1>4. \A c \in Calls : Holds(c, pool', phase', physical') <=> Holds(c, p, ph, physical')
  BY <1>1 DEF Holds
<1>5. GroupOK(pool', phase', physical') /\ WorkersOK(pool', phase', physical')
  <2>1. Workers(pool', phase', physical') = Workers(p, ph, physical')
    BY <1>4 DEF Workers
  <2>2. GroupOK(pool', phase', physical')
    BY <1>1, <1>4 DEF GroupOK, Joins
  <2> QED BY <2>1, <2>2 DEF WorkersOK
<1>6. ApprovalsOK(phase', approvals', asking')
  <2>1. \A c \in Calls : ph[c] = "approval" => phase'[c] = "approval"
    BY <1>1
  <2>2. \A k \in 1..Len(approvals') : approvals'[k] \in Calls
    BY ElementOfSeq DEF ApprovalsOK
  <2>3. asking' # 0 => asking' \in Calls
    BY ToolPoolAssumption DEF ApprovalsOK, Calls
  <2>4. \A k \in 1..Len(approvals') : phase'[approvals'[k]] = "approval"
    BY <2>1, <2>2 DEF ApprovalsOK
  <2>5. asking' # 0 => phase'[asking'] = "approval"
    BY <2>1, <2>3 DEF ApprovalsOK
  <2> QED BY <2>4, <2>5 DEF ApprovalsOK
<1>7. GroupOK(pool, phase, physical)'
  BY <1>5 DEF GroupOK, Joins
<1> QED BY <1>1, <1>2, <1>3, <1>5, <1>6, <1>7

-----------------------------------------------------------------------------
(* The asks of approvals. *)
LEMMA ApprovalsOther ==
  ASSUME ApprovalsOK(phase, approvals, asking), phase \in [Calls -> CallPhases],
         NEW c \in Calls, NEW to, phase[c] # "approval"
  PROVE  ApprovalsOK([phase EXCEPT ![c] = to], approvals, asking)
<1>1. \A k \in 1..Len(approvals) : approvals[k] \in Calls /\ approvals[k] # c
  BY ElementOfSeq DEF ApprovalsOK
<1>2. asking # 0 => asking \in Calls /\ asking # c
  BY ToolPoolAssumption DEF ApprovalsOK, Calls
<1>3. \A k \in 1..Len(approvals) : [phase EXCEPT ![c] = to][approvals[k]] = "approval"
  BY <1>1 DEF ApprovalsOK
<1>4. asking # 0 => [phase EXCEPT ![c] = to][asking] = "approval"
  BY <1>2 DEF ApprovalsOK
<1> QED BY <1>3, <1>4 DEF ApprovalsOK

LEMMA ApprovalsAnswered ==
  ASSUME ApprovalsOK(phase, approvals, asking), phase \in [Calls -> CallPhases],
         NEW c \in Calls, NEW to, asking = c
  PROVE  ApprovalsOK([phase EXCEPT ![c] = to], approvals, 0)
<1>1. \A k \in 1..Len(approvals) : approvals[k] \in Calls /\ approvals[k] # c
  BY ElementOfSeq DEF ApprovalsOK
<1>2. \A k \in 1..Len(approvals) : [phase EXCEPT ![c] = to][approvals[k]] = "approval"
  BY <1>1 DEF ApprovalsOK
<1>3. \A k \in 1..Len(approvals) : approvals[k] # 0
  BY <1>1, ToolPoolAssumption DEF Calls
<1> QED BY <1>2, <1>3, ToolPoolAssumption DEF ApprovalsOK

LEMMA TailOfApprovals ==
  ASSUME NEW q \in Seq(Calls), q # <<>>
  PROVE  /\ Tail(q) \in Seq(Calls) /\ Len(Tail(q)) = Len(q) - 1 /\ Len(q) \in Nat /\ Len(q) >= 1
         /\ \A k \in 1..Len(Tail(q)) : Tail(q)[k] = q[k + 1] /\ k + 1 \in 1..Len(q)
         /\ Head(q) = q[1] /\ 1 \in 1..Len(q) /\ Head(q) \in Calls
<1>1. Len(q) \in Nat /\ Len(q) >= 1
  BY EmptySeq, LenProperties
<1>2. /\ Tail(q) \in Seq(Calls) /\ Len(Tail(q)) = Len(q) - 1
      /\ \A k \in 1..Len(Tail(q)) : Tail(q)[k] = q[k + 1]
      /\ Head(q) = q[1]
  BY HeadTailProperties
<1>3. q[1] \in Calls
  BY <1>1, ElementOfSeq
<1> QED BY <1>1, <1>2, <1>3

LEMMA ApprovalsTaken ==
  ASSUME ApprovalsOK(phase, approvals, asking), phase \in [Calls -> CallPhases],
         NEW c \in Calls, NEW to, asking = 0, approvals # <<>>, Head(approvals) = c
  PROVE  /\ ApprovalsOK([phase EXCEPT ![c] = to], Tail(approvals), 0)
         /\ ApprovalsOK(phase, Tail(approvals), c)
         /\ phase[c] = "approval"
<1> DEFINE q == approvals
           rest == Tail(approvals)
<1>1. /\ q \in Seq(Calls) /\ q[1] = c /\ phase[c] = "approval"
      /\ \A j, k \in 1..Len(q) : q[j] = q[k] => j = k
      /\ \A k \in 1..Len(q) : phase[q[k]] = "approval" /\ q[k] # 0
  BY TailOfApprovals DEF ApprovalsOK
<1>2. /\ rest \in Seq(Calls) /\ Len(rest) = Len(q) - 1 /\ Len(q) \in Nat /\ Len(q) >= 1
      /\ \A k \in 1..Len(rest) : rest[k] = q[k + 1] /\ k + 1 \in 1..Len(q)
  BY <1>1, TailOfApprovals
<1>3. \A k \in 1..Len(rest) : rest[k] \in Calls /\ rest[k] # c /\ phase[rest[k]] = "approval"
                              /\ rest[k] # 0
  <2> SUFFICES ASSUME NEW k \in 1..Len(rest)
               PROVE  rest[k] \in Calls /\ rest[k] # c /\ phase[rest[k]] = "approval" /\ rest[k] # 0
    OBVIOUS
  <2>1. rest[k] = q[k + 1] /\ k + 1 \in 1..Len(q) /\ 1 \in 1..Len(q) /\ k + 1 # 1
    BY <1>2
  <2>2. q[k + 1] \in Calls
    BY <1>1, <2>1, ElementOfSeq
  <2> QED BY <1>1, <2>1, <2>2
<1>4. \A j, k \in 1..Len(rest) : rest[j] = rest[k] => j = k
  <2> SUFFICES ASSUME NEW j \in 1..Len(rest), NEW k \in 1..Len(rest), rest[j] = rest[k]
               PROVE  j = k
    OBVIOUS
  <2>1. q[j + 1] = q[k + 1] /\ j + 1 \in 1..Len(q) /\ k + 1 \in 1..Len(q)
    BY <1>2
  <2>2. j + 1 = k + 1
    BY <1>1, <2>1
  <2> QED BY <2>2
<1>5. \A k \in 1..Len(rest) : [phase EXCEPT ![c] = to][rest[k]] = "approval"
  BY <1>3
<1>6. 0 \in 0..N /\ c \in 0..N /\ c # 0
  BY ToolPoolAssumption DEF Calls
<1>7. ApprovalsOK([phase EXCEPT ![c] = to], rest, 0)
  BY <1>2, <1>3, <1>4, <1>5, <1>6 DEF ApprovalsOK
<1>8. ApprovalsOK(phase, rest, c)
  BY <1>1, <1>2, <1>3, <1>4, <1>6 DEF ApprovalsOK
<1> QED BY <1>1, <1>7, <1>8

-----------------------------------------------------------------------------
(* One call takes a step between two awaits. *)
LEMMA StepOfCall ==
  ASSUME PoolInv, NEW c \in Calls, NEW p, NEW to \in CallPhases, NEW signal,
         SchedulerOK(p), p.next = pool.next, p.last = pool.last,
         pool.stopped => p.stopped, pool.abortRun => p.abortRun,
         p.failure = pool.failure,
         phase[c] \in Waiting \cup Executing, to \notin {"queued", "slotted"},
         TypesOK([phase EXCEPT ![c] = to], physical', result'),
         \A d \in Calls \ {c} : physical'[d] = physical[d] /\ result'[d] = result[d],
         CallOK(c, p, [phase EXCEPT ![c] = to], physical', result'),
         ApprovalsOK([phase EXCEPT ![c] = to], approvals', asking'),
         Apply(p, [phase EXCEPT ![c] = to], signal),
         UNCHANGED <<tool, pc, aborted, turnAborted, committed>>,
         eventError' \in BOOLEAN, faults' \in 0..FaultBound
  PROVE  PoolInv'
<1> DEFINE ph == [phase EXCEPT ![c] = to]
<1> USE DEF PoolInv, Sound
<1>0. /\ phase \in [Calls -> CallPhases] /\ ph \in [Calls -> CallPhases]
      /\ ph[c] = to /\ \A d \in Calls \ {c} : ph[d] = phase[d]
      /\ phase[c] \notin {"queued", "slotted"}
  BY DEF TypesOK, Waiting, Executing
<1>1. c < p.next /\ c <= p.last /\ c \in Nat /\ p.next \in Nat /\ p.last \in Nat
  <2>1. ClaimOK(c, pool, phase, physical) /\ SchedulerOK(pool)
    BY DEF CallsOK
  <2>2. c \in Nat /\ p.next \in Nat /\ p.last \in Nat /\ p.next <= p.last + 1
    BY <2>1, ToolPoolAssumption DEF Calls, SchedulerOK, PoolStates
  <2> QED BY <2>1, <2>2 DEF ClaimOK, Waiting, Executing, Over
<1>2. CallsOK(p, ph, physical', result')
  <2> SUFFICES ASSUME NEW d \in Calls
               PROVE  CallOK(d, p, ph, physical', result') /\ ClaimOK(d, p, ph, physical')
    BY DEF CallsOK
  <2>1. CallOK(d, pool, phase, physical, result) /\ ClaimOK(d, pool, phase, physical)
    BY DEF CallsOK
  <2>2. CASE d = c
    BY <1>0, <1>1, <2>2 DEF ClaimOK
  <2>3. CASE d # c
    BY <1>0, <2>1, <2>3 DEF CallOK, ClaimOK
  <2> QED BY <2>2, <2>3
<1>3. \A d \in Calls : Holds(d, p, ph, physical') <=> Holds(d, pool, phase, physical)
  BY <1>0, <1>1 DEF Holds
<1>4. GroupOK(p, ph, physical') /\ WorkersOK(p, ph, physical')
  <2>1. Workers(p, ph, physical') = Workers(pool, phase, physical)
    BY <1>3 DEF Workers
  <2>2. GroupOK(p, ph, physical')
    BY <1>3 DEF GroupOK
  <2> QED BY <2>1, <2>2 DEF WorkersOK
<1>5. Sound(p, ph, physical', result', approvals', asking')
  BY <1>2, <1>4
<1>6. Sound(pool, phase, physical, result, approvals, asking)'
  BY <1>5, ApplyKeeps
<1>7. /\ pool'.next = pool.next /\ pool'.last = pool.last /\ pool'.failure = pool.failure
      /\ \A d \in Calls : \/ phase'[d] = ph[d]
                          \/ ph[d] = "running" /\ phase'[d] = "grace" /\ pool'.abortRun
  BY <1>0, ApplyEffect
<1>8. InGroup /\ pc \in PCs
  BY <1>0 DEF TurnOK, OwnTypeOK
<1>9. TurnOK'
  <2>1. c < pool'.next /\ phase'[c] # "slotted"
    BY <1>0, <1>1, <1>7
  <2>2. HasWorker(pool', phase')
    BY <2>1 DEF HasWorker
  <2>3. \A d \in Calls : d > pool'.last => phase'[d] = "queued"
    BY <1>0, <1>1, <1>7, <1>8 DEF TurnOK
  <2>4. InGroup' /\ NextCall' = NextCall
    BY <1>8 DEF InGroup, NextCall
  <2> QED BY <1>7, <1>8, <2>2, <2>3, <2>4 DEF TurnOK, InGroup
<1>10. CommittedOK'
  <2>1. \A k \in 1..Len(committed) : k \in Calls
    BY LenProperties, ToolPoolAssumption DEF CommittedOK, Calls
  <2>2. \A k \in 1..Len(committed) : phase[k] = "slotted" /\ k \in Calls \ {c}
    BY <1>0, <2>1 DEF CommittedOK
  <2>3. \A k \in 1..Len(committed) : phase'[k] = "slotted" /\ result'[k] = result[k]
    BY <1>0, <1>7, <2>2
  <2> QED BY <2>3 DEF CommittedOK
<1>11. OwnTypeOK'
  BY DEF OwnTypeOK
<1> QED BY <1>6, <1>9, <1>10, <1>11

\* What the step of a call needs of a state that satisfies the invariant.
LEMMA AtCall ==
  ASSUME PoolInv, NEW c \in Calls
  PROVE  /\ SchedulerOK(pool) /\ SchedulerOK(StopForAbort(pool))
         /\ StopForAbort(pool).next = pool.next /\ StopForAbort(pool).last = pool.last
         /\ StopForAbort(pool).failure = pool.failure
         /\ StopForAbort(pool).stopped /\ StopForAbort(pool).abortRun
         /\ phase \in [Calls -> CallPhases] /\ TypesOK(phase, physical, result)
         /\ CallOK(c, pool, phase, physical, result)
         /\ ApprovalsOK(phase, approvals, asking)
         /\ eventError \in BOOLEAN /\ faults \in 0..FaultBound
BY StopTypes DEF PoolInv, Sound, CallsOK, TypesOK, OwnTypeOK

LEMMA FaultTypes ==
  ASSUME faults \in 0..FaultBound, eventError \in BOOLEAN
  PROVE  /\ Fault => faults' \in 0..FaultBound
         /\ Delivered \/ DeliveryFails \/ Drain => faults' \in 0..FaultBound /\ eventError' \in BOOLEAN
<1>1. Fault => faults' \in 0..FaultBound
  BY ToolPoolAssumption DEF Fault
<1>2. Delivered => UNCHANGED <<faults, eventError>>
  BY DEF Delivered
<1>3. DeliveryFails => eventError' = FALSE /\ (UNCHANGED faults \/ Fault)
  BY DEF DeliveryFails
<1>4. Drain => eventError' = FALSE /\ UNCHANGED faults
  BY DEF Drain
<1> QED BY <1>1, <1>2, <1>3, <1>4

\* The call leaves an await in which no approval is at stake.
LEMMA RejectArgumentsInv == ASSUME PoolInv, NEW c \in Calls, RejectArguments(c) PROVE PoolInv'
<1>1. TypesOK([phase EXCEPT ![c] = "publishing"], physical', result')
  BY AtCall DEF TypesOK, RejectArguments, Become, CallPhases, Results
<1>2. CallOK(c, pool, [phase EXCEPT ![c] = "publishing"], physical', result')
  BY AtCall DEF TypesOK, CallOK, RejectArguments, Become, Waiting, Executing, Over
<1>3. ApprovalsOK([phase EXCEPT ![c] = "publishing"], approvals', asking')
  BY AtCall, ApprovalsOther DEF RejectArguments
<1>4. eventError' \in BOOLEAN /\ faults' \in 0..FaultBound
  BY AtCall, FaultTypes DEF RejectArguments
<1>5. \A d \in Calls \ {c} : physical'[d] = physical[d] /\ result'[d] = result[d]
  BY AtCall DEF TypesOK, RejectArguments, Become
<1> QED BY <1>1, <1>2, <1>3, <1>4, <1>5, AtCall, StepOfCall
        DEF RejectArguments, Become, Waiting, CallPhases

LEMMA StartInv == ASSUME PoolInv, NEW c \in Calls, Start(c) PROVE PoolInv'
<1>1. PICK to \in {"running", "publishing"} :
        /\ Apply(pool, [phase EXCEPT ![c] = to], aborted)
        /\ result' = [result EXCEPT ![c] = IF to = "running" THEN "none" ELSE "error"]
        /\ physical' = IF to = "running" THEN [physical EXCEPT ![c] = "running"] ELSE physical
  BY DEF Start, Become
<1>2. TypesOK([phase EXCEPT ![c] = to], physical', result')
  BY <1>1, AtCall DEF TypesOK, CallPhases, Results
<1>3. CallOK(c, pool, [phase EXCEPT ![c] = to], physical', result')
  BY <1>1, AtCall DEF TypesOK, CallOK, Start, Waiting, Executing, Over
<1>4. ApprovalsOK([phase EXCEPT ![c] = to], approvals', asking')
  BY AtCall, ApprovalsOther DEF Start
<1>5. eventError' \in BOOLEAN /\ faults' \in 0..FaultBound
  BY AtCall, FaultTypes DEF Start
<1>6. \A d \in Calls \ {c} : physical'[d] = physical[d] /\ result'[d] = result[d]
  BY <1>1, AtCall DEF TypesOK
<1> QED BY <1>1, <1>2, <1>3, <1>4, <1>5, <1>6, AtCall, StepOfCall
        DEF Start, Waiting, CallPhases

LEMMA SettleInv ==
  ASSUME PoolInv, NEW c \in Calls, Settle(c) \/ SettleInGrace(c) \/ Orphan(c)
  PROVE  PoolInv'
<1>1. PICK r \in {"outcome", "interrupted", "unknown", "error"} :
        /\ Apply(pool, [phase EXCEPT ![c] = "publishing"], aborted)
        /\ result' = [result EXCEPT ![c] = r]
        /\ physical' = IF Orphan(c) THEN physical ELSE [physical EXCEPT ![c] = "settled"]
        /\ r \in {"outcome", "interrupted"} => ~Orphan(c)
        /\ phase[c] \in Executing
        /\ r \in {"interrupted", "unknown"} \/ Orphan(c) => phase[c] = "grace"
  BY DEF Settle, SettleInGrace, Orphan, Become, Drained, Executing
<1>2. TypesOK([phase EXCEPT ![c] = "publishing"], physical', result')
  BY <1>1, AtCall DEF TypesOK, CallPhases, Results
<1>3. CallOK(c, pool, [phase EXCEPT ![c] = "publishing"], physical', result')
  BY <1>1, AtCall DEF TypesOK, CallOK, Waiting, Executing, Over
<1>4. UNCHANGED <<approvals, asking>> /\ UNCHANGED <<tool, pc, aborted, turnAborted, committed>> /\ Drain
  BY DEF Settle, SettleInGrace, Orphan
<1>5. ApprovalsOK([phase EXCEPT ![c] = "publishing"], approvals', asking')
  BY <1>1, <1>4, AtCall, ApprovalsOther DEF Executing
<1>6. eventError' \in BOOLEAN /\ faults' \in 0..FaultBound
  BY <1>4, AtCall, FaultTypes
<1>7. \A d \in Calls \ {c} : physical'[d] = physical[d] /\ result'[d] = result[d]
  BY <1>1, AtCall DEF TypesOK
<1> QED BY <1>1, <1>2, <1>3, <1>4, <1>5, <1>6, <1>7, AtCall, StepOfCall
        DEF Waiting, CallPhases

LEMMA DeadlineInv == ASSUME PoolInv, NEW c \in Calls, Deadline(c) PROVE PoolInv'
<1>1. phase = [phase EXCEPT ![c] = "running"] /\ phase[c] = "running"
  BY AtCall DEF Deadline
<1>2. Apply(StopForAbort(pool), [phase EXCEPT ![c] = "running"], aborted)
  BY <1>1 DEF Deadline
<1>3. UNCHANGED <<tool, pc, physical, result, approvals, asking, eventError,
                  aborted, turnAborted, committed, faults>>
  BY DEF Deadline
<1>4. CallOK(c, StopForAbort(pool), [phase EXCEPT ![c] = "running"], physical', result')
  BY <1>1, <1>3, AtCall DEF CallOK, Waiting, Executing, Over
<1>5. /\ TypesOK([phase EXCEPT ![c] = "running"], physical', result')
      /\ ApprovalsOK([phase EXCEPT ![c] = "running"], approvals', asking')
  BY <1>1, <1>3, AtCall
<1> QED BY <1>1, <1>2, <1>3, <1>4, <1>5, AtCall, StepOfCall
        DEF Executing, CallPhases

\* The call leaves the asks of approvals, or the hook has answered it.
LEMMA CancelUnaskedInv == ASSUME PoolInv, NEW c \in Calls, CancelUnasked(c) PROVE PoolInv'
<1>1. phase[c] = "approval" /\ ApprovalsOK([phase EXCEPT ![c] = "publishing"], approvals', asking')
  BY AtCall, ApprovalsTaken DEF CancelUnasked
<1>2. TypesOK([phase EXCEPT ![c] = "publishing"], physical', result')
  BY AtCall DEF TypesOK, CancelUnasked, CallPhases, Results
<1>3. CallOK(c, StopForAbort(pool), [phase EXCEPT ![c] = "publishing"], physical', result')
  BY <1>1, AtCall DEF TypesOK, CallOK, CancelUnasked, Waiting, Executing, Over
<1>4. \A d \in Calls \ {c} : physical'[d] = physical[d] /\ result'[d] = result[d]
  BY AtCall DEF TypesOK, CancelUnasked
<1> QED BY <1>1, <1>2, <1>3, <1>4, AtCall, StepOfCall
        DEF CancelUnasked, Waiting, CallPhases

LEMMA AnswersInv ==
  ASSUME PoolInv, NEW c \in Calls, Answer(c) \/ Refuse(c) \/ HookFails(c)
  PROVE  PoolInv'
<1>1. PICK to \in {"starting", "publishing"}, r \in {"none", "answered", "cancelled", "error"},
           abortRun \in BOOLEAN :
        /\ Apply(IF abortRun THEN StopForAbort(pool) ELSE pool, [phase EXCEPT ![c] = to], aborted)
        /\ result' = [result EXCEPT ![c] = r]
        /\ r = "none" <=> to = "starting"
  <2>1. CASE Answer(c)
    BY <2>1 DEF Answer, Become
  <2>2. CASE Refuse(c)
    BY <2>2 DEF Refuse
  <2>3. CASE HookFails(c)
    BY <2>3 DEF HookFails, Become
  <2> QED BY <2>1, <2>2, <2>3
<1> DEFINE p == IF abortRun THEN StopForAbort(pool) ELSE pool
<1>2. /\ asking = c /\ asking' = 0
      /\ UNCHANGED <<approvals, physical, tool, pc, aborted, turnAborted, committed>>
      /\ UNCHANGED <<eventError, faults>> \/ Drain
  BY DEF Answer, Refuse, HookFails
<1>3. phase[c] = "approval" /\ ApprovalsOK([phase EXCEPT ![c] = to], approvals', asking')
  BY <1>2, AtCall, ApprovalsAnswered, ToolPoolAssumption DEF ApprovalsOK, Calls
<1>4. TypesOK([phase EXCEPT ![c] = to], physical', result')
  BY <1>1, <1>2, AtCall DEF TypesOK, CallPhases, Results
<1>5. /\ SchedulerOK(p) /\ p.next = pool.next /\ p.last = pool.last /\ p.failure = pool.failure
      /\ pool.stopped => p.stopped
      /\ pool.abortRun => p.abortRun
  BY AtCall
<1>6. CallOK(c, p, [phase EXCEPT ![c] = to], physical', result')
  BY <1>1, <1>2, <1>3, AtCall DEF TypesOK, CallOK, Waiting, Executing, Over
<1>7. eventError' \in BOOLEAN /\ faults' \in 0..FaultBound
  BY <1>2, AtCall, FaultTypes
<1>8. \A d \in Calls \ {c} : physical'[d] = physical[d] /\ result'[d] = result[d]
  BY <1>1, <1>2, AtCall DEF TypesOK
<1>9. /\ to \in CallPhases /\ to \notin {"queued", "slotted"} /\ phase[c] \in Waiting \cup Executing
      /\ Apply(p, [phase EXCEPT ![c] = to], aborted)
  BY <1>1, <1>3 DEF CallPhases, Waiting
<1> HIDE DEF p
<1> QED BY <1>2, <1>3, <1>4, <1>5, <1>6, <1>7, <1>8, <1>9, StepOfCall

-----------------------------------------------------------------------------
(* The steps of execute() and of the other awaits. *)
LEMMA CallsAreNumbers ==
  /\ N \in Nat /\ Calls \subseteq Nat /\ 0 \notin Calls
  /\ IsFiniteSet(Calls)
  /\ CommittedOK => Len(committed) \in Nat /\ NextCall \in 1..(N + 1)
                     /\ \A c \in Calls : c < NextCall => phase[c] = "slotted"
<1>1. N \in Nat /\ Calls \subseteq Nat /\ 0 \notin Calls
  BY ToolPoolAssumption DEF Calls
<1>2. IsFiniteSet(Calls)
  BY <1>1, FS_Interval DEF Calls
<1>3. ASSUME CommittedOK
      PROVE  Len(committed) \in Nat /\ NextCall \in 1..(N + 1)
  BY <1>1, <1>3, LenProperties DEF CommittedOK, NextCall
<1>4. ASSUME CommittedOK, NEW c \in Calls, c < NextCall
      PROVE  phase[c] = "slotted"
  <2>1. c \in 1..Len(committed)
    BY <1>1, <1>3, <1>4 DEF Calls, NextCall
  <2> QED BY <2>1, <1>4 DEF CommittedOK
<1> QED BY <1>1, <1>2, <1>3, <1>4

LEMMA FewerWorkers ==
  ASSUME NEW p, NEW ph, NEW phys, NEW p2, NEW ph2, NEW phys2,
         WorkersOK(p, ph, phys), Workers(p2, ph2, phys2) \subseteq Workers(p, ph, phys)
  PROVE  WorkersOK(p2, ph2, phys2)
<1>1. IsFiniteSet(Workers(p, ph, phys))
  BY CallsAreNumbers, FS_Subset DEF Workers
<1>2. /\ Cardinality(Workers(p2, ph2, phys2)) <= Cardinality(Workers(p, ph, phys))
      /\ Cardinality(Workers(p2, ph2, phys2)) \in Nat /\ Cardinality(Workers(p, ph, phys)) \in Nat
  BY <1>1, FS_Subset, FS_CardinalityType
<1> QED BY <1>2, ToolPoolAssumption DEF WorkersOK

\* A scheduler that is stopped keeps the invariant of its calls.
LEMMA SoundStopped ==
  ASSUME NEW p, NEW q, NEW ph, NEW phys, NEW res, NEW asks, NEW asked,
         Sound(p, ph, phys, res, asks, asked), SchedulerOK(q),
         q.next = p.next, q.last = p.last, p.stopped => q.stopped, p.abortRun => q.abortRun
  PROVE  Sound(q, ph, phys, res, asks, asked)
<1>1. CallsOK(q, ph, phys, res)
  <2> SUFFICES ASSUME NEW c \in Calls
               PROVE  CallOK(c, q, ph, phys, res) /\ ClaimOK(c, q, ph, phys)
    BY DEF CallsOK
  <2>1. CallOK(c, p, ph, phys, res) /\ ClaimOK(c, p, ph, phys)
    BY DEF CallsOK, Sound
  <2> QED BY <2>1 DEF CallOK, ClaimOK
<1>2. \A c \in Calls : Holds(c, q, ph, phys) <=> Holds(c, p, ph, phys)
  BY DEF Holds
<1>3. Workers(q, ph, phys) = Workers(p, ph, phys)
  BY <1>2 DEF Workers
<1> QED BY <1>1, <1>2, <1>3 DEF Sound, GroupOK, WorkersOK

LEMMA SoundKept ==
  ASSUME Sound(pool, phase, physical, result, approvals, asking), UNCHANGED <<tool, pool, callVars>>
  PROVE  Sound(pool, phase, physical, result, approvals, asking)'
BY DEF Sound, callVars, GroupOK, Joins, SchedulerOK, PoolStates, TypesOK, CallsOK, WorkersOK, ApprovalsOK

\* What a step within a group leaves alone.
LEMMA RestKept ==
  ASSUME PoolInv, InGroup, pc' \in {"group", "failing"}, UNCHANGED committed, pool'.last = pool.last,
         \A c \in Calls : c > pool.last /\ phase[c] = "queued" => phase'[c] = "queued",
         \A c \in Calls : phase[c] = "slotted" => phase'[c] = "slotted" /\ result'[c] = result[c],
         HasWorker(pool', phase')
  PROVE  TurnOK' /\ CommittedOK'
<1>1. TurnOK'
  BY DEF PoolInv, TurnOK, InGroup, NextCall
<1>2. \A k \in 1..Len(committed) : k \in Calls
  BY CallsAreNumbers DEF PoolInv, CommittedOK, Calls
<1>3. CommittedOK'
  BY <1>2 DEF PoolInv, CommittedOK
<1> QED BY <1>1, <1>3

LEMMA AbortInv == ASSUME PoolInv, Abort PROVE PoolInv'
<1> DEFINE signal == TRUE
<1>1. Sound(pool, phase, physical', result', approvals', asking') /\ UNCHANGED tool /\ Apply(pool, phase, signal)
  BY DEF PoolInv, Abort
<1> HIDE DEF signal
<1>2. Sound(pool, phase, physical, result, approvals, asking)'
  BY <1>1, ApplyKeeps
<1>3. /\ pool'.last = pool.last /\ pool'.next = pool.next /\ pool'.failure = pool.failure
      /\ pool.stopped => pool'.stopped
      /\ \A c \in Calls : phase'[c] = phase[c] \/ (phase[c] = "running" /\ phase'[c] = "grace")
      /\ pool' # pool => \E c \in Calls : phase[c] = "running"
  <2>1. SchedulerOK(pool) /\ phase \in [Calls -> CallPhases]
    BY DEF PoolInv, Sound, TypesOK
  <2>2. /\ SchedulerOK(pool') /\ phase' \in [Calls -> CallPhases]
        /\ pool'.next = pool.next /\ pool'.last = pool.last /\ pool'.failure = pool.failure
        /\ pool.stopped => pool'.stopped
        /\ pool.abortRun => pool'.abortRun
        /\ \A c \in Calls : \/ phase'[c] = phase[c]
                            \/ phase[c] = "running" /\ phase'[c] = "grace" /\ pool'.abortRun
        /\ pool' # pool => \E c \in Calls : phase[c] = "running"
    BY <1>1, <2>1, ApplyEffect
  <2> QED BY <2>2
<1>4. OwnTypeOK'
  BY DEF Abort, PoolInv, OwnTypeOK
<1>5. CASE InGroup
  <2>1. HasWorker(pool', phase')
    BY <1>3, <1>5 DEF PoolInv, TurnOK, HasWorker
  <2>2. TurnOK' /\ CommittedOK'
    BY <1>3, <1>5, <2>1, RestKept DEF Abort, InGroup
  <2> QED BY <1>2, <1>4, <2>2 DEF PoolInv
<1>6. CASE ~InGroup
  <2>1. \A c \in Calls : phase[c] # "running"
    BY <1>6 DEF PoolInv, TurnOK
  <2>2. pool' = pool /\ \A c \in Calls : phase'[c] = phase[c]
    BY <1>3, <2>1
  <2>3. UNCHANGED <<pc, committed, result, turnAborted>>
    BY DEF Abort
  <2>4. TurnOK'
    BY <1>6, <2>2, <2>3 DEF PoolInv, TurnOK, InGroup, NextCall
  <2>5. CommittedOK'
    <3>1. \A k \in 1..Len(committed) : k \in Calls
      BY CallsAreNumbers DEF PoolInv, CommittedOK, Calls
    <3> QED BY <2>2, <2>3, <3>1 DEF PoolInv, CommittedOK
  <2> QED BY <1>2, <1>4, <2>4, <2>5 DEF PoolInv
<1> QED BY <1>5, <1>6

LEMMA CommitResultInv == ASSUME PoolInv, CommitResult PROVE PoolInv'
<1> DEFINE new == [call |-> NextCall, result |-> result[NextCall]]
<1>1. /\ committed \in Seq([call : Calls, result : Results]) /\ NextCall \in Calls
      /\ NextCall = Len(committed) + 1 /\ Len(committed) \in Nat /\ N \in Nat
      /\ phase[NextCall] = "slotted" /\ pc \in {"group", "rest"}
      /\ UNCHANGED <<tool, pool, callVars, eventError, aborted, turnAborted, faults>>
      /\ committed' = Append(committed, new)
      /\ pc' = IF pc = "rest" /\ NextCall = N THEN "context" ELSE pc
      /\ pc = "group" => NextCall <= pool.last
  BY CallsAreNumbers DEF PoolInv, CommittedOK, CommitResult, NextCall, Calls
<1>2. new \in [call : Calls, result : Results]
  <2>1. CallOK(NextCall, pool, phase, physical, result) /\ result[NextCall] \in Results \cup {"none"}
    BY <1>1 DEF PoolInv, Sound, CallsOK, TypesOK
  <2> QED BY <1>1, <2>1 DEF CallOK, Over
<1>3. /\ committed' \in Seq([call : Calls, result : Results]) /\ Len(committed') = NextCall
      /\ \A k \in 1..Len(committed) : committed'[k] = committed[k]
      /\ committed'[NextCall] = new
  BY <1>1, <1>2, AppendProperties
<1>4. CommittedOK'
  <2>1. \A k \in 1..NextCall : k \in 1..Len(committed) \/ k = NextCall
    BY <1>1
  <2>2. \A k \in 1..NextCall : phase[k] = "slotted" /\ committed'[k] = [call |-> k, result |-> result[k]]
    BY <1>1, <1>3, <2>1 DEF PoolInv, CommittedOK
  <2> QED BY <1>1, <1>3, <2>2 DEF CommittedOK, Calls, callVars
<1>5. NextCall' = NextCall + 1
  BY <1>3 DEF NextCall
<1>6. pool.last \in Nat /\ NextCall <= N /\ NextCall \in Nat
  BY <1>1, CallsAreNumbers DEF PoolInv, Sound, SchedulerOK, PoolStates, Calls
<1>7. TurnOK'
  <2>1. CASE pc = "group"
    BY <1>1, <1>5, <1>6, <2>1 DEF PoolInv, TurnOK, InGroup, callVars, HasWorker
  <2>2. CASE pc = "rest"
    <3>1. \A c \in Calls : c > NextCall' => phase[c] = "queued"
      BY <1>5, <1>6, <2>2, CallsAreNumbers DEF PoolInv, TurnOK
    <3>2. NextCall # N => NextCall' <= N
      BY <1>5, <1>6, <1>1
    <3>3. NextCall = N => Len(committed') = N
      BY <1>3
    <3>4. pool.last < NextCall'
      BY <1>5, <1>6, <2>2 DEF PoolInv, TurnOK
    <3>5. (pc' = "rest" /\ NextCall # N) \/ (pc' = "context" /\ NextCall = N)
      BY <1>1, <2>2
    <3> QED BY <1>1, <2>2, <3>1, <3>2, <3>3, <3>4, <3>5 DEF PoolInv, TurnOK, InGroup, callVars
  <2> QED BY <1>1, <2>1, <2>2
<1>8. OwnTypeOK'
  <2>1. pc' \in PCs
    BY <1>1 DEF PCs
  <2> QED BY <1>1, <2>1 DEF PoolInv, OwnTypeOK
<1>9. Sound(pool, phase, physical, result, approvals, asking)'
  BY <1>1, SoundKept DEF PoolInv
<1> QED BY <1>4, <1>7, <1>8, <1>9 DEF PoolInv

LEMMA CommitFailsInv == ASSUME PoolInv, CommitFails PROVE PoolInv'
<1>1. OwnTypeOK'
  BY FaultTypes DEF PoolInv, OwnTypeOK, PCs, CommitFails
<1>2. CASE pc = "group"
  <2> DEFINE q == StopForFailure(pool)
  <2>1. /\ SchedulerOK(q) /\ q.next = pool.next /\ q.last = pool.last /\ q.stopped
        /\ q.abortRun = pool.abortRun /\ phase \in [Calls -> CallPhases]
    BY StopTypes DEF PoolInv, Sound, TypesOK
  <2> HIDE DEF q
  <2>2. Sound(q, phase, physical, result, approvals, asking)
    BY <2>1, SoundStopped DEF PoolInv
  <2>3. Apply(q, phase, aborted) /\ pc' = "failing"
        /\ UNCHANGED <<tool, physical, result, approvals, asking, committed>>
    BY <1>2 DEF CommitFails, q
  <2>4. Sound(pool, phase, physical, result, approvals, asking)'
    BY <2>2, <2>3, ApplyKeeps
  <2>5. /\ pool'.last = q.last
        /\ q.stopped => pool'.stopped
        /\ \A c \in Calls : \/ phase'[c] = phase[c]
                            \/ phase[c] = "running" /\ phase'[c] = "grace" /\ pool'.abortRun
    BY <2>1, <2>3, ApplyEffect
  <2>6. HasWorker(pool', phase')
    BY <2>1, <2>5 DEF HasWorker
  <2>7. TurnOK' /\ CommittedOK'
    BY <1>2, <2>1, <2>3, <2>5, <2>6, RestKept DEF InGroup
  <2> QED BY <1>1, <2>4, <2>7 DEF PoolInv
<1>3. CASE pc = "rest"
  <2>1. UNCHANGED <<tool, pool, callVars, committed>> /\ pc' = "failed"
    BY <1>3 DEF CommitFails, callVars
  <2>2. TurnOK' /\ CommittedOK'
    BY <1>3, <2>1 DEF PoolInv, TurnOK, InGroup, CommittedOK, callVars
  <2> QED BY <1>1, <2>1, <2>2, SoundKept DEF PoolInv
<1> QED BY <1>2, <1>3 DEF CommitFails

\* The group ends when all its calls are committed, or have their results.
LEMMA EndGroupInv == ASSUME PoolInv, EndGroup \/ GroupFailed PROVE PoolInv'
<1>1. UNCHANGED <<tool, pool, callVars, eventError, aborted, committed, faults>> /\ InGroup
      /\ pc' \in {"turn", "failed"} /\ turnAborted' \in BOOLEAN
  BY DEF EndGroup, GroupFailed, InGroup, PoolInv, OwnTypeOK, Sound, SchedulerOK, PoolStates
<1>2. \A c \in Calls : c <= pool.last => phase[c] = "slotted"
  <2>1. CASE EndGroup
    <3>1. pool.last < NextCall /\ pool.last \in Nat /\ NextCall \in Nat /\ Calls \subseteq Nat
      BY <2>1, CallsAreNumbers DEF EndGroup, PoolInv, Sound, SchedulerOK, PoolStates
    <3> QED BY <3>1, CallsAreNumbers DEF PoolInv
  <2>2. CASE GroupFailed
    BY <2>2 DEF GroupFailed, Calls
  <2> QED BY <2>1, <2>2
<1>3. pool.last \in Nat /\ NextCall \in Nat /\ Calls \subseteq Nat
  BY CallsAreNumbers DEF PoolInv, Sound, SchedulerOK, PoolStates
<1>4. \A c \in Calls : phase[c] \in {"queued", "slotted"} /\ (c > pool.last => phase[c] = "queued")
  BY <1>1, <1>2, <1>3 DEF PoolInv, TurnOK
<1>5. NextCall' = NextCall
  BY <1>1 DEF NextCall
<1>6. TurnOK'
  <2>1. CASE pc' = "failed"
    BY <1>1, <1>4, <2>1 DEF TurnOK, InGroup, callVars
  <2>2. CASE pc' = "turn"
    <3>1. NextCall > pool.last /\ ~pool.failure /\ turnAborted' = pool.abortRun
      BY <2>2 DEF EndGroup, GroupFailed
    <3> QED BY <1>1, <1>3, <1>4, <1>5, <2>2, <3>1 DEF TurnOK, InGroup, callVars
  <2> QED BY <1>1, <2>1, <2>2
<1>7. CommittedOK' /\ OwnTypeOK'
  BY <1>1 DEF PoolInv, CommittedOK, OwnTypeOK, PCs, callVars
<1> QED BY <1>1, <1>6, <1>7, SoundKept DEF PoolInv

LEMMA CancelTheRestInv == ASSUME PoolInv, CancelTheRest PROVE PoolInv'
<1>1. UNCHANGED <<tool, pool, callVars, eventError, aborted, committed, faults>>
      /\ pc = "turn" /\ pc' = "rest" /\ turnAborted' = TRUE /\ NextCall <= N /\ NextCall' = NextCall
  BY DEF CancelTheRest, NextCall
<1>2. NextCall \in Nat /\ Calls \subseteq Nat
  BY CallsAreNumbers DEF PoolInv
<1>3. TurnOK'
  BY <1>1, <1>2 DEF PoolInv, TurnOK, InGroup, callVars
<1>4. CommittedOK' /\ OwnTypeOK'
  BY <1>1 DEF PoolInv, CommittedOK, OwnTypeOK, PCs, callVars
<1> QED BY <1>1, <1>3, <1>4, SoundKept DEF PoolInv

LEMMA EndInv == ASSUME PoolInv, AllAnswered \/ EndExecute PROVE PoolInv'
<1>1. UNCHANGED <<tool, pool, callVars, eventError, aborted, turnAborted, committed>>
      /\ pc \in {"turn", "context"} /\ pc' \in {"context", "done", "failed"} /\ NextCall' = NextCall
      /\ (UNCHANGED faults \/ Fault)
  BY DEF AllAnswered, EndExecute, NextCall
<1>2. Len(committed) = N
  <2>1. CASE AllAnswered
    <3>1. Len(committed) \in Nat /\ N \in Nat /\ Len(committed) <= N /\ Len(committed) + 1 > N
      BY <2>1, CallsAreNumbers DEF PoolInv, AllAnswered, NextCall, CommittedOK
    <3> QED BY <3>1
  <2>2. CASE EndExecute
    BY <2>2 DEF PoolInv, TurnOK, EndExecute
  <2> QED BY <2>1, <2>2
<1>3. TurnOK'
  BY <1>1, <1>2 DEF PoolInv, TurnOK, InGroup, callVars
<1>4. CommittedOK' /\ OwnTypeOK'
  BY <1>1, FaultTypes DEF PoolInv, CommittedOK, OwnTypeOK, PCs, callVars
<1> QED BY <1>1, <1>3, <1>4, SoundKept DEF PoolInv

\* Phases, results and approvals of calls that execute() has not claimed.
LEMMA PublishCancelledInv == ASSUME PoolInv, PublishCancelled PROVE PoolInv'
<1>1. /\ pc = "rest" /\ phase[NextCall] = "queued" /\ NextCall \in Calls /\ NextCall' = NextCall
      /\ UNCHANGED <<tool, pool, physical, approvals, asking, aborted, turnAborted, committed>>
      /\ Delivered \/ DeliveryFails
      /\ pool.last < NextCall /\ pool.next <= NextCall
      /\ pool.last \in Nat /\ pool.next \in Nat /\ Calls \subseteq Nat
  <2>1. pc = "rest" /\ NextCall \in Nat /\ NextCall <= N /\ pool.last < NextCall /\ Calls \subseteq Nat
    BY CallsAreNumbers DEF PoolInv, TurnOK, PublishCancelled, NextCall
  <2>2. pool.last \in Nat /\ pool.next \in Nat /\ pool.next <= pool.last + 1
    BY DEF PoolInv, Sound, SchedulerOK, PoolStates
  <2>3. NextCall \in Calls
    BY <2>1, CallsAreNumbers DEF PoolInv, Calls
  <2> QED BY <2>1, <2>2, <2>3 DEF PublishCancelled, NextCall
<1>2. OwnTypeOK'
  BY <1>1, FaultTypes DEF PoolInv, OwnTypeOK, PCs, PublishCancelled
<1>3. CASE UNCHANGED <<phase, result>> /\ pc' = "failed"
  <2>1. TurnOK' /\ CommittedOK'
    BY <1>1, <1>3 DEF PoolInv, TurnOK, InGroup, CommittedOK
  <2> QED BY <1>1, <1>2, <1>3, <2>1, SoundKept DEF PoolInv, callVars
<1>4. CASE /\ phase' = [phase EXCEPT ![NextCall] = "slotted"]
           /\ result' = [result EXCEPT ![NextCall] = "cancelled"]
           /\ pc' = pc
  <2> DEFINE k == NextCall
  <2>1. /\ TypesOK(phase, physical, result) /\ SchedulerOK(pool) /\ ApprovalsOK(phase, approvals, asking)
        /\ \A c \in Calls : CallOK(c, pool, phase, physical, result) /\ ClaimOK(c, pool, phase, physical)
        /\ GroupOK(pool, phase, physical) /\ WorkersOK(pool, phase, physical)
    BY DEF PoolInv, Sound, CallsOK
  <2>2. /\ phase'[k] = "slotted" /\ result'[k] = "cancelled" /\ k \in Calls
        /\ \A c \in Calls \ {k} : phase'[c] = phase[c] /\ result'[c] = result[c]
        /\ physical' = physical /\ pool' = pool
    BY <1>1, <1>4, <2>1 DEF TypesOK
  <2>3. TypesOK(phase', physical', result')
    BY <1>1, <1>4, <2>1 DEF TypesOK, CallPhases, Results
  <2>4. CallsOK(pool', phase', physical', result')
    <3> SUFFICES ASSUME NEW c \in Calls
                 PROVE  CallOK(c, pool', phase', physical', result') /\ ClaimOK(c, pool', phase', physical')
      BY DEF CallsOK
    <3>1. CASE c = k
      <4>1. physical[c] = "no" /\ ~(c < pool.next) /\ ~(c <= pool.last)
        BY <1>1, <2>1, <3>1 DEF ClaimOK
      <4> QED BY <2>2, <3>1, <4>1 DEF CallOK, ClaimOK, Waiting, Executing, Over
    <3>2. CASE c # k
      BY <2>1, <2>2, <3>2 DEF CallOK, ClaimOK
    <3> QED BY <3>1, <3>2
  <2>5. \A c \in Calls : Holds(c, pool', phase', physical') <=> Holds(c, pool, phase, physical)
    BY <1>1, <2>2 DEF Holds
  <2>6. Workers(pool', phase', physical') = Workers(pool, phase, physical)
    BY <2>5 DEF Workers
  <2>7. GroupOK(pool, phase, physical)' /\ WorkersOK(pool', phase', physical')
    BY <1>1, <2>1, <2>2, <2>5, <2>6 DEF GroupOK, WorkersOK, Joins
  <2>8. ApprovalsOK(phase', approvals', asking')
    BY <1>1, <1>4, <2>1, ApprovalsOther DEF TypesOK
  <2>9. Sound(pool, phase, physical, result, approvals, asking)'
    BY <2>1, <2>2, <2>3, <2>4, <2>7, <2>8 DEF Sound
  <2>10. CommittedOK'
    <3>1. \A j \in 1..Len(committed) : j \in Calls /\ j # k
      BY <1>1, CallsAreNumbers DEF PoolInv, CommittedOK, Calls, NextCall
    <3> QED BY <1>1, <2>2, <3>1 DEF PoolInv, CommittedOK
  <2>11. TurnOK'
    <3>1. \A c \in Calls : c > k => phase'[c] = "queued"
      BY <1>1, <2>2, CallsAreNumbers DEF PoolInv, TurnOK
    <3> QED BY <1>1, <1>4, <2>2, <3>1 DEF PoolInv, TurnOK, InGroup
  <2> QED BY <1>2, <2>9, <2>10, <2>11 DEF PoolInv
<1> QED BY <1>3, <1>4 DEF PublishCancelled

\* The calls of S are claimed: those to be approved join the asks in order.
LEMMA ClaimApprovals ==
  ASSUME ApprovalsOK(phase, approvals, asking), NEW S \in SUBSET Calls, ClaimAll(S),
         \A c \in S : phase[c] # "approval", NEW ph, asking' = asking,
         \A c \in S : ph[c] = Claimed(c),
         \A c \in Calls : phase[c] = "approval" => ph[c] = "approval"
  PROVE  ApprovalsOK(ph, approvals', asking')
<1> DEFINE asks == {c \in S : Claimed(c) = "approval"}
           q == approvals
<1>1. PICK order \in [1..Cardinality(asks) -> asks] :
        /\ \A j, k \in DOMAIN order : j < k => order[j] < order[k]
        /\ approvals' = q \o order
  BY DEF ClaimAll
<1>2. IsFiniteSet(asks) /\ Cardinality(asks) \in Nat
  BY CallsAreNumbers, FS_Subset, FS_CardinalityType
<1> DEFINE n == Len(q)
           m == Cardinality(asks)
<1>3. order \in Seq(asks) /\ Len(order) = m /\ DOMAIN order = 1..m
  BY <1>1, <1>2, SeqDef
<1>4. q \in Seq(Calls) /\ n \in Nat /\ m \in Nat /\ order \in Seq(Calls)
  BY <1>2, <1>3, LenProperties, SeqMonotonic DEF ApprovalsOK
<1>5. /\ q \o order \in Seq(Calls) /\ Len(q \o order) = n + m
      /\ \A k \in 1..(n + m) : (q \o order)[k] = IF k <= n THEN q[k] ELSE order[k - n]
  <2>1. /\ q \o order \in Seq(Calls) /\ Len(q \o order) = Len(q) + Len(order)
        /\ \A k \in 1..(Len(q) + Len(order)) :
             (q \o order)[k] = IF k <= Len(q) THEN q[k] ELSE order[k - Len(q)]
    BY <1>4, ConcatProperties
  <2> QED BY <1>3, <2>1
<1> DEFINE a(k) == (q \o order)[k]
<1> HIDE DEF a, n, m
<1>6. \A k \in 1..n : q[k] \in Calls /\ phase[q[k]] = "approval" /\ q[k] # asking /\ q[k] \notin S
  BY <1>4, ElementOfSeq DEF ApprovalsOK, n
<1>7. \A k \in 1..m : order[k] \in asks /\ ph[order[k]] = "approval" /\ phase[order[k]] # "approval"
                     /\ order[k] \in Calls /\ order[k] \in Nat
  BY <1>1, CallsAreNumbers DEF m
<1> HIDE DEF asks
<1>8. \A k \in 1..m : order[k] # asking
  BY <1>7, CallsAreNumbers DEF ApprovalsOK
<1>9. \A j, k \in 1..m : order[j] = order[k] => j = k
  <2> SUFFICES ASSUME NEW j \in 1..m, NEW k \in 1..m, order[j] = order[k], j # k
               PROVE  FALSE
    OBVIOUS
  <2>1. (j < k \/ k < j) /\ order[j] \in Nat /\ order[k] \in Nat
    BY <1>4, <1>7
  <2> QED BY <1>1, <1>3, <2>1
<1>10. \A k \in 1..(n + m) : k \in 1..n \/ (~(k <= n) /\ k - n \in 1..m)
  BY <1>4
<1>11. \A k \in 1..(n + m) : \/ k \in 1..n /\ a(k) = q[k]
                             \/ ~(k <= n) /\ k - n \in 1..m /\ a(k) = order[k - n]
  <2> SUFFICES ASSUME NEW k \in 1..(n + m)
               PROVE  \/ k \in 1..n /\ a(k) = q[k]
                      \/ ~(k <= n) /\ k - n \in 1..m /\ a(k) = order[k - n]
    OBVIOUS
  <2>1. a(k) = IF k <= n THEN q[k] ELSE order[k - n]
    BY <1>5 DEF a
  <2>2. k \in 1..n => k <= n
    BY <1>4
  <2> QED BY <1>10, <2>1, <2>2
<1>12. \A k \in 1..(n + m) : ph[a(k)] = "approval" /\ a(k) # asking
  BY <1>6, <1>7, <1>8, <1>11
<1>13. \A j, k \in 1..(n + m) : a(j) = a(k) => j = k
  <2> SUFFICES ASSUME NEW j \in 1..(n + m), NEW k \in 1..(n + m), a(j) = a(k)
               PROVE  j = k
    OBVIOUS
  <2>1. CASE j \in 1..n /\ k \in 1..n
    BY <1>4, <1>11, <2>1 DEF ApprovalsOK, n
  <2>2. CASE ~(j <= n) /\ ~(k <= n)
    <3>1. j - n \in 1..m /\ k - n \in 1..m /\ order[j - n] = order[k - n]
      BY <1>4, <1>11, <2>2
    <3>2. j - n = k - n
      BY <1>9, <3>1
    <3> QED BY <1>4, <3>2
  <2>3. CASE (j \in 1..n) # (k \in 1..n)
    BY <1>4, <1>6, <1>7, <1>11, <2>3 DEF asks
  <2> QED BY <1>4, <1>11, <2>1, <2>2, <2>3
<1>14. asking # 0 => asking \in Calls /\ ph[asking] = "approval"
  BY CallsAreNumbers DEF ApprovalsOK, Calls
<1> QED BY <1>1, <1>5, <1>12, <1>13, <1>14 DEF ApprovalsOK, a

LEMMA AskInv == ASSUME PoolInv, NEW c \in Calls, Ask(c) PROVE PoolInv'
<1>1. UNCHANGED <<tool, pc, pool, phase, physical, result, eventError, aborted,
                  turnAborted, committed, faults>>
  BY DEF Ask
<1>2. ApprovalsOK(phase, approvals', asking')
  BY AtCall, ApprovalsTaken DEF Ask
<1>3. Sound(pool, phase, physical, result, approvals, asking)'
  BY <1>1, <1>2 DEF PoolInv, Sound, SchedulerOK, PoolStates, TypesOK, CallsOK, GroupOK, Joins,
                    WorkersOK, ApprovalsOK
<1>4. OwnTypeOK' /\ CommittedOK' /\ TurnOK'
  BY <1>1 DEF PoolInv, OwnTypeOK, CommittedOK, TurnOK, InGroup, HasWorker, NextCall
<1> QED BY <1>3, <1>4 DEF PoolInv

LEMMA UpdateLostInv == ASSUME PoolInv, NEW c \in Calls, UpdateLost(c) PROVE PoolInv'
<1>1. UNCHANGED <<tool, pc, pool, callVars, aborted, turnAborted, committed>>
      /\ eventError' = TRUE /\ faults' \in 0..FaultBound
  BY AtCall, FaultTypes DEF UpdateLost
<1>2. OwnTypeOK' /\ CommittedOK' /\ TurnOK'
  BY <1>1 DEF PoolInv, OwnTypeOK, CommittedOK, TurnOK, InGroup, HasWorker, NextCall, callVars
<1> QED BY <1>1, <1>2, SoundKept DEF PoolInv

LEMMA OrphanSettlesInv == ASSUME PoolInv, NEW c \in Calls, OrphanSettles(c) PROVE PoolInv'
<1>1. /\ UNCHANGED <<tool, pc, pool, phase, result, approvals, asking, eventError,
                     aborted, turnAborted, committed, faults>>
      /\ phase[c] \in Over /\ physical[c] = "running"
      /\ physical' = [physical EXCEPT ![c] = "settled"]
  BY DEF OrphanSettles, Over
<1>2. /\ TypesOK(phase, physical, result) /\ SchedulerOK(pool) /\ ApprovalsOK(phase, approvals, asking)
      /\ \A d \in Calls : CallOK(d, pool, phase, physical, result) /\ ClaimOK(d, pool, phase, physical)
      /\ GroupOK(pool, phase, physical) /\ WorkersOK(pool, phase, physical)
  BY DEF PoolInv, Sound, CallsOK
<1>3. /\ physical'[c] = "settled"
      /\ \A d \in Calls \ {c} : physical'[d] = physical[d]
  BY <1>1, <1>2 DEF TypesOK
<1>4. TypesOK(phase', physical', result')
  BY <1>1, <1>2 DEF TypesOK
<1>5. CallsOK(pool', phase', physical', result')
  <2> SUFFICES ASSUME NEW d \in Calls
               PROVE  CallOK(d, pool, phase, physical', result) /\ ClaimOK(d, pool, phase, physical')
    BY <1>1 DEF CallsOK
  <2>1. CASE d = c
    BY <1>1, <1>2, <1>3, <2>1 DEF CallOK, ClaimOK, Waiting, Executing, Over
  <2>2. CASE d # c
    BY <1>2, <1>3, <2>2 DEF CallOK, ClaimOK
  <2> QED BY <2>1, <2>2
<1>6. \A d \in Calls : Holds(d, pool', phase', physical') => Holds(d, pool, phase, physical)
  BY <1>1, <1>3 DEF Holds
<1>7. Workers(pool', phase', physical') \subseteq Workers(pool, phase, physical)
  BY <1>6 DEF Workers
<1>8. WorkersOK(pool', phase', physical')
  BY <1>2, <1>7, FewerWorkers
<1>9. GroupOK(pool, phase, physical)'
  BY <1>1, <1>2, <1>6 DEF GroupOK, Joins
<1>10. ApprovalsOK(phase', approvals', asking')
  BY <1>1, <1>2
<1>11. Sound(pool, phase, physical, result, approvals, asking)'
  BY <1>1, <1>2, <1>4, <1>5, <1>8, <1>9, <1>10 DEF Sound
<1>12. OwnTypeOK' /\ CommittedOK' /\ TurnOK'
  BY <1>1 DEF PoolInv, OwnTypeOK, CommittedOK, TurnOK, InGroup, HasWorker, NextCall
<1> QED BY <1>11, <1>12 DEF PoolInv

\* A call that no worker claimed is cancelled, which only happens in a pool
\* that was stopped: the calls before it have returned their workers.
LEMMA CancelUnclaimedInv == ASSUME PoolInv, NEW c \in Calls, CancelUnclaimed(c) PROVE PoolInv'
<1> DEFINE ph == [phase EXCEPT ![c] = "publishing"]
<1>1. /\ UNCHANGED <<tool, pc, physical, approvals, asking, eventError, aborted,
                     turnAborted, committed, faults>>
      /\ InGroup /\ pool.next <= c /\ c <= pool.last /\ phase[c] = "queued"
      /\ \A d \in 1..(c - 1) : phase[d] = "slotted"
      /\ result' = [result EXCEPT ![c] = "cancelled"] /\ Apply(pool, ph, aborted)
  BY DEF CancelUnclaimed, Become, InGroup
<1>2. /\ TypesOK(phase, physical, result) /\ SchedulerOK(pool) /\ ApprovalsOK(phase, approvals, asking)
      /\ \A d \in Calls : CallOK(d, pool, phase, physical, result) /\ ClaimOK(d, pool, phase, physical)
      /\ GroupOK(pool, phase, physical) /\ WorkersOK(pool, phase, physical)
  BY DEF PoolInv, Sound, CallsOK
<1>3. /\ pool.next \in Nat /\ pool.last \in Nat /\ Calls \subseteq Nat
      /\ phase \in [Calls -> CallPhases] /\ ph \in [Calls -> CallPhases]
      /\ ph[c] = "publishing" /\ result'[c] = "cancelled" /\ physical[c] = "no"
      /\ \A d \in Calls \ {c} : ph[d] = phase[d] /\ result'[d] = result[d]
  BY <1>1, <1>2, CallsAreNumbers DEF TypesOK, SchedulerOK, PoolStates, CallPhases, ClaimOK
<1>4. pool.stopped
  <2>1. \A d \in Calls : d < pool.next => phase[d] = "slotted"
    BY <1>1, <1>3 DEF Calls
  <2>2. pool.next <= pool.last
    BY <1>1, <1>3
  <2> QED BY <1>1, <2>1, <2>2 DEF PoolInv, TurnOK, HasWorker
<1>5. TypesOK(ph, physical', result')
  BY <1>1, <1>2, <1>3 DEF TypesOK, Results
<1>6. CallsOK(pool, ph, physical', result')
  <2> SUFFICES ASSUME NEW d \in Calls
               PROVE  CallOK(d, pool, ph, physical, result') /\ ClaimOK(d, pool, ph, physical)
    BY <1>1 DEF CallsOK
  <2>1. CASE d = c
    BY <1>1, <1>3, <1>4, <2>1 DEF CallOK, ClaimOK, Waiting, Executing, Over
  <2>2. CASE d # c
    BY <1>2, <1>3, <2>2 DEF CallOK, ClaimOK
  <2> QED BY <2>1, <2>2
<1>7. \A d \in Calls : Holds(d, pool, ph, physical') <=> Holds(d, pool, phase, physical)
  BY <1>1, <1>3 DEF Holds
<1>8. Workers(pool, ph, physical') = Workers(pool, phase, physical)
  BY <1>7 DEF Workers
<1>9. GroupOK(pool, ph, physical') /\ WorkersOK(pool, ph, physical')
  BY <1>2, <1>7, <1>8 DEF GroupOK, WorkersOK
<1>10. ApprovalsOK(ph, approvals', asking')
  BY <1>1, <1>2, <1>3, ApprovalsOther
<1> HIDE DEF ph
<1>11. Sound(pool, ph, physical', result', approvals', asking')
  BY <1>2, <1>5, <1>6, <1>9, <1>10 DEF Sound
<1>12. Sound(pool, phase, physical, result, approvals, asking)'
  BY <1>1, <1>11, ApplyKeeps
<1>13. /\ pool'.last = pool.last
       /\ pool'.stopped
       /\ \A d \in Calls : \/ phase'[d] = ph[d]
                           \/ ph[d] = "running" /\ phase'[d] = "grace" /\ pool'.abortRun
  BY <1>1, <1>2, <1>3, <1>4, ApplyEffect
<1>14. HasWorker(pool', phase')
  BY <1>13 DEF HasWorker
<1>15. /\ \A d \in Calls : d > pool.last /\ phase[d] = "queued" => phase'[d] = "queued"
       /\ \A d \in Calls : phase[d] = "slotted" => phase'[d] = "slotted" /\ result'[d] = result[d]
  BY <1>1, <1>3, <1>13
<1>16. pc' \in {"group", "failing"} /\ UNCHANGED committed
  BY <1>1 DEF InGroup
<1>17. TurnOK' /\ CommittedOK'
  BY <1>1, <1>13, <1>14, <1>15, <1>16, RestKept
<1>18. OwnTypeOK'
  BY <1>1 DEF PoolInv, OwnTypeOK
<1> QED BY <1>12, <1>17, <1>18 DEF PoolInv

\* A call that is claimed, in phases ph and with results res.
LEMMA ClaimedOK ==
  ASSUME NEW c \in Calls, NEW p, NEW ph, NEW phys, NEW res,
         p.next \in Nat, c < p.next, ph[c] = Claimed(c), phys[c] = "no",
         res[c] = IF tool[c].check = "unknown" THEN "error" ELSE "none"
  PROVE  CallOK(c, p, ph, phys, res) /\ ClaimOK(c, p, ph, phys)
<1>1. Claimed(c) \in {"publishing", "rejected", "approval"}
      /\ (Claimed(c) = "publishing" <=> tool[c].check = "unknown")
  BY DEF Claimed
<1>2. ~(c >= p.next)
  BY CallsAreNumbers
<1> QED BY <1>1, <1>2 DEF CallOK, ClaimOK, Waiting, Executing, Over

LEMMA StartGroupInv == ASSUME PoolInv, StartGroup PROVE PoolInv'
<1> DEFINE first == NextCall
<1>1. PICK last \in first..N :
        LET claimed == {c \in first..last : c < first + MaxParallel}
        IN /\ IsGroup(first, last)
           /\ pool' = [last |-> last, next |-> first + Cardinality(claimed),
                       stopped |-> FALSE, abortRun |-> FALSE, failure |-> FALSE]
           /\ phase' = [c \in Calls |-> IF c \in claimed THEN Claimed(c) ELSE phase[c]]
           /\ ClaimAll(claimed)
  BY DEF StartGroup
<1> DEFINE claimed == {c \in first..last : c < first + MaxParallel}
<1>2. /\ pc = "turn" /\ pc' = "group" /\ ~turnAborted
      /\ UNCHANGED <<tool, physical, asking, eventError, aborted, turnAborted, committed, faults>>
  BY DEF StartGroup
<1>3. /\ TypesOK(phase, physical, result) /\ SchedulerOK(pool) /\ ApprovalsOK(phase, approvals, asking)
      /\ \A d \in Calls : CallOK(d, pool, phase, physical, result) /\ ClaimOK(d, pool, phase, physical)
  BY DEF PoolInv, Sound, CallsOK
<1>4. /\ first \in Nat /\ first >= 1 /\ last \in Nat /\ N \in Nat /\ first <= last /\ last <= N
      /\ MaxParallel \in Nat /\ MaxParallel >= 1 /\ Calls \subseteq Nat /\ first' = first
  BY <1>2, CallsAreNumbers, ToolPoolAssumption DEF PoolInv, NextCall
<1>5. PICK next \in Nat :
        /\ claimed = first..(next - 1) /\ Cardinality(claimed) = next - first
        /\ first < next /\ next <= last + 1 /\ next - first <= MaxParallel
  <2> DEFINE next == IF first + MaxParallel <= last THEN first + MaxParallel ELSE last + 1
  <2>1. next \in Nat /\ first < next /\ next <= last + 1 /\ next - first <= MaxParallel
    BY <1>4
  <2>2. claimed = first..(next - 1)
    BY <1>4
  <2>3. Cardinality(first..(next - 1)) = next - first
    <3> HIDE DEF first, next
    <3>1. first \in Int /\ next - 1 \in Int /\ ~(first > next - 1)
      BY <1>4, <2>1
    <3>2. Cardinality(first..(next - 1)) = (next - 1) - first + 1
      BY <3>1, FS_Interval
    <3> QED BY <1>4, <2>1, <3>2
  <2> QED BY <2>1, <2>2, <2>3
<1> DEFINE p == [last |-> last, next |-> next, stopped |-> FALSE, abortRun |-> FALSE, failure |-> FALSE]
<1>6. /\ IsGroup(first, last) /\ pool' = p /\ ClaimAll(claimed)
      /\ phase' = [c \in Calls |-> IF c \in claimed THEN Claimed(c) ELSE phase[c]]
      /\ result' = [c \in Calls |-> IF c \in claimed /\ tool[c].check = "unknown"
                                    THEN "error" ELSE result[c]]
  <2>1. first + Cardinality(claimed) = next
    BY <1>4, <1>5
  <2> QED BY <1>1, <2>1 DEF ClaimAll
<1> HIDE DEF first
<1>7. /\ p.last = last /\ p.next = next /\ ~p.stopped /\ ~p.abortRun /\ ~p.failure
      /\ p \in PoolStates /\ SchedulerOK(p)
  BY <1>4, <1>5 DEF PoolStates, SchedulerOK
<1> HIDE DEF p
<1>8. claimed \in SUBSET Calls /\ \A c \in Calls : c \in claimed <=> first <= c /\ c < next
  <2>1. \A c \in claimed : c \in Nat /\ first <= c /\ c <= last
    BY <1>4
  <2>2. claimed \subseteq Calls
    BY <1>4, <2>1 DEF Calls
  <2>3. \A c \in Calls : c \in first..(next - 1) <=> first <= c /\ c < next
    BY <1>4, <1>5
  <2> QED BY <1>5, <2>2, <2>3
<1> HIDE DEF claimed
<1>9. /\ \A c \in Calls : c < first => phase[c] = "slotted"
      /\ \A c \in Calls : c >= first => phase[c] = "queued"
  BY <1>2, CallsAreNumbers DEF PoolInv, TurnOK, first
<1>10. ~pool.abortRun
  BY <1>2 DEF PoolInv, TurnOK
\* So nothing runs any more.
<1>11. /\ \A c \in Calls : c < first => physical[c] # "running" /\ result[c] \notin {"none", "interrupted", "unknown"}
       /\ \A c \in Calls : c >= first => physical[c] = "no" /\ result[c] = "none"
  BY <1>3, <1>9, <1>10 DEF CallOK, Over
<1>12. /\ \A c \in claimed : /\ phase'[c] = Claimed(c)
                             /\ result'[c] = IF tool[c].check = "unknown" THEN "error" ELSE "none"
       /\ \A c \in Calls \ claimed : phase'[c] = phase[c] /\ result'[c] = result[c]
  BY <1>6, <1>8, <1>11
<1>13. TypesOK(phase', physical', result')
  <2>1. \A c \in Calls : Claimed(c) \in CallPhases
    BY DEF Claimed, CallPhases
  <2>2. phase' \in [Calls -> CallPhases]
    BY <1>3, <1>6, <2>1 DEF TypesOK
  <2>3. result' \in [Calls -> Results \cup {"none"}]
    BY <1>3, <1>6 DEF TypesOK, Results
  <2> QED BY <1>2, <1>3, <2>2, <2>3 DEF TypesOK
<1>14. CallsOK(p, phase', physical', result')
  <2> SUFFICES ASSUME NEW c \in Calls
               PROVE  CallOK(c, p, phase', physical, result') /\ ClaimOK(c, p, phase', physical)
    BY <1>2 DEF CallsOK
  <2>1. CASE c \in claimed
    BY <1>7, <1>8, <1>11, <1>12, <2>1, ClaimedOK
  <2>2. CASE c \notin claimed /\ c < first
    <3>1. c < p.next /\ phase'[c] = "slotted" /\ result'[c] = result[c] /\ physical[c] # "running"
          /\ result[c] \notin {"none", "interrupted", "unknown"}
      BY <1>4, <1>5, <1>7, <1>9, <1>11, <1>12, <2>2
    <3>2. CallOK(c, pool, phase, physical, result) /\ phase[c] = "slotted"
      BY <1>3, <1>9, <2>2
    <3> QED BY <3>1, <3>2, <1>4, <1>5, <1>7 DEF CallOK, ClaimOK, Waiting, Executing, Over
  <2>3. CASE c \notin claimed /\ ~(c < first)
    <3>1. ~(c < next) /\ phase'[c] = "queued" /\ result'[c] = "none" /\ physical[c] = "no"
      BY <1>4, <1>5, <1>8, <1>9, <1>11, <1>12, <2>3
    <3> QED BY <3>1, <1>7 DEF CallOK, ClaimOK, Waiting, Executing, Over
  <2> QED BY <2>1, <2>2, <2>3
<1>15. \A c \in Calls : Holds(c, p, phase', physical) => c \in claimed
  BY <1>4, <1>5, <1>7, <1>8, <1>9, <1>11, <1>12 DEF Holds
<1>16. WorkersOK(p, phase', physical')
  <2>1. Workers(p, phase', physical) \subseteq claimed
    BY <1>15 DEF Workers
  <2>2. IsFiniteSet(claimed)
    BY <1>8, CallsAreNumbers, FS_Subset
  <2>3. /\ Cardinality(Workers(p, phase', physical)) <= Cardinality(claimed)
        /\ Cardinality(Workers(p, phase', physical)) \in Nat
    BY <2>1, <2>2, FS_Subset, FS_CardinalityType
  <2> QED BY <1>2, <1>4, <1>5, <2>3 DEF WorkersOK
<1>17. GroupOK(p, phase', physical')
  <2> SUFFICES ASSUME NEW c \in Calls, NEW d \in Calls, c # d,
                      Holds(c, p, phase', physical) \/ c \in p.next..p.last,
                      Holds(d, p, phase', physical) \/ d \in p.next..p.last
               PROVE  Joins(c)
    BY <1>2 DEF GroupOK
  <2>1. c \in Nat /\ d \in Nat /\ first <= c /\ c <= last /\ first <= d /\ d <= last
    BY <1>4, <1>5, <1>7, <1>8, <1>15
  <2>2. first < last /\ c \in first..last
    BY <1>4, <2>1
  <2> QED BY <1>6, <2>2 DEF IsGroup
<1>18. ApprovalsOK(phase', approvals', asking')
  <2>1. \A c \in claimed : phase[c] # "approval"
    BY <1>4, <1>8, <1>9
  <2>2. \A c \in Calls : phase[c] = "approval" => phase'[c] = "approval"
    BY <1>4, <1>9
  <2>3. asking' = asking
    BY <1>2
  <2> QED BY <1>3, <1>6, <1>8, <1>12, <2>1, <2>2, <2>3, ClaimApprovals
<1>19. Sound(pool, phase, physical, result, approvals, asking)'
  <2>1. Sound(pool', phase', physical', result', approvals', asking')
    BY <1>6, <1>7, <1>13, <1>14, <1>16, <1>17, <1>18 DEF Sound
  <2> QED BY <1>2, <2>1 DEF Sound, GroupOK, Joins
<1>20. CommittedOK'
  <2>1. \A k \in 1..Len(committed) : k \in Calls /\ k \notin claimed
    BY <1>4, <1>8, CallsAreNumbers DEF PoolInv, CommittedOK, Calls, first, NextCall
  <2> QED BY <1>2, <1>12, <2>1 DEF PoolInv, CommittedOK
<1>21. HasWorker(pool', phase')
  <2>1. first \in Calls /\ first \in claimed /\ first < next
    BY <1>4, <1>5, <1>8 DEF Calls
  <2>2. phase'[first] # "slotted"
    BY <1>12, <2>1 DEF Claimed
  <2> QED BY <1>6, <1>7, <2>1, <2>2 DEF HasWorker
<1>22. TurnOK'
  <2>1. ASSUME NEW c \in Calls, c > last PROVE phase'[c] = "queued"
    <3>1. c \in Nat /\ c >= first /\ ~(c < next)
      BY <1>4, <1>5, <2>1
    <3>2. c \notin claimed /\ phase[c] = "queued"
      BY <1>8, <1>9, <3>1
    <3> QED BY <1>12, <3>2
  <2>2. first' <= pool'.last + 1
    BY <1>4, <1>6, <1>7
  <2> QED BY <1>2, <1>6, <1>7, <1>21, <2>1, <2>2 DEF TurnOK, InGroup, first
<1>23. OwnTypeOK'
  BY <1>2 DEF PoolInv, OwnTypeOK, PCs
<1> QED BY <1>19, <1>20, <1>22, <1>23 DEF PoolInv

LEMMA PublishInv == ASSUME PoolInv, NEW c \in Calls, Publish(c) PROVE PoolInv'
<1>1. PICK lost \in BOOLEAN :
       /\ IF lost THEN DeliveryFails ELSE Delivered
       /\ LET p0 == IF lost THEN StopForFailure(pool) ELSE pool
              p1 == IF aborted THEN StopForAbort(p0) ELSE p0
              claimed == IF p1.stopped THEN {}
                         ELSE {d \in Calls : d = p1.next /\ d <= p1.last}
          IN  /\ Apply([p1 EXCEPT !.next = @ + Cardinality(claimed)],
                       [d \in Calls |-> IF d = c THEN "slotted"
                                        ELSE IF d \in claimed THEN Claimed(d)
                                        ELSE phase[d]],
                       aborted)
              /\ ClaimAll(claimed)
  BY DEF Publish
<1> DEFINE p0 == IF lost THEN StopForFailure(pool) ELSE pool
           p1 == IF aborted THEN StopForAbort(p0) ELSE p0
           claimed == IF p1.stopped THEN {} ELSE {d \in Calls : d = p1.next /\ d <= p1.last}
           p2 == [p1 EXCEPT !.next = @ + Cardinality(claimed)]
           ph == [d \in Calls |-> IF d = c THEN "slotted"
                                  ELSE IF d \in claimed THEN Claimed(d) ELSE phase[d]]
<1>2. /\ phase[c] = "publishing" /\ Apply(p2, ph, aborted) /\ ClaimAll(claimed)
      /\ UNCHANGED <<tool, pc, physical, asking, aborted, turnAborted, committed>>
      /\ Delivered \/ DeliveryFails
  BY <1>1 DEF Publish
<1>3. /\ TypesOK(phase, physical, result) /\ SchedulerOK(pool) /\ ApprovalsOK(phase, approvals, asking)
      /\ \A d \in Calls : CallOK(d, pool, phase, physical, result) /\ ClaimOK(d, pool, phase, physical)
      /\ GroupOK(pool, phase, physical) /\ WorkersOK(pool, phase, physical)
      /\ phase \in [Calls -> CallPhases]
  BY DEF PoolInv, Sound, CallsOK, TypesOK
<1>4. InGroup /\ \A d \in Calls : d > pool.last => phase[d] = "queued"
  BY <1>2 DEF PoolInv, TurnOK
<1>5. /\ SchedulerOK(p1) /\ p1.next = pool.next /\ p1.last = pool.last
      /\ pool.stopped => p1.stopped
      /\ pool.abortRun => p1.abortRun
  <2>1. /\ SchedulerOK(p0) /\ p0.next = pool.next /\ p0.last = pool.last
        /\ pool.stopped => p0.stopped
        /\ pool.abortRun => p0.abortRun
    BY <1>3, StopTypes
  <2> HIDE DEF p0
  <2> QED BY <2>1, StopTypes
<1> HIDE DEF p0, p1
<1>6. Sound(p1, phase, physical, result, approvals, asking)
  BY <1>5, SoundStopped DEF PoolInv
<1>7. /\ \A d \in Calls : CallOK(d, p1, phase, physical, result) /\ ClaimOK(d, p1, phase, physical)
      /\ GroupOK(p1, phase, physical) /\ WorkersOK(p1, phase, physical)
  BY <1>6 DEF Sound, CallsOK
<1>8. /\ p1.next \in Nat /\ p1.last \in Nat /\ p1.next <= p1.last + 1 /\ p1.last <= N /\ p1.next >= 1
      /\ Calls \subseteq Nat /\ N \in Nat /\ p1 \in PoolStates /\ c <= p1.last
  <2>1. p1 \in PoolStates /\ p1.next <= p1.last + 1 /\ N \in Nat /\ Calls \subseteq Nat
    BY <1>5, CallsAreNumbers DEF SchedulerOK
  <2>2. p1.last \in 0..N /\ p1.next \in 1..(N + 1)
    BY <2>1 DEF PoolStates
  <2>3. c <= p1.last
    BY <1>2, <1>4, <1>5, <2>1, <2>2
  <2> QED BY <2>1, <2>2, <2>3
\* Either no call is claimed, or the next one of a pool that was not stopped.
<1>9. \/ claimed = {} /\ (p1.stopped \/ p1.next > p1.last)
      \/ claimed = {p1.next} /\ ~p1.stopped /\ p1.next <= p1.last /\ p1.next \in Calls
  <2>1. p1.next <= p1.last => p1.next \in Calls
    BY <1>8 DEF Calls
  <2> QED BY <1>8, <2>1
<1>10. claimed \in SUBSET Calls /\ Cardinality(claimed) = (IF claimed = {} THEN 0 ELSE 1)
  BY <1>9, FS_EmptySet, FS_Singleton
<1>11. /\ p2 \in PoolStates /\ p2.last = p1.last /\ p2.stopped = p1.stopped
       /\ p2.abortRun = p1.abortRun /\ p2.failure = p1.failure
       /\ p2.next = IF claimed = {} THEN p1.next ELSE p1.next + 1
  <2>1. p1.next + Cardinality(claimed) \in 1..(N + 1)
    BY <1>8, <1>9, <1>10
  <2> QED BY <1>8, <1>9, <1>10, <2>1 DEF PoolStates
<1> HIDE DEF p2
<1>12. SchedulerOK(p2)
  BY <1>5, <1>8, <1>9, <1>11 DEF SchedulerOK
<1>13. \A d \in claimed : phase[d] = "queued" /\ physical[d] = "no" /\ result[d] = "none" /\ d # c
  BY <1>2, <1>7, <1>8, <1>9 DEF ClaimOK, CallOK, Over
<1>14. /\ ph[c] = "slotted" /\ result'[c] = result[c]
       /\ \A d \in claimed : /\ ph[d] = Claimed(d)
                             /\ result'[d] = IF tool[d].check = "unknown" THEN "error" ELSE "none"
       /\ \A d \in Calls \ claimed : d # c => ph[d] = phase[d] /\ result'[d] = result[d]
  <2>1. result' = [d \in Calls |-> IF d \in claimed /\ tool[d].check = "unknown"
                                  THEN "error" ELSE result[d]]
    BY <1>2 DEF ClaimAll
  <2> HIDE DEF claimed
  <2> QED BY <1>10, <1>13, <2>1
<1>15. TypesOK(ph, physical', result')
  <2>1. \A d \in Calls : Claimed(d) \in CallPhases
    BY DEF Claimed, CallPhases
  <2>2. ph \in [Calls -> CallPhases]
    BY <1>3, <2>1 DEF CallPhases
  <2>3. result' \in [Calls -> Results \cup {"none"}]
    BY <1>2, <1>3 DEF TypesOK, Results, ClaimAll
  <2> QED BY <1>2, <1>3, <2>2, <2>3 DEF TypesOK
<1> HIDE DEF claimed, ph
<1>16. CallsOK(p2, ph, physical', result')
  <2> SUFFICES ASSUME NEW d \in Calls
               PROVE  CallOK(d, p2, ph, physical, result') /\ ClaimOK(d, p2, ph, physical)
    BY <1>2 DEF CallsOK
  <2>1. CASE d \in claimed
    BY <1>8, <1>9, <1>11, <1>13, <1>14, <2>1, ClaimedOK
  <2>2. CASE d = c
    BY <1>2, <1>7, <1>8, <1>9, <1>11, <1>14, <2>2 DEF CallOK, ClaimOK, Waiting, Executing, Over
  <2>3. CASE d \notin claimed /\ d # c
    BY <1>7, <1>8, <1>9, <1>11, <1>14, <2>3 DEF CallOK, ClaimOK
  <2> QED BY <2>1, <2>2, <2>3
\* A claimed call takes the worker of c.
<1>17. \A d \in Calls : Holds(d, p2, ph, physical) =>
                         Holds(d, p1, phase, physical) \/ d \in claimed
  BY <1>2, <1>8, <1>9, <1>11, <1>14 DEF Holds
<1>18. claimed # {} => /\ Holds(c, p1, phase, physical)
                       /\ ~Holds(c, p2, ph, physical)
                       /\ ~Holds(p1.next, p1, phase, physical)
  <2> SUFFICES ASSUME claimed # {}
               PROVE  /\ Holds(c, p1, phase, physical) /\ ~Holds(c, p2, ph, physical)
                      /\ ~Holds(p1.next, p1, phase, physical)
    OBVIOUS
  <2>1. ~p1.stopped /\ ~p1.abortRun
    BY <1>5, <1>9 DEF SchedulerOK
  <2>2. c < p1.next
    BY <1>2, <1>7, <1>8, <2>1 DEF ClaimOK
  <2>3. physical[c] # "running"
    BY <1>2, <1>7, <2>1 DEF CallOK, Over
  <2>4. ~(p1.next < p1.next)
    BY <1>8
  <2> QED BY <1>2, <1>14, <2>2, <2>3, <2>4 DEF Holds
<1>19. WorkersOK(p2, ph, physical')
  <2> DEFINE W1 == Workers(p1, phase, physical)
             W2 == Workers(p2, ph, physical)
  <2>1. IsFiniteSet(W1) /\ Cardinality(W1) \in Nat
    BY CallsAreNumbers, FS_Subset, FS_CardinalityType DEF Workers
  <2>2. CASE claimed = {}
    <3>1. W2 \subseteq W1
      BY <1>17, <2>2 DEF Workers
    <3> QED BY <1>2, <1>7, <3>1, FewerWorkers
  <2>3. CASE claimed # {}
    <3>1. c \in W1 /\ W2 \subseteq (W1 \ {c}) \cup {p1.next}
      BY <1>9, <1>17, <1>18, <2>3 DEF Workers
    <3> HIDE DEF W1, W2
    <3>2. IsFiniteSet(W1 \ {c}) /\ Cardinality(W1 \ {c}) = Cardinality(W1) - 1
      BY <2>1, <3>1, FS_RemoveElement
    <3>3. /\ IsFiniteSet((W1 \ {c}) \cup {p1.next})
          /\ Cardinality((W1 \ {c}) \cup {p1.next}) <= Cardinality(W1)
          /\ Cardinality((W1 \ {c}) \cup {p1.next}) \in Nat
      <4> DEFINE R == W1 \ {c}
                 n == p1.next
      <4>1. IsFiniteSet(R) /\ Cardinality(R) = Cardinality(W1) - 1
        BY <3>2
      <4> HIDE DEF R, n
      <4>2. /\ IsFiniteSet(R \cup {n})
            /\ Cardinality(R \cup {n}) = IF n \in R THEN Cardinality(R) ELSE Cardinality(R) + 1
        BY <4>1, FS_AddElement
      <4>3. Cardinality(R \cup {n}) <= Cardinality(W1) /\ Cardinality(R \cup {n}) \in Nat
        BY <2>1, <4>1, <4>2, FS_CardinalityType
      <4> QED BY <4>2, <4>3 DEF R, n
    <3>4. Cardinality(W2) <= Cardinality((W1 \ {c}) \cup {p1.next}) /\ Cardinality(W2) \in Nat
      BY <3>1, <3>3, FS_Subset, FS_CardinalityType
    <3>5. Cardinality(W2) <= MaxParallel
      BY <1>7, <2>1, <3>3, <3>4, ToolPoolAssumption DEF WorkersOK, W1
    <3> QED BY <1>2, <3>5 DEF WorkersOK, W2
  <2> QED BY <2>2, <2>3
<1>20. GroupOK(p2, ph, physical')
  <2>1. \A d \in Calls : Holds(d, p2, ph, physical) \/ d \in p2.next..p2.last =>
                          Holds(d, p1, phase, physical) \/ d \in p1.next..p1.last
    BY <1>8, <1>9, <1>11, <1>17
  <2> QED BY <1>2, <1>7, <2>1 DEF GroupOK
<1>21. ApprovalsOK(ph, approvals', asking')
  <2>1. \A d \in claimed : phase[d] # "approval"
    BY <1>13
  <2>2. \A d \in Calls : phase[d] = "approval" => ph[d] = "approval"
    BY <1>2, <1>13, <1>14
  <2>3. asking' = asking /\ \A d \in claimed : ph[d] = Claimed(d)
    BY <1>2, <1>14
  <2> QED BY <1>2, <1>3, <1>10, <2>1, <2>2, <2>3, ClaimApprovals
<1>22. Sound(p2, ph, physical', result', approvals', asking')
  BY <1>12, <1>15, <1>16, <1>19, <1>20, <1>21 DEF Sound
<1>23. Sound(pool, phase, physical, result, approvals, asking)'
  BY <1>2, <1>22, ApplyKeeps
<1>24. /\ pool'.last = p2.last
       /\ pool'.next = p2.next
       /\ p2.stopped => pool'.stopped
       /\ \A d \in Calls : \/ phase'[d] = ph[d]
                           \/ ph[d] = "running" /\ phase'[d] = "grace" /\ pool'.abortRun
  BY <1>2, <1>12, <1>15, ApplyEffect DEF TypesOK
<1>25. HasWorker(pool', phase')
  <2>1. CASE claimed = {}
    BY <1>9, <1>8, <1>11, <1>24, <2>1 DEF HasWorker
  <2>2. CASE claimed # {}
    <3>1. p1.next \in Calls /\ p1.next \in claimed /\ p1.next < pool'.next
      BY <1>8, <1>9, <1>11, <1>24, <2>2
    <3>2. ph[p1.next] \in {"publishing", "rejected", "approval"}
      BY <1>14, <3>1 DEF Claimed
    <3>3. phase'[p1.next] # "slotted"
      BY <1>24, <3>1, <3>2
    <3> QED BY <3>1, <3>3 DEF HasWorker
  <2> QED BY <2>1, <2>2
<1>26. /\ \A d \in Calls : d > pool.last /\ phase[d] = "queued" => phase'[d] = "queued"
       /\ \A d \in Calls : phase[d] = "slotted" => phase'[d] = "slotted" /\ result'[d] = result[d]
  <2>1. \A d \in claimed : d <= pool.last /\ ~(d > pool.last)
    BY <1>5, <1>8, <1>9
  <2> QED BY <1>2, <1>13, <1>14, <1>24, <2>1
<1>27. pool'.last = pool.last /\ pc' \in {"group", "failing"} /\ UNCHANGED committed
  BY <1>2, <1>4, <1>5, <1>11, <1>24 DEF InGroup
<1>28. TurnOK' /\ CommittedOK'
  BY <1>4, <1>25, <1>26, <1>27, RestKept
<1>29. OwnTypeOK'
  BY <1>2, FaultTypes DEF PoolInv, OwnTypeOK
<1> QED BY <1>23, <1>28, <1>29 DEF PoolInv

LEMMA InitInv == PoolInit => PoolInv
<1> SUFFICES ASSUME PoolInit
             PROVE  PoolInv
  OBVIOUS
<1> USE DEF PoolInit
<1>1. N \in Nat /\ N >= 1 /\ FaultBound \in Nat /\ MaxParallel \in Nat /\ Calls \subseteq Nat
      /\ \A c \in Calls : c >= 1 /\ c <= N
  BY ToolPoolAssumption DEF Calls
<1>2. OwnTypeOK
  <2>1. tool \in [Calls -> Tools] /\ pc \in PCs
    BY DEF PCs
  <2>2. eventError \in BOOLEAN /\ aborted \in BOOLEAN /\ turnAborted \in BOOLEAN
    OBVIOUS
  <2>3. faults \in 0..FaultBound
    BY <1>1
  <2> QED BY <2>1, <2>2, <2>3 DEF OwnTypeOK
<1>3. committed \in Seq([call : Calls, result : Results]) /\ Len(committed) = 0
  BY EmptySeq
<1>4. CommittedOK /\ NextCall = 1
  BY <1>1, <1>3 DEF CommittedOK, NextCall
<1>5. TurnOK
  BY <1>1, <1>4 DEF TurnOK, InGroup
<1>6. SchedulerOK(pool) /\ pool.next = 1 /\ pool.last = 0 /\ ~pool.stopped
  BY <1>1 DEF SchedulerOK, PoolStates
<1>7. TypesOK(phase, physical, result)
  BY DEF TypesOK, CallPhases
<1>8. CallsOK(pool, phase, physical, result)
  BY <1>1, <1>6 DEF CallsOK, CallOK, ClaimOK, Waiting, Executing, Over
<1>9. \A c \in Calls : ~Holds(c, pool, phase, physical)
  BY <1>1, <1>6 DEF Holds
<1>10. WorkersOK(pool, phase, physical)
  <2>1. Workers(pool, phase, physical) = {}
    BY <1>9 DEF Workers
  <2>2. Cardinality(Workers(pool, phase, physical)) = 0
    BY <2>1, FS_EmptySet
  <2> HIDE DEF PoolInit
  <2> QED BY <1>1, <2>2 DEF WorkersOK
<1>11. GroupOK(pool, phase, physical)
  BY <1>1, <1>6, <1>9 DEF GroupOK
<1>12. ApprovalsOK(phase, approvals, asking)
  <2>1. approvals \in Seq(Calls) /\ Len(approvals) = 0
    BY EmptySeq
  <2> QED BY <1>1, <2>1 DEF ApprovalsOK
<1> QED BY <1>2, <1>4, <1>5, <1>6, <1>7, <1>8, <1>10, <1>11, <1>12 DEF PoolInv, Sound

LEMMA PoolStutters == ASSUME PoolInv, UNCHANGED vars PROVE PoolInv'
<1>1. UNCHANGED <<tool, pc, pool, callVars, eventError, aborted, turnAborted, committed, faults>>
  BY DEF vars
<1>2. OwnTypeOK' /\ CommittedOK' /\ TurnOK'
  BY <1>1 DEF PoolInv, OwnTypeOK, CommittedOK, TurnOK, InGroup, HasWorker, NextCall, callVars
<1> QED BY <1>1, <1>2, SoundKept DEF PoolInv

LEMMA PoolStep == PoolInv /\ [PoolNext]_vars => PoolInv'
<1> SUFFICES ASSUME PoolInv, [PoolNext]_vars
             PROVE  PoolInv'
  OBVIOUS
<1>1. CASE RuntimeStep
  BY <1>1, StartGroupInv, CommitResultInv, CommitFailsInv, EndGroupInv, CancelTheRestInv,
     PublishCancelledInv, EndInv, RejectArgumentsInv, AskInv, CancelUnaskedInv, StartInv,
     DeadlineInv, SettleInv, PublishInv, CancelUnclaimedInv DEF RuntimeStep
<1>2. CASE HookStep
  BY <1>2, AnswersInv DEF HookStep
<1>3. CASE ToolStep
  BY <1>3, UpdateLostInv, SettleInv, OrphanSettlesInv DEF ToolStep
<1>4. CASE Abort
  BY <1>4, AbortInv
<1>5. CASE UNCHANGED vars
  BY <1>5, PoolStutters
<1> QED BY <1>1, <1>2, <1>3, <1>4, <1>5 DEF PoolNext

THEOREM PoolInvariance == PoolSpec => []PoolInv
BY InitInv, PoolStep, PTL DEF PoolSpec

-----------------------------------------------------------------------------
(* What the invariant says of the tools. *)
LEMMA RunningHolds ==
  ASSUME PoolInv
  PROVE  \A c \in Calls : physical[c] = "running" => Holds(c, pool, phase, physical)
<1> SUFFICES ASSUME NEW c \in Calls, physical[c] = "running"
             PROVE  Holds(c, pool, phase, physical)
  OBVIOUS
<1>1. ClaimOK(c, pool, phase, physical) /\ pool.next \in Nat /\ c \in Nat
  BY CallsAreNumbers DEF PoolInv, Sound, CallsOK, SchedulerOK, PoolStates
<1> QED BY <1>1 DEF ClaimOK, Holds

LEMMA PoolInvIsSafe == PoolInv => PoolIsSafe
<1> SUFFICES ASSUME PoolInv
             PROVE  PoolIsSafe
  OBVIOUS
<1> DEFINE run == {c \in Calls : physical[c] = "running"}
<1>1. PoolTypeOK
  BY DEF PoolInv, OwnTypeOK, CommittedOK, Sound, SchedulerOK, PoolStates, TypesOK, ApprovalsOK, PoolTypeOK
<1>2. \A c, d \in Calls : c \in run /\ d \in run /\ c # d => Joins(c)
  BY RunningHolds DEF PoolInv, Sound, GroupOK
<1>3. ExclusiveRunsAlone
  BY <1>2 DEF ExclusiveRunsAlone, Joins
<1>4. IsFiniteSet(run) /\ Cardinality(run) \in Nat
  BY CallsAreNumbers, FS_Subset, FS_CardinalityType
<1>5. PoolIsBounded
  <2>1. Cardinality(run) <= MaxParallel
    <3>1. run \subseteq Workers(pool, phase, physical)
      BY RunningHolds DEF Workers
    <3>2. IsFiniteSet(Workers(pool, phase, physical))
      BY CallsAreNumbers, FS_Subset DEF Workers
    <3>3. Cardinality(run) <= Cardinality(Workers(pool, phase, physical))
          /\ Cardinality(Workers(pool, phase, physical)) \in Nat
      BY <3>1, <3>2, FS_Subset, FS_CardinalityType
    <3> QED BY <1>4, <3>3, ToolPoolAssumption DEF PoolInv, Sound, WorkersOK
  <2>2. ~ParallelToolCalls => Cardinality(run) <= 1
    <3> SUFFICES ASSUME ~ParallelToolCalls
                 PROVE  Cardinality(run) <= 1
      OBVIOUS
    <3>1. \A c, d \in run : c = d
      BY <1>2 DEF Joins
    <3>2. run = {} \/ \E c : run = {c}
      BY <3>1
    <3>3. Cardinality({}) = 0 /\ \A c : Cardinality({c}) = 1
      BY FS_EmptySet, FS_Singleton
    <3> HIDE DEF run
    <3>4. CASE run = {}
      BY <3>3, <3>4
    <3>5. CASE \E c : run = {c}
      <4>1. PICK c : run = {c}
        BY <3>5
      <4>2. Cardinality(run) = 1
        BY <3>3, <4>1
      <4> QED BY <4>2
    <3> QED BY <3>2, <3>4, <3>5
  <2> QED BY <2>1, <2>2 DEF PoolIsBounded
<1>6. \A c \in Calls : CallOK(c, pool, phase, physical, result) /\ phase[c] \in CallPhases
                      /\ physical[c] \in {"no", "running", "settled"}
  BY DEF PoolInv, Sound, CallsOK, TypesOK
<1>7. ResultsAreTruthful
  BY <1>6 DEF ResultsAreTruthful, CallOK, CallPhases, Waiting, Executing, Over
<1>8. InterruptionIsReported
  <2>1. (\E c \in Calls : result[c] \in {"interrupted", "unknown"}) => pool.abortRun
    BY <1>6 DEF CallOK, CallPhases, Waiting, Executing, Over
  <2>2. pool.abortRun /\ pc \in {"turn", "rest", "context", "done"} => turnAborted
    BY DEF PoolInv, TurnOK
  <2> QED BY <2>1, <2>2 DEF InterruptionIsReported
<1> QED BY <1>1, <1>3, <1>5, <1>7, <1>8 DEF PoolIsSafe, SchedulingIsSafe, ReportsAreTruthful

\* However its calls, their tools, the user and the faults interleave, tools
\* that must not run together never do, at most MaxParallel run, orphans
\* counted, and every result tells the truth about its execution
\* (runtime.ts:124-275, invocation.ts:42-211).
THEOREM PoolSafe == PoolSpec => []PoolIsSafe
BY PoolInvariance, PoolInvIsSafe, PTL

-----------------------------------------------------------------------------
(* A pool that was stopped claims nothing more. *)
LEMMA QueuedStays ==
  ASSUME PoolInv, NEW c \in Calls, NEW p, NEW to, NEW signal,
         Apply(p, [phase EXCEPT ![c] = to], signal), phase[c] # "queued"
  PROVE  \A d \in Calls : phase[d] = "queued" => phase'[d] = "queued"
BY DEF PoolInv, Sound, TypesOK, Apply

LEMMA QueuedKept ==
  ASSUME PoolInv, NEW p, NEW signal, Apply(p, phase, signal)
  PROVE  \A d \in Calls : phase[d] = "queued" => phase'[d] = "queued"
BY DEF PoolInv, Sound, TypesOK, Apply

LEMMA ReplenishStep ==
  PoolInv /\ [PoolNext]_vars =>
    [aborted \/ pool.stopped \/ (\E c \in Calls : phase[c] = "grace") =>
       \A c \in Calls : phase[c] = "queued" /\ phase'[c] # "queued" =>
                          result'[c] = "cancelled"]_vars
<1> SUFFICES ASSUME PoolInv, PoolNext,
                    aborted \/ pool.stopped \/ (\E c \in Calls : phase[c] = "grace"),
                    NEW d \in Calls, phase[d] = "queued", phase'[d] # "queued"
             PROVE  result'[d] = "cancelled"
  OBVIOUS
<1>1. /\ phase \in [Calls -> CallPhases] /\ result \in [Calls -> Results \cup {"none"}]
      /\ \A c \in Calls : CallOK(c, pool, phase, physical, result)
      /\ SchedulerOK(pool)
  BY DEF PoolInv, Sound, CallsOK, TypesOK
<1>2. aborted \/ pool.stopped
  BY <1>1 DEF CallOK, SchedulerOK
<1>3. CASE StartGroup
  <2>1. ~pool.abortRun /\ ~pool.failure /\ ~aborted
    BY <1>3 DEF StartGroup, PoolInv, TurnOK
  <2> QED BY <1>1, <1>2, <2>1 DEF SchedulerOK
<1>4. CASE PublishCancelled
  <2>1. NextCall \in Nat /\ NextCall <= N /\ NextCall \in Calls
    BY <1>4, CallsAreNumbers DEF PublishCancelled, PoolInv, TurnOK, Calls
  <2>2. /\ phase' = [phase EXCEPT ![NextCall] = "slotted"]
        /\ result' = [result EXCEPT ![NextCall] = "cancelled"]
    BY <1>4 DEF PublishCancelled
  <2> QED BY <1>1, <2>1, <2>2
<1>5. CASE \E c \in Calls : CancelUnclaimed(c)
  <2>1. PICK c \in Calls : CancelUnclaimed(c)
    BY <1>5
  <2>2. /\ Apply(pool, [phase EXCEPT ![c] = "publishing"], aborted)
        /\ result' = [result EXCEPT ![c] = "cancelled"]
    BY <2>1 DEF CancelUnclaimed, Become
  <2>3. d # c => phase'[d] = "queued"
    BY <1>1, <2>2 DEF Apply
  <2> QED BY <1>1, <2>2, <2>3
<1>6. CASE \E c \in Calls : Publish(c)
  <2>1. PICK c \in Calls : Publish(c)
    BY <1>6
  <2>2. PICK p, S, ph :
          /\ Apply(p, ph, aborted) /\ S = {}
          /\ ph = [e \in Calls |-> IF e = c THEN "slotted"
                                   ELSE IF e \in S THEN Claimed(e) ELSE phase[e]]
    <3>1. PICK lost \in BOOLEAN :
            LET p0 == IF lost THEN StopForFailure(pool) ELSE pool
                p1 == IF aborted THEN StopForAbort(p0) ELSE p0
                claimed == IF p1.stopped THEN {}
                           ELSE {e \in Calls : e = p1.next /\ e <= p1.last}
            IN  Apply([p1 EXCEPT !.next = @ + Cardinality(claimed)],
                      [e \in Calls |-> IF e = c THEN "slotted"
                                       ELSE IF e \in claimed THEN Claimed(e) ELSE phase[e]],
                      aborted)
      BY <2>1 DEF Publish
    <3> DEFINE p0 == IF lost THEN StopForFailure(pool) ELSE pool
               p1 == IF aborted THEN StopForAbort(p0) ELSE p0
    <3>2. SchedulerOK(p0) /\ (pool.stopped => p0.stopped)
      BY <1>1, StopTypes
    <3>3. p1.stopped
      <4> HIDE DEF p0
      <4> QED BY <1>2, <3>2, StopTypes
    <3> HIDE DEF p1
    <3> QED BY <3>1, <3>3 DEF p1
  <2>3. phase[c] = "publishing"
    BY <2>1 DEF Publish
  <2> QED BY <1>1, <2>2, <2>3 DEF Apply
<1>7. CASE \/ CommitResult \/ EndGroup \/ GroupFailed \/ CancelTheRest \/ AllAnswered \/ EndExecute
           \/ \E c \in Calls : Ask(c) \/ UpdateLost(c) \/ OrphanSettles(c)
  BY <1>7 DEF CommitResult, EndGroup, GroupFailed, CancelTheRest, AllAnswered, EndExecute, Ask,
              UpdateLost, OrphanSettles, callVars
<1>8. CASE Abort \/ CommitFails \/ \E c \in Calls : Deadline(c)
  <2>1. phase' = phase \/ \E p, signal : Apply(p, phase, signal)
    BY <1>8 DEF Abort, CommitFails, Deadline
  <2> QED BY <2>1, QueuedKept
<1>9. CASE \E c \in Calls : \/ RejectArguments(c) \/ CancelUnasked(c) \/ Answer(c) \/ Refuse(c)
                           \/ HookFails(c) \/ Start(c) \/ Settle(c) \/ SettleInGrace(c) \/ Orphan(c)
  <2>1. PICK c \in Calls : \/ RejectArguments(c) \/ CancelUnasked(c) \/ Answer(c) \/ Refuse(c)
                          \/ HookFails(c) \/ Start(c) \/ Settle(c) \/ SettleInGrace(c) \/ Orphan(c)
    BY <1>9
  <2>2. \E p, to, signal : Apply(p, [phase EXCEPT ![c] = to], signal)
    BY <2>1 DEF RejectArguments, CancelUnasked, Answer, Refuse, HookFails, Start, Settle,
                SettleInGrace, Orphan, Become
  <2>3. phase[c] # "queued"
    <3>1. asking = c \/ (asking = 0 /\ approvals # <<>> /\ Head(approvals) = c)
            => phase[c] = "approval"
      BY AtCall, ApprovalsTaken, CallsAreNumbers DEF ApprovalsOK
    <3> QED BY <2>1, <3>1 DEF RejectArguments, CancelUnasked, Answer, Refuse, HookFails, Start,
                              Settle, SettleInGrace, Orphan
  <2> QED BY <2>2, <2>3, QueuedStays
<1> QED BY <1>3, <1>4, <1>5, <1>6, <1>7, <1>8, <1>9 DEF PoolNext, RuntimeStep, HookStep, ToolStep

\* Once the run is aborted, the pool stopped or a tool within its grace period,
\* no call is claimed any more: those that were not are cancelled
\* (invocation.ts:149-151, runtime.ts:193-275).
THEOREM PoolStopsReplenishing == PoolSpec => StopsReplenishing
<1>1. PoolInv /\ [PoolNext]_vars =>
        [aborted \/ pool.stopped \/ (\E c \in Calls : phase[c] = "grace") =>
           \A c \in Calls : phase[c] = "queued" /\ phase'[c] # "queued" =>
                              result'[c] = "cancelled"]_vars
  BY ReplenishStep
<1> QED BY <1>1, PoolInvariance, PTL DEF PoolSpec, StopsReplenishing

-----------------------------------------------------------------------------
(* The pool implements ToolTurn. *)
LEMMA TurnInitially == PoolInit => Turn!TurnInit
BY DEF PoolInit, Turn!TurnInit, Ended

LEMMA TurnStep == PoolInv /\ [PoolNext]_vars => [Turn!TurnNext]_Turn!turnVars
<1> SUFFICES ASSUME PoolInv, [PoolNext]_vars
             PROVE  Turn!TurnNext \/ UNCHANGED Turn!turnVars
  BY DEF Turn!turnVars
<1> USE DEF Ended
<1>1. CASE CommitResult
  <2>1. /\ Len(committed) \in Nat /\ NextCall = Len(committed) + 1 /\ NextCall \in Calls
        /\ N \in Nat /\ NextCall <= N
    BY <1>1, CallsAreNumbers DEF PoolInv, CommitResult, NextCall, Calls
  <2>2. result[NextCall] \in Results
    <3>1. CallOK(NextCall, pool, phase, physical, result) /\ result[NextCall] \in Results \cup {"none"}
      BY <2>1 DEF PoolInv, Sound, CallsOK, TypesOK
    <3> QED BY <1>1, <3>1 DEF CommitResult, CallOK, Over
  <2>3. pc \notin {"done", "failed"} /\ pc' \notin {"done", "failed"} /\ UNCHANGED turnAborted
    BY <1>1 DEF CommitResult
  <2>4. Turn!CommitNext
    <3>1. result[NextCall] \in Turn!TurnResults
      BY <2>2 DEF Results, Turn!TurnResults, Turn!CutShort
    <3>2. committed' = Append(committed, [call |-> Len(committed) + 1, result |-> result[NextCall]])
      BY <1>1 DEF CommitResult, NextCall
    <3> QED BY <2>1, <2>3, <3>1, <3>2 DEF Turn!CommitNext
  <2> QED BY <2>4 DEF Turn!TurnNext
<1>2. CASE EndExecute /\ pc' = "done"
  <2>1. /\ pc = "context" /\ Len(committed) = N /\ UNCHANGED <<committed, turnAborted>>
    BY <1>2 DEF EndExecute, PoolInv, TurnOK
  <2>2. ASSUME NEW k \in 1..N, committed[k].result \in {"interrupted", "unknown"}
        PROVE  turnAborted
    <3>1. k \in Calls /\ phase[k] = "slotted" /\ committed[k] = [call |-> k, result |-> result[k]]
      BY <2>1 DEF PoolInv, CommittedOK, Calls
    <3>2. result[k] \in {"interrupted", "unknown"} /\ CallOK(k, pool, phase, physical, result)
      BY <2>2, <3>1 DEF PoolInv, Sound, CallsOK
    <3> QED BY <2>1, <3>1, <3>2 DEF CallOK, Over, PoolInv, TurnOK
  <2>3. turnAborted' \in BOOLEAN
    BY <2>1 DEF PoolInv, OwnTypeOK
  <2>4. Turn!EndTurn
    BY <1>2, <2>1, <2>2, <2>3 DEF Turn!EndTurn, Turn!CutShort
  <2> QED BY <2>4 DEF Turn!TurnNext
<1>3. CASE pc' = "failed" /\ pc \notin {"done", "failed"} /\ UNCHANGED committed
  BY <1>3 DEF Turn!TurnNext, Turn!FailTurn
<1>4. CASE pc' \notin {"done", "failed"} /\ pc \notin {"done", "failed"} /\ UNCHANGED committed
  BY <1>4 DEF Turn!turnVars
<1>5. CASE UNCHANGED <<pc, committed, turnAborted>>
  BY <1>5 DEF Turn!turnVars
<1>6. CASE \/ StartGroup \/ CommitFails \/ EndGroup \/ GroupFailed \/ CancelTheRest
           \/ PublishCancelled \/ AllAnswered \/ EndExecute
  <2>1. UNCHANGED committed /\ pc \notin {"done", "failed"}
    BY <1>6 DEF StartGroup, CommitFails, EndGroup, GroupFailed, CancelTheRest, PublishCancelled,
                AllAnswered, EndExecute
  <2>2. pc' = "done" => EndExecute
    BY <1>6 DEF StartGroup, CommitFails, EndGroup, GroupFailed, CancelTheRest, PublishCancelled,
                AllAnswered
  <2> QED BY <1>2, <1>3, <1>4, <2>1, <2>2
<1>7. CASE \/ \E c \in Calls : \/ RejectArguments(c) \/ Ask(c) \/ CancelUnasked(c) \/ Start(c)
                               \/ Deadline(c) \/ Orphan(c) \/ Publish(c) \/ CancelUnclaimed(c)
           \/ HookStep \/ ToolStep \/ Abort \/ UNCHANGED vars
  <2>1. UNCHANGED <<pc, committed, turnAborted>>
    BY <1>7 DEF RejectArguments, Ask, CancelUnasked, Start, Deadline, Orphan, Publish,
                CancelUnclaimed, HookStep, Answer, Refuse, HookFails, ToolStep, UpdateLost, Settle,
                SettleInGrace, OrphanSettles, Abort, vars
  <2> QED BY <1>5, <2>1
<1> QED BY <1>1, <1>6, <1>7 DEF PoolNext, RuntimeStep

\* The results of an assistant message are committed one at a time in model
\* order, the turn ends only when every call is answered, and then tells the
\* loop of an interruption (docs/tools.md:66-86, runtime.ts:42-122).
THEOREM PoolImplementsToolTurn == PoolSpec => ImplementsToolTurn
BY TurnInitially, TurnStep, PoolInvariance, PTL DEF PoolSpec, ImplementsToolTurn, Turn!TurnSpec
=============================================================================
