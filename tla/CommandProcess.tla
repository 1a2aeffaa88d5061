--------------------------- MODULE CommandProcess ---------------------------
(***************************************************************************)
(* A command that the tools shell and job_start run                        *)
(* (src/tools/command-process.ts, shell.ts, background-jobs.ts): a shell   *)
(* in a process group of its own, which is waited for, stopped by a        *)
(* deadline, an abort or a broken reader, and read until its pipes close.  *)
(*                                                                         *)
(* The operating system is external: a group of the shell and what it left *)
(* running, and a process that left the group but kept the pipes.  A       *)
(* signal may be ignored, also SIGKILL for as long as a process is stuck   *)
(* in the kernel.  Output is a number of chunks per stream.  A group's id  *)
(* is not given to another one.                                            *)
(***************************************************************************)
EXTENDS Naturals, FiniteSets

CONSTANTS Streams,    \* stdout and stderr
          MaxChunks,  \* bound: chunks written to one of them
          MaxForks    \* bound: processes a shell leaves running

ASSUME CommandAssumption == IsFiniteSet(Streams) /\ {MaxChunks, MaxForks} \subseteq Nat

VARIABLES
  group,    \* processes in the group, the shell's exit code, the escaped one
  written,  \* chunks written to each stream
  command,  \* the fields of runCommandProcess
  pipe,     \* each readCommandOutput: its state, and the chunks it passed on
  partial,  \* createShellPartialEmitter: latest, its timer, what it emitted
  outcome   \* what the tool or the job says in the end

commandVars == <<group, written, command, pipe, partial, outcome>>

Nothing == [s \in Streams |-> 0]
NoPartial == <<>>
NoCode == "null"
Output == [s \in Streams |-> pipe[s].passed]

CommandTypeOK ==
  /\ group.members \subseteq {"shell", "child"} /\ group.escaped \in BOOLEAN
  /\ group.code \in {NoCode, "0", "1"}
  /\ written \in [Streams -> 0..MaxChunks]
  /\ command.phase \in {"resolving", "waiting", "polling", "stopping", "draining", "closing", "done"}
  /\ command.reason \in {"none", "timeout", "abort", "failure"}
  /\ command.stop \in {"none", "term", "kill", "quiet", "lingers"}
  /\ pipe \in [Streams -> [state : {"reading", "ended", "failed"}, passed : 0..MaxChunks]]
  /\ partial.latest \in {NoPartial} \cup {<<o>> : o \in [Streams -> 0..MaxChunks]}

-----------------------------------------------------------------------------
(* The processes *)

isProcessGroupRunning == group.members # {}
PipesAreOpen == group.members # {} \/ group.escaped

Writes(s) ==
  /\ PipesAreOpen /\ written[s] < MaxChunks
  /\ written' = [written EXCEPT ![s] = @ + 1]
  /\ UNCHANGED <<group, command, pipe, partial, outcome>>

\* The shell leaves a process running, in its group or in a session of its own.
Forks ==
  /\ "shell" \in group.members /\ group.forks > 0
  /\ \/ group' = [group EXCEPT !.members = @ \cup {"child"}, !.forks = @ - 1]
     \/ group' = [group EXCEPT !.escaped = TRUE, !.forks = @ - 1]
  /\ UNCHANGED <<written, command, pipe, partial, outcome>>

\* A process ends, the shell with a code.
Exits ==
  /\ \/ \E code \in {"0", "1"} :
          /\ "shell" \in group.members
          /\ group' = [group EXCEPT !.members = @ \ {"shell"}, !.code = code]
     \/ /\ "child" \in group.members
        /\ group' = [group EXCEPT !.members = @ \ {"child"}]
     \/ group.escaped /\ group' = [group EXCEPT !.escaped = FALSE]
  /\ UNCHANGED <<written, command, pipe, partial, outcome>>

-----------------------------------------------------------------------------
(* Stopping the group *)

\* The first reason to stop counts, and the group is told to end.
requestStop(c, reason) ==
  IF c.reason # "none" THEN c ELSE [c EXCEPT !.reason = reason, !.stop = "term"]

\* waitForProcessGroupExit sees the group gone, in either of its waits.
GroupIsGone ==
  /\ command.stop \in {"term", "kill"} /\ ~isProcessGroupRunning
  /\ command' = [command EXCEPT !.stop = "quiet"]
  /\ UNCHANGED <<group, written, pipe, partial, outcome>>

KillIsAwaited ==
  /\ command.stop = "term" /\ isProcessGroupRunning
  /\ command' = [command EXCEPT !.stop = "kill"]
  /\ UNCHANGED <<group, written, pipe, partial, outcome>>

\* TERMINATE_GRACE_MS and KILL_GRACE_MS pass.
GracePasses ==
  /\ command.stop \in {"term", "kill"} /\ isProcessGroupRunning
  /\ command' = [command EXCEPT !.stop = IF @ = "term" THEN "kill" ELSE "lingers"]
  /\ UNCHANGED <<group, written, pipe, partial, outcome>>

\* The deadline and the signal are heard until the group has been waited for.
IsListening == command.phase \in {"waiting", "polling", "stopping"}

DeadlinePasses ==
  /\ command.deadline /\ IsListening
  /\ command' = [requestStop(command, "timeout") EXCEPT !.deadline = FALSE]
  /\ UNCHANGED <<group, written, pipe, partial, outcome>>

\* A signal that comes later is the tool runtime's concern.
SignalAborts ==
  /\ ~command.aborted /\ command.phase # "done"
  /\ command' = [IF IsListening THEN requestStop(command, "abort") ELSE command
                 EXCEPT !.aborted = TRUE]
  /\ UNCHANGED <<group, written, pipe, partial, outcome>>

-----------------------------------------------------------------------------
(* Reading, and what the tool shows of it meanwhile *)

\* Partial updates are at least PARTIAL_UPDATE_INTERVAL_MS apart: a new one is
\* made at once or by a timer.  A job has none.
Emit(p) == IF p.latest = NoPartial THEN p
           ELSE [p EXCEPT !.latest = NoPartial, !.emitted = p.latest[1]]

PartialOf(p, output, elapsed) ==
  LET newest == [p EXCEPT !.latest = <<output>>] IN
  IF command.tool = "job" THEN p
  ELSE IF elapsed THEN Emit([newest EXCEPT !.timer = FALSE])
  ELSE [newest EXCEPT !.timer = TRUE]

flushNothing(p) == [p EXCEPT !.timer = FALSE]
flush(p) == Emit([p EXCEPT !.timer = FALSE])

PartialTimer ==
  /\ partial.timer /\ partial' = flush(partial)
  /\ UNCHANGED <<group, written, command, pipe, outcome>>

IsReading(s) == pipe[s].state = "reading" /\ command.phase \notin {"resolving", "done"}

\* A chunk that was read is passed on, also if its reader was cancelled since.
Reads(s) ==
  /\ IsReading(s) /\ pipe[s].passed < written[s]
  /\ pipe' = [pipe EXCEPT ![s].passed = @ + 1]
  /\ \E elapsed \in BOOLEAN : partial' = PartialOf(partial, Output', elapsed)
  /\ UNCHANGED <<group, written, command, outcome>>

\* The pipe ends, or its reader was cancelled.
ReadEnds(s) ==
  /\ IsReading(s)
  /\ \/ ~PipesAreOpen /\ pipe[s].passed = written[s]
     \/ command.phase = "closing"
  /\ pipe' = [pipe EXCEPT ![s].state = "ended"]
  /\ UNCHANGED <<group, written, command, partial, outcome>>

\* Reading or passing on fails; that no longer counts once it was cancelled.
ReadFails(s) ==
  /\ IsReading(s) /\ command.phase # "closing"
  /\ pipe' = [pipe EXCEPT ![s].state = "failed"]
  /\ command' = requestStop(command, "failure")
  /\ UNCHANGED <<group, written, partial, outcome>>

Failed == \E s \in Streams : pipe[s].state = "failed"
ReadersAreDone == \A s \in Streams : pipe[s].state # "reading"

-----------------------------------------------------------------------------
(* runCommandProcess *)

\* The directory is resolved, and nothing was aborted until the spawn.
Spawns ==
  /\ command.phase = "resolving" /\ ~command.aborted
  /\ group' = [group EXCEPT !.members = {"shell"}]
  /\ command' = [command EXCEPT !.phase = "waiting"]
  /\ UNCHANGED <<written, pipe, partial, outcome>>

\* It was aborted before, or the directory or the shell is missing.
StartFails ==
  /\ command.phase = "resolving"
  /\ command' = [command EXCEPT !.phase = "done"]
  /\ outcome' = [says |-> IF command.aborted THEN "aborted" ELSE "error", code |-> NoCode]
  /\ UNCHANGED <<group, written, pipe, partial>>

\* proc.exited resolves, or rejects and the exit stays unknown.
ShellExited ==
  /\ command.phase = "waiting"
  /\ \/ /\ "shell" \notin group.members
        /\ command' = [command EXCEPT !.phase = "polling", !.code = group.code]
     \/ command' = [requestStop(command, "failure") EXCEPT !.phase = "polling", !.known = FALSE]
  /\ UNCHANGED <<group, written, pipe, partial, outcome>>

\* What the shell left running is waited for.
GroupNotPolled ==
  /\ command.phase = "polling" /\ command.stop = "none"
  /\ command' = [command EXCEPT !.phase = "draining"]
  /\ UNCHANGED <<group, written, pipe, partial, outcome>>

GroupPolled ==
  /\ command.phase = "polling" /\ command.stop = "none"
  /\ ~isProcessGroupRunning
  /\ command' = [command EXCEPT !.phase = "draining"]
  /\ UNCHANGED <<group, written, pipe, partial, outcome>>

StopAwaited ==
  /\ command.phase = "polling" /\ command.stop # "none"
  /\ command' = [command EXCEPT !.phase = "stopping"]
  /\ UNCHANGED <<group, written, pipe, partial, outcome>>

GroupStopped ==
  /\ command.phase = "stopping" /\ command.stop \in {"quiet", "lingers"}
  /\ command' = [command EXCEPT !.phase = "draining", !.quiescent = (command.stop = "quiet")]
  /\ UNCHANGED <<group, written, pipe, partial, outcome>>

OutputDrainedAtOnce ==
  /\ command.phase = "draining" /\ command' = [command EXCEPT !.phase = "closing"]
  /\ UNCHANGED <<group, written, pipe, partial, outcome>>

\* The pipes have been read to their ends, or OUTPUT_DRAIN_MS pass.
OutputDrained ==
  /\ command.phase = "draining" /\ ReadersAreDone
  /\ command' = [command EXCEPT !.phase = "closing"]
  /\ UNCHANGED <<group, written, pipe, partial, outcome>>

DrainNeverPasses == FALSE /\ UNCHANGED commandVars

DrainPasses ==
  /\ command.phase = "draining" /\ ~ReadersAreDone
  /\ command' = [command EXCEPT !.phase = "closing", !.cut = TRUE]
  /\ UNCHANGED <<group, written, pipe, partial, outcome>>

ResultOfCode(c) ==
  IF ~c.known \/ ~c.quiescent THEN [says |-> "unknown", code |-> c.code]
  ELSE [says |-> IF c.code = "0" THEN "completed" ELSE "failed", code |-> c.code]

ResultIfExited(c) ==
  IF c.reason = "abort" THEN [says |-> "cancelled", code |-> c.code]
  ELSE IF c.reason = "timeout" THEN [says |-> "timed out", code |-> NoCode]
  ELSE IF ~c.known THEN [says |-> "unknown", code |-> c.code]
  ELSE [says |-> IF c.code = "0" THEN "completed" ELSE "failed", code |-> c.code]

\* CommandProcessResult
ResultOf(c) ==
  IF ~c.known \/ ~c.quiescent THEN [says |-> "unknown", code |-> c.code]
  ELSE IF c.reason = "abort" THEN [says |-> "cancelled", code |-> c.code]
  ELSE IF c.reason = "timeout" THEN [says |-> "timed out", code |-> NoCode]
  ELSE [says |-> IF c.code = "0" THEN "completed" ELSE "failed", code |-> c.code]

\* The shell tool throws for a command that was aborted, whatever is known of it.
Reported(c) ==
  IF Failed THEN [says |-> "error", code |-> NoCode]
  ELSE IF c.tool = "shell" /\ c.reason = "abort" THEN [says |-> "aborted", code |-> NoCode]
  ELSE ResultOf(c)

Returns ==
  /\ command.phase = "closing" /\ ReadersAreDone
  /\ command' = [command EXCEPT !.phase = "done"]
  /\ partial' = flush(partial)
  /\ outcome' = Reported(command)
  /\ UNCHANGED <<group, written, pipe>>

-----------------------------------------------------------------------------
NotYet == [says |-> "nothing", code |-> NoCode]

CommandInit ==
  /\ group = [members |-> {}, code |-> NoCode, escaped |-> FALSE, forks |-> MaxForks]
  /\ written = Nothing
  /\ \E tool \in {"shell", "job"}, deadline \in BOOLEAN :
       /\ tool = "shell" => deadline
       /\ command = [phase |-> "resolving", tool |-> tool, deadline |-> deadline, aborted |-> FALSE,
                     reason |-> "none", stop |-> "none", code |-> NoCode, known |-> TRUE,
                     quiescent |-> TRUE, cut |-> FALSE]
  /\ pipe = [s \in Streams |-> [state |-> "reading", passed |-> 0]]
  /\ partial = [latest |-> NoPartial, timer |-> FALSE, emitted |-> Nothing]
  /\ outcome = NotYet

ShellKilled ==
  /\ "shell" \in group.members /\ command.stop # "none"
  /\ group' = [group EXCEPT !.members = @ \ {"shell"}]
  /\ UNCHANGED <<written, command, pipe, partial, outcome>>

\* What processes and users do.
CommandWorld ==
  \/ \E s \in Streams : Writes(s)
  \/ Forks \/ Exits \/ ShellKilled \/ SignalAborts
  \/ \E s \in Streams : ReadFails(s)

\* What promises and timers do (their fairness is stated where it is checked).
CommandGoesOn ==
  \/ Spawns \/ StartFails \/ ShellExited \/ GroupPolled \/ StopAwaited \/ GroupStopped
  \/ GroupIsGone \/ GracePasses \/ DeadlinePasses
  \/ OutputDrained \/ DrainPasses \/ Returns
  \/ \E s \in Streams : Reads(s) \/ ReadEnds(s)

CommandNext == CommandWorld \/ CommandGoesOn \/ PartialTimer

CommandSpec == CommandInit /\ [][CommandNext]_commandVars

-----------------------------------------------------------------------------
(* Properties *)

CommandIsDone == command.phase = "done"

\* A command that is said to have ended, with a code, cancelled or timed out,
\* has left no process of its group running: polling, the two waits of
\* terminateProcessGroup and a late stop reason do not miss one
\* (command-process.ts:85-88, 102-113).
NothingIsLeftRunning ==
  CommandIsDone /\ outcome.says \in {"completed", "failed", "cancelled", "timed out"}
    => ~isProcessGroupRunning

\* What is said of it is what happened: it was aborted, its deadline passed, or
\* the shell ended with that very code and nothing had asked it to stop.
OutcomeOfCommand ==
  CommandIsDone =>
    /\ outcome.says \in {"cancelled", "aborted"} => command.aborted
    /\ outcome.says = "timed out" => ~command.deadline
    /\ outcome.says \in {"completed", "failed"} =>
         /\ command.reason = "none" /\ outcome.code = group.code
         /\ (outcome.says = "completed") = (group.code = "0")

\* Output is whole, unless a process outside the group keeps the pipes for
\* OUTPUT_DRAIN_MS or reading fails; and the last update a shell call made
\* shows all of it, with no timer left that would make one after the result.
OutputIsWhole ==
  CommandIsDone /\ outcome.says # "error" =>
    /\ ~command.cut => Output = written
    /\ command.tool = "shell" => partial.emitted = Output /\ ~partial.timer

CommandIsSafe == CommandTypeOK /\ NothingIsLeftRunning /\ OutcomeOfCommand /\ OutputIsWhole

\* A command that was told to stop ends, whether or not its processes heed
\* SIGTERM or SIGKILL and whoever still holds its pipes.
CommandsEnd == (command.reason # "none") ~> CommandIsDone
=============================================================================
