--------------------------- MODULE TranscriptView ---------------------------
(***************************************************************************)
(* The transcript of the terminal interface: how the events of agent runs  *)
(* become blocks (tui/app/agent-event-renderer.ts, tool-call-blocks.ts,    *)
(* components/chat-blocks), how streamed text is revealed frame by frame   *)
(* (streaming-text-presenter.ts), and how a resumed session's timeline is  *)
(* turned into blocks again (history.ts).                                  *)
(*                                                                         *)
(* A text is its number of graphemes.  The agent is external: it sends its *)
(* events in the order of agent/loop.ts, may be aborted, may fail, and     *)
(* commits to the timeline what the session journal keeps of the run.      *)
(***************************************************************************)
EXTENDS Naturals, Sequences, FiniteSets, SequencesExt

CONSTANTS
  NameOf,      \* the tools of a message's calls, in order
  MaxCalls,    \* the calls of all messages
  Burst,       \* the most graphemes one text delta brings
  MaxText,     \* the graphemes of a message
  MaxTurns,    \* the turns of all runs
  MaxRuns,     \* the runs
  Faults       \* of "abort", "error", "length", "throw": how a run may go wrong

ASSUME TranscriptAssumption ==
  {MaxCalls, Burst, MaxText, MaxTurns, MaxRuns} \subseteq Nat /\ NameOf \in Seq(STRING)

VARIABLES
  ui,        \* the renderer: blocks, presenter, known calls, status line
  agent,     \* the run that sends events
  timeline   \* what the session's journal has of it

transcriptVars == <<ui, agent, timeline>>

\* A call is the number of its message and its place in it.
ToolName(c) == NameOf[c[2]]
NoMessage == [id |-> 0, text |-> 0, hosted |-> "none", calls |-> {}]

(* Blocks.  `live` marks a block the renderer still holds a reference to:
   the streaming assistant, the preparation, a pending tool. *)
Block(kind, of, state) ==
  [kind |-> kind, of |-> of, shown |-> 0, hosted |-> "none", state |-> state,
   todo |-> FALSE, ticks |-> FALSE, live |-> FALSE]
Has(u, kind) == \E i \in DOMAIN u.blocks : u.blocks[i].kind = kind /\ u.blocks[i].live
HasTool(u, c) == \E i \in DOMAIN u.blocks :
  u.blocks[i].kind = "tool" /\ u.blocks[i].live /\ u.blocks[i].of = c
addChild(u, b) == [u EXCEPT !.blocks = Append(@, b)]
\* The live blocks of a kind, changed, or taken out of the transcript.
EditBlocks(u, kind, Change(_)) ==
  [u EXCEPT !.blocks = [i \in DOMAIN u.blocks |->
     IF u.blocks[i].kind = kind /\ u.blocks[i].live THEN Change(u.blocks[i]) ELSE u.blocks[i]]]
EditTool(u, c, Change(_)) ==
  LET One(b) == IF b.of = c THEN Change(b) ELSE b IN EditBlocks(u, "tool", One)
removeChild(u, kind) ==
  LET Stays(b) == ~(b.kind = kind /\ b.live) IN [u EXCEPT !.blocks = SelectSeq(@, Stays)]

\* The assistant's block: its working line, its hosted activity, its text.
showWorking(b, value) == [b EXCEPT !.state = IF value THEN "working" ELSE "quiet"]
stopActivityTimers(b) == [b EXCEPT !.state = "quiet", !.ticks = FALSE]
updateAssistant(b, message, visible) ==
  [b EXCEPT !.of = @ \union {message.id}, !.shown = visible, !.hosted = message.hosted,
            !.ticks = (message.hosted = "in_progress")]

(* StreamingTextPresenter: the visible prefix of the streamed text. *)
NoText == [target |-> NoMessage, visible |-> 0, complete |-> FALSE, timer |-> FALSE]
HasTarget(u) == u.text.target.id # 0
hasPendingText(u) == HasTarget(u) /\ u.text.visible < u.text.target.text
publish(u) ==
  LET Show(b) == updateAssistant(b, u.text.target, u.text.visible)
  IN IF HasTarget(u) THEN EditBlocks(u, "assistant", Show) ELSE u
\* onSettled: hosted activity is stopped before the reference is given up.
onSettled(u) ==
  LET Release(b) == [stopActivityTimers(b) EXCEPT !.live = FALSE]
  IN [EditBlocks(u, "assistant", Release) EXCEPT !.text = NoText, !.started = FALSE]
settle(u) == IF HasTarget(u) THEN onSettled(publish(u)) ELSE u
revealAllText(u) == [u EXCEPT !.text.visible = u.text.target.text]
setTarget(u, message) ==
  [u EXCEPT !.text.target = message,
            !.text.visible = IF @ <= message.text THEN @ ELSE message.text]
frameBudget(u) ==
  LET remaining == u.text.target.text - u.text.visible
      backlog == (remaining + 15) \div 16
      rate == (IF backlog = 0 THEN 1 ELSE backlog) + (IF u.text.complete THEN 1 ELSE 0)
  IN IF rate > 12 THEN 12 ELSE rate
revealFrame(u) ==
  LET next == u.text.visible + frameBudget(u)
      shown == [u EXCEPT !.text.visible = IF next < u.text.target.text THEN next
                                          ELSE u.text.target.text]
  IN IF ~HasTarget(u) THEN u
     ELSE IF u.text.complete /\ ~hasPendingText(shown) THEN settle(shown) ELSE publish(shown)
armTimer(u) == [u EXCEPT !.text.timer = TRUE]

start(u, message) ==
  publish([u EXCEPT !.text = [NoText EXCEPT !.target = message, !.visible = message.text]])
update(u, message, animate) ==
  LET t == setTarget(u, message)
  IN IF ~hasPendingText(t) THEN publish(t)
     ELSE IF ~animate THEN armTimer(publish(t))
     ELSE IF t.text.timer THEN t
     ELSE armTimer(revealFrame(t))
finishAnimated(u, message, immediate) ==
  armTimer([setTarget(u, message) EXCEPT !.text.complete = TRUE])
finish(u, message, immediate) ==
  LET t == [setTarget(u, message) EXCEPT !.text.complete = TRUE]
      r == revealFrame(t)
  IN IF immediate THEN settle(revealAllText(t))
     ELSE IF ~hasPendingText(t) THEN settle(t)
     ELSE IF t.text.timer THEN t
     ELSE IF hasPendingText(r) THEN armTimer(r) ELSE r
flushNothing(u) == u
flush(u) == IF HasTarget(u) THEN settle(revealAllText(u)) ELSE [u EXCEPT !.text.timer = FALSE]
catchUpByTimer(u) == IF hasPendingText(u) THEN armTimer(u) ELSE u
catchUp(u) ==
  LET t == [revealAllText(u) EXCEPT !.text.timer = FALSE]
  IN IF ~hasPendingText(u) THEN u
     ELSE IF t.text.complete THEN settle(t) ELSE publish(t)
\* The timer's callback.
timerFires(u) ==
  LET t == [u EXCEPT !.text.timer = FALSE]
      r == IF hasPendingText(t) THEN revealFrame(t) ELSE t
  IN IF hasPendingText(r) THEN armTimer(r)
     ELSE IF r.text.complete THEN settle(r) ELSE r

(* ToolCallBlocks. *)
finishPreparationLate(u) == u
finishPreparation(u) == removeChild(u, "prep")
createOrUpdateFromMessage(u, message) ==
  LET known == [u EXCEPT !.known = @ \union message.calls]
  IN IF message.calls # {} /\ ~Has(u, "prep") /\ ~Has(u, "tool")
     THEN addChild(known, [Block("prep", {}, "preparing") EXCEPT !.ticks = TRUE, !.live = TRUE])
     ELSE known
getOrCreate(u, c) ==
  IF HasTool(u, c) THEN u ELSE addChild(u, [Block("tool", c, "waiting") EXCEPT !.live = TRUE])
markStarted(u, c) ==
  LET Started(b) == [b EXCEPT !.state = "running", !.ticks = TRUE]
  IN EditTool(getOrCreate(finishPreparation(u), c), c, Started)
pauseTimer(u, c) == LET Stop(b) == [b EXCEPT !.ticks = FALSE] IN EditTool(u, c, Stop)
resumeTimer(u, c) == LET Tick(b) == [b EXCEPT !.ticks = TRUE] IN EditTool(u, c, Tick)
stopPreparationTimer(u) == LET Stop(b) == [b EXCEPT !.ticks = FALSE] IN EditBlocks(u, "prep", Stop)
markPreparationPrepared(u) ==
  LET Prepared(b) == [b EXCEPT !.state = "prepared", !.ticks = FALSE] IN EditBlocks(u, "prep", Prepared)
updateTodoState(u, c) ==
  LET Todo(b) == [b EXCEPT !.todo = (ToolName(c) = "todo_write")] IN EditTool(u, c, Todo)
updateResultOfStarted(u, c, outcome) ==
  LET Done(b) == [b EXCEPT !.state = outcome, !.ticks = FALSE, !.live = FALSE]
  IN [EditTool(finishPreparation(u), c, Done) EXCEPT !.known = @ \ {c}]
updateResult(u, c, outcome) ==
  LET Done(b) == [b EXCEPT !.state = outcome, !.ticks = FALSE, !.live = FALSE]
      p == finishPreparation(u)
      made == IF HasTool(p, c) \/ c \in p.known THEN getOrCreate(p, c) ELSE p
  IN [EditTool(made, c, Done) EXCEPT !.known = @ \ {c}]
stopTimers(u) ==
  LET Stop(b) == [b EXCEPT !.ticks = FALSE] IN EditBlocks(stopPreparationTimer(u), "tool", Stop)
markPendingCancelled(u) ==
  LET Cancel(b) == [b EXCEPT !.state = "cancelled", !.ticks = FALSE]
  IN [EditBlocks(finishPreparation(u), "tool", Cancel) EXCEPT !.known = {}]
\* clear() of the tool blocks: those of the run before keep their last look.
forgetTools(u) ==
  LET Forget(b) == [b EXCEPT !.live = FALSE]
  IN [EditBlocks(finishPreparation(stopTimers(u)), "tool", Forget) EXCEPT !.known = {}]

(* AgentEventRenderer. *)
beginWorking(u) ==
  LET Work(b) == showWorking(b, TRUE)
  IN EditBlocks(IF Has(u, "assistant") THEN u
          ELSE addChild(u, [Block("assistant", {}, "working") EXCEPT !.live = TRUE]),
          "assistant", Work)
keepPendingAssistant(u) == u
discardPendingAssistant(u) == IF u.started THEN u ELSE removeChild(u, "assistant")
stopActiveTimers(u) == EditBlocks(stopTimers(u), "assistant", stopActivityTimers)
\* The interval that redraws what ticks; every handled event ends with it.
updateActivityTimer(u) ==
  [u EXCEPT !.redraws = \E i \in DOMAIN u.blocks :
     u.blocks[i].live /\ (u.blocks[i].ticks \/ u.blocks[i].state = "working")]
resetRun(u) ==
  LET Release(b) == [stopActivityTimers(b) EXCEPT !.live = FALSE]
  IN [forgetTools(EditBlocks(discardPendingAssistant(flush(u)), "assistant", Release)) EXCEPT
        !.started = FALSE, !.redraws = FALSE, !.active = {}, !.errors = 0]
prepareForToolInteraction(u) == markPreparationPrepared(catchUp(u))

handleAssistantStart(u, message) ==
  start([beginWorking(flush(u)) EXCEPT !.started = TRUE, !.status = "working"], message)
phaseForAssistantMessage(message) ==
  IF message.calls # {} THEN "tool"
  ELSE IF message.hosted = "in_progress" THEN "searching"
  ELSE IF message.text > 0 THEN "responding" ELSE "working"
handleAssistantUpdate(u, message, kind) ==
  LET phase == phaseForAssistantMessage(message)
      Working(b) == showWorking(b, phase = "working")
      begun == IF Has(u, "assistant") THEN u ELSE handleAssistantStart(u, message)
      updated == update(begun, message, kind = "text_delta")
      caught == IF kind \in {"toolcall_start", "hosted_tool_start"} THEN catchUp(updated) ELSE updated
  IN [EditBlocks(createOrUpdateFromMessage(caught, message), "assistant", Working) EXCEPT !.status = phase]
handleAssistantEnd(u, message, reason) ==
  LET Quiet(b) == showWorking(b, FALSE)
  IN [finish(stopPreparationTimer(EditBlocks(u, "assistant", Quiet)), message, reason = "toolUse")
        EXCEPT !.status = CASE reason = "toolUse" -> "tool"
                            [] reason = "stop" -> "done"
                            [] OTHER -> reason]
updateToolStatus(u) == [u EXCEPT !.status = IF u.errors > 0 THEN "error" ELSE "tool"]
agentStart(u) == updateActivityTimer([u EXCEPT !.status = "starting"])
agentEnd(u, reason) ==
  LET ended == IF reason = "aborted" THEN markPendingCancelled(u) ELSE finishPreparation(u)
  IN updateActivityTimer([stopActiveTimers(discardPendingAssistant(ended)) EXCEPT
       !.active = {}, !.status = IF reason = "stop" THEN "done" ELSE reason])
turnStart(u) ==
  updateActivityTimer(beginWorking(flush([u EXCEPT !.active = {}, !.errors = 0, !.status = "working"])))
turnInput(u, input) == updateActivityTimer(addChild(u, Block("user", {input}, "done")))
compactionStart(u) ==
  updateActivityTimer([discardPendingAssistant(u) EXCEPT !.status = "compacting"])
contextCompacted(u, n, manual) ==
  LET noted == addChild(removeChild(u, "compacting"), Block("compacted", {n}, "done"))
  IN updateActivityTimer(IF manual THEN [noted EXCEPT !.status = "done"]
                         ELSE [beginWorking(noted) EXCEPT !.status = "working"])
toolStart(u, c) ==
  updateActivityTimer(updateToolStatus([markStarted(catchUp(u), c) EXCEPT !.active = @ \union {c}]))
toolEnd(u, c, outcome) ==
  updateActivityTimer(updateToolStatus([updateResult(u, c, outcome) EXCEPT
    !.active = @ \ {c}, !.errors = IF outcome = "failed" THEN @ + 1 ELSE @]))

(* history.ts: the blocks of a timeline.  A tool's result finds the todo
   state recorded for its call. *)
HistoryBlock(entry, todos) ==
  CASE entry.type = "tool" ->
         {[Block("tool", entry.of, entry.state) EXCEPT !.todo = entry.of \in todos]}
    [] entry.type = "assistant" ->
         {updateAssistant(Block("assistant", {}, "quiet"), entry.message, entry.message.text)}
    [] entry.type \in {"user", "compacted"} -> {Block(entry.type, entry.of, "done")}
    [] OTHER -> {}
addHistoryTimelineToTranscript(entries) ==
  LET Add(blocks, i) ==
        LET todos == {entries[j].of : j \in {k \in 1 .. i : entries[k].type = "todo"}}
        IN blocks \o SetToSeq(HistoryBlock(entries[i], todos))
  IN FoldLeft(Add, << >>, [i \in DOMAIN entries |-> i])

(* The agent's events, in the order of its loop. *)
Idle == agent.phase = "idle"
Reaches(phase) == agent' = [agent EXCEPT !.phase = phase]
Record(entry) == timeline' = Append(timeline, entry)
Entry(type, of) == [type |-> type, of |-> of, state |-> "done", message |-> NoMessage]
CanRun == Idle /\ agent.runs < MaxRuns

\* handleConversationEvent of run_start, then the event agent_start.
RunStarts ==
  /\ CanRun
  /\ LET input == agent.inputs + 1
         view == Block("user", {input}, "done")
     IN /\ ui' = agentStart(addChild(resetRun(ui), view))
        /\ Record(Entry("user", {input}))
        /\ agent' = [agent EXCEPT !.phase = "loop", !.runs = @ + 1, !.inputs = input, !.clean = TRUE]

TurnStarts ==
  /\ agent.phase = "loop" /\ agent.turns < MaxTurns
  /\ agent' = [agent EXCEPT !.phase = "model", !.turns = @ + 1, !.owed = 0,
                            !.message = [NoMessage EXCEPT !.id = agent.turns + 1]]
  /\ ui' = turnStart(ui)
  /\ UNCHANGED timeline

\* Automatic compaction, before the model answers.
CompactionStarts ==
  /\ agent.phase = "model" /\ agent.compacted < agent.turns
  /\ Reaches("compacting")
  /\ ui' = compactionStart(ui)
  /\ UNCHANGED timeline
Compacted ==
  /\ agent.phase = "compacting"
  /\ agent' = [agent EXCEPT !.phase = "model", !.compacted = agent.turns]
  /\ ui' = contextCompacted(ui, agent.turns, FALSE)
  /\ Record(Entry("compacted", {agent.turns}))

MessageStarts ==
  /\ agent.phase = "model"
  /\ Reaches("streaming")
  /\ ui' = updateActivityTimer(handleAssistantStart(ui, agent.message))
  /\ UNCHANGED timeline

MessageUpdates(kind, message) ==
  /\ agent' = [agent EXCEPT !.message = message,
                            !.owed = IF kind = "toolcall_start" THEN message.text ELSE @,
                            !.calls = IF kind = "toolcall_start" THEN @ + 1 ELSE @]
  /\ ui' = updateActivityTimer(handleAssistantUpdate(ui, message, kind))
  /\ UNCHANGED timeline
Streams ==
  LET m == agent.message
  IN /\ agent.phase = "streaming"
     /\ \/ \E n \in 1 .. Burst : /\ m.text + n <= MaxText
                                 /\ MessageUpdates("text_delta", [m EXCEPT !.text = @ + n])
        \/ LET c == Cardinality(m.calls) + 1
           IN /\ agent.calls < MaxCalls /\ c <= Len(NameOf)
              /\ MessageUpdates("toolcall_start", [m EXCEPT !.calls = @ \union {<<m.id, c>>}])
        \/ MessageUpdates("thinking_delta", m)
        \/ /\ m.hosted = "none"
           /\ MessageUpdates("hosted_tool_start", [m EXCEPT !.hosted = "in_progress"])
        \/ /\ m.hosted = "in_progress"
           /\ MessageUpdates("hosted_tool_end", [m EXCEPT !.hosted = "completed"])

\* assistantMessageForHistory: an answer cut short keeps no tool calls, and an
\* error without content leaves nothing.
CutShort(reason) == reason \in {"aborted", "error"}
EndOfMessage(m, reason) ==
  [m EXCEPT !.hosted = IF reason = "aborted" /\ @ = "in_progress" THEN "cancelled" ELSE @]
Commit(m, reason) ==
  IF CutShort(reason) /\ m.text = 0 /\ m.hosted = "none" /\ (m.calls # {} \/ reason = "error")
  THEN UNCHANGED timeline
  ELSE Record([Entry("assistant", {}) EXCEPT !.message = m])
MessageEnds(reason) ==
  /\ agent.phase \in {"streaming", "model"}
  /\ agent.phase = "model" => CutShort(reason)
  /\ reason \in {"stop", "toolUse"} => (reason = "toolUse" <=> agent.message.calls # {})
  /\ LET m == EndOfMessage(agent.message, reason)
         begun == IF agent.phase = "model" THEN handleAssistantStart(ui, m) ELSE ui
     IN /\ ui' = updateActivityTimer(handleAssistantEnd(begun, m, reason))
        /\ Commit(m, reason)
        /\ agent' = [agent EXCEPT
             !.message = m, !.reason = reason,
             !.phase = IF reason = "toolUse" THEN "tools"
                       ELSE IF CutShort(reason) THEN "ending" ELSE "boundary",
             !.open = IF reason = "toolUse" THEN m.calls ELSE {}]

\* An approval is asked outside the stream of events.
ApprovalAsked ==
  /\ agent.phase = "tools" /\ agent.open \ agent.running # {}
  /\ ui' = prepareForToolInteraction(ui)
  /\ UNCHANGED <<agent, timeline>>
ToolStarts(c) ==
  /\ agent.phase = "tools" /\ c \in agent.open \ agent.running
  /\ agent' = [agent EXCEPT !.running = @ \union {c}]
  /\ ui' = toolStart(ui, c)
  /\ UNCHANGED timeline
\* run_code waits for an approval of a nested call.
ToolPauses(c) ==
  /\ c \in agent.running \ agent.paused /\ ToolName(c) = "run_code"
  /\ agent' = [agent EXCEPT !.paused = @ \union {c}]
  /\ ui' = updateActivityTimer(pauseTimer(ui, c))
  /\ UNCHANGED timeline
ToolResumes(c) ==
  /\ c \in agent.paused
  /\ agent' = [agent EXCEPT !.paused = @ \ {c}]
  /\ ui' = updateActivityTimer(updateToolStatus(resumeTimer(ui, c)))
  /\ UNCHANGED timeline
\* todo_write records its list before it returns.
TodoChanges(c) ==
  /\ c \in agent.running /\ ToolName(c) = "todo_write"
  /\ \A i \in DOMAIN timeline : timeline[i].type = "todo" => timeline[i].of # c
  /\ ui' = updateTodoState(ui, c)
  /\ Record(Entry("todo", c))
  /\ UNCHANGED agent
\* A call ends after it ran, or without having started: it was refused.
ToolEnds(c, outcome) ==
  /\ agent.phase = "tools" /\ c \in agent.open \ agent.paused
  /\ c \in agent.running \/ outcome = "failed"
  /\ agent' = [agent EXCEPT !.open = @ \ {c}, !.running = @ \ {c}]
  /\ ui' = toolEnd(ui, c, outcome)
  /\ Record([Entry("tool", c) EXCEPT !.state = outcome])
ToolsSettle(aborted) ==
  /\ agent.phase = "tools" /\ agent.open = {}
  /\ agent' = [agent EXCEPT !.phase = IF aborted THEN "ending" ELSE "boundary",
                            !.reason = IF aborted THEN "aborted" ELSE @]
  /\ UNCHANGED <<ui, timeline>>

\* Steering joins the run between two turns.
TurnInput ==
  /\ agent.phase = "boundary" /\ agent.turns < MaxTurns
  /\ agent' = [agent EXCEPT !.phase = "loop", !.inputs = @ + 1]
  /\ ui' = turnInput(ui, agent.inputs + 1)
  /\ Record(Entry("user", {agent.inputs + 1}))
NextTurn ==
  /\ agent.phase = "boundary" /\ agent.reason = "toolUse" /\ agent.turns < MaxTurns
  /\ Reaches("loop")
  /\ UNCHANGED <<ui, timeline>>
AgentEnds(reason) ==
  /\ CASE agent.phase = "ending" -> reason = agent.reason
       [] agent.phase = "boundary" -> reason = (IF agent.reason = "toolUse" THEN "turn_limit" ELSE agent.reason)
       [] agent.phase \in {"loop", "model", "compacting"} -> reason = "aborted"
       [] OTHER -> FALSE
  /\ Reaches("idle")
  /\ ui' = agentEnd(ui, reason)
  /\ UNCHANGED timeline
\* The run fails without agent_end: a compaction, the journal or the prompt.
RunFails ==
  /\ ~Idle
  /\ agent' = [agent EXCEPT !.phase = "idle", !.clean = FALSE, !.open = {}, !.running = {}, !.paused = {}]
  /\ ui' = [addChild(removeChild(ui, "compacting"), Block("error", {}, "done")) EXCEPT !.status = "error"]
  /\ UNCHANGED timeline

\* /compact: its block is shown while the summary is made.
ManualCompact ==
  /\ CanRun
  /\ agent' = [agent EXCEPT !.phase = "manual", !.runs = @ + 1]
  /\ LET block == [Block("compacting", {}, "working") EXCEPT !.live = TRUE]
     IN ui' = compactionStart(resetRun(addChild(ui, block)))
  /\ UNCHANGED timeline
ManualCompacted ==
  /\ agent.phase = "manual"
  /\ Reaches("idle")
  /\ ui' = contextCompacted(ui, MaxTurns + agent.runs, TRUE)
  /\ Record(Entry("compacted", {MaxTurns + agent.runs}))

RevealTimer ==
  /\ ui.text.timer
  /\ ui' = timerFires(ui)
  /\ UNCHANGED <<agent, timeline>>

\* showSession of a resumed session.
Reopen ==
  /\ Idle /\ timeline # << >>
  /\ ui' = [resetRun(ui) EXCEPT !.blocks = addHistoryTimelineToTranscript(timeline), !.status = "idle"]
  /\ agent' = [agent EXCEPT !.clean = TRUE]
  /\ UNCHANGED timeline

TranscriptInit ==
  /\ ui = [blocks |-> << >>, text |-> NoText, known |-> {}, started |-> FALSE,
           redraws |-> FALSE, active |-> {}, errors |-> 0, status |-> "idle"]
  /\ agent = [phase |-> "idle", runs |-> 0, turns |-> 0, calls |-> 0, inputs |-> 0, compacted |-> 0,
              message |-> NoMessage, owed |-> 0, reason |-> "stop", open |-> {}, running |-> {},
              paused |-> {}, clean |-> TRUE]
  /\ timeline = << >>

TranscriptNext ==
  \/ RunStarts \/ TurnStarts \/ CompactionStarts \/ Compacted \/ MessageStarts \/ Streams
  \/ \E reason \in {"stop", "toolUse"} \union (Faults \intersect {"aborted", "error", "length"}) :
       MessageEnds(reason)
  \/ ApprovalAsked \/ TurnInput \/ NextTurn
  \/ \E c \in agent.message.calls :
       \/ ToolStarts(c) \/ ToolPauses(c) \/ ToolResumes(c) \/ TodoChanges(c)
       \/ \E outcome \in {"done", "failed"} : ToolEnds(c, outcome)
  \/ \E aborted \in {FALSE} \union {"aborted" \in Faults} : ToolsSettle(aborted)
  \/ \E reason \in {"stop", "length", "turn_limit", "error"} \union (Faults \intersect {"aborted"}) :
       AgentEnds(reason)
  \/ ("throw" \in Faults /\ RunFails)
  \/ ManualCompact \/ ManualCompacted \/ RevealTimer \/ Reopen

TranscriptSpec == TranscriptInit /\ [][TranscriptNext]_transcriptVars

(* Properties. *)
Blocks == {ui.blocks[i] : i \in DOMAIN ui.blocks}

\* Text received before a tool call is on the screen before anything of the
\* tool is, and all of it while tools wait for approval or run; what is still
\* hidden will be revealed.
TextIsNotOvertaken ==
  /\ (agent.phase = "streaming" /\ agent.message.calls # {}) => ui.text.visible >= agent.owed
  /\ agent.phase = "tools" => ~hasPendingText(ui)
  /\ hasPendingText(ui) => ui.text.timer

\* A block shows one message, and no message is shown twice.
BlocksAreOfOneMessage ==
  /\ \A b \in Blocks : b.kind = "assistant" => Cardinality(b.of) <= 1
  /\ \A i, j \in DOMAIN ui.blocks :
       (i < j /\ ui.blocks[i].kind = "assistant" /\ ui.blocks[j].kind = "assistant")
         => ui.blocks[i].of \intersect ui.blocks[j].of = {}

\* The status line names exactly the tools that run.
StatusNamesTools == agent.phase = "tools" => ui.active = agent.running

\* Once a run has ended nothing of it seems to go on, but a last text that is
\* still being revealed; and the redraw interval runs only for what ticks.
EndsAreQuiet ==
  (Idle /\ agent.clean) =>
    /\ \A b \in Blocks : b.state # "working" /\ b.kind \notin {"prep", "compacting"}
    /\ \A b \in Blocks : b.ticks => b.hosted = "in_progress"
    /\ ui.redraws => hasPendingText(ui)
    /\ ui.active = {}

\* What a resumed session shows is what was shown live: the same inputs,
\* texts and notes in the same order, and every tool between the same two,
\* with its outcome and its todo list.
Shown(b) == [kind |-> b.kind, of |-> b.of, shown |-> b.shown, hosted |-> b.hosted]
Narrated(blocks) ==
  LET Visible(b) == b.kind \in {"user", "compacted"} \/ (b.kind = "assistant" /\ (b.shown > 0 \/ b.hosted # "none"))
      seen == SelectSeq(blocks, Visible)
  IN [i \in DOMAIN seen |-> Shown(seen[i])]
ToolsOf(blocks) ==
  {[of |-> blocks[i].of, state |-> blocks[i].state, todo |-> blocks[i].todo,
    after |-> Len(Narrated(SubSeq(blocks, 1, i)))] : i \in {j \in DOMAIN blocks : blocks[j].kind = "tool"}}
ReplayShowsTheSame ==
  (Idle /\ agent.clean /\ ~hasPendingText(ui)) =>
    LET replay == addHistoryTimelineToTranscript(timeline)
    IN /\ Narrated(ui.blocks) = Narrated(replay)
       /\ ToolsOf(ui.blocks) = ToolsOf(replay)

TranscriptIsSafe ==
  /\ TextIsNotOvertaken
  /\ BlocksAreOfOneMessage
  /\ StatusNamesTools
  /\ EndsAreQuiet
  /\ ReplayShowsTheSame
=============================================================================
