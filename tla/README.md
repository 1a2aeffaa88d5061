# TLA+ models of Kana

Kana is a terminal coding agent: an `Agent` runs a model and its tools, a
*conversation* feeds it with inputs, and a *session* keeps what happened in an
append-only file. Almost all of it runs on one JavaScript event loop, so its
hard behaviour is not data races but the order of asynchronous continuations:
what a user, a background job, a timer or a shutdown does between two awaits of
somebody else. Sessions, settings, tokens, artifacts and the executable are also
shared between operating-system processes, which crash.

The models here are written from the source (`src/`), checked with TLC, and in
part proved with TLAPS. Paths below are relative to `src/src` unless they start
with `docs/`.

Contents: 1 the system, 2 the modules, 3 what is checked, 4 where code and
documents disagree, 5 what is proved, 6 what is not modelled, 7 what is left,
8 how to run it.

## 1. Inventory

    TUI / HTTP server / headless  (tui, server, headless, cli)
        |  submit, steer, queue, cancel, approve, close
    ConversationHost -- HostedSessionRegistry -- WakeScheduler
        |                     |                      (kana/conversation)
    ConversationRuntime -- InputCoordinator -- GoalController
        |                     ^ completions
        |              OwnedTasks: background jobs, subagents; user tasks
        v                     ^ start, read, kill           (jobs, kana)
    Agent: inbox + steering, turn loop, context manager     (agent)
        |            |
        |       ToolRuntime: pool, invocations, approvals   (agent/tool-runtime)
        v            v
    AgentJournal   tools, MCP servers, providers            (tools, mcp, providers)
        v
    session journal, repository, ownership lock             (kana/session)

| component | state it keeps | operations | how it interacts |
|---|---|---|---|
| **Agent inbox and steering** `agent/inbox.ts`, `steering.ts` | two lanes of inputs, the `committing` set, the resolvers of `steer()` callers | enqueue, steer, cancel, clear, shift, `consume`, `deferPending` | the run consumes one lane through the journal, the conversation shifts the other; listeners get snapshots |
| **Agent run** `agent/agent.ts`, `loop.ts` | the active run, history, stable context, the context manager and its per-run fork | `prompt`, `stream`, `steer`, `abort`, `compact`, the turns of a run | awaits the journal, the model, the tool runtime and the frontend's hooks; publishes events |
| **Context management** `agent/context-manager.ts` and policies | checkpoint, usage anchor, projected states | fork, adopt, prepare, compact, rehydrate | asked by the loop before each request; its checkpoints are journaled |
| **Tool runtime** `agent/tool-runtime/` | groups, workers, slots of results, the approval queue | `execute`, an invocation's validation, approval, execution, interruption, grace, commit | called by the turn loop; calls tools, approval hooks, the journal |
| **Nested calls** `tool-runtime/nested.ts`, `tools/codemode` | the queue of one script's calls, the paused deadline | invoke, cancel, drain | reuses the invoker inside one slot of the pool |
| **Commands** `tools/command-process.ts`, `shell.ts` | a process group, two pipes, partial updates | start, time out, abort, kill, drain | run by `shell` and by background jobs |
| **Owned tasks and jobs** `jobs/owned-tasks.ts`, `jobs/manager.ts` | records by id, waiters, closed owners, output rings | admit, settle, notify, wait, observe, prune, read, peek, kill, close | tools of the model, the TUI; the conversation listens |
| **Subagents, user tasks** `kana/subagents`, `kana/user-tasks.ts` | a record and an Agent per child; tasks of the user | start, wait, send, kill; done, return | completions like those of jobs |
| **Conversation inputs** `kana/conversation/input-coordinator.ts` | draining/settling/changing flags, completion sources, wakes | submit, queue, steer, drain, complete, change session, shut down | between the runtime's users and the Agent's inbox |
| **Conversation runtime** `runtime.ts`, `goal-controller.ts` | the Agent, the session, the goal | submit, compact, replaceSession, close; goal start, update, cancel | owns the coordinator; asks the host to dispose of sessions |
| **Conversation host** `host.ts`, `hosted-session-registry.ts` | hosted sessions, ownerships, pending disposals | open, park, adopt, dispose, delete, close | sessions, jobs, subagents, artifacts |
| **Wake scheduler** `wake-scheduler.ts` | timers, keys, pending deliveries | schedule, cancel, fire | the inbox's next-turn lane |
| **Session journal** `kana/session/journal.ts`, `repository.ts` | the file, the cached records, the open turn, the poisoned-writer flag | start/append/end of turns, recovery, load and repair, delete | the Agent's journal; the file system |
| **Session ownership** `kana/session/ownership.ts` | a lock directory and its refresh | acquire, assertOwned, release | other processes |
| **Artifacts** `kana/artifacts` | files of tool output beside the journals that name them | save, fork, delete, sweep | other processes |
| **Memory** `kana/memory` | daily entries, `memory.md`, a queue per scope | remember, consolidate, prune, close | committed runs; other schedulers of a host |
| **MCP** `mcp`, `kana/mcp` | managers, clients, the registered tools | start, reload, close, authorize | servers; tokens |
| **Tokens** `kana/auth`, `mcp/oauth-http-authorizer.ts` | a token file under two locks | login, refresh, use, sign out | other processes; authorization servers |
| **Providers** `providers` | one request with its retries, one stream with its blocks | request, refresh, replay, abort | the run |
| **HTTP server** `server` | pending approvals, event streams, the projection | decide, subscribe, submit, change session, close | its clients |
| **Headless** `headless` | one lifecycle with one abort | submit, deadline, signals, terminal event | the conversation |
| **Terminal** `tui` | stdin buffer, editor, dialogs, transcript, painter | keys, paste, submit, approve, resize | the conversation |
| **Installation** `kana/config`, `kana/skills`, `kana/update` | shared TOML files, Skill directories, the executable | save, reset, install, sync, update | other processes |
| **Command line, logging, utilities** | | parsing, formatting, I/O | the edges of the system |

### What is hard, and what makes each part correct

* **Inbox and steering.** `consume()` journals an input *before* taking it out
  of its lane and awaits in between. Correct: nothing is lost or duplicated, the
  claim after the await finds its item, a `steer()` caller hears the truth, and
  leftovers are deferred in order.
* **Agent run.** Every await can fail, and an abort turns a failure into a
  normal end. Correct: history, journal, checkpoint and stable context agree at
  every await; the end is announced only when it is durable; an idle Agent has
  nothing in flight; every run and caller settles.
* **Tool runtime.** Workers, approvals, deadlines, aborts, tools that ignore
  them, and commits in model order. Correct: exclusive calls run alone, the pool
  stays bounded and stops when it must, results are truthful and ordered, the
  turn ends; nested calls share one slot and its deadline; no process of a command
  runs on that is said to have ended.
* **Owned tasks and output.** A microtask announces an end unless it was observed
  first; the owner's list and the output ring are bounded. Correct: no end is
  missed or announced after it was acknowledged, no byte is lost unreported,
  nobody waits for ever.
* **Conversation.** One drain loop that is signalled from a dozen places and
  re-checks only between runs; a promise chain of three links between the end
  of a run and the next start; session change and close at any await. Correct:
  one run at a time, in order, nothing stalls, nothing crosses sessions, the end
  of a job reaches the model once, a disposal happens once and after its tasks.
* **Session and artifacts.** Partial writes, crashes at any byte, recovery of an
  interrupted turn, two processes. Correct: the file can always be opened, keeps
  what was confirmed, answers each interrupted call once and truthfully, has one
  writer, and names no file that is gone.
* **Services.** Timers against cancellation and session change; queues against
  close; a start against reload, abort and close; two processes refreshing one
  token; a replayed response after part of it was shown. Correct: nothing is due
  twice, overwritten, left open, presented twice or shown twice.
* **Terminal.** Keys cut anywhere, dialogs that cover and close one another while
  runs come and go, a transcript of events that may stop anywhere, a screen that
  scrolls. Correct: what was typed is what is submitted, every approval asked is
  answered once, what is shown is what happened.
* **Installation.** Processes save snapshots that are older than the file; an
  update verifies a file that another installer may replace. Correct: no setting
  of another process is lost, what is installed always runs.

`PROJECT.json` lists these hazards line by line, with the properties that would
catch each one.

## 2. Modules

| module | models | role |
|---|---|---|
| `InputDelivery` | what the Agent promises of an offered input | abstract specification |
| `SteeringQueue` | `agent/inbox.ts`, `steering.ts` | component; implements `InputDelivery` |
| `AgentRun` | `agent/agent.ts`, `loop.ts`, the fork and adopt of `context-manager.ts` | component; EXTENDS `SteeringQueue`, so a run and its queue are composed |
| `ContextWindow` | `agent/context-manager.ts`, `prompt-assembly.ts` and the usage policy | what of a history the model is sent |
| `ToolTurn` | what the tool runtime promises the turn loop | abstract specification |
| `ToolPool` | `agent/tool-runtime/runtime.ts`, `invocation.ts`, `queues.ts` | component; implements `ToolTurn` |
| `NestedCalls` | `tool-runtime/nested.ts` and the deadline of `invocation.ts` | the calls of one script inside one slot |
| `OwnedTasks` | `jobs/owned-tasks.ts` and the jobs of `manager.ts` | component |
| `JobOutput` | the output of one job in `jobs/manager.ts` | component |
| `Conversation` | `input-coordinator.ts`, `runtime.ts`, `goal-controller.ts` | composes inputs, lanes, goals, jobs, wakes and sessions |
| `HostedSessions` | `hosted-session-registry.ts`, session operations of `runtime.ts` and `host.ts` | which session is open, parked, disposed of, locked |
| `WakeScheduler` | `wake-scheduler.ts`, `tools/schedule-wake.ts` | timers against sessions and cancellation |
| `Subagents` | `kana/subagents`, their tools, `runSubagent` of `host.ts` | a record and the Agent behind it |
| `SessionJournal` | `session/journal.ts`, `repository.ts`, `ownership.ts` | several processes on one file |
| `ArtifactFiles` | `kana/artifacts` | several processes on the files of tool output |
| `MemoryConsolidation` | `kana/memory` and its schedulers in `host.ts` | daily entries and `memory.md` |
| `CodexAuth` | `kana/auth` | several processes on the token file |
| `McpServers` | `kana/mcp/runtime.ts`, `mcp/manager.ts`, `client.ts` | start, reload and close |
| `ProviderStream`, `ChatStream` | `providers/responses`, `http.ts`, `openai-codex`; `openai-compatible` | one model request |
| `ServerApi` | `server/api.ts`, `approvals.ts`, `projection.ts` | clients of the HTTP server |
| `HeadlessRun` | `headless` | one run without a user |
| `CommandProcess` | `tools/command-process.ts`, the commands of `shell.ts` and `jobs/manager.ts` | one command, its process group and pipes |
| `McpOAuth` | `mcp/oauth-http-authorizer.ts` | authorizations of one MCP server by several users of it |
| `StdinKeys`, `Editor` | `tui/runtime/stdin-buffer.ts`, `tui/components/editor` | from bytes to keys to text |
| `BottomArea` | `tui/app/*-controller.ts`, `app.ts` | dialogs over the editor, approvals, the work they gate |
| `TranscriptView`, `Screen` | `tui/history`, `tui/runtime/tui.ts` | from events to blocks to the rows of a terminal |
| `SharedConfig` | `kana/config` | several processes on the TOML files |
| `SelfUpdate` | `kana/update/self-update.ts` | updates and installers of one executable |
| `SkillFiles` | `kana/skills` | install, copy and load Skill directories |
| `MCConversation`, `MCTools`, `MCStorage`, `MCServices`, `MCTerminal`, `MCInstallation` | | bundles: several components as one instance for TLC |
| `SteeringQueueProofs`, `AgentRunProofs`, `ConversationProofs`, `ToolRuntimeProofs`, `ServicesProofs`, `CredentialsProofs`, `SessionJournalProofs`, `HostProofs` | | proofs, section 5 |

A **bundle** EXTENDS modules that share no variable and adds one variable
(`machine`, `part`, `store`, `service`, `kept`) that is chosen at the start and
never changes: it says which component the behaviour exercises, while the others
keep an initial state. TLC then explores the sum of the components' states, not
their product, and one run answers for all of them. The fairness of each component
is stated in its bundle, under `part = ...`, since only there are its steps taken.
A bundle composes nothing; where components interact they are composed inside a
module (`AgentRun` and its queue, `Conversation` and its jobs, goal and wakes,
`ServerApi` with its approvals and streams, `McpServers` with runtime, manager and
clients).

### How a module reads

An action is one *synchronous segment* of the event loop: everything a handler
does up to its next await, including what it calls. So a state of the model is
a state in which other code can run. Where a promise resolution leads to a later
segment, that segment is an action of its own and others may come before it.
Where several processes share files, an action is one file operation.
Guards are the code's conditions and early returns. Definitions carry the names
of the functions they model where TLA+ allows; `PROJECT.json` maps each to its
lines. Variables marked *history* or *ghost* record what happened and influence
nothing.

* **SteeringQueue.** `nextStep` and `nextTurn` are the lanes, `committing` the
  reserved item, `promise` what a `steer()` caller was told, `view` the snapshot
  listeners hold. `BeginConsume`, `CommitWritten` and `CommitFailed` are the
  loop of `consume()` cut at its await; the end of the loop, that is the
  notification of listeners, belongs to the segment that finds the lane empty.
* **AgentRun.** `run.phase` names the await at which a run is suspended
  (`journal_start`, `assemble`, `context`, `request`, `compact_write`,
  `respond`, `record`, `tools`, `policy`, `boundary`, `consume`, `deliver`,
  `journal_end`, `commit`, `publish`, `close`; `compact*` for the manual
  compaction). `history` is `Agent.messages`, `working` the loop's own list,
  `stable` the stable context, `checkpoint` what the Agent's context manager has
  adopted and `run.checkpoint` what the run's fork has; a checkpoint is the
  number of messages its summary covers. A message is its role, the input it
  carries and its number of calls. `FaultBound` failures may occur at any
  journal write, model request or hook.
* **ContextWindow.** `transcript` is the sequence of messages, each with what the
  context manager tells apart (role, whether a call is answered, whether it is a
  runtime state, its real size); a manager is a checkpoint, a usage anchor and
  the projected states. A run works on `runContext`, the Agent keeps
  `mainContext`, `window` is the await, and `Rehydrated` builds the manager of a
  resumed session from `journaled`.
* **ToolPool.** `phase[c]` is the await of call `c`, `physical[c]` whether its
  tool's code is running, which an orphan's still is when its result has been
  committed. `pool` is the scheduler state of `startPool`: its group, the next
  index and whether it stopped. `ToolTurn` knows only what is committed, in
  which order, and how the turn ends.
* **NestedCalls.** `nestedPhase[c]` is the await of nested call `c`, `outer` the
  script's own call with its pausing `deadline`, `nestedApprovals` the serial hook.
* **CommandProcess.** `group` counts the processes of the group, `pipe` is the
  reader of each stream, `partial` the throttled updates of a `shell` call.
* **OwnedTasks.** `task[t]` is a record of the registry, `order` the map's
  insertion order, which decides what a prune removes among equally old ones,
  `settling` the queued microtasks, `reader` and `killer` the suspended tool
  calls. `heard` and `told` are what the listeners and the model learned.
* **JobOutput.** A text is the sequence of byte widths of its characters: enough
  for the splitting of chunks, the eviction and every counter.
* **Conversation.** `conv` is the conversation as one record: `drain()` is called
  synchronously by nearly every handler and reads nearly all of it, so handlers
  are written as record updates followed by `Drain`. The links of a run's
  promise chain are `RunSettles`, `SubmitReturns` and `DrainResumes`. The Agent
  is reduced to what the coordinator observes.
* **HostedSessions.** `hosted` are the records registered so far, each with its
  phase, its lock and its memoised disposal; a resumed session gets a new record,
  which `sessionMap` names. `parked` are pending disposals, `disposers` the callers
  of one, `transition` the session change or deletion in progress.
* **WakeScheduler.** `timers`, `wakeKeys` and the scheduled inputs of the lane,
  `wakeInbox`; `gone[i]` says what became of wake `i`.
* **Subagents.** `child[i]` is a record with its Agent, `childCall` the tool calls
  that wait for one, `childNews` what listeners were told.
* **SessionJournal.** `file` is the sequence of whole records and `end` what
  follows the last newline: nothing, a record without its newline, or a part of
  one. `proc[p]` is one process: where it is, its cached records, its flags. An
  append may write everything, any prefix of its records, and any part of the
  next. Calls are `todo_write` calls, whose state entry recovery can use, and
  `run_code` calls.
* **ArtifactFiles, CodexAuth, MemoryConsolidation.** Files as functions of their
  names, with the steps of each process between two file operations; a refresh
  token is a number the authorization server accepts once; `memory.md` is the set
  of entry parts it took in.
* **McpServers.** `mcpQueue` is the serial queue of operations, `mcpOp` the await of
  the running one, `manager` the newest manager, `records` its servers, and
  `closers` the clients that are left to close.
* **McpOAuth.** `authorizer` is one user's authorizer, with the awaits of its
  discovery and of its run; `operation` is a request, a login or a DELETE with the
  token it was sent with, `stored` the credential file, whose changes may fail before
  or after they are written, and `issuer` the authorization server; its `presented`
  and `lost` are the refresh tokens an authorizer had accepted, and those of them
  whose answer did not arrive or could not be saved.
* **ServerApi.** `clients` keeps each client's view, which is what docs/server.md
  tells it to compute from snapshot and events.
* **ProviderStream, ChatStream.** A request is the position of its retry loop, a
  response a sequence of items with the number of pieces seen; texts and
  arguments are numbers of pieces.
* **HeadlessRun.** `exec` is the lifecycle with its one abort, `output` what the
  projector wrote.
* **StdinKeys, Editor.** A script of keys is read in chunks cut anywhere; the
  editor's text is a sequence of graphemes and fold markers, some of two columns.
* **BottomArea.** `bottom` is the component shown, `open` what each controller
  waits for, `ask` the approvals, `life` quitting and the session.
* **TranscriptView, Screen.** `ui.blocks` against `timeline`, the session's own
  record of the same events; `tty` is a terminal with its rows and scrollback.
* **SharedConfig, SelfUpdate, SkillFiles.** Files with what they say, the steps of
  each process between two file operations, and what each believes it read.

## 3. What is checked

Twelve runs; the cfg files hold every bound, and no cfg replaces a definition.

| run | what it exercises | bounds | distinct states |
|---|---|---|---|
| `conversation` | runs of an Agent; inputs of a conversation | 3 inputs, 2 turns of 2 calls, 1 failure; 1 user input, 2 jobs, 1 goal of 1 round | 1,994,362 |
| `conversation_liveness` | the same under fairness | 2 inputs; 1 job | 248,381 |
| `tools` | tool pool, nested calls, commands, tasks, inbox; with fairness | 3 calls of 4 kinds on 2 workers, 1 failure; 3 nested calls on 2 slots; 1 stream of 2 chunks, 1 process left; 2 tasks of 1 owner; 4 inputs | 449,196 |
| `sessions` | a conversation that changes sessions; the HTTP server | 1 input, 1 wake, 1 goal of 2 rounds, 2 sessions, 1 compaction, closed gate or reconfiguration; 2 sessions, 2 calls, 1 client that buffers 2 frames | 3,400,154 |
| `storage` | journal, artifacts, job output, tasks | 2 processes, both kinds of call, 8 records; 2 artifacts; 18 bytes in chunks of 4, 8 retained; 2 tasks, 1 retained | 1,812,527 |
| `services` | 11 services around the Agent | 2 sessions and 4 records; 2 wakes to time 3; 2 children, 1 live; 2 MCP servers, 1 reload; 3 tokens; 2 scopes, 2 entries, 2 days; 2 stream items; 3 chat calls; 5 messages; 2 authorizers, 5 operations | 1,991,300 |
| `services_liveness` | the same under fairness | one child, delivery and chat call, fewer threads and responses | 170,877 |
| `terminal` | keys, editor, dialogs, transcript, screen | scripts of 2 keys cut anywhere; 3 edits; 2 approvals; 2 turns of 2 calls; screens of 2 and 3 rows, frames of 3 | 1,810,281 |
| `installation` | settings, executable, Skills | 2 processes, 3 files, 1 save each; 2 updates, 4 versions; 1 Skill of 3 files in 2 releases; 3 linked directories | 1,538,173 |
| `checkpoint_claim`, `discard_claim`, `tail_claim` | disagreements, section 4 | smallest | |

### What each run shows

A property that combines several ideas is a conjunction of named parts, so a
violation can be narrowed down by hand.

* `conversation`. `HistoryIsDurable`, `CheckpointIsDurable`, `EndIsDurable`:
  history, recoverable checkpoint and reported end are what the journal holds,
  at every await. `AgentIsConsistent`: the stable context is a settled prefix
  with a checkpoint of complete turns, an idle Agent has left nothing in flight,
  a run answers what it took, what was committed is announced.
  `InputsRunOnce`: one run at a time, inputs in order, the end of a job reaches
  the model once. `conversation_liveness`: runs and callers settle
  (`RunsAndCallersSettle`), inputs are taken, goals end, close() completes
  (`InputsSettle`).
* `tools`. `PoolIsSafe` and `StopsReplenishing`: exclusion, the bound on workers
  with orphans counted, truthful results, no claim behind an abort or an orphan;
  `ImplementsToolTurn`: results in model order. `NestedIsSafe`: the counters, the
  slots and the paused deadline of the calls a script nests. `CommandIsSafe`: no
  process runs on that is said to have ended, output is whole unless cut off.
  `ToolsSettle`: turns, scripts and commands end, tasks are answered. `QueueIsSound`,
  `OutcomeIsTruthful`, `NextTurnIsFifo`, `DeliversInput`: inputs across the
  await in `consume()`, and the contract `InputDelivery`.
* `sessions`. `ConversationIsSafe`, `StartsAreAllowed`: what `drain()` decides,
  goals that yield, nothing from one session in another. `ServerIsSafe`,
  `ServerBehaves`: approvals, snapshot and stream, decisions that stand.
* `storage`. `JournalIsSafe`: the session can be opened again, nothing confirmed
  is lost, the writer knows the file, interrupted calls are answered once and
  truthfully. `AppendsHoldTheLock`: one writer. `ArtifactsAreSafe`: no locator
  the journal holds loses its file. `JobsAreSafe`: ends heard once, bounded
  owners, exact output.
* `services`. `HostIsSafe` (who owns a session while it is changed, deleted or
  closed), `HeadlessIsSafe` (what one headless run reports), `WakesAreSafe`,
  `AgentsAreSafe` (subagents, the context a model sees), `McpIsSafe`,
  `CredentialsAreSafe` (Codex and MCP tokens), `MemoryIsSafe`, `ProvidersAreSafe`;
  `services_liveness`: `ServicesSettle`.
* `terminal`. `TerminalIsFaithful`: keys are those pressed, text is what was typed,
  the transcript is what happened, the screen shows it; `DialogsAreSafe`: every
  approval is asked about and answered once, and what holds queued runs back is on
  the screen, unless it was covered in one of the ways that section 4 lists.
* `installation`. `SharedConfigIsSafe`, `UpdateIsSafe`, `SkillsAreSafe`.

### Why the bounds are enough

Four inputs are the reserved one, one behind it, one in the other lane and one
offered meanwhile. Two turns with two calls have every adjacency of phases, with
a tool turn before another request, a steered input before a last turn, and a
limit that cuts a run off; three inputs are the prompt and a steered batch of two.
Three calls on two workers have an unclaimed call when the pool stops, a group
of two and an exclusive call, in each order. Two terminal tasks where one is kept
force a prune; 18 bytes overflow the ring twice. A goal of two rounds has a round
that yields and one that does not, two sessions a change in each state. Eight
records hold a header, a whole turn and an interrupted one, with a recovery that
is interrupted itself. Four host records let a session be parked, disposed of and
opened twice. Two MCP servers settle in either order while a third operation
waits; three tokens allow a rotation to be lost and repeated. Two scopes and two
entries put an automatic job behind a manual one and the reverse. Two keys in one
chunk and one key in two chunks are all cuts; frames of three rows on two scroll.
Where a component is proved (section 5), its properties hold at any bound.

Larger instances were explored by hand: `CommandProcess` with two streams
(867,525 states), `SkillFiles` with two Skills of two files (6,015,056),
`ToolPool` alone with its `PoolInv` (236,941), `AgentRun` alone with three inputs and
`SettledInv`, `RunInv` (1,383,155), `CommandInv` (433,804), `NestedInv` (37,018),
`ConversationInv` with one input of each kind, a goal and a session change
(3,007,287), `McpInv` with three servers and two reloads (112,882), `WakeInv` with three
wakes beside `MemoryInv` with two manual compactions (1,089,348).

Deadlock is not checked where the modelled system may rightly stop: an Agent that
is asked nothing more, a finished tool turn, a closed conversation, a process
that has exited. What must not stop is stated as liveness instead.

### Fairness

Only steps that the code or its environment completes by itself are fair.

* Agent (`MCConversation`): a suspended run and a manual compaction resume, since
  journal writes, model streams and tool executions settle, with success or
  failure. Owners need do nothing.
* Conversation: the run and its promise chain go on, disposal of an old session
  and close go on, and a user leaves the dialog that closed the gate.
* Tools (`MCTools`): the runtime's own steps (events, writes, timers), and an
  approval hook *once its signal is aborted*, as the hooks of TUI and server do. No
  tool ever has to settle and no user to answer. A shell that was sent SIGKILL
  dies; a process that leaves its group need not. Microtasks and timers run, and a
  task that was told to stop settles; one that was not may run for ever.
* Services (`MCServices`): timers fire, the operations of a queue return, an
  interrupted run settles, and a child that was stopped ends. A server that hangs is
  given up by its timeout, a provider by its inactivity timer.
* `SessionJournal`, `ArtifactFiles`, the terminal and the installation state no
  liveness: processes and users may stop at any point.

## 4. Disagreements between code and documents

Three runs expect a violation; the finding in `PROJECT.json` quotes the line that
says otherwise.

* `checkpoint_claim` (`agent.ts:400-419`). A comment says a checkpoint is adopted
  only after the session can recover it. If the write of a compaction fails in a
  run that was aborted meanwhile, the loop turns the failure into an aborted end,
  and the sink of `agent_end` adopts the fork anyway; later compactions of the
  process are then refused, because their base is unknown (`journal.ts:492`).
  `CheckpointIsDurable`, which the passing run checks, says it for a journal that works.
* `discard_claim` (`input-coordinator.ts:597-608`). The documentation says that an
  input is discarded only when a shutdown or a session change invalidates it. A
  queued input whose prompt the journal refuses is in no lane and no history.
* `tail_claim` (`repository.ts:294-309`). The incomplete tail is located in the
  decoded string and cut at that index as a byte offset, so text that is not
  ASCII makes the repair cut into complete records. `storage` therefore has
  ASCII text only (`WideText = {FALSE}`); with wide text its properties do not hold.

The following properties are defined in the modules, are checked by no run, and
are violated when added as an INVARIANT (PROPERTY where an action property) to the
component's own specification at small bounds:

| property | module | what is violated |
|---|---|---|
| `CommittedIsAlwaysAnnounced` | `AgentRun` | inputs committed before a later write of the same batch fails are durable but never announced (`steering.ts:92`) |
| `StableContextIsComplete` | `AgentRun` | after a cut-off reply with calls, the next run publishes a stable context with unanswered calls (`agent.ts:390`; docs/agent-runtime.md:101) |
| `LimitIsVerified` | `ContextWindow` | prompt and completion limit of a request together exceed the budget (`context-manager.ts:225-227`) |
| `OrphanIsUnknown` | `ToolPool` | a lost update event turns an orphan's result "unknown" into an ordinary error (`invocation.ts:154,199`; docs/tools.md:84) |
| `StaysUntilObserved` | `OwnedTasks` | an unobserved task is pruned, and reported as observed, when newer ones end (`owned-tasks.ts:243`; its comment at 49-51) |
| `AppendsHoldTheLock` with `MaySuspend = TRUE` | `SessionJournal` | an owner suspended for 10 seconds loses its lock and appends once more before it learns of it (`ownership.ts:37`) |
| `ForksKeepTheirFiles` | `ArtifactFiles` | a fork whose first run starts a day later has lost files its journal names (`lifecycle.ts:22-24`; docs/sessions-and-memory.md:97,103) |
| `DailyIsReadWhole` | `MemoryConsolidation` | of an entry with several lines only the first is read (`storage.ts:288`; docs/sessions-and-memory.md:164) |
| `RefreshedOnce` | `ProviderStream` | a request that is retried refreshes its credentials more than once (`http.ts:57`; docs/configuration.md:247, docs/openai-codex-provider.md:107) |
| `EventsAreWithinTheRun` | `HeadlessRun` | events of a run are written outside its boundaries (docs/headless.md:100) |
| `SessionIsChosen`, `ReloadsAreIdle` | `BottomArea` | the editor is reached before a session was chosen; MCP is reloaded beside a queued run (`session-lifecycle-controller.ts:143-144`, `app.ts:726-727`) |
| `KeysAsPressed` with `CutAfterEscapes = TRUE` | `StdinKeys` | a key behind ESC ESC is cut in two (`stdin-buffer.ts:123`; docs/terminal-rendering.md:37) |

Other behaviour the models contain and a reader of the code may want to know:

* **Terminal.** A cancelled quit confirmation, a forced fallback when a resume
  returns, or `/new` completing behind an inspected subagent can leave a gate
  overlay active but invisible: queued runs do not start until it is reopened
  (docs/tui.md:27,139). Option menus and the session picker are not in
  `canStartQueuedRun`, so a run may start under one (`app.ts:726-727`). A deletion,
  authorization or resume that returns may cover the quit prompt while
  `quitConfirmation` stays set. `finish()` shows the next approval before an
  "always" is added to the trust list, so a call just trusted is asked about once
  more (`tool-approval-controller.ts:126-152`). `attachFile` replaces text typed
  while the file loads (`image-attachment-controller.ts:84-85`; docs/tui.md:155). A
  deletion that has become stale leaves its confirmation open
  (`session-overlay-controller.ts:113-143`). "Preparing tools" stays visible after a
  "length" stop with calls that is steered on; a `run_error` leaves the "Working"
  block ticking, as does a reply that ended by an error with a hosted tool in
  progress, on resume (`history.ts:112-113`).
* **Authorization.** Authorizers of two processes share credentials without a lock,
  so a stale `invalid_grant` deletes a fresher token (`invalidateCredentials`), as
  does a discovery that found a foreign one. A refresh whose answer is lost, or whose
  token cannot be saved (`oauth-http-authorizer.ts:550`), leaves the replaced token
  with the authorizer (551): if the browser step that follows fails, the next request
  presents it again, to be told `invalid_grant`. `RefreshesGoOnce` exempts exactly these
  (`issuer.lost`), as `CodexAuth` exempts an answer that was not stored. A discovery
  that fails after its metadata is kept (415) is not repeated: the stored token is not
  read again, and the browser asks anew. A refresh that is running saves its token after a sign-out. A request that lacks a
  scope and joins a refresh under way is retried without the scope.
* **Memory.** A comment and the documentation speak of schedulers that a model
  reconfiguration replaces (`host.ts:736`; docs/sessions-and-memory.md:157); the one
  made with the host (`host.ts:198`) is never replaced, so consolidations keep the
  configuration they started with.
* **Settings.** Reset and install write without the lock; install checks for the
  file and then writes it.
* **Update.** Between the last identity check and the rename another installer may
  replace the file (`self-update.ts:172-181`), and a binary installed between the
  lookup of the release and the first read may be replaced by an older release.
* **Commands.** `shell` reports "Command aborted." even when the group lingers
  (docs/tools.md:196); an output failure during the drain signals a group that may
  be gone; a reader that fails ends the call while the group may linger.
* **Skills.** If git cannot run, fails or prints too much, or the source directory is
  gone, nothing is ignored: `resync` deletes the user's drafts and copies private
  files (`sync.ts:191-208`; docs/configuration.md:75). A `sync` killed in the middle
  leaves a part of a Skill that later ones report as existing; a killed clone leaves
  a directory that `install` cannot pull. A project directory that links to a
  global Skill makes it a project Skill, which is always enabled.

## 5. What is proved

TLAPS checks every theorem to its last leaf, for every value of the constants that
the modules' named assumptions (`AgentRunAssumption`, `McpAssumption`, ...) allow;
TLC evaluates those assumptions in the runs that use the module. Unless stated
otherwise a theorem has no hypothesis beyond them. Each invariant below was checked
by TLC on a small instance before it was proved, and three proofs made us correct a
model: a command's readers were still said to read when it had ended; two equal
manual consolidations both left their queue when one settled; and overlapping CASE
arms hid which outcome a headless run and an authorization had.

**The inbox** (`SteeringQueueProofs`, any set of inputs).
`QueueSound`, `CallersAreToldTheTruth`, `WaitersWaitForSomething`, `ReservedStays`:
the inductive invariant `QueueInv` joins `Conserved`, `ClaimFindsItsItem` and
`OutcomeIsTruthful` with `NotAnsweredYet`, that an input in the next-step lane has
not been reported deferred: without it a commit could follow a wrong answer.
`NextTurnStaysFifo` is an action property: lemmas on lanes as duplicate-free
sequences say what appending, taking the head, concatenating and removing leave in
order. `Refinement` (`QueueSpec => DeliversInput`): under the mapping from lanes,
reservations and fates to statuses, each action is one step of `InputDelivery` or
changes nothing it knows of; `Clear` withdraws and `DeferPending` answers a set.

**The run** (`AgentRunProofs`; any inputs, turn limit, faults).
`AgentUsesQueue`: every step of the Agent is a step of its queue or leaves it alone,
so all of the above holds of it. `RunInv` says of every phase in which of them the
journal turn is open, that the working context is the history but for what is
durable and not yet appended, and that the fork's checkpoint is recoverable except
while its write is under way; from it `AgentTypeCorrect`, `HistoryDurable`,
`RequestsSeeHistory`, `CheckpointDurable`, `EndDurable`, `TurnLimit`.
`AgentConsistent` needs more, `SettledInv`: a checkpoint's cut is a boundary of
complete turns both in the history and in the working context, which lags behind it;
input is taken only at a delivery, and the last message tells whether it has been
answered; the next-step lane is empty unless a run can still take from it; and what
is committed is announced or due. `HistoryGrows`: a message stays where it is, and
none is added outside an open journal turn.

**The conversation** (`ConversationProofs`; any inputs, tasks, rounds, sessions).
`InputsRunOnceHolds`, `ConversationSafety` and `StartsAreAllowedHolds` from
`ConversationInv`, that is `Sound` and `NoStall`. A handler of the code changes the
conversation and then calls `drain()`, which may start a run in the same step, so
`Sound` is stated of a conversation, fates, stamps and task states as parameters: it
holds of what a handler hands to `drain()` as well as of a state. It says that what
waits is in one lane once, in the order of its arrival, and that nothing that arrived
later was taken first (`Lanes`); which phases of the Agent, frames of runs and session
changes go together (`PhasesAgree`); that prompt and steered inputs are the run's own
(`Owned`); that whatever is live belongs to the current session (`OfThisSession`); that
the fate of a notification tells how far its task is (`Reported`), without which a
task could be observed while its end was still to be delivered; and which sessions the
host holds (`Held`). `DrainLoopSound` and `DrainSound`: `drain()` keeps all of it,
leaves nothing it could have started, and continues a goal only when no input waits;
one lemma per action reduces the action to them. The action property needs the same
invariant: a closed conversation has an idle Agent and nobody who would start it.

**The HTTP server** (`ConversationProofs`; any clients, calls, sessions and sizes of the
buffer). `ServerIsAlwaysSafe` from `ServerInv`. A client's view after all its frames is a
recursive function (`CaughtUp`). Two facts about it are needed and proved by induction
on its length (`Induction`, a statement about sets of numbers): a frame that is sent is
applied last (`FrameSent`), and one that is read is applied first. So a stream leads to
the server's state after each handler, of which some send two events, and a stream
that would overflow ends instead (`EmitKeeps`, `EmitOne`, `EmitTwo`). `ServerAlwaysBehaves` (an action property)
needs of the invariant which calls are pending: an answer stands, and nothing lets
through a call that was aborted or whose server is closed.

**The tool pool** (`ToolRuntimeProofs`; any number of calls, workers and faults).
`PoolSafe` and `PoolStopsReplenishing` from `PoolInv`. Its core, `Sound`, is stated
of a scheduler, phases, results and approvals as parameters, so that each of the
pool's nested updates (a result stops the pool, which cancels the unclaimed, which
frees an approval) is one lemma: calls before `next` are claimed and later ones not,
each call that waits for approval is queued once, and the calls that hold a worker
are counted, so that claiming a call while one is free keeps their number below
`MaxParallel` (a counting argument on finite sets). `PoolImplementsToolTurn`:
results are committed one at a time, in model order, under a mapping that forgets
everything but what is committed.

**Commands and nested calls** (`ToolRuntimeProofs`). `CommandSafe` from `CommandInv`:
a command stops for the reason it noted, knows an exit code only of a shell that has
exited, calls a group quiet only when it is empty and stays so, and has shown or is
about to show what it read. `NestedSafe` from `NestedInv`: the queue and the approval
queue list the calls of their phase once each, the counters count the calls under
way, the outer deadline is paused exactly for those that wait, and no slot is wasted.
What `drain()` invokes is a prefix of the queue (`PrefixOfPositions`, by counting),
so the calls left are again a queue. `LeftCallsDoNotInterrupt` (an action property):
a call the script left behind does not interrupt `run_code`.

**Services** (`ServicesProofs`).
*MCP servers*: `McpSafe` from `McpInv`, which ties the await of the running operation
to the state of the newest manager and says, for each record, what the await of its
start tells about its client; the clients left to close are the open ones, and
`LastOfServers` shows that the one closed next exists. `CatalogKeeps` (an action
property) is the safety half of `McpBehaves`.
*Scheduled messages*: `WakesSafe` from `WakeInv`. Beside uniqueness of ids it needs
that a delivery of a repeating message in the inbox is the last one its schedule
remembers, without which "one waits at most" is not kept by a cancelled delivery,
and that a key's wake is armed in the key's own session. `BeatIsKept` (an action
property): with `NextOccurrence`, arithmetic with quotients and remainders, a
repeating message advances by whole intervals to the first time not passed.
*Memory*: `MemorySafe` from `MemoryInv`: the job that runs is the first of its
queue and has read the file as it is, so no commit overwrites another; no entry is
in two batches of a scope, or in one and still to be scheduled, so what is shown of
the schedulers, a set of batches, tells jobs apart; entries of retained days are in
the file of their day.

**Credentials** (`CredentialsProofs`; any processes, threads, authorizers, operations).
*The token file*: `CodexAuthIsAlwaysSafe` from `AuthInv`. A call past the
lifecycle lock holds it, and at a write its copy is the file
(`LocksAreHeld`); a rotation presents the token of the file (`FreshIsSound`); the token
of the file is unused unless its successor is on its way to the file in the one call
that holds the lock, or was lost with its process (`UseIsKnown`); and a token granted
but not yet stored is nobody else's and, on its way to the file, stems from a sign-in that
no sign-out has overtaken. A lock is taken only when it is free or its holder has crashed, so what the
other calls know stays so (`CallGoes`).
*MCP servers*: `McpOAuthIsAlwaysSafe` from `OAuthInv`. What an authorizer holds is bound to the
client it is (`AuthorizerIsSound`), it holds no refresh token that it has replaced, where
a token counts as replaced when it was presented and its replacement was neither lost nor
failed to be saved (`RefreshIsUnused`, `Replaced`); while it saves, that holds of the token
to be saved, and only an exchange keeps the old one usable. This needs that what the
server issues is new (`IssuerIsSound`). Each operation's phase names a run that is under way
(`OperationIsSound`). One assumption on the constants says what the code relies on: a token
in the file found at the start names the client it was issued to. `CredentialsAreAlwaysSafe` joins both for the
composition that TLC runs.

**The session journal** (`SessionJournalProofs`; any processes, calls and records).
`JournalSafe` from `JournalInv`: the file is `Sound` (it can be read, a call has one
message that made it and at most one result, a call that ran has one or is in the
open turn, stored todo lists are accounted for), at most one process is past the
acquisition of the lock and it holds it, its cache is the file until a write fails,
and ids are bounded, so that a fresh one is new. `SoundGrows`: one record more keeps a
file sound if it is allowed where it stands; so does every prefix of a batch of
allowed records (`BatchIsSound`), which is what a write that fails or is cut short
leaves. Each append, the snapshot of a session and the recovery of an interrupted turn
is such a batch. Two hypotheses are needed, and are those of the `storage` run:
`OneByteTexts`, as the repair of a tail counts a character for a byte (`tail_claim` is
the counterexample), and `~MaySuspend`, as a process suspended for longer than its
lock lasts loses it (section 4). `LockHeld` needs only the second.

**Artifacts** (`SessionJournalProofs`; any processes, sessions, files and days).
`ArtifactsAreAlwaysSafe` from `ArtifactInv`. A cleanup decides by what it has read some steps
before, so the invariant says what of it still holds (`SweepIsSound`): a directory it
did not find in a journal and that is a day old has none now, because a session that
gets its journal later has a fresh directory or is overdue; of the journal it has just
read, an artifact added since is in a file that has not aged. The half on what must go
(`Owed`) follows each file that was left over when the cleanup began to the step that
will take it. A save in progress has a young file in a fresh directory that nobody
names yet (`SaveIsSound`), and the copies of a fork are complete in a directory that no
other process opens or forks into (`ForkIsSound`). A day passes only between such steps;
what it makes a day old is then named by a journal or belongs to a fork that has not
run, which is `overdue`: the exception in the property (section 4).

**The host process** (`HostProofs`; any sessions, rounds, processes, files, updates).
*Sessions*: `HostSafe` from `HostInv`. What it adds to the checked property: the
current session's newest record is the conversation's, and what a change or a
deletion is about is another session (`NamesAreRecords`, `TransitionIsApart`); until
a shutdown the active record has not been touched by any disposal, and every other
record that owns its journal is being disposed of by the transition, so that none
stays locked when it ends (`HostIsServed`); and a call that disposes of the record of
a run, or of everything, waits for that run to settle (`RunIsHosted`). A candidate
that fails is the case with the most state: its record is disposed of while the one
before it becomes active again, untouched.
*Headless runs*: `HeadlessSafe` from `HeadlessInv`. `EndsAreEmitted`: a run that
failed or is complete has emitted one terminal event, with the projector's own
status, unless a write threw; `FirstRunDecides`: what the submission resolves with
agrees with what the projector was told; `GoalIsAwaited`: a goal is completed only
after it was waited out, and nothing runs once its waiter has resolved. From these
the exit status agrees with the one event whatever the signal, the deadline, the
goal and the end of a run do to each other.
*Installation*: `UpdateSafe` from what each run of an update has made sure of at each step
(`RunKnows`); `SharedConfigSafe` from the lock each process holds between read and
rename and what it knows of the file meanwhile.

**Only model-checked.** Liveness and whatever needs ENABLED are out of the prover's
reach: `RunsAndCallersSettle`, `InputsSettle`, `ToolsSettle`, `ServicesSettle`, the
fairness halves of `McpBehaves` and `WakesBehave`. So is what a RECURSIVE operator
computes for every input: `SkillsAreSafe` and the keys of `StdinKeys`. The texts of
`JobOutput` and `Editor`, the streams of `ChatStream` and `ProviderStream` and the
projections of `ContextWindow` and `TranscriptView` are folds of the community modules, whose
definitions choose an element of a set at each step; about those nothing is proved
(`SessionJournal` finds the open turn by a quantifier for this reason, and `ServerApi`
reads frames by a recursive function). So these conjunctions stay with TLC:
`JobsAreSafe` (`JobOutput`, and with it the ends of `OwnedTasks`), `AgentsAreSafe`
(`ContextWindow`, and with it `Subagents`), `ProvidersAreSafe`, `TerminalIsFaithful`.
`DialogsAreSafe` of `BottomArea` has no proof yet either.

## 6. What is not modelled

* **In modelled components.** `Agent.reset()`, which nothing calls; the sizes of
  messages other than as small numbers; listing of sessions and the JSON form of a
  record; loss of data that the operating system had accepted (the code never calls
  fsync); the internal race of the lock library between two processes that find the
  same lock stale; routes and validation of the server; the wire formats of OAuth,
  MCP and providers; answers of an authorization server that make the SDK drop the
  client (`invalidateCredentials("all")`); the introducers ESC [ M, ESC P and ESC _ of
  `stdin-buffer.ts`; colours, Markdown and LaTeX in the terminal.
* **Bounds that are the model's and not the code's** are named in the CONSTANTS of
  each module with "bound:"; a guard with such a constant stops the environment, never
  the code.
* **Outside.** Reading, searching and editing files; parsing of arguments and
  settings; prompts; logging; LaTeX and Markdown rendering: data without state that
  two actors share. To the models a provider is a stream that may stop anywhere, and
  a tool something that settles, rejects, ignores its abort or never ends.
* `PROJECT.json` says of each component what is left out.

## 7. What is left

In the order of what would say most:

1. `TasksAreSafe` of `OwnedTasks` and `SubagentsAreSafe` of `Subagents`, the halves of
   `JobsAreSafe` and `AgentsAreSafe` without folds: records per task and per child.
2. `DialogsAreSafe` of `BottomArea`.
3. The arithmetic of `OutputIsExact`, once the ring's counters are stated without sums
   over sequences.

## 8. Running

    tlasany SteeringQueue.tla
    tlc -workers 2 -config MCTools.cfg MCTools
    tlapm SteeringQueueProofs.tla

`PROJECT.json` names the module and the cfg of each run. The largest runs take
three to four minutes on two workers, each proof module between one and ten
minutes. An operator whose comment begins "Mutant of" is a plausible mistake in that
definition, kept to show that a property notices it; no specification uses one.
