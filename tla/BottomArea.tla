----------------------------- MODULE BottomArea -----------------------------
(***************************************************************************)
(* The bottom of the terminal interface (src/tui/app): which component is  *)
(* shown and has the focus, the views and menus that take the editor's     *)
(* place, the queue of tool approvals, the confirmation before quitting,   *)
(* MCP startup and reload, the runs the interface starts itself, and the   *)
(* gate that keeps the conversation from starting a queued run meanwhile.  *)
(*                                                                         *)
(* A component is named by a string, an approval prompt by its call.  The  *)
(* conversation is external: it starts a queued run when the gate is open  *)
(* and it has been told so, and its runs end by themselves or when they    *)
(* are aborted.                                                            *)
(***************************************************************************)
EXTENDS Naturals, Sequences, FiniteSets, SequencesExt

CONSTANTS
  AskedCalls,      \* the tool calls that may need an approval
  CommandOf,       \* the shell command of a call, or "" of another tool's
  UserTaskCalls,   \* the calls of delegate_user_task
  ChildCalls,      \* the calls of subagents
  Views,           \* the views a user opens in this instance
  MayBeginInPicker,\* the interface may start in the resume picker
  MaxQueued,       \* how many inputs come for later runs
  MaxCommands      \* how many commands and prompts the user enters

None == "none"
EditorView == "editor"
Quit == "quit"

ASSUME BottomAssumption ==
  /\ IsFiniteSet(AskedCalls) /\ AskedCalls \subseteq STRING
  /\ DOMAIN CommandOf = AskedCalls /\ {MaxQueued, MaxCommands} \subseteq Nat

VARIABLES
  bottom,   \* the component shown, and whether it has the focus
  open,     \* of each controller, the component it waits for, or None
  ask,      \* the approvals: waiting, shown, trusted, the session's mode, answers
  mcp,      \* MCP startup or reload
  work,     \* the runs under way, what the status says, and inputs queued
  life,     \* quitting, stopping, and the session
  late,     \* operations awaited by a view that the user no longer waits for
  typed     \* how many commands the user has entered, for the bound

bottomVars == <<bottom, open, ask, mcp, work, life, late, typed>>

Dialogs == {"picker", "viewer", "skills", "mcp", "schedule", "jobs", "agents",
            "tools", "options", "btw"}
\* closeOverlays knows all but the option menus and the side question.
Overlays == Dialogs \ {"options", "btw"}
\* The overlays that hold queued runs back.
GateOverlays == {"mcp", "schedule", "jobs", "agents"}
Runs == {"conversation", "shell", "memory"}

\* The prompts of each controller and the steps a user takes between them.
ScheduleSteps ==
  { <<"schedule", "delay">>, <<"delay", "schedule">>, <<"delay", "custom">>,
    <<"delay", "message">>, <<"custom", "delay">>, <<"custom", "custom">>,
    <<"custom", "message">>, <<"message", "delay">>, <<"message", "message">>,
    <<"message", "schedule">>, <<"schedule", "forget">>, <<"forget", "schedule">>,
    <<"schedule", "schedule">> }
TaskSteps ==
  { <<"task", "taskAction">>, <<"taskAction", "task">>, <<"taskAction", "taskView">>,
    <<"taskView", "taskAction">>, <<"taskAction", "taskResponse">>, <<"taskResponse", "taskAction">>,
    <<"taskResponse", "taskResponse">> }
MemorySteps ==
  { <<"memory", "scopeShow">>, <<"memory", "scopeCompact">>, <<"scopeShow", "memory">>,
    <<"scopeCompact", "memory">>, <<"scopeCompact", "request">>, <<"request", "scopeCompact">> }
ApprovalSteps == { <<"approval", "neverAsk">>, <<"neverAsk", "approval">> }
ModelSteps ==
  { <<"provider", "model">>, <<"model", "provider">>, <<"model", "effort">>, <<"effort", "model">> }
OptionSteps == TaskSteps \union MemorySteps \union ApprovalSteps \union ModelSteps
Steps == [d \in Dialogs |->
            CASE d = "schedule" -> ScheduleSteps
              [] d = "options" -> OptionSteps
              [] d = "picker" -> {<<"picker", "delete">>, <<"delete", "picker">>}
              [] d = "mcp" -> {<<"mcp", "auth">>, <<"auth", "mcp">>}
              [] OTHER -> {}]
Menus == {"usage", "memory", "approval", "provider", "task"} \intersect Views
\* Menus from which Esc goes back to the editor.
Entries == Menus \union {"picker", "viewer", "inspect", "skills", "mcp", "schedule",
                         "jobs", "agents", "tools", "btw"}
Components ==
  {None, EditorView, Quit, "inspect"} \union AskedCalls \union Entries
    \union UNION {{s[1], s[2]} : s \in ScheduleSteps \union OptionSteps}
    \union {"delete", "auth"}

BottomTypeOK ==
  /\ bottom \in [shown : Components \ {None}, focus : BOOLEAN]
  /\ open \in [Dialogs -> Components]
  /\ ask.waiting \in Seq(AskedCalls) /\ ask.current \in AskedCalls \union {None}
  /\ ask.trusted \subseteq {CommandOf[c] : c \in AskedCalls} \ {""}
  /\ ask.mode \in {"unless_trusted", "always", "never"}
  /\ ask.answer \in [AskedCalls -> {"new", "waiting", "settled"}]
  /\ mcp \in [phase : {"unloaded", "loading", "ready", "failed", "reloading"}, cancelled : BOOLEAN]
  /\ work.active \subseteq Runs /\ work.running \in BOOLEAN
  /\ work.queued \in BOOLEAN /\ work.coming \in 0..MaxQueued
  /\ work.overlapped \in BOOLEAN
  /\ life \in [quit : BOOLEAN, stop : {"no", "closing", "stopped"}, changing : {None, "new", "fork", "resume"},
               hasSession : BOOLEAN, buried : SUBSET (Dialogs \union {Quit})]
  /\ typed \in 0..MaxCommands
  /\ late \in [deletion : {None, "current", "stale"}, auth : BOOLEAN]

-----------------------------------------------------------------------------
\* What is shown, as one value, so that a handler's calls can follow each other.
Showing(c) == [shown |-> c, focus |-> TRUE]
\* A waiting approval comes before the editor.
FallbackEditor(current) == EditorView
Fallback(current) == IF current # None THEN current ELSE EditorView
showFallback(current, focus) == [shown |-> Fallback(current), focus |-> focus]
hasFocus(b, c) == b.shown = c /\ b.focus
\* Only the owner of what is visible gives it back.
restoreAnyway(b, c, current, focus) == showFallback(current, focus)
restore(b, c, current, focus) == IF b.shown # c THEN b ELSE showFallback(current, focus)
restored(b, c, current) == restore(b, c, current, hasFocus(b, c))

Stopping == life.stop # "no"
Loading == mcp.phase \in {"loading", "reloading"}
\* A key reaches a component: nothing global consumed it.
Focused(c) == hasFocus(bottom, c) /\ ~Stopping /\ ~Loading
\* The user is at the editor, where commands are entered.
AtEditor == Focused(EditorView)
\* A bound on what is entered there.
EnterCommand == AtEditor /\ typed < MaxCommands /\ typed' = typed + 1

-----------------------------------------------------------------------------
\* The gate of queued runs, and what its reader does when it is told.
canStartQueuedRun(opened, running, loading, quitting) ==
  ~running /\ ~loading /\ ~quitting /\ \A d \in GateOverlays : opened[d] = None
\* The conversation has a gate of its own: no run and no transition.
Drained(w, gate, changing) ==
  IF w.queued /\ gate /\ "conversation" \notin w.active /\ changing = None
  THEN [w EXCEPT !.queued = FALSE, !.active = @ \union {"conversation"}, !.running = TRUE]
  ELSE w
notifyCanStartQueuedRun(w, opened, loading, quitting, changing) ==
  Drained(w, canStartQueuedRun(opened, w.running, loading, quitting), changing)
Told(w, opened) == notifyCanStartQueuedRun(w, opened, Loading, life.quit \/ Stopping, life.changing)

\* A controller closes: what it showed is given back, and the overlays of the
\* gate tell the conversation.
Closed(opened, ds) == [d \in Dialogs |-> IF d \in ds THEN None ELSE opened[d]]
ClosedBottom(b, opened, ds, current) ==
  IF \E d \in ds : opened[d] = b.shown THEN showFallback(current, b.focus) ELSE b
ClosedQuietly(w, opened, ds) == w
ClosedWork(w, opened, ds) ==
  IF \E d \in ds \intersect GateOverlays : opened[d] # None THEN Told(w, Closed(opened, ds)) ELSE w

\* Overlays exclude each other.
closeOverlays(target) == Overlays \ {target}
openOverlay(target, c) ==
  LET others == closeOverlays(target)
  IN /\ open' = [Closed(open, others) EXCEPT ![target] = c]
     /\ bottom' = Showing(c)
     /\ work' = ClosedWork(work, open, others)

-----------------------------------------------------------------------------
\* Approvals.  A call is asked about unless the mode or a trusted command says
\* otherwise; a task for the user is always asked about.
shouldRequestToolApproval(a, c) ==
  \/ c \in UserTaskCalls
  \/ a.mode = "always"
  \/ a.mode = "unless_trusted" /\ CommandOf[c] \notin a.trusted
\* The waiting calls in front that need no question any more are let through.
Unasked(a) ==
  LET n == SelectInSeq(a.waiting, LAMBDA c : shouldRequestToolApproval(a, c))
  IN IF n = 0 THEN Len(a.waiting) ELSE n - 1
activateNext(a) ==
  IF a.current # None THEN a
  ELSE LET n == Unasked(a)
           free == {a.waiting[i] : i \in 1..n}
           rest == SubSeq(a.waiting, n + 1, Len(a.waiting))
       IN [a EXCEPT !.answer = [c \in AskedCalls |-> IF c \in free THEN "settled" ELSE @[c]],
                    !.waiting = rest,
                    !.current = IF rest = <<>> THEN None ELSE rest[1]]
\* The first that is asked about is shown when only the editor is.
ActivatedBottom(b, a) ==
  IF a.current # None /\ b.shown = EditorView THEN Showing(a.current) ELSE b

\* A call is settled; of the one shown, the next is activated before a trusted
\* command is added, and the prompt is given back.
finishApprovalAlone(c, a, b) ==
  LET left == [a EXCEPT !.answer[c] = "settled", !.waiting = SelectSeq(@, LAMBDA x : x # c)]
  IN IF a.current # c THEN <<left, b>>
     ELSE <<[left EXCEPT !.current = None], restored(b, c, None)>>
finishApproval(c, a, b) ==
  LET left == [a EXCEPT !.answer[c] = "settled", !.waiting = SelectSeq(@, LAMBDA x : x # c)]
  IN IF a.current # c THEN <<left, b>>
     ELSE LET next == activateNext([left EXCEPT !.current = None])
          IN <<next, restored(b, c, next.current)>>
addTrustedShellCommand(a, c) == [a EXCEPT !.trusted = @ \union {CommandOf[c]}]

\* A call of the Agent or of a subagent asks; it may be let through at once.
requestApproval(c) ==
  /\ ask.answer[c] = "new" /\ life.stop # "stopped"
  /\ c \notin ChildCalls => "conversation" \in work.active
  /\ \/ \* it needs none, or its signal is aborted already
        ask' = [ask EXCEPT !.answer[c] = "settled"] /\ UNCHANGED bottom
     \/ /\ shouldRequestToolApproval(ask, c)
        /\ ask' = activateNext([ask EXCEPT !.answer[c] = "waiting", !.waiting = Append(@, c)])
        /\ bottom' = IF ask.current = None THEN ActivatedBottom(bottom, ask') ELSE bottom
  /\ UNCHANGED <<open, mcp, work, life, late, typed>>

\* The user answers the prompt: yes, no, or always for a shell command.
Decide(c) ==
  /\ ask.current = c /\ Focused(c)
  /\ \E always \in BOOLEAN :
       /\ always => CommandOf[c] # ""
       /\ LET r == finishApproval(c, ask, bottom)
          IN /\ ask' = IF always THEN addTrustedShellCommand(r[1], c) ELSE r[1]
             /\ bottom' = r[2]
  /\ UNCHANGED <<open, mcp, work, life, late, typed>>

\* Shift+Tab: never ask in this session, and let this call through.
NeverAsk(c) ==
  /\ ask.current = c /\ Focused(c) /\ c \notin UserTaskCalls
  /\ LET r == finishApproval(c, [ask EXCEPT !.mode = "never"], bottom)
     IN ask' = r[1] /\ bottom' = r[2]
  /\ UNCHANGED <<open, mcp, work, life, late, typed>>

\* The signal of a call that is waiting is aborted.
AbortApproval(c) ==
  /\ ask.answer[c] = "waiting"
  /\ LET r == finishApproval(c, ask, bottom) IN ask' = r[1] /\ bottom' = r[2]
  /\ UNCHANGED <<open, mcp, work, life, late, typed>>

-----------------------------------------------------------------------------
\* Opening views.  Commands are entered at the editor; those of idle
\* availability are refused while the status says a run is under way.
\* The views of the overlays: skills and MCP, which replace the Agent, only
\* while idle; a manager that is open already is not opened again.
OpenView(d) ==
  /\ EnterCommand /\ d \in Views \intersect {"skills", "mcp", "schedule", "jobs", "agents", "tools", "viewer"}
  /\ d \in {"skills", "mcp"} => ~work.running
  /\ IF d \in {"mcp", "schedule", "jobs"} /\ open[d] # None
     THEN /\ open' = Closed(open, closeOverlays(d))
          /\ bottom' = ClosedBottom(bottom, open, closeOverlays(d), ask.current)
          /\ work' = ClosedWork(work, open, closeOverlays(d))
     ELSE openOverlay(d, d)
  /\ late' = IF d # "mcp" /\ open["mcp"] # None THEN [late EXCEPT !.auth = FALSE] ELSE late
  /\ UNCHANGED <<ask, mcp, life>>
\* /resume closes the other overlays and lists the sessions.
openResume ==
  /\ EnterCommand /\ "picker" \in Views /\ ~work.running
  /\ openOverlay("picker", "picker")
  /\ late' = [deletion |-> IF late.deletion = "current" THEN "stale" ELSE late.deletion, auth |-> FALSE]
  /\ UNCHANGED <<ask, mcp, life>>
\* The menus of slash commands; /usage and /task are available during a run.
OpenMenu(menu) ==
  /\ EnterCommand
  /\ menu \notin {"usage", "task"} => ~work.running
  /\ open' = [open EXCEPT !["options"] = menu]
  /\ bottom' = Showing(menu)
  /\ UNCHANGED <<ask, mcp, work, life, late>>
\* Ctrl+O, from the editor alone: the newest tool call.
openLatest ==
  /\ ~Stopping /\ ~life.quit /\ ~Loading /\ bottom.shown = EditorView /\ "viewer" \in Views
  /\ typed < MaxCommands /\ typed' = typed + 1
  /\ open' = [open EXCEPT !["viewer"] = "viewer"]
  /\ bottom' = Showing("viewer")
  /\ UNCHANGED <<ask, mcp, work, life, late>>
\* A side question: its Agent runs apart; without one, the last is shown again.
openBtw ==
  /\ EnterCommand /\ "btw" \in Views
  /\ open' = [Closed(open, {"viewer"}) EXCEPT !["btw"] = "btw"]
  /\ bottom' = Showing("btw")
  /\ UNCHANGED <<ask, mcp, work, life, late>>
\* Hiding it keeps it for /btw.
HideBtw ==
  /\ Focused("btw")
  /\ bottom' = restored(bottom, "btw", ask.current)
  /\ UNCHANGED <<open, ask, mcp, work, life, late, typed>>

\* A step from one prompt of a controller to the next, or back.  A menu goes on
\* only from the prompt that is shown; deleting and authorizing keep theirs.
Navigate(d, to) ==
  /\ open[d] # None /\ Focused(open[d]) /\ <<open[d], to>> \in Steps[d]
  /\ d = "picker" => open[d] = "picker" \/ late.deletion = None
  /\ d = "mcp" => ~late.auth
  /\ open' = [open EXCEPT ![d] = to]
  /\ bottom' = Showing(to)
  /\ UNCHANGED <<ask, mcp, work, life, late, typed>>

\* Esc in a view, or the end of its last step.
CloseView(d) ==
  /\ open[d] = bottom.shown /\ bottom.shown # EditorView /\ Focused(bottom.shown)
  /\ bottom.shown \in Entries \ {"btw", "inspect", "picker"}
  /\ open' = Closed(open, {d})
  /\ bottom' = restored(bottom, open[d], ask.current)
  /\ work' = ClosedWork(work, open, {d})
  /\ UNCHANGED <<ask, mcp, life, late, typed>>
\* Changed skills rebuild the Agent, which a run under way refuses; a changed
\* selection of MCP servers starts the reload.
ReloadServers ==
  /\ open["mcp"] = "mcp" /\ Focused("mcp")
  /\ open' = Closed(open, {"mcp"})
  /\ bottom' = [restored(bottom, "mcp", ask.current) EXCEPT !.focus = FALSE]
  /\ mcp' = [phase |-> "reloading", cancelled |-> FALSE]
  /\ UNCHANGED <<ask, work, life, late, typed>>
\* The picker is left for the session there is.
ClosePicker ==
  /\ open["picker"] = "picker" /\ Focused("picker") /\ life.hasSession
  /\ open' = Closed(open, {"picker"})
  /\ bottom' = restored(bottom, "picker", ask.current)
  /\ UNCHANGED <<ask, mcp, work, life, late, typed>>
\* A subagent is looked at from its manager, which Esc shows again.
InspectSubagent ==
  /\ open["agents"] = "agents" /\ Focused("agents") /\ "viewer" \in Views
  /\ open' = [open EXCEPT !["viewer"] = "inspect"]
  /\ bottom' = Showing("inspect")
  /\ UNCHANGED <<ask, mcp, work, life, late, typed>>
LeaveInspection ==
  /\ Focused("inspect")
  /\ open' = [open EXCEPT !["viewer"] = None, !["agents"] = "agents"]
  /\ bottom' = Showing("agents")
  /\ UNCHANGED <<ask, mcp, work, life, late, typed>>
\* A tool picked from the history is shown in the picker's place.
PickTool ==
  /\ open["tools"] = "tools" /\ Focused("tools")
  /\ open' = [open EXCEPT !["tools"] = None, !["viewer"] = "viewer"]
  /\ bottom' = Showing("viewer")
  /\ UNCHANGED <<ask, mcp, work, life, late, typed>>

\* The last step of a menu, whose prompt was given up before the action.
MenuEnds(menu) == open["options"] = menu /\ Focused(menu)
\* The usage or the memory is shown.
ShowInformation ==
  /\ \E menu \in {"usage", "scopeShow"} : MenuEnds(menu)
  /\ open' = [open EXCEPT !["options"] = None, !["viewer"] = "viewer"]
  /\ bottom' = Showing("viewer")
  /\ UNCHANGED <<ask, mcp, work, life, late, typed>>
\* The session's approval mode is set; calls that wait are not looked at again.
SelectMode ==
  /\ \/ MenuEnds("approval") /\ \E mode \in {"always", "unless_trusted"} : ask' = [ask EXCEPT !.mode = mode]
     \/ MenuEnds("neverAsk") /\ ask' = [ask EXCEPT !.mode = "never"]
  /\ open' = Closed(open, {"options"})
  /\ bottom' = showFallback(ask.current, TRUE)
  /\ UNCHANGED <<mcp, work, life, late, typed>>
\* The model is switched, or the task's result given; both may only report an
\* error and give the prompt back.
FinishMenu ==
  /\ \E menu \in {"model", "effort", "taskResponse"} : MenuEnds(menu)
  /\ open' = Closed(open, {"options"})
  /\ bottom' = showFallback(ask.current, TRUE)
  /\ UNCHANGED <<ask, mcp, work, life, late, typed>>

-----------------------------------------------------------------------------
\* Runs.  The status is one flag, whoever runs.
StartedRun(w, r) ==
  [w EXCEPT !.active = @ \union {r}, !.running = TRUE, !.overlapped = @ \/ w.active # {}]
\* A memory compaction starts from its menu whatever else runs by then.
CompactMemory ==
  /\ MenuEnds("request")
  /\ open' = Closed(open, {"options"})
  /\ bottom' = showFallback(ask.current, TRUE)
  /\ work' = IF "memory" \in work.active THEN work ELSE StartedRun(work, "memory")
  /\ UNCHANGED <<ask, mcp, life, late, typed>>
\* A prompt, a goal or a compaction of the user's.
SubmitPrompt ==
  /\ EnterCommand /\ ~work.running /\ life.changing = None
  /\ "conversation" \notin work.active
  /\ work' = StartedRun(work, "conversation")
  /\ UNCHANGED <<bottom, open, ask, mcp, life, late>>
\* !command
SubmitShell ==
  /\ EnterCommand /\ ~work.running /\ "shell" \in Views
  /\ work' = StartedRun(work, "shell")
  /\ UNCHANGED <<bottom, open, ask, mcp, life, late>>
\* The end of a run of the interface's own tells the conversation.
finishAuxiliaryRun(r) ==
  /\ r \in work.active \intersect {"shell", "memory"}
  /\ LET w == [work EXCEPT !.active = @ \ {r}, !.running = FALSE] IN work' = Told(w, open)
  /\ UNCHANGED <<bottom, open, ask, mcp, life, late, typed>>
\* The conversation goes on with its queue by itself, after its run has settled
\* and with it the calls of that run.
finishConversationRun ==
  /\ "conversation" \in work.active
  /\ \A c \in AskedCalls \ ChildCalls : ask.answer[c] # "waiting"
  /\ LET w == [work EXCEPT !.active = @ \ {"conversation"}, !.running = FALSE]
     IN work' = Told(w, open)
  /\ UNCHANGED <<bottom, open, ask, mcp, life, late, typed>>
\* An input for a later run: a due wake, the end of a job, a goal's next round.
\* Before MCP was started nothing has run that could have made one.
QueueInput ==
  /\ work.coming > 0 /\ ~work.queued /\ ~Stopping /\ life.changing = None
  /\ mcp.phase \notin {"unloaded", "loading"}
  /\ LET w == [work EXCEPT !.queued = TRUE, !.coming = @ - 1] IN work' = Told(w, open)
  /\ UNCHANGED <<bottom, open, ask, mcp, life, late, typed>>


-----------------------------------------------------------------------------
\* Quitting.  While memory is being organized, which may be at any time, it has
\* to be confirmed; what the confirmation covers, or what covers it, is
\* remembered for the properties.  Ctrl+C at the confirmation or while stopping
\* ends the process: that is no step here.
Covered ==
  {d \in Dialogs : open[d] = bottom.shown}
    \union (IF bottom.shown = "inspect" THEN {"agents"} ELSE {})
    \union (IF bottom.shown = Quit THEN {Quit} ELSE {})
confirmQuit ==
  /\ bottom' = Showing(Quit)
  /\ life' = [life EXCEPT !.quit = TRUE, !.buried = @ \union (Covered \ {Quit})]
  /\ UNCHANGED <<open, ask, mcp, work, late, typed>>
\* stop() gives up MCP loading, the prompt, the side question and the views of
\* the gate, starts no queued run any more, and takes the focus.
stop ==
  LET ds == {"btw"} \union GateOverlays
  IN /\ open' = Closed(open, ds)
     /\ bottom' = [ClosedBottom(bottom, open, ds, ask.current) EXCEPT !.focus = FALSE]
     /\ mcp' = [mcp EXCEPT !.cancelled = @ \/ Loading]
     /\ life' = [life EXCEPT !.quit = FALSE, !.stop = "closing"]
     /\ late' = [late EXCEPT !.auth = FALSE]
     /\ UNCHANGED <<ask, work, typed>>
\* Ctrl+C when nothing runs and no draft is cleared by it, /quit, or leaving the
\* picker without a session.
requestExit ==
  /\ ~Stopping
  /\ \/ ~life.quit /\ ~Loading /\ ~work.running
     \/ AtEditor
  /\ confirmQuit \/ stop  \* memory is being organized, or not
LeavePicker ==
  /\ open["picker"] = "picker" /\ Focused("picker") /\ ~life.hasSession
  /\ stop
\* The prompt's choices.  Cancelling gives the editor back, not what was covered.
cancelExit ==
  /\ Focused(Quit) /\ life.quit
  /\ life' = [life EXCEPT !.quit = FALSE]
  /\ bottom' = restored(bottom, Quit, ask.current)
  /\ work' = notifyCanStartQueuedRun(work, open, Loading, FALSE, life.changing)
  /\ UNCHANGED <<open, ask, mcp, late, typed>>
QuitNow == Focused(Quit) /\ life.quit /\ stop
\* The conversation has closed: its run, its calls and a change of session are over.
StopEnds ==
  /\ life.stop = "closing" /\ "conversation" \notin work.active /\ life.changing = None
  /\ \A c \in AskedCalls : ask.answer[c] # "waiting"
  /\ life' = [life EXCEPT !.stop = "stopped"]
  /\ UNCHANGED <<bottom, open, ask, mcp, work, late, typed>>
-----------------------------------------------------------------------------
\* MCP.  Esc or Ctrl+C cancels a startup or a reload.
CancelLoading ==
  /\ ~Stopping /\ ~life.quit /\ Loading /\ ~mcp.cancelled
  /\ mcp' = [mcp EXCEPT !.cancelled = TRUE]
  /\ UNCHANGED <<bottom, open, ask, work, life, late, typed>>
\* It ends: the Agent is replaced, the editor is given back and the conversation
\* told, except after a startup that failed.  A reload during a run fails to
\* replace the Agent, and the editor stays without the focus.
LoadEnds ==
  /\ Loading
  /\ \E failed \in BOOLEAN :
       LET lost == mcp.phase = "reloading" /\ ~Stopping /\ "conversation" \in work.active
           quiet == Stopping \/ (failed /\ mcp.phase = "loading" /\ ~mcp.cancelled)
       IN /\ mcp' = [phase |-> IF failed /\ mcp.phase = "loading" /\ ~mcp.cancelled THEN "failed" ELSE "ready",
                     cancelled |-> FALSE]
          /\ bottom' = IF Stopping \/ lost THEN bottom ELSE showFallback(ask.current, TRUE)
          /\ work' = IF quiet THEN work
                     ELSE notifyCanStartQueuedRun([work EXCEPT !.overlapped = @ \/ lost],
                                                  open, FALSE, life.quit, life.changing)
          /\ life' = IF Stopping \/ lost THEN life ELSE [life EXCEPT !.buried = @ \union Covered]
  /\ UNCHANGED <<open, ask, late, typed>>
\* Authorizing or signing out of a server: its menu waits for the operation, and
\* the manager comes back when it ends.
RunAuthAction ==
  /\ open["mcp"] = "auth" /\ Focused("auth") /\ ~late.auth
  /\ late' = [late EXCEPT !.auth = TRUE]
  /\ UNCHANGED <<bottom, open, ask, mcp, work, life, typed>>
AuthEnds ==
  /\ late.auth
  /\ late' = [late EXCEPT !.auth = FALSE]
  /\ open' = [open EXCEPT !["mcp"] = "mcp"]
  /\ bottom' = Showing("mcp")
  /\ life' = [life EXCEPT !.buried = @ \union (Covered \ {"mcp"})]
  /\ UNCHANGED <<ask, mcp, work, typed>>

-----------------------------------------------------------------------------
\* Sessions.  Deleting one from the picker: the picker it was confirmed in comes
\* back; one opened since is closed.
ConfirmDelete ==
  /\ open["picker"] = "delete" /\ Focused("delete") /\ late.deletion = None
  /\ late' = [late EXCEPT !.deletion = "current"]
  /\ UNCHANGED <<bottom, open, ask, mcp, work, life, typed>>
DeletionEnds ==
  /\ late.deletion # None
  /\ late' = [late EXCEPT !.deletion = None]
  /\ IF open["picker"] # None /\ late.deletion = "current"
     THEN /\ open' = [open EXCEPT !["picker"] = "picker"]
          /\ bottom' = Showing("picker")
          /\ life' = [life EXCEPT !.buried = @ \union (Covered \ {"picker"})]
     ELSE /\ open' = Closed(open, {"picker"})
          /\ bottom' = IF open["picker"] = None THEN bottom ELSE restored(bottom, "picker", ask.current)
          /\ life' = [life EXCEPT !.buried = IF bottom.shown = "delete" THEN @ \union {"picker"} ELSE @]
  /\ UNCHANGED <<ask, mcp, work, typed>>
\* A session is chosen in the picker, which is closed first; with a run under
\* way that is all.
ChooseSession ==
  /\ open["picker"] = "picker" /\ Focused("picker")
  /\ open' = Closed(open, {"picker"})
  /\ bottom' = restored(bottom, "picker", ask.current)
  /\ life' = IF work.running \/ life.changing # None THEN life ELSE [life EXCEPT !.changing = "resume"]
  /\ UNCHANGED <<ask, mcp, work, late, typed>>
\* /new, /fork and /resume with an id.
ChangeSession(how) ==
  /\ EnterCommand /\ ~work.running /\ life.changing = None
  /\ life' = [life EXCEPT !.changing = how]
  /\ UNCHANGED <<bottom, open, ask, mcp, work, late>>
\* The change succeeds: the side question, the picker and the viewer are closed,
\* the queue is the new session's, and the approval mode the configured one.  A
\* fork goes on with its prompt; a resumed session has MCP started if it was not.
SessionChanged ==
  /\ life.changing # None
  /\ LET ds == {"btw", "picker", "viewer"}
         w == [work EXCEPT !.queued = FALSE]
         resumed == life.changing = "resume"
         starts == resumed /\ mcp.phase = "unloaded"
     IN /\ open' = Closed(open, ds)
        /\ bottom' = IF resumed THEN showFallback(ask.current, ~starts)
                     ELSE ClosedBottom(bottom, open, ds, ask.current)
        /\ work' = IF life.changing = "fork" /\ ~Stopping /\ ~Loading /\ ~w.running /\ "conversation" \notin w.active
                   THEN StartedRun(w, "conversation") ELSE w
        /\ life' = [life EXCEPT !.changing = None, !.hasSession = TRUE,
                                !.buried = @ \union (IF resumed \/ bottom.shown = "inspect" THEN Covered \ ds ELSE {})]
        /\ mcp' = IF starts THEN [phase |-> "loading", cancelled |-> FALSE] ELSE mcp
        /\ ask' = [ask EXCEPT !.mode = "unless_trusted"]
  /\ UNCHANGED <<late, typed>>
\* It fails: the editor is given back or, without a session, the picker again.
ChangeFails ==
  /\ life.changing # None
  /\ LET resuming == life.changing = "resume"
         again == resuming /\ ~life.hasSession
     IN /\ open' = IF again THEN [open EXCEPT !["picker"] = "picker"]
                   ELSE IF resuming THEN Closed(open, {"picker"}) ELSE open
        /\ bottom' = IF again THEN Showing("picker")
                     ELSE IF resuming THEN showFallback(ask.current, TRUE) ELSE bottom
        /\ life' = [life EXCEPT !.changing = None,
                                !.buried = @ \union (IF resuming THEN Covered \ {"picker"} ELSE {})]
        /\ late' = [late EXCEPT !.deletion = IF again /\ @ = "current" THEN "stale" ELSE @]
        /\ work' = notifyCanStartQueuedRun(work, open, Loading, life.quit \/ Stopping, None)
  /\ UNCHANGED <<ask, mcp, typed>>

-----------------------------------------------------------------------------
\* The interface starts at the editor with MCP loading, or in the picker, which
\* counts as a command.
BottomInit ==
  /\ life = [quit |-> FALSE, stop |-> "no", changing |-> None, hasSession |-> TRUE,
             buried |-> {}]
  /\ bottom = [shown |-> EditorView, focus |-> FALSE]
  /\ open = [d \in Dialogs |-> None]
  /\ mcp = [phase |-> "loading", cancelled |-> FALSE]
  /\ ask = [waiting |-> <<>>, current |-> None, trusted |-> {}, mode |-> "unless_trusted",
            answer |-> [c \in AskedCalls |-> "new"]]
  /\ work = [active |-> {}, running |-> FALSE, queued |-> FALSE, coming |-> MaxQueued, overlapped |-> FALSE]
  /\ late = [deletion |-> None, auth |-> FALSE] /\ typed = 0
PickerInit ==
  /\ MayBeginInPicker
  /\ life = [quit |-> FALSE, stop |-> "no", changing |-> None, hasSession |-> FALSE,
             buried |-> {}]
  /\ bottom = Showing("picker")
  /\ open = [d \in Dialogs |-> IF d = "picker" THEN "picker" ELSE None]
  /\ mcp = [phase |-> "unloaded", cancelled |-> FALSE]
  /\ ask = [waiting |-> <<>>, current |-> None, trusted |-> {}, mode |-> "unless_trusted",
            answer |-> [c \in AskedCalls |-> "new"]]
  /\ work = [active |-> {}, running |-> FALSE, queued |-> FALSE, coming |-> MaxQueued, overlapped |-> FALSE]
  /\ late = [deletion |-> None, auth |-> FALSE] /\ typed = Min({1, MaxCommands})

BottomNext ==
  \/ \E c \in AskedCalls : requestApproval(c) \/ Decide(c) \/ NeverAsk(c) \/ AbortApproval(c)
  \/ \E d \in Dialogs : OpenView(d) \/ CloseView(d) \/ \E to \in Components : Navigate(d, to)
  \/ \E menu \in Menus : OpenMenu(menu)
  \/ openResume \/ openLatest \/ openBtw \/ HideBtw
  \/ ReloadServers \/ ClosePicker \/ InspectSubagent \/ LeaveInspection \/ PickTool
  \/ ShowInformation \/ SelectMode \/ FinishMenu
  \/ CompactMemory \/ SubmitPrompt \/ SubmitShell
  \/ \E r \in Runs : finishAuxiliaryRun(r)
  \/ finishConversationRun \/ QueueInput
  \/ requestExit \/ LeavePicker \/ cancelExit \/ QuitNow \/ StopEnds
  \/ CancelLoading \/ LoadEnds \/ RunAuthAction \/ AuthEnds
  \/ ConfirmDelete \/ DeletionEnds \/ ChooseSession
  \/ \E how \in {"new", "fork", "resume"} : ChangeSession(how)
  \/ SessionChanged \/ ChangeFails

BottomSpec == (BottomInit \/ PickerInit) /\ [][BottomNext]_bottomVars

-----------------------------------------------------------------------------
Live == life.stop = "no"
\* What is shown is what some controller waits for: a prompt nobody waits for
\* would take keys and give nothing back.
OnScreenIsAwaited ==
  Live =>
    /\ bottom.shown = Quit => life.quit
    /\ bottom.shown \in AskedCalls => ask.current = bottom.shown
    /\ bottom.shown \notin {EditorView, Quit} \union AskedCalls =>
         \/ \E d \in Dialogs : open[d] = bottom.shown
         \/ bottom.shown = "delete" /\ "picker" \in life.buried
\* A waiting approval is asked about, and as soon as nothing covers it.
ApprovalIsNeverBuried ==
  /\ ask.current # None => bottom.shown # EditorView
  /\ (ask.current = None) = (ask.waiting = <<>>)
  /\ ask.waiting # <<>> => ask.current = ask.waiting[1]
\* A queued run waits for something that will tell the conversation.
GateNeverSticks ==
  Live /\ work.queued /\ "conversation" \notin work.active /\ life.changing = None
    => ~canStartQueuedRun(open, work.running, Loading, life.quit)
\* What holds queued runs back is on the screen, unless the confirmation before
\* quitting, a load, an authorization or a deletion that came back, or a session
\* that changed underneath has covered it (`life.buried`).
NothingBlocksUnseen ==
  Live =>
    /\ \A d \in GateOverlays : open[d] # None =>
         bottom.shown = open[d] \/ d \in life.buried \/ (d = "agents" /\ bottom.shown = "inspect")
    /\ life.quit => bottom.shown = Quit \/ Quit \in life.buried
\* The status tells whether something runs, and keys reach what is shown, until a
\* memory compaction or a reload of MCP has overlapped another run.
RunningIsTruthful ==
  ~work.overlapped =>
    /\ work.running = (work.active # {})
    /\ Live /\ ~Loading => bottom.focus
\* Nothing is typed before a session was chosen (session-lifecycle-controller.ts:
\* "keep the user choosing until a resume succeeds or the picker exits").
SessionIsChosen ==
  ~life.hasSession /\ life.changing = None => ~AtEditor
\* MCP is reloaded while nothing runs (app.ts: "the MCP manager menu cannot open
\* during a run, so replacement is race-free").
ReloadsAreIdle ==
  mcp.phase = "reloading" => "conversation" \notin work.active

\* The bottom area as a whole.
BottomIsSafe ==
  /\ BottomTypeOK
  /\ OnScreenIsAwaited
  /\ ApprovalIsNeverBuried
  /\ GateNeverSticks
  /\ NothingBlocksUnseen
  /\ RunningIsTruthful
=============================================================================
