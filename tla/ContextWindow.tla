--------------------------- MODULE ContextWindow ---------------------------
(***************************************************************************)
(* The context manager of an Agent: what of the history the model is sent. *)
(* A checkpoint replaces the start of the history by a summary, the        *)
(* runtime-context states at the boundary are projected again, and the     *)
(* provider's usage of an earlier request anchors the estimate of the next *)
(* one.  A run works on a fork of the manager, which the Agent adopts when *)
(* a checkpoint is in the journal and when the run ends; a session that is *)
(* resumed has the journal's messages and last checkpoint only.            *)
(*                                                                         *)
(* Messages are counted: each is estimated at one token, as is a summary;  *)
(* a wide message takes the provider two.  There is one source of runtime  *)
(* context.  Message i of the transcript is the code's messages[i - 1].    *)
(***************************************************************************)
EXTENDS Naturals, Sequences, SequencesExt, FiniteSetsExt

CONSTANTS
  PromptBudget,     \* promptBudget
  TriggerTokens,    \* triggerTokens
  TargetTokens,     \* targetTokens
  MaxOutput,        \* maxOutputTokens
  MaxMessages,      \* bound: messages of a transcript
  MaxCheckpoints    \* bound: ids given to checkpoints

ASSUME ContextAssumption ==
  /\ {PromptBudget, TriggerTokens, TargetTokens, MaxOutput} \subseteq Nat \ {0}
  /\ TargetTokens <= TriggerTokens /\ TriggerTokens <= PromptBudget

VARIABLES
  transcript,     \* the messages, which history, run and journal share
  mainContext,    \* Agent.contextManager: its checkpoint and usage anchor
  runContext,     \* the fork of the run or of compact()
  window,         \* the await the run or compact() is suspended at
  sent,           \* the request under way: what was known of its size, its limit
  journaled,      \* the checkpoints of the journal
  lastId          \* ids of checkpoints

contextVars == <<transcript, mainContext, runContext, window, sent, journaled, lastId>>

NoCheckpoint == [id |-> 0, base |-> 0, covered |-> 0, created |-> 0, summary |-> {}]
NoAnchor == [checkpoint |-> 0, count |-> 0, tokens |-> 0]
FreshContext == [checkpoint |-> NoCheckpoint, anchor |-> NoAnchor]
Resting == [at |-> "idle", forced |-> FALSE, manual |-> FALSE, aborted |-> FALSE, owed |-> 0]
NothingSent == [known |-> 0, limit |-> 0]

\* A message.  `calls` are an assistant's tool calls, `usage` the prompt tokens
\* its provider reported (0: none) when `under` was the checkpoint, `state` that
\* of a runtime-context message.
Message(role) == [role |-> role, wide |-> FALSE, calls |-> 0, usage |-> 0,
                  under |-> 0, hosted |-> FALSE, state |-> "none"]
RuntimeStates == {"v1", "v2", "inactive"}

-----------------------------------------------------------------------------
(* The projection. *)

IsRuntime(m) == m.role = "runtime"

\* resolveRuntimeContextMessages(): the state of the source after n messages.
LatestRuntime(ms, n) == {i \in 1..n : /\ IsRuntime(ms[i])
                                      /\ \A j \in (i + 1)..n : ~IsRuntime(ms[j])}
RuntimeAt(ms, n) ==
  SetToSeq({ms[i] : i \in {j \in LatestRuntime(ms, n) : ms[j].state # "inactive"}})

\* Mutant of Projection: the state at the boundary is not projected again.
TailOnly(c, ms) ==
  IF c = NoCheckpoint THEN ms
  ELSE <<Message("summary")>> \o SubSeq(ms, c.covered + 1, Len(ms))

\* createModelContext(): the summary, the state at the boundary, the tail.
Projection(c, ms) ==
  IF c = NoCheckpoint THEN ms
  ELSE <<Message("summary")>> \o RuntimeAt(ms, c.covered)
         \o SubSeq(ms, c.covered + 1, Len(ms))

TokensOf(ms) == FoldLeft(LAMBDA n, m : n + (IF m.wide THEN 2 ELSE 1), 0, ms)

\* estimateNextPrompt()
AnchorApplies(c, ms) ==
  /\ c.anchor # NoAnchor
  /\ c.anchor.checkpoint = c.checkpoint.id
  /\ c.anchor.count <= Len(ms)

Known(c, ms) ==
  IF AnchorApplies(c, ms) THEN c.anchor.tokens + Len(ms) - c.anchor.count
  ELSE Len(Projection(c.checkpoint, ms))

\* isCompleteTurnBoundary(): after an answer without calls, or after the last
\* result of an answer's calls.
CallerOf(ms, i) == Max({0} \cup {j \in 1..(i - 1) : ms[j].role # "tool"})

\* Mutant of CompleteBoundary: the first result of a group ends it.
AfterAnyResult(ms, b) ==
  ms[b].role = "tool" \/ (ms[b].role = "assistant" /\ ms[b].calls = 0)

CompleteBoundary(ms, b) ==
  \/ ms[b].role = "assistant" /\ ms[b].calls = 0
  \/ LET a == CallerOf(ms, b)
     IN  /\ ms[b].role = "tool" /\ a > 0
         /\ ms[a].role = "assistant" /\ ms[a].calls > 0
         /\ b - a >= ms[a].calls

\* selectCoveredMessageCount(): the first boundary whose tail meets the target
\* with a summary of full length, or else the last one.
TailFits(ms, b) ==
  1 + Len(SelectSeq(SubSeq(ms, b + 1, Len(ms)), LAMBDA m : ~IsRuntime(m))) <= TargetTokens

Selected(c, ms) ==
  LET valid == {b \in (c.covered + 1)..Len(ms) : CompleteBoundary(ms, b)}
      small == {b \in valid : TailFits(ms, b)}
  IN  IF small # {} THEN Min(small) ELSE Max(valid \cup {c.covered})

\* Mutant of Draft: the policy is not shown the previous summary.
DraftAnew(c, ms) ==
  LET covered == Selected(c, ms)
  IN  [id |-> lastId + 1, base |-> c.id, covered |-> covered, created |-> Len(ms),
       summary |-> {i \in (c.covered + 1)..covered : ~IsRuntime(ms[i])}]

\* The checkpoint compact() drafts: the policy sees the previous summary and
\* the messages up to the boundary, runtime states left out.
Draft(c, ms) ==
  LET covered == Selected(c, ms)
  IN  [id |-> lastId + 1, base |-> c.id, covered |-> covered, created |-> Len(ms),
       summary |-> c.summary \cup {i \in (c.covered + 1)..covered : ~IsRuntime(ms[i])}]

\* Mutant of Rehydrated: answers from before the checkpoint count.
RehydratedFromAny(c, ms) ==
  LET usable == {i \in 1..Len(ms) :
                   ms[i].role = "assistant" /\ ms[i].usage > 0 /\ ~ms[i].hosted}
  IN  IF usable = {} THEN NoAnchor
      ELSE [checkpoint |-> c.id, count |-> Max(usable) - 1, tokens |-> ms[Max(usable)].usage]

\* rehydrateUsageAnchor(): the last answer that postdates the checkpoint.
Rehydrated(c, ms) ==
  LET usable == {i \in (c.created + 1)..Len(ms) :
                   ms[i].role = "assistant" /\ ms[i].usage > 0 /\ ~ms[i].hosted}
  IN  IF usable = {} THEN NoAnchor
      ELSE [checkpoint |-> c.id, count |-> Max(usable) - 1, tokens |-> ms[Max(usable)].usage]

-----------------------------------------------------------------------------
(* The run. *)

ContextInit ==
  /\ transcript = <<>> /\ journaled = <<>> /\ lastId = 0
  /\ mainContext = FreshContext /\ runContext = FreshContext
  /\ window = Resting /\ sent = NothingSent

At(where) == window.at = where

\* agent_end: the Agent adopts the run's manager.
RunEnds(c) ==
  /\ mainContext' = c /\ window' = Resting /\ sent' = NothingSent

\* A run that throws is adopted only if it was aborted, and then only where
\* the loop waits for the throwing step (attempt()).
RunThrows(waited, c) ==
  /\ mainContext' = IF waited /\ window.aborted /\ ~window.manual THEN c ELSE mainContext
  /\ window' = Resting /\ sent' = NothingSent

Appends(m) == Len(transcript) < MaxMessages /\ transcript' = Append(transcript, m)

\* prompt(): the Agent forks its manager.
StartContextRun(wide) ==
  /\ At("idle")
  /\ Appends([Message("user") EXCEPT !.wide = wide])
  /\ runContext' = mainContext
  /\ window' = [Resting EXCEPT !.at = "prompt"]
  /\ UNCHANGED <<mainContext, sent, journaled, lastId>>

\* applyPrompt(): a state is appended if it differs from the last one of its
\* source; a source that never was active is not mentioned.
PromptApplied(state) ==
  LET latest == LatestRuntime(transcript, Len(transcript))
      same   == IF latest = {} THEN state = "inactive"
                ELSE transcript[Max(latest)].state = state
  IN  /\ At("prompt")
      /\ IF same THEN UNCHANGED transcript
         ELSE Appends([Message("runtime") EXCEPT !.state = state])
      /\ window' = [window EXCEPT !.at = "request", !.forced = FALSE]
      /\ UNCHANGED <<mainContext, runContext, sent, journaled, lastId>>

\* prepareForModel() with the estimate it ends with.
Sends(known, estimate) ==
  IF estimate >= PromptBudget THEN RunThrows(TRUE, runContext)
  ELSE /\ window' = [window EXCEPT !.at = "answer"]
       /\ sent' = [known |-> known, limit |-> Min({MaxOutput, PromptBudget - estimate})]
       /\ UNCHANGED mainContext

\* prepareForModel() and compact() up to the policy.  Without a new boundary a
\* threshold compaction gives way to the request, with a local estimate.
MustCompact(known) == window.forced \/ known >= TriggerTokens

Prepare ==
  LET known == Known(runContext, transcript)
      grown == Selected(runContext.checkpoint, transcript) > runContext.checkpoint.covered
  IN  /\ At("request")
      /\ IF ~MustCompact(known) THEN Sends(known, known)
         ELSE IF grown
         THEN window' = [window EXCEPT !.at = "policy"] /\ UNCHANGED <<mainContext, sent>>
         ELSE IF ~window.forced /\ known <= PromptBudget
         THEN Sends(known, Len(Projection(runContext.checkpoint, transcript)))
         ELSE RunThrows(TRUE, runContext)
      /\ UNCHANGED <<transcript, runContext, journaled, lastId>>

\* What the manager keeps when a compaction fails.
Restored(c) == c

\* The policy returns.  A summary that does not make room fails like a policy
\* that throws, is cut off, or returns too much or nothing.
Summarized(works) ==
  LET draft == Draft(runContext.checkpoint, transcript)
      fits  == Len(Projection(draft, transcript)) < PromptBudget
      next  == [checkpoint |-> draft, anchor |-> NoAnchor]
  IN  /\ At("policy")
      /\ IF works /\ fits
         THEN /\ lastId < MaxCheckpoints
              /\ runContext' = next /\ lastId' = lastId + 1
              /\ window' = [window EXCEPT !.at = "journal"]
              /\ UNCHANGED <<mainContext, sent>>
         ELSE /\ runContext' = Restored(runContext)
              /\ RunThrows(TRUE, runContext')
              /\ UNCHANGED lastId
      /\ UNCHANGED <<transcript, journaled>>

\* Mutant of JournalKnows: any base is accepted.
JournalTrusts(id) == id \in Nat

\* appendCompaction() refuses a checkpoint whose base is not in the journal.
JournalKnows(id) == id = 0 \/ \E i \in DOMAIN journaled : journaled[i].id = id

\* The checkpoint is durable: the Agent adopts it, and the request goes on.
CompactionCommitted ==
  /\ At("journal") /\ JournalKnows(runContext.checkpoint.base)
  /\ journaled' = Append(journaled, runContext.checkpoint)
  /\ mainContext' = runContext
  /\ LET size == Len(Projection(runContext.checkpoint, transcript))
     IN  IF window.manual THEN window' = Resting /\ sent' = NothingSent
         ELSE /\ window' = [window EXCEPT !.at = "answer"]
              /\ sent' = [known |-> size, limit |-> Min({MaxOutput, PromptBudget - size})]
  /\ UNCHANGED <<transcript, runContext, lastId>>

\* The write fails, which it may always do.
CompactionRefused ==
  /\ At("journal")
  /\ RunThrows(TRUE, runContext)
  /\ UNCHANGED <<transcript, runContext, journaled, lastId>>

\* The provider says that the prompt is too long: the request is compacted and
\* sent once more.
ContextLimitHit ==
  /\ At("answer")
  /\ IF window.forced THEN RunThrows(FALSE, runContext)
     ELSE /\ window' = [window EXCEPT !.at = "request", !.forced = TRUE]
          /\ sent' = NothingSent /\ UNCHANGED mainContext
  /\ UNCHANGED <<transcript, runContext, journaled, lastId>>

\* Mutant of Recorded: hosted responses are measured too.
RecordedAlways(c, m) ==
  IF m.usage = 0 THEN c
  ELSE [c EXCEPT !.anchor = [checkpoint |-> c.checkpoint.id, count |-> Len(transcript),
                             tokens |-> m.usage]]

\* recordAssistantUsage(): a response with hosted tools is billed for more than
\* the history holds, and is no anchor.
Recorded(c, m) ==
  IF m.usage = 0 \/ m.hosted THEN c
  ELSE [c EXCEPT !.anchor = [checkpoint |-> c.checkpoint.id, count |-> Len(transcript),
                             tokens |-> m.usage]]

\* The answer, with or without usage.  One that was truncated or aborted keeps
\* calls nobody executes; a failed one may keep nothing.
Billed(c, hosted) ==
  TokensOf(Projection(c.checkpoint, transcript)) + (IF hosted THEN 1 ELSE 0)

Answered(calls, reported, hosted, kept, next) ==
  LET m == IF reported
           THEN [Message("assistant") EXCEPT !.calls = calls, !.hosted = hosted,
                   !.usage = Billed(runContext, hosted), !.under = runContext.checkpoint.id]
           ELSE [Message("assistant") EXCEPT !.calls = calls]
      c == Recorded(runContext, m)
  IN  /\ At("answer") /\ (hosted => reported) /\ (next = "tools" => calls > 0)
      /\ runContext' = c
      /\ IF kept THEN Appends(m) ELSE next = "end" /\ calls = 0 /\ UNCHANGED transcript
      /\ IF next = "end" THEN RunEnds(c)
         ELSE /\ window' = [window EXCEPT !.at = next, !.owed = IF next = "tools" THEN calls ELSE 0]
              /\ UNCHANGED mainContext /\ sent' = NothingSent
      /\ UNCHANGED <<journaled, lastId>>

\* Results are committed in order.  The run goes on, or ends: it was aborted
\* or has no turn left.
ToolCommitted(ends) ==
  /\ At("tools") /\ Appends(Message("tool"))
  /\ IF window.owed > 1
     THEN window' = [window EXCEPT !.owed = @ - 1] /\ UNCHANGED <<mainContext, sent>>
     ELSE IF ends THEN RunEnds(runContext)
     ELSE window' = [window EXCEPT !.at = "input", !.owed = 0] /\ UNCHANGED <<mainContext, sent>>
  /\ UNCHANGED <<runContext, journaled, lastId>>

\* The journal refuses a message, or the run is aborted before its request:
\* part of a group may stay.
MessageRefused ==
  /\ window.at \in {"prompt", "answer", "tools", "input"}
  /\ RunThrows(window.at = "prompt", runContext)
  /\ UNCHANGED <<transcript, runContext, journaled, lastId>>

\* A steered input, or none, begins the next turn.
NextTurn(steered) ==
  /\ At("input")
  /\ IF steered THEN Appends(Message("user"))
     ELSE transcript[Len(transcript)].role = "tool" /\ UNCHANGED transcript
  /\ window' = [window EXCEPT !.at = "prompt"]
  /\ UNCHANGED <<mainContext, runContext, sent, journaled, lastId>>

AbortContextRun ==
  /\ ~At("idle") /\ ~window.aborted
  /\ window' = [window EXCEPT !.aborted = TRUE]
  /\ UNCHANGED <<transcript, mainContext, runContext, sent, journaled, lastId>>

\* compact(): manual, of an idle Agent.
CompactByHand ==
  /\ At("idle")
  /\ runContext' = mainContext
  /\ window' = [Resting EXCEPT !.at = "request", !.forced = TRUE, !.manual = TRUE]
  /\ UNCHANGED <<transcript, mainContext, sent, journaled, lastId>>

\* reset(): a new session.
ResetContext ==
  /\ At("idle") /\ transcript # <<>>
  /\ transcript' = <<>> /\ journaled' = <<>>
  /\ mainContext' = FreshContext /\ runContext' = FreshContext
  /\ UNCHANGED <<window, sent, lastId>>

\* The session is opened again, after a crash at any point or not.  Recovery
\* answers the calls of an interrupted turn.
ResumeSession ==
  LET ms == transcript \o [i \in 1..window.owed |-> Message("tool")]
      c  == IF journaled = <<>> THEN NoCheckpoint ELSE Last(journaled)
  IN  /\ Len(ms) <= MaxMessages /\ transcript # <<>>
      /\ transcript' = ms
      /\ mainContext' = [checkpoint |-> c, anchor |-> Rehydrated(c, ms)]
      /\ runContext' = FreshContext
      /\ window' = Resting /\ sent' = NothingSent
      /\ UNCHANGED <<journaled, lastId>>

ContextNext ==
  \/ \E wide \in BOOLEAN : StartContextRun(wide)
  \/ \E state \in RuntimeStates : PromptApplied(state)
  \/ Prepare
  \/ \E works \in BOOLEAN : Summarized(works)
  \/ CompactionCommitted \/ CompactionRefused
  \/ ContextLimitHit
  \/ \E calls \in 0..2 : \E reported, hosted, kept \in BOOLEAN :
       \E next \in {"tools", "input", "end"} : Answered(calls, reported, hosted, kept, next)
  \/ \E ends \in BOOLEAN : ToolCommitted(ends)
  \/ MessageRefused
  \/ \E steered \in BOOLEAN : NextTurn(steered)
  \/ AbortContextRun
  \/ CompactByHand \/ ResetContext \/ ResumeSession

ContextSpec == ContextInit /\ [][ContextNext]_contextVars

-----------------------------------------------------------------------------
Contexts == {mainContext} \cup (IF At("idle") THEN {} ELSE {runContext})

ContextTypeOK ==
  /\ \A c \in Contexts : /\ c.checkpoint.covered <= c.checkpoint.created
                         /\ c.checkpoint.created <= Len(transcript)
  /\ window.at \in {"idle", "prompt", "request", "policy", "journal", "answer",
                    "tools", "input"}
  /\ sent # NothingSent => At("answer")

\* No tool result is sent without its call, whatever groups failed or crashed
\* runs left incomplete (provider messages stay paired).
PairsStayTogether ==
  \A c \in Contexts : \A i \in (c.checkpoint.covered + 1)..Len(transcript) :
    transcript[i].role = "tool" => CallerOf(transcript, i) > c.checkpoint.covered

\* The model reads each message in the summary or as it is, never in both and
\* never in neither, through any number of compactions, forks and resumptions.
NothingIsForgotten ==
  \A c \in Contexts :
    c.checkpoint.summary = {i \in 1..c.checkpoint.covered : ~IsRuntime(transcript[i])}

\* The last runtime-context message the model sees is the last there is, unless
\* that withdrew the state.
RuntimeStateIsCurrent ==
  \A c \in Contexts :
    LET all   == RuntimeAt(transcript, Len(transcript))
        shown == Projection(c.checkpoint, transcript)
    IN  RuntimeAt(shown, Len(shown)) = all

\* An anchor that is used is what the provider would count for the part of the
\* prompt it stands for.  A resumed session may only be wrong about an answer
\* given under a checkpoint that never became durable.
AnchorsMeasureThePrompt ==
  \A c \in Contexts :
    AnchorApplies(c, transcript) =>
      \/ /\ c.anchor.count >= c.checkpoint.covered
         /\ c.anchor.tokens =
              TokensOf(Projection(c.checkpoint, SubSeq(transcript, 1, c.anchor.count)))
      \/ /\ c.anchor.count < Len(transcript)
         /\ ~JournalKnows(transcript[c.anchor.count + 1].under)

\* Checkpoints of the journal form one chain, so that the last one can be
\* resumed from.
JournalIsAChain ==
  \A i \in DOMAIN journaled :
    /\ journaled[i].base = IF i = 1 THEN 0 ELSE journaled[i - 1].id
    /\ i > 1 => journaled[i].covered > journaled[i - 1].covered

\* A request that is known not to fit is not sent.  Only one known to fill the
\* budget exactly slips through, when there is nothing to compact.
RequestsFit ==
  At("answer") =>
    \/ sent.known < PromptBudget
    \/ /\ sent.known = PromptBudget
       /\ Selected(runContext.checkpoint, transcript) = runContext.checkpoint.covered

ContextIsSafe ==
  /\ ContextTypeOK /\ PairsStayTogether /\ NothingIsForgotten
  /\ RuntimeStateIsCurrent /\ AnchorsMeasureThePrompt /\ JournalIsAChain /\ RequestsFit

\* context-manager.ts:225-227: "the remaining verified capacity becomes this
\* request's completion limit".
LimitIsVerified == At("answer") => sent.known + sent.limit <= PromptBudget
=============================================================================
