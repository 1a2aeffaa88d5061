------------------------ MODULE MemoryConsolidation ------------------------
(***************************************************************************)
(* The memory of src/kana/memory: `remember` appends an entry to the file  *)
(* of the day, the run that commits schedules its entries, and a           *)
(* consolidation agent rewrites memory.md in a transaction.  The scheduler *)
(* of a host and manual compactions share one queue per scope              *)
(* (consolidation-scheduler.ts, host.ts).                                  *)
(*                                                                         *)
(* memory.md is the set of the entry parts it has taken in: the agent only *)
(* ever adds.  An entry has one line or two.                               *)
(***************************************************************************)
EXTENDS Naturals, Sequences, FiniteSets, SequencesExt

CONSTANTS
  MemoryScopes,   \* global and project
  MaxEntries,     \* bound: what the model remembers
  LongEntries,    \* those with a second line
  RetentionDays,  \* memory.daily_retention_days
  MaxDays,        \* bound: days that pass
  MaxCompactions  \* bound: manual compactions

ASSUME MemoryAssumption ==
  /\ MaxEntries \in Nat /\ LongEntries \subseteq 1..MaxEntries
  /\ RetentionDays \in Nat \ {0}
  /\ MaxDays \in Nat \ {0} /\ MaxCompactions \in Nat

Entries == 1..MaxEntries

VARIABLES
  memoryFile,   \* memory.md of each scope
  daily,        \* the entries of each scope and day, in file order
  today,        \* the local date
  remembered,   \* entries of the run in progress, with their scopes
  scopeQueue,   \* per scope: the jobs that wait, the running one first
  consolidating,      \* the jobs that run, with the file each has read
  memoryHost,   \* how far close() is
  activities,   \* what getActivity() of all the schedulers returns
  compactions,  \* manual compactions made
  appended,     \* history: the scope and the day of each entry
  memoryWritten       \* history: per scope, the parts that commits put in memory.md

memoryVars == <<memoryFile, daily, today, remembered, scopeQueue, consolidating,
                memoryHost, activities, compactions, appended, memoryWritten>>

Parts(e) == {<<e, 1>>} \cup (IF e \in LongEntries THEN {<<e, 2>>} ELSE {})
AllParts == UNION {Parts(e) : e \in Entries}
MemoryJobs == [manual : BOOLEAN, batch : SUBSET Entries]

MemoryTypeOK ==
  /\ memoryFile \in [MemoryScopes -> SUBSET AllParts]
  /\ daily \in [MemoryScopes -> [1..MaxDays -> Seq(Entries)]]
  /\ today \in 1..MaxDays
  /\ remembered \subseteq Entries \X MemoryScopes
  /\ \A s \in MemoryScopes : scopeQueue[s] \in Seq(MemoryJobs)
  /\ consolidating \subseteq [scope : MemoryScopes, job : MemoryJobs, base : SUBSET AllParts]
  /\ memoryHost \in [closing : BOOLEAN, closed : BOOLEAN]
  /\ activities \subseteq [scope : MemoryScopes, batch : SUBSET Entries, status : {"queued", "organizing"}]
  /\ compactions \in 0..MaxCompactions
  /\ appended \in Seq([scope : MemoryScopes, day : 1..MaxDays])
  /\ memoryWritten \in [MemoryScopes -> SUBSET AllParts]

MemoryInit ==
  /\ memoryFile = [s \in MemoryScopes |-> {}]
  /\ daily = [s \in MemoryScopes |-> [d \in 1..MaxDays |-> <<>>]]
  /\ today = 1 /\ remembered = {}
  /\ scopeQueue = [s \in MemoryScopes |-> <<>>]
  /\ consolidating = {}
  /\ memoryHost = [closing |-> FALSE, closed |-> FALSE]
  /\ activities = {} /\ compactions = 0 /\ appended = <<>>
  /\ memoryWritten = [s \in MemoryScopes |-> {}]

-----------------------------------------------------------------------------
\* parseKanaDailyMemory(): in its expression, which is multi-line, `$` ends
\* the body of an entry at the end of its first line.
Parsed(file) == [i \in DOMAIN file |-> {<<file[i], 1>>}]

\* What a full consolidation can read of a scope.
ReadDaily(s) == UNION {UNION ToSet(Parsed(daily[s][d])) : d \in 1..MaxDays}

\* appendKanaMemory(), and the host's recording callback.
Remember(e, s) ==
  /\ ~memoryHost.closing /\ e = Len(appended) + 1
  /\ appended' = Append(appended, [scope |-> s, day |-> today])
  /\ daily' = [daily EXCEPT ![s][today] = Append(@, e)]
  /\ remembered' = remembered \cup {<<e, s>>}
  /\ UNCHANGED <<memoryFile, today, scopeQueue, consolidating, memoryHost, activities,
                 compactions, memoryWritten>>

\* onRunCommitted: the scheduler takes the entries by scope, unless the host
\* has let go of it.
RunCommits ==
  LET batch(s) == {r[1] : r \in {x \in remembered : x[2] = s}}
      some == {s \in MemoryScopes : batch(s) # {}}
  IN  /\ remembered # {}
      /\ IF memoryHost.closing THEN UNCHANGED <<remembered, scopeQueue, activities>>
         ELSE /\ remembered' = {}
              /\ scopeQueue' = [s \in MemoryScopes |-> scopeQueue[s] \o
                   (IF s \in some THEN <<[manual |-> FALSE, batch |-> batch(s)]>>
                    ELSE <<>>)]
              /\ activities' = activities \cup
                   {[scope |-> s, batch |-> batch(s), status |-> "queued"] : s \in some}
      /\ UNCHANGED <<memoryFile, daily, today, consolidating, memoryHost, compactions, appended, memoryWritten>>

\* A run whose end the journal refuses: the next one forgets its entries.
RunIsLost ==
  /\ remembered # {} /\ ~memoryHost.closing /\ remembered' = {}
  /\ UNCHANGED <<memoryFile, daily, today, scopeQueue, consolidating, memoryHost, activities,
                 compactions, appended, memoryWritten>>

\* compactMemory(): a full consolidation of each scope of its target.
CompactMemory(target) ==
  /\ ~memoryHost.closing /\ compactions < MaxCompactions
  /\ compactions' = compactions + 1
  /\ scopeQueue' = [s \in MemoryScopes |->
       IF s \in target THEN Append(scopeQueue[s], [manual |-> TRUE, batch |-> {}])
       ELSE scopeQueue[s]]
  /\ UNCHANGED <<memoryFile, daily, today, remembered, consolidating, memoryHost, activities, appended, memoryWritten>>

-----------------------------------------------------------------------------
\* Mutant of MayConsolidate: the scheduler has a queue of its own.
MayStartEach(s, i) ==
  /\ \A j \in 1..(i - 1) : scopeQueue[s][j].manual # scopeQueue[s][i].manual
  /\ \A w \in consolidating : ~(w.scope = s /\ w.job = scopeQueue[s][i])

\* Mutant of MayConsolidate: what was queued when the host closes is dropped.
MayStartOpen(s, i) == i = 1 /\ ~memoryHost.closing /\ \A w \in consolidating : w.scope # s

\* The queue of the scope comes to its next job.
MayConsolidate(s, i) == i = 1 /\ \A w \in consolidating : w.scope # s

Activity(s, job) == {a \in activities : a.scope = s /\ a.batch = job.batch}

\* runMemoryConsolidation() opens its transaction on the file as it is now.
StartJob(s, i) ==
  LET job == scopeQueue[s][i]
  IN  /\ MayConsolidate(s, i) /\ (job.manual \/ ~memoryHost.closing)
      /\ consolidating' = consolidating \cup {[scope |-> s, job |-> job, base |-> memoryFile[s]]}
      /\ activities' = {IF a \in Activity(s, job) THEN [a EXCEPT !.status = "organizing"]
                        ELSE a : a \in activities}
      /\ UNCHANGED <<memoryFile, daily, today, remembered, scopeQueue, memoryHost,
                     compactions, appended, memoryWritten>>

\* The queue goes on behind the job; the first of two that are alike ends.
JobLeaves(s, job) ==
  \E i \in DOMAIN scopeQueue[s] :
    /\ scopeQueue[s][i] = job /\ \A j \in 1..(i - 1) : scopeQueue[s][j] # job
    /\ scopeQueue' = [scopeQueue EXCEPT ![s] = RemoveAt(@, i)]

\* Mutant of JobSettled: a job that has ended stays in what is shown.
SettledShown(s, job) ==
  /\ JobLeaves(s, job)
  /\ UNCHANGED activities

\* The promise of the job settles, whatever its outcome.
JobSettled(s, job) ==
  /\ JobLeaves(s, job)
  /\ activities' = activities \ Activity(s, job)

\* An automatic job of an aborted scheduler ends without an agent.
SkipJob(s, i) ==
  LET job == scopeQueue[s][i]
  IN  /\ MayConsolidate(s, i) /\ ~job.manual /\ memoryHost.closing
      /\ JobSettled(s, job)
      /\ UNCHANGED <<memoryFile, daily, today, remembered, consolidating, memoryHost,
                     compactions, appended, memoryWritten>>

\* Mutant of PrunedDays: the first day retained goes too.
PrunedOneMore(s) == [d \in 1..MaxDays |->
  IF d + RetentionDays <= today + 1 THEN <<>> ELSE daily[s][d]]

\* Files of days before the first one that is retained.
PrunedDays(s) == [d \in 1..MaxDays |->
  IF d + RetentionDays <= today THEN <<>> ELSE daily[s][d]]

\* commit(): the transaction replaces the file.
Committed(w) == w.base \cup
  (IF w.job.manual THEN ReadDaily(w.scope) ELSE UNION {Parts(e) : e \in w.job.batch})

\* The agent ends with `stop`: a changed transaction is committed, and a full
\* consolidation prunes the daily files.
JobStops(w) ==
  /\ consolidating' = consolidating \ {w}
  /\ \/ /\ memoryFile' = [memoryFile EXCEPT ![w.scope] = Committed(w)]
        /\ memoryWritten' = [memoryWritten EXCEPT ![w.scope] = @ \cup Committed(w)]
     \/ UNCHANGED <<memoryFile, memoryWritten>>
  /\ daily' = IF w.job.manual THEN [daily EXCEPT ![w.scope] = PrunedDays(w.scope)] ELSE daily
  /\ JobSettled(w.scope, w.job)
  /\ UNCHANGED <<today, remembered, memoryHost, compactions, appended>>

\* It ends otherwise: aborted, at a limit, or with an error.
JobFails(w) ==
  /\ consolidating' = consolidating \ {w}
  /\ JobSettled(w.scope, w.job)
  /\ UNCHANGED <<memoryFile, daily, today, remembered, memoryHost, compactions,
                 appended, memoryWritten>>

-----------------------------------------------------------------------------
\* close(): the scheduler is aborted.
BeginMemoryClose ==
  /\ ~memoryHost.closing
  /\ memoryHost' = [memoryHost EXCEPT !.closing = TRUE]
  /\ UNCHANGED <<memoryFile, daily, today, remembered, scopeQueue, consolidating, activities,
                 compactions, appended, memoryWritten>>

Automatic == {s \in MemoryScopes : \E i \in DOMAIN scopeQueue[s] : ~scopeQueue[s][i].manual}

\* Mutant of Awaited: only what runs is waited for.
AwaitedRunning == \A w \in consolidating : w.job.manual

\* Promise.allSettled over all the scheduler took.
Awaited == Automatic = {}

MemoryCloses ==
  /\ memoryHost.closing /\ ~memoryHost.closed /\ Awaited
  /\ memoryHost' = [memoryHost EXCEPT !.closed = TRUE]
  /\ UNCHANGED <<memoryFile, daily, today, remembered, scopeQueue, consolidating, activities,
                 compactions, appended, memoryWritten>>

NextDay ==
  /\ today < MaxDays /\ today' = today + 1
  /\ UNCHANGED <<memoryFile, daily, remembered, scopeQueue, consolidating, memoryHost,
                 activities, compactions, appended, memoryWritten>>

QueueProceeds(s) ==
  \/ \E i \in DOMAIN scopeQueue[s] : StartJob(s, i) \/ SkipJob(s, i)
  \/ \E w \in consolidating : w.scope = s /\ (JobStops(w) \/ JobFails(w))

MemoryNext ==
  \/ \E e \in Entries, s \in MemoryScopes : Remember(e, s)
  \/ RunCommits \/ RunIsLost
  \/ \E target \in SUBSET MemoryScopes \ {{}} : CompactMemory(target)
  \/ \E s \in MemoryScopes : QueueProceeds(s)
  \/ BeginMemoryClose \/ MemoryCloses \/ NextDay

MemorySpec == MemoryInit /\ [][MemoryNext]_memoryVars

-----------------------------------------------------------------------------
\* Whatever a consolidation has put in memory.md stays there: no two of a
\* scope, automatic or manual, read before the other
\* writes ("share one promise queue, avoiding concurrent read-modify-write
\* overwrites", docs/sessions-and-memory.md).
NothingIsOverwritten == memoryFile = memoryWritten

\* The activity shown is that of the jobs that are queued or running.
ActivityIsTrue ==
  activities = UNION {{[scope |-> s, batch |-> scopeQueue[s][i].batch,
                        status |-> IF \E w \in consolidating : w.scope = s /\ w.job = scopeQueue[s][i]
                                   THEN "organizing" ELSE "queued"] :
                       i \in {j \in DOMAIN scopeQueue[s] : ~scopeQueue[s][j].manual}} :
                      s \in MemoryScopes}

\* Once close() has returned, no automatic consolidation can still write.
ClosedIsQuiet == memoryHost.closed => Automatic = {}

\* Retention is in local calendar days: today and the RetentionDays - 1 before
\* it keep every entry.
RetentionIsKept ==
  \A e \in DOMAIN appended : appended[e].day + RetentionDays > today =>
    e \in ToSet(daily[appended[e].scope][appended[e].day])

MemoryIsSafe ==
  /\ MemoryTypeOK /\ NothingIsOverwritten /\ ActivityIsTrue /\ ClosedIsQuiet
  /\ RetentionIsKept

\* Every batch that is scheduled settles, and close() returns.
MemorySettles ==
  /\ \A s \in MemoryScopes : scopeQueue[s] # <<>> ~> scopeQueue[s] = <<>>
  /\ memoryHost.closing ~> memoryHost.closed

\* "`read_daily_memory`: read every entry for a given date"
\* (docs/sessions-and-memory.md:164): what the reader returns of a day is what
\* was appended to it.
DailyIsReadWhole ==
  \A s \in MemoryScopes : \A d \in 1..MaxDays :
    Parsed(daily[s][d]) = [i \in DOMAIN daily[s][d] |-> Parts(daily[s][d][i])]
=============================================================================
