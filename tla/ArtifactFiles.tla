---------------------------- MODULE ArtifactFiles ----------------------------
(* The files that hold oversized tool output: saveText and discard of a      *)
(* session's artifact store, the copies a fork makes, deletion with a        *)
(* session, and the orphan cleanup every normal start of a process runs.     *)
(* Several processes share the directories; a session is open in one process *)
(* at a time (SessionJournal), and a process may crash between any two file  *)
(* operations.  Time is one bit per file and directory: older than           *)
(* ORPHAN_CLEANUP_GRACE_MS or not.  A new session has its journal before its *)
(* first tool result; a fork gets one with its first run.  The temporary     *)
(* store of clean mode, which no other process sees, is left out, and so are *)
(* path, mode and symbolic link checks.                                      *)
EXTENDS Naturals, FiniteSets, FiniteSetsExt

CONSTANTS
  ArtifactProcs,     \* processes that share KANA_HOME
  ArtifactSessions,  \* session ids
  NoArtifactSession,
  MaxArtifacts,      \* bound: files created
  MaxDaysPassed            \* bound: times that a day passes

ASSUME ArtifactAssumption ==
  NoArtifactSession \notin ArtifactSessions /\ {MaxArtifacts, MaxDaysPassed} \subseteq Nat

VARIABLES
  artifactDir,       \* session -> "none", "fresh" or "aged"
  artifactFile,      \* id -> the session whose directory holds it, state and age
  artifactJournal,   \* session -> whether its journal exists, locators in it
  artifactHost,      \* process -> the session it has open and what it does
  artifactSweep,     \* process -> its cleanup: the listing and what is left of it
  artifactLife,      \* session -> "new", "used", "deleting" or "deleted"
  artifactDays,
  overdue            \* history: sessions that were forked a day before their first run

artifactVars == <<artifactDir, artifactFile, artifactJournal, artifactHost, artifactSweep,
                  artifactLife, artifactDays, overdue>>

ArtifactIds == 1..MaxArtifacts
NoFile == [of |-> NoArtifactSession, state |-> "none", aged |-> FALSE]
IdleHost == [session |-> NoArtifactSession, at |-> "idle", refs |-> {}, pending |-> FALSE,
             running |-> FALSE, id |-> 0, target |-> NoArtifactSession, left |-> {}, copies |-> {}]
IdleSweep == [at |-> "none", journals |-> {}, left |-> {}, session |-> NoArtifactSession,
              refs |-> {}, owed |-> {}]

ArtifactTypeOK ==
  /\ artifactDir \in [ArtifactSessions -> {"none", "fresh", "aged"}]
  /\ artifactFile \in [ArtifactIds -> [of : ArtifactSessions \cup {NoArtifactSession},
         state : {"none", "partial", "whole", "removed"}, aged : BOOLEAN]]
  /\ artifactJournal \in [ArtifactSessions -> [exists : BOOLEAN, refs : SUBSET ArtifactIds]]
  /\ artifactLife \in [ArtifactSessions -> {"new", "used", "deleting", "deleted"}]
  /\ \A p \in ArtifactProcs :
       /\ artifactHost[p].at \in {"idle", "saving", "saved", "forking", "deleting", "down"}
       /\ artifactSweep[p].at \in {"none", "listed", "sweeping", "reading", "done"}
  /\ artifactDays \in 0..MaxDaysPassed

ArtifactInit ==
  /\ artifactDir = [s \in ArtifactSessions |-> "none"]
  /\ artifactFile = [i \in ArtifactIds |-> NoFile]
  /\ artifactJournal = [s \in ArtifactSessions |-> [exists |-> FALSE, refs |-> {}]]
  /\ artifactHost = [p \in ArtifactProcs |-> [IdleHost EXCEPT !.at = "down"]]
  /\ artifactSweep = [p \in ArtifactProcs |-> IdleSweep]
  /\ artifactLife = [s \in ArtifactSessions |-> "new"]
  /\ artifactDays = 0
  /\ overdue = {}

FilesOf(s) == {i \in ArtifactIds : artifactFile[i].of = s /\ artifactFile[i].state \in {"partial", "whole"}}
NewIds == {i \in ArtifactIds : artifactFile[i].state = "none"}
NextId == Min(NewIds)
Removed(files, ids) == [i \in ArtifactIds |-> IF i \in ids THEN [files[i] EXCEPT !.state = "removed"] ELSE files[i]]
OpenElsewhere(p, s) == \E q \in ArtifactProcs \ {p} : artifactHost[q].session = s

\* The file is there, complete, in the session's own directory.
Stored(i, s) == artifactFile[i].state = "whole" /\ artifactFile[i].of = s

\* A process is up, between two calls of its user, and not in its cleanup.
HostIsFree(p) == artifactHost[p].at = "idle" /\ artifactSweep[p].at \in {"none", "done"}

-----------------------------------------------------------------------------
\* initialize: a process starts; its registry sweeps once.
SweepStarts(p) ==
  /\ artifactHost[p].at = "down"
  /\ artifactHost' = [artifactHost EXCEPT ![p] = IdleHost]
  /\ artifactSweep' = [artifactSweep EXCEPT ![p] = [IdleSweep EXCEPT !.at = "listed",
         !.journals = {s \in ArtifactSessions : artifactJournal[s].exists}]]
  /\ UNCHANGED <<artifactDir, artifactFile, artifactJournal, artifactLife, artifactDays, overdue>>

\* The journals are listed before the artifact directories.
SweepLists(p) ==
  LET old(s) == IF s \in artifactSweep[p].journals
                THEN {i \in FilesOf(s) : artifactFile[i].aged /\ i \notin artifactJournal[s].refs}
                ELSE IF artifactDir[s] = "aged" THEN FilesOf(s) ELSE {}
  IN  /\ artifactSweep[p].at = "listed"
      /\ artifactSweep' = [artifactSweep EXCEPT ![p].at = "sweeping",
             ![p].left = {s \in ArtifactSessions : artifactDir[s] # "none"},
             ![p].owed = UNION {old(s) : s \in ArtifactSessions}]
      /\ UNCHANGED <<artifactDir, artifactFile, artifactJournal, artifactHost, artifactLife,
                     artifactDays, overdue>>

\* Mutant of Expired: the grace period is not observed.
ExpiredAtOnce(s) == artifactDir[s] # "none"

Expired(s) == artifactDir[s] = "aged"

\* A directory without a journal goes as a whole once it is old enough.
SweepDirectory(p, s) ==
  /\ artifactSweep[p].at = "sweeping" /\ s \in artifactSweep[p].left
  /\ s \notin artifactSweep[p].journals
  /\ artifactSweep' = [artifactSweep EXCEPT ![p].left = @ \ {s}]
  /\ IF Expired(s)
     THEN /\ artifactDir' = [artifactDir EXCEPT ![s] = "none"]
          /\ artifactFile' = Removed(artifactFile, FilesOf(s))
     ELSE UNCHANGED <<artifactDir, artifactFile>>
  /\ UNCHANGED <<artifactJournal, artifactHost, artifactLife, artifactDays, overdue>>

\* cleanupUnreferencedArtifactFiles reads the journal; one that has gone since
\* is a failure, and the directory is left to a later pass.
SweepReads(p, s) ==
  /\ artifactSweep[p].at = "sweeping" /\ s \in artifactSweep[p].left
  /\ s \in artifactSweep[p].journals
  /\ artifactSweep' =
         IF artifactJournal[s].exists /\ artifactDir[s] # "none"
         THEN [artifactSweep EXCEPT ![p].left = @ \ {s}, ![p].at = "reading",
                                    ![p].session = s, ![p].refs = artifactJournal[s].refs]
         ELSE [artifactSweep EXCEPT ![p].left = @ \ {s}, ![p].owed = @ \ FilesOf(s)]
  /\ UNCHANGED <<artifactDir, artifactFile, artifactJournal, artifactHost, artifactLife,
                 artifactDays, overdue>>

\* Mutant of Unreferenced: a file is judged by its age alone.
UnreferencedOrNot(p) == {i \in FilesOf(artifactSweep[p].session) : artifactFile[i].aged}

Unreferenced(p) == {i \in FilesOf(artifactSweep[p].session) :
                      artifactFile[i].aged /\ i \notin artifactSweep[p].refs}

SweepFiles(p) ==
  /\ artifactSweep[p].at = "reading"
  /\ artifactFile' = Removed(artifactFile, Unreferenced(p))
  /\ artifactSweep' = [artifactSweep EXCEPT ![p] =
         [@ EXCEPT !.at = "sweeping", !.session = NoArtifactSession, !.refs = {}]]
  /\ UNCHANGED <<artifactDir, artifactJournal, artifactHost, artifactLife, artifactDays, overdue>>

SweepEnds(p) ==
  /\ artifactSweep[p].at = "sweeping" /\ artifactSweep[p].left = {}
  /\ artifactSweep' = [artifactSweep EXCEPT ![p].at = "done"]
  /\ UNCHANGED <<artifactDir, artifactFile, artifactJournal, artifactHost, artifactLife,
                 artifactDays, overdue>>

-----------------------------------------------------------------------------
\* A new session, or a saved one that no other process has open.
OpenSession(p, s) ==
  /\ HostIsFree(p) /\ artifactHost[p].session = NoArtifactSession
  /\ \/ artifactLife[s] = "new"
     \/ artifactLife[s] = "used" /\ artifactJournal[s].exists /\ ~OpenElsewhere(p, s)
  /\ artifactLife' = [artifactLife EXCEPT ![s] = "used"]
  /\ artifactHost' = [artifactHost EXCEPT ![p].session = s, ![p].refs = artifactJournal[s].refs]
  /\ artifactSweep' = [artifactSweep EXCEPT ![p] = IdleSweep]
  /\ UNCHANGED <<artifactDir, artifactFile, artifactJournal, artifactDays, overdue>>

LeaveSession(p) ==
  /\ HostIsFree(p) /\ artifactHost[p].session # NoArtifactSession
  /\ artifactHost' = [artifactHost EXCEPT ![p] = IdleHost]
  /\ UNCHANGED <<artifactDir, artifactFile, artifactJournal, artifactSweep, artifactLife,
                 artifactDays, overdue>>

\* startRun: the journal gets the snapshot a fork has pending, then the turn.
StartsRun(p) ==
  LET s == artifactHost[p].session
  IN  /\ HostIsFree(p) /\ s # NoArtifactSession /\ ~artifactHost[p].running
      /\ artifactJournal' = [artifactJournal EXCEPT ![s] =
             [exists |-> TRUE, refs |-> @.refs \cup artifactHost[p].refs]]
      /\ artifactHost' = [artifactHost EXCEPT ![p].running = TRUE, ![p].pending = FALSE]
      /\ UNCHANGED <<artifactDir, artifactFile, artifactSweep, artifactLife, artifactDays, overdue>>

EndsRun(p) ==
  /\ HostIsFree(p) /\ artifactHost[p].running
  /\ artifactHost' = [artifactHost EXCEPT ![p].running = FALSE]
  /\ UNCHANGED <<artifactDir, artifactFile, artifactJournal, artifactSweep, artifactLife,
                 artifactDays, overdue>>

\* finalize: saveText makes the directories and creates the file.
SaveOpens(p) ==
  LET s == artifactHost[p].session
  IN  /\ HostIsFree(p) /\ artifactHost[p].running /\ NewIds # {}
      /\ artifactDir' = [artifactDir EXCEPT ![s] = "fresh"]
      /\ artifactFile' = [artifactFile EXCEPT ![NextId] = [of |-> s, state |-> "partial", aged |-> FALSE]]
      /\ artifactHost' = [artifactHost EXCEPT ![p].at = "saving", ![p].id = NextId]
      /\ UNCHANGED <<artifactJournal, artifactSweep, artifactLife, artifactDays, overdue>>

\* The content is written and synced, or the file is removed again.
SaveWrites(p, ok) ==
  /\ artifactHost[p].at = "saving"
  /\ artifactFile' = [artifactFile EXCEPT ![artifactHost[p].id].state = IF ok THEN "whole" ELSE "removed"]
  /\ artifactHost' = [artifactHost EXCEPT ![p].at = IF ok THEN "saved" ELSE "idle",
                                          ![p].id = IF ok THEN @ ELSE 0]
  /\ UNCHANGED <<artifactDir, artifactJournal, artifactSweep, artifactLife, artifactDays, overdue>>

\* The limit cannot hold the notice: discard, and the result is kept inline.
SaveIsDiscarded(p) ==
  /\ artifactHost[p].at = "saved"
  /\ artifactFile' = Removed(artifactFile, {artifactHost[p].id})
  /\ artifactHost' = [artifactHost EXCEPT ![p].at = "idle", ![p].id = 0]
  /\ UNCHANGED <<artifactDir, artifactJournal, artifactSweep, artifactLife, artifactDays, overdue>>

\* commit: the tool result is journaled with its locator, or the journal fails,
\* the run ends, and the file stays behind.
ResultCommitted(p, ok) ==
  LET h == artifactHost[p]
  IN  /\ h.at = "saved"
      /\ artifactJournal' = IF ok THEN [artifactJournal EXCEPT ![h.session].refs = @ \cup {h.id}]
                                  ELSE artifactJournal
      /\ artifactHost' = [artifactHost EXCEPT ![p].at = "idle", ![p].id = 0,
             ![p].refs = IF ok THEN @ \cup {h.id} ELSE @, ![p].running = ok]
      /\ UNCHANGED <<artifactDir, artifactFile, artifactSweep, artifactLife, artifactDays, overdue>>

-----------------------------------------------------------------------------
\* forkKanaSessionArtifacts, with the process idle: nothing to copy, a source
\* that is not complete (it throws), or a private directory for the copies.
ForkBegins(p, t) ==
  LET h == artifactHost[p]
  IN  /\ HostIsFree(p) /\ h.session # NoArtifactSession /\ ~h.running /\ artifactLife[t] = "new"
      /\ \/ /\ h.refs = {}
            /\ artifactHost' = [artifactHost EXCEPT ![p].session = t, ![p].pending = TRUE]
            /\ artifactLife' = [artifactLife EXCEPT ![t] = "used"]
            /\ UNCHANGED artifactDir
         \/ /\ h.refs # {} /\ \A i \in h.refs : Stored(i, h.session)
            /\ Cardinality(h.refs) <= Cardinality(NewIds)
            /\ artifactDir' = [artifactDir EXCEPT ![t] = "fresh"]
            /\ artifactLife' = [artifactLife EXCEPT ![t] = "used"]
            /\ artifactHost' = [artifactHost EXCEPT ![p].at = "forking", ![p].target = t, ![p].left = h.refs]
      /\ UNCHANGED <<artifactFile, artifactJournal, artifactSweep, artifactDays, overdue>>

ForkCopies(p) ==
  LET h == artifactHost[p]
  IN  /\ h.at = "forking" /\ h.left # {} /\ NewIds # {}
      /\ artifactFile[Min(h.left)].state = "whole"
      /\ artifactFile' = [artifactFile EXCEPT ![NextId] = [of |-> h.target, state |-> "whole", aged |-> FALSE]]
      /\ artifactHost' = [artifactHost EXCEPT ![p].left = @ \ {Min(@)}, ![p].copies = @ \cup {NextId}]
      /\ UNCHANGED <<artifactDir, artifactJournal, artifactSweep, artifactLife, artifactDays, overdue>>

\* Mutant of Rewritten: the locators of the source are kept.
RewrittenNot(h) == h.refs

\* rewriteArtifactLocators
Rewritten(h) == h.copies

\* Every message names its copy; the fork is registered without a journal.
ForkEnds(p) ==
  LET h == artifactHost[p]
  IN  /\ h.at = "forking" /\ h.left = {}
      /\ artifactHost' = [artifactHost EXCEPT ![p] =
             [IdleHost EXCEPT !.session = h.target, !.refs = Rewritten(h), !.pending = TRUE]]
      /\ UNCHANGED <<artifactDir, artifactFile, artifactJournal, artifactSweep, artifactLife,
                     artifactDays, overdue>>

\* A copy fails: the target is removed, unless that fails too.
ForkFails(p, rolledBack) ==
  LET h == artifactHost[p]
  IN  /\ h.at = "forking" /\ h.left # {}
      /\ IF rolledBack
         THEN /\ artifactDir' = [artifactDir EXCEPT ![h.target] = "none"]
              /\ artifactFile' = Removed(artifactFile, FilesOf(h.target))
         ELSE UNCHANGED <<artifactDir, artifactFile>>
      /\ artifactHost' = [artifactHost EXCEPT ![p] =
             [IdleHost EXCEPT !.session = h.session, !.refs = h.refs, !.pending = h.pending]]
      /\ UNCHANGED <<artifactJournal, artifactSweep, artifactLife, artifactDays, overdue>>

-----------------------------------------------------------------------------
\* Mutant of MayDelete: a session that is open elsewhere is deleted.
MayDeleteAny(p, s) == artifactJournal[s].exists

MayDelete(p, s) == artifactJournal[s].exists /\ ~OpenElsewhere(p, s)

\* deleteSession: the process disposes its own record; the journal goes under
\* the session lock.
DeleteJournal(p, s) ==
  /\ HostIsFree(p) /\ ~artifactHost[p].running /\ MayDelete(p, s)
  /\ artifactJournal' = [artifactJournal EXCEPT ![s] = [exists |-> FALSE, refs |-> {}]]
  /\ artifactLife' = [artifactLife EXCEPT ![s] = "deleting"]
  /\ artifactHost' = [artifactHost EXCEPT ![p] =
         [(IF @.session = s THEN IdleHost ELSE @) EXCEPT !.at = "deleting", !.target = s]]
  /\ UNCHANGED <<artifactDir, artifactFile, artifactSweep, artifactDays, overdue>>

\* deleteKanaSessionArtifacts, best effort.
DeleteFiles(p, ok) ==
  LET s == artifactHost[p].target
  IN  /\ artifactHost[p].at = "deleting"
      /\ IF ok THEN /\ artifactDir' = [artifactDir EXCEPT ![s] = "none"]
                    /\ artifactFile' = Removed(artifactFile, FilesOf(s))
                    /\ artifactLife' = [artifactLife EXCEPT ![s] = "deleted"]
               ELSE UNCHANGED <<artifactDir, artifactFile, artifactLife>>
      /\ artifactHost' = [artifactHost EXCEPT ![p].at = "idle", ![p].target = NoArtifactSession]
      /\ UNCHANGED <<artifactJournal, artifactSweep, artifactDays, overdue>>

ArtifactCrash(p) ==
  /\ artifactHost[p].at # "down"
  /\ artifactHost' = [artifactHost EXCEPT ![p] = [IdleHost EXCEPT !.at = "down"]]
  /\ artifactSweep' = [artifactSweep EXCEPT ![p] = IdleSweep]
  /\ UNCHANGED <<artifactDir, artifactFile, artifactJournal, artifactLife, artifactDays, overdue>>

\* A day passes.  No sweep, save, fork or deletion takes that long.
DayPasses ==
  /\ artifactDays < MaxDaysPassed
  /\ \A p \in ArtifactProcs : artifactHost[p].at = "down" \/ HostIsFree(p)
  /\ artifactDays' = artifactDays + 1
  /\ artifactDir' = [s \in ArtifactSessions |-> IF artifactDir[s] = "fresh" THEN "aged" ELSE artifactDir[s]]
  /\ artifactFile' = [i \in ArtifactIds |-> [artifactFile[i] EXCEPT !.aged = @ \/ artifactFile[i].state # "none"]]
  /\ overdue' = overdue \cup {artifactHost[p].session :
                                p \in {q \in ArtifactProcs : artifactHost[q].pending}}
  /\ UNCHANGED <<artifactJournal, artifactHost, artifactSweep, artifactLife>>

ArtifactNext ==
  \/ \E p \in ArtifactProcs :
       \/ SweepStarts(p) \/ SweepLists(p) \/ SweepFiles(p) \/ SweepEnds(p)
       \/ LeaveSession(p) \/ StartsRun(p) \/ EndsRun(p) \/ SaveOpens(p) \/ SaveIsDiscarded(p)
       \/ ForkCopies(p) \/ ForkEnds(p) \/ ArtifactCrash(p)
       \/ \E ok \in BOOLEAN : SaveWrites(p, ok) \/ ResultCommitted(p, ok) \/ ForkFails(p, ok) \/ DeleteFiles(p, ok)
       \/ \E s \in ArtifactSessions :
            \/ SweepDirectory(p, s) \/ SweepReads(p, s) \/ OpenSession(p, s) \/ ForkBegins(p, s)
            \/ DeleteJournal(p, s)
  \/ DayPasses

ArtifactSpec == ArtifactInit /\ [][ArtifactNext]_artifactVars

-----------------------------------------------------------------------------
\* What a saved session, or the history a process has open, says was stored is
\* stored, complete, in that session's own directory: no cleanup, fork, failed
\* save, crash or deletion of another session takes it away.  The exception is
\* a fork whose first run came a day late.
LocatorsResolve ==
  /\ \A s \in ArtifactSessions \ overdue : \A i \in artifactJournal[s].refs : Stored(i, s)
  /\ \A p \in ArtifactProcs : artifactHost[p].session \notin overdue =>
       \A i \in artifactHost[p].refs : Stored(i, artifactHost[p].session)

\* What is left over is collected: after a cleanup nothing is left of the
\* files that were a day old and that no session named when it began (a late
\* fork may take its copies up meanwhile), and a deletion that succeeds leaves
\* nothing.
OrphansAreCollected ==
  /\ \A p \in ArtifactProcs : artifactSweep[p].at = "done" =>
       \A i \in artifactSweep[p].owed :
         \/ artifactFile[i].state = "removed" \/ artifactFile[i].of \in overdue
  /\ \A s \in ArtifactSessions : artifactLife[s] = "deleted" => FilesOf(s) = {}

\* The artifacts that sessions rely on stay, and the others do not.
ArtifactsAreSafe == ArtifactTypeOK /\ LocatorsResolve /\ OrphansAreCollected

\* CLAIM, of the comment on ORPHAN_CLEANUP_GRACE_MS: the grace period covers
\* the gap between a fork's copies and its journal.
ForksKeepTheirFiles ==
  \A s \in ArtifactSessions : \A i \in artifactJournal[s].refs : Stored(i, s)
=============================================================================
