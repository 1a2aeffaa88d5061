---------------------------- MODULE SharedConfig ----------------------------
(***************************************************************************)
(* The configuration files that Kana processes share (src/kana/config,     *)
(* src/kana/mcp/activation.ts, src/kana/skills/config.ts): the servers and *)
(* Skills that are enabled, the commands that are trusted, and config.toml *)
(* itself.  A process keeps the snapshot it loaded when it started and     *)
(* writes, under a lock, only what its user changed in it; `kana reset`    *)
(* and `kana install` write without the lock, and a file may be edited by  *)
(* hand.                                                                   *)
(*                                                                         *)
(* A file is a map from keys to values, Unset where the key is not there:  *)
(* an enabled name and a trusted command are keys whose value is "on".     *)
(* mcp-enabled.json and skills.toml follow one algorithm and are one file  *)
(* here.                                                                   *)
(***************************************************************************)
EXTENDS Naturals, FiniteSets

CONSTANTS
  ConfigProcs,  \* processes of Kana
  Files,        \* among "enabled", "trust" and "config"
  KeysOf,       \* of each file, its keys
  ValuesOf,     \* of each file, the values a key may have
  Overrides,    \* of each process, what its command line sets in config.toml
  MaxUpdates    \* how many updates one process makes

Unset == "unset"
NoOne == "no one"
Maps(f) == [KeysOf[f] -> ValuesOf[f] \union {Unset}]
Empty(f) == [k \in KeysOf[f] |-> Unset]
ASSUME SharedConfigAssumption ==
  /\ MaxUpdates \in Nat /\ NoOne \notin ConfigProcs
  /\ Files \subseteq {"enabled", "trust", "config"}
  /\ \A f \in Files \ {"config"} : "on" \in ValuesOf[f]
  /\ \A f \in Files : Unset \notin ValuesOf[f]
  /\ \A p \in ConfigProcs : Overrides[p] \in Maps("config")

VARIABLES
  disk,     \* of each file: is it there, how is it laid out, what does it say
  locked,   \* of each file, who holds its lock
  process,  \* of each process: where it is, and its snapshots
  cli       \* the kana reset or kana install that runs beside them

configVars == <<disk, locked, process, cli>>

\* A missing file reads as the defaults.
Says(f) == IF disk[f].there THEN disk[f].says ELSE Empty(f)
\* applyKanaConfigOverrides.
Overridden(p, f, says) ==
  [k \in KeysOf[f] |-> IF f = "config" /\ Overrides[p][k] # Unset THEN Overrides[p][k] ELSE says[k]]
Loaded(p) == [f \in Files |-> Overridden(p, f, Says(f))]
Idle(snapshots, updates) ==
  [phase |-> "idle", file |-> "none", snapshot |-> snapshots, next |-> Empty("config"),
   merged |-> [there |-> FALSE, layout |-> "table", says |-> Empty("config")],
   disturbed |-> FALSE, updates |-> updates, start |-> snapshots, saved |-> {}]
Put(p, fields) == process' = [process EXCEPT ![p] = fields]

(* An update: the snapshot as the user wants it, the lock, the latest
   file, and the file with what changed. *)
\* A toggled server or Skill, a command to trust, a revised configuration.
Wanted(f, now) ==
  CASE f = "enabled" -> Maps(f)
    [] f = "trust" -> {[now EXCEPT ![k] = "on"] : k \in KeysOf[f]}
    [] f = "config" -> Maps(f)
Update(p, f) ==
  /\ process[p].phase = "idle" /\ process[p].updates < MaxUpdates
  /\ \E next \in Wanted(f, process[p].snapshot[f]) \ {process[p].snapshot[f]} :
       Put(p, [process[p] EXCEPT !.phase = "waiting", !.file = f, !.next = next, !.updates = @ + 1])
  /\ UNCHANGED <<disk, locked, cli>>

\* proper-lockfile: the lock of a process that died goes stale.
AnyoneLocks(p) == TRUE
MayLock(p) ==
  locked[process[p].file] \in {NoOne} \union {q \in ConfigProcs : process[q].phase = "dead"}
Lock(p) ==
  /\ process[p].phase = "waiting" /\ MayLock(p)
  /\ locked' = [locked EXCEPT ![process[p].file] = p]
  /\ Put(p, [process[p] EXCEPT !.phase = "reading"])
  /\ UNCHANGED <<disk, cli>>
\* acquireConfigFileLock gives up after ten attempts: the update is an error,
\* and the snapshot stays as it was.
GivesUpAdopting(p) == [process[p] EXCEPT !.phase = "idle", !.snapshot[process[p].file] = process[p].next]
GivesUp(p) == [process[p] EXCEPT !.phase = "idle"]
LockTimesOut(p) ==
  /\ process[p].phase = "waiting" /\ ~MayLock(p)
  /\ Put(p, GivesUp(p))
  /\ UNCHANGED <<disk, locked, cli>>

\* mergeConfigStringSet; a command is appended; a changed leaf is patched.
mergeSnapshot(persisted, previous, next) == next
merge(persisted, previous, next) ==
  [k \in DOMAIN persisted |-> IF previous[k] = next[k] THEN persisted[k] ELSE next[k]]
Changed(p) ==
  {k \in KeysOf[process[p].file] : process[p].snapshot[process[p].file][k] # process[p].next[k]}
\* updateTomlField sees the keys of a [table] only.  A value in an inline or a
\* dotted table is out of its sight: it cannot be taken out, and a second
\* definition of the table does not parse.
updateTomlField(layout, k, says, value) ==
  IF layout = "table" THEN [layout |-> layout, says |-> [says EXCEPT ![k] = value]]
  ELSE IF value = Unset THEN [layout |-> layout, says |-> says]
  ELSE [layout |-> "broken", says |-> says]
Merged(p) ==
  merge(Says(process[p].file), process[p].snapshot[process[p].file], process[p].next)
PatchedField(p, k) ==
  updateTomlField(disk[process[p].file].layout, k, Says(process[p].file), Merged(p)[k])
Blocked(p) == {k \in Changed(p) : PatchedField(p, k).layout = "broken"}
Unseen(p) == {k \in Changed(p) : PatchedField(p, k).says[k] # Merged(p)[k]}
Patched(p) ==
  LET f == process[p].file
  IN [there |-> TRUE,
      layout |-> IF Blocked(p) # {} THEN "broken" ELSE disk[f].layout,
      says |-> [k \in KeysOf[f] |->
                  IF k \in Blocked(p) \union Unseen(p) THEN Says(f)[k] ELSE Merged(p)[k]]]
\* The document must parse back to what the update wants of its leaves.
AnyDocument(p, document) == TRUE
ParsesBack(p, document) ==
  document.layout # "broken" /\ \A k \in Changed(p) : document.says[k] = process[p].next[k]
Leaves(p, fields) ==
  /\ locked' = [locked EXCEPT ![process[p].file] = NoOne]
  /\ Put(p, [fields EXCEPT !.phase = "idle"])
ReadAndMerge(p) ==
  LET f == process[p].file
      document == Patched(p)
  IN /\ process[p].phase = "reading"
     /\ CASE f = "config" /\ ~ParsesBack(p, document) -> Leaves(p, process[p])
          [] f = "trust" /\ Says(f) = document.says ->
               Leaves(p, [process[p] EXCEPT !.snapshot[f] = process[p].next,
                                            !.saved = @ \union {<<f, k>> : k \in Changed(p)}])
          [] OTHER -> /\ Put(p, [process[p] EXCEPT !.phase = "writing", !.merged = document, !.disturbed = FALSE])
                      /\ UNCHANGED locked
     /\ UNCHANGED <<disk, cli>>
\* writeFileAtomic: the old content or the new.
Rename(p) ==
  /\ process[p].phase = "writing"
  /\ disk' = [disk EXCEPT ![process[p].file] = process[p].merged]
  /\ Put(p, [process[p] EXCEPT !.phase = "written"])
  /\ UNCHANGED <<locked, cli>>
ReleaseConfig(p) ==
  /\ process[p].phase = "written"
  /\ Leaves(p, [process[p] EXCEPT !.snapshot[process[p].file] = process[p].next,
                                  !.saved = @ \union {<<process[p].file, k>> : k \in Changed(p)}])
  /\ UNCHANGED <<disk, cli>>
\* A process dies, with its lock; another starts in its place, and the lock is
\* stale by then.
Dies(p) ==
  /\ process[p].phase \in {"waiting", "reading", "writing", "written"}
  /\ Put(p, [process[p] EXCEPT !.phase = "dead"])
  /\ UNCHANGED <<disk, locked, cli>>
Starts(p) ==
  /\ process[p].phase = "dead"
  /\ Put(p, Idle(Loaded(p), process[p].updates))
  /\ locked' = [f \in Files |-> IF locked[f] = p THEN NoOne ELSE locked[f]]
  /\ UNCHANGED <<disk, cli>>

(* Writers without the lock. *)
Disturb(f) ==
  process' = [q \in ConfigProcs |->
    IF process[q].phase = "writing" /\ process[q].file = f THEN [process[q] EXCEPT !.disturbed = TRUE]
    ELSE process[q]]
Overwrite(f, document) == disk' = [disk EXCEPT ![f] = document] /\ Disturb(f)
FreshFile(f) == [there |-> f # "config", layout |-> "table", says |-> Empty(f)]
\* resetKanaConfig: config.toml is removed and the others are written, in turn.
Resets == <<"config", "enabled", "trust">>
resetKanaConfig ==
  /\ cli.does = "reset" /\ cli.at \in DOMAIN Resets
  /\ IF Resets[cli.at] \in Files THEN Overwrite(Resets[cli.at], FreshFile(Resets[cli.at]))
     ELSE UNCHANGED <<disk, process>>
  /\ cli' = [cli EXCEPT !.at = @ + 1]
  /\ UNCHANGED locked
\* installKanaConfig: a support file that is missing is written empty; whether
\* it is missing was looked up a moment before.
Installs == <<"enabled", "trust">>
installKanaFile ==
  /\ cli.does = "install" /\ cli.at \in DOMAIN Installs /\ Installs[cli.at] \in Files
  /\ LET f == Installs[cli.at]
     IN IF cli.missing THEN /\ Overwrite(f, FreshFile(f))
                            /\ cli' = [cli EXCEPT !.at = @ + 1, !.missing = FALSE]
        ELSE /\ cli' = IF disk[f].there THEN [cli EXCEPT !.at = @ + 1] ELSE [cli EXCEPT !.missing = TRUE]
             /\ UNCHANGED <<disk, process>>
  /\ UNCHANGED locked
\* The user edits a file: a value, or how the table is laid out.
EditsByHand ==
  /\ cli.does = "edit" /\ cli.at = 1
  /\ \E f \in Files : \E k \in KeysOf[f], v \in ValuesOf[f] \union {Unset}, layout \in {"table", "inline"} :
       /\ f # "config" => layout = "table"
       /\ Overwrite(f, [there |-> TRUE, layout |-> layout, says |-> [Says(f) EXCEPT ![k] = v]])
  /\ cli' = [cli EXCEPT !.at = 2]
  /\ UNCHANGED locked

ConfigInit ==
  /\ \E there \in BOOLEAN, layout \in {"table", "inline"}, k \in KeysOf["config"], v \in ValuesOf["config"] :
       disk = [f \in Files |->
         IF f = "config" THEN [there |-> there, layout |-> IF there THEN layout ELSE "table",
                               says |-> [Empty(f) EXCEPT ![k] = IF there THEN v ELSE Unset]]
         ELSE [there |-> there, layout |-> "table", says |-> Empty(f)]]
  /\ locked = [f \in Files |-> NoOne]
  /\ process = [p \in ConfigProcs |-> Idle(Loaded(p), 0)]
  /\ cli \in [does : {"reset", "install", "edit"}, at : {1}, missing : {FALSE}]
ConfigNext ==
  \/ \E p \in ConfigProcs :
       \/ \E f \in Files : Update(p, f)
       \/ Lock(p) \/ LockTimesOut(p) \/ ReadAndMerge(p) \/ Rename(p) \/ ReleaseConfig(p)
       \/ Dies(p) \/ Starts(p)
  \/ resetKanaConfig \/ installKanaFile \/ EditsByHand
ConfigSpec == ConfigInit /\ [][ConfigNext]_configVars

(* What is required. *)
\* What an update is about to write differs from the file as it stands only in
\* what its user changed: what others wrote meanwhile is kept, and an override
\* of the command line stays out.  Only a writer that takes no lock can make it
\* stale.
OnlyChangesAreWritten ==
  \A p \in ConfigProcs :
    process[p].phase = "writing" /\ ~process[p].disturbed =>
      LET f == process[p].file
      IN \A k \in KeysOf[f] :
           process[p].merged.says[k] = IF k \in Changed(p) THEN process[p].next[k] ELSE Says(f)[k]
\* An update leaves a config.toml that the next start can read.
ConfigParses == "config" \in Files => disk["config"].layout # "broken"
\* What a process believes to be enabled, trusted or configured, and did not
\* read when it started, it has saved: an update that failed is not believed.
SnapshotsAreSaved ==
  \A p \in ConfigProcs : \A f \in Files : \A k \in KeysOf[f] :
    process[p].snapshot[f][k] # process[p].start[f][k] => <<f, k>> \in process[p].saved
\* The shared configuration files, as a whole: no process undoes the update of
\* another, none leaves a file that cannot be read, none believes what it could
\* not save.
SharedConfigIsSafe == OnlyChangesAreWritten /\ ConfigParses /\ SnapshotsAreSaved
=============================================================================
