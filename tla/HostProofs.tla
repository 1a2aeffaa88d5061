----------------------------- MODULE HostProofs -----------------------------
(***************************************************************************)
(* Proofs about the process that hosts conversations and what it shares    *)
(* with other processes: the executable that any number of updates replace *)
(* (SelfUpdate), the configuration files that any number of processes      *)
(* share (SharedConfig), the sessions of a host (HostedSessions) and a run *)
(* without a user (HeadlessRun).                                           *)
(***************************************************************************)
EXTENDS SelfUpdate, SharedConfig, HostedSessions, HeadlessRun, SequenceTheorems,
        FiniteSetTheorems, TLAPS

-----------------------------------------------------------------------------
(* kana update. *)
UpdateFiles == [id : Nat, version : Nat, whole : BOOLEAN, runnable : BOOLEAN]
Fetching == {"identifying", "downloading"}
Trying == {"trying", "initializing", "replacing", "renaming"}
Tried == {"initializing", "replacing", "renaming"}
UpdateSteps ==
  {"idle", "checking", "verifying", "ended", "killed"} \cup Fetching \cup Trying
UpdateResults == {"none", "failed", "up-to-date", "ahead", "update-available", "updated"}
UpdateStates ==
  [step : UpdateSteps, checkOnly : BOOLEAN, current : Nat, release : Nat, identity : Nat,
   temporary : UpdateFiles, seen : UpdateFiles, result : UpdateResults]

UpdateTypeOK ==
  /\ executable \in UpdateFiles
  /\ update \in [Updates -> UpdateStates]
  /\ latest \in Versions
  /\ fileCount \in Nat

\* What one run of kana update has made sure of, step by step.
RunKnows(u) ==
  /\ update[u].step \in {"verifying"} \cup Fetching \cup Trying =>
       update[u].release > update[u].current
  /\ update[u].step \in {"verifying"} \cup Trying =>
       update[u].temporary.version = update[u].release
  /\ update[u].step \in Trying => update[u].temporary.whole /\ update[u].temporary.runnable
  /\ update[u].step \in Tried => update[u].temporary.version \notin BadVersions
  /\ update[u].step = "renaming" => update[u].seen.id = update[u].identity
  /\ update[u].step = "ended" => update[u].temporary = NoUpdateFile

UpdateInv == UpdateTypeOK /\ ExecutableRuns /\ \A u \in Updates : RunKnows(u)

LEMMA NoFileType == NoUpdateFile \in UpdateFiles
BY DEF NoUpdateFile, UpdateFiles

LEMMA UpdateInitially == UpdateInit => UpdateInv
<1> SUFFICES ASSUME UpdateInit PROVE UpdateInv
  OBVIOUS
<1>1. PICK checkOnly \in BOOLEAN :
        update = [u \in Updates |->
          [step |-> "idle", checkOnly |-> checkOnly, current |-> 0, release |-> 0, identity |-> 0,
           temporary |-> NoUpdateFile, seen |-> NoUpdateFile, result |-> "none"]]
  BY DEF UpdateInit
<1>2. update \in [Updates -> UpdateStates] /\ \A u \in Updates : update[u].step = "idle"
  BY <1>1, NoFileType DEF UpdateStates, UpdateSteps, UpdateResults
<1>3. executable \in UpdateFiles /\ ExecutableRuns
  BY UpdateAssumption DEF UpdateInit, UpdateFiles, ExecutableRuns
<1> QED
  BY <1>2, <1>3 DEF UpdateInit, UpdateInv, UpdateTypeOK, RunKnows, Fetching, Trying, Tried

\* A run that ends, with whatever result, has nothing left to make sure of.
LEMMA EndKnows ==
  ASSUME UpdateInv, NEW u \in Updates, NEW result \in UpdateResults, Go(u, End(u, result)),
         UNCHANGED <<executable, latest, fileCount>>
  PROVE  UpdateInv'
<1>1. End(u, result) \in UpdateStates
  BY NoFileType DEF UpdateInv, UpdateTypeOK, End, UpdateStates, UpdateSteps, UpdateResults
<1>2. End(u, result).step = "ended" /\ End(u, result).temporary = NoUpdateFile
  BY DEF UpdateInv, UpdateTypeOK, End, UpdateStates
<1>3. UpdateTypeOK' /\ ExecutableRuns'
  BY <1>1 DEF UpdateInv, UpdateTypeOK, ExecutableRuns, Go
<1>4. ASSUME NEW v \in Updates PROVE RunKnows(v)'
  BY <1>2 DEF UpdateInv, UpdateTypeOK, RunKnows, Go, Fetching, Trying, Tried
<1> QED BY <1>3, <1>4 DEF UpdateInv

\* A run that goes on: it suffices that what it knows then is so.
LEMMA GoKnows ==
  ASSUME UpdateInv, NEW u \in Updates, NEW fields \in UpdateStates, Go(u, fields),
         UNCHANGED <<executable, latest>>, fileCount' \in Nat,
         RunKnows(u)'
  PROVE  UpdateInv'
<1>1. UpdateTypeOK' /\ ExecutableRuns'
  BY DEF UpdateInv, UpdateTypeOK, ExecutableRuns, Go
<1>2. ASSUME NEW v \in Updates PROVE RunKnows(v)'
  BY DEF UpdateInv, UpdateTypeOK, RunKnows, Go
<1> QED BY <1>1, <1>2 DEF UpdateInv

LEMMA UpdateStepKnows ==
  ASSUME UpdateInv, [UpdateNext]_updateVars
  PROVE  UpdateInv'
<1> USE DEF UpdateInv, UpdateTypeOK, UpdateStates, UpdateSteps, Fetching, Trying, Tried, UpdateResults
<1>1. CASE UNCHANGED updateVars
  BY <1>1 DEF updateVars, ExecutableRuns, RunKnows
<1>2. ASSUME NEW u \in Updates, UpdateBegins(u) PROVE UpdateInv'
  <2> DEFINE fields == [update[u] EXCEPT !.step = "checking", !.current = executable.version]
  <2>1. fields \in UpdateStates /\ Go(u, fields)
    BY <1>2 DEF UpdateBegins, UpdateFiles
  <2>2. RunKnows(u)'
    BY <1>2, <2>1 DEF RunKnows, Go
  <2> QED BY <1>2, <2>1, <2>2, GoKnows DEF UpdateBegins
<1>3. ASSUME NEW u \in Updates, loadLatestRelease(u) PROVE UpdateInv'
  <2> DEFINE comparison == compareVersions(update[u].current, latest)
  <2> DEFINE fields == [update[u] EXCEPT !.step = "identifying", !.release = latest]
  <2>1. CASE \E result \in UpdateResults : Go(u, End(u, result))
    BY <1>3, <2>1, EndKnows DEF loadLatestRelease
  <2>2. CASE comparison = "update-available" /\ Go(u, fields)
    <3>0. latest \in Nat /\ update[u].current \in Nat
      BY UpdateAssumption
    <3>1. fields \in UpdateStates /\ latest > update[u].current
      <4>1. latest > update[u].current
        BY <2>2, <3>0 DEF compareVersions
      <4>2. fields \in UpdateStates
        BY <3>0
      <4> QED BY <4>1, <4>2
    <3>2. RunKnows(u)'
      BY <2>2, <3>1 DEF RunKnows, Go
    <3> QED BY <1>3, <2>2, <3>1, <3>2, GoKnows DEF loadLatestRelease
  <2>3. comparison \in UpdateResults
    BY DEF compareVersions
  <2> QED BY <1>3, <2>1, <2>2, <2>3 DEF loadLatestRelease
<1>4. ASSUME NEW u \in Updates, Identifies(u) PROVE UpdateInv'
  <2> DEFINE fields == [update[u] EXCEPT !.step = "downloading", !.identity = readIdentity]
  <2>1. CASE Go(u, End(u, "failed"))
    BY <1>4, <2>1, EndKnows DEF Identifies
  <2>2. CASE Go(u, fields)
    <3>1. fields \in UpdateStates
      BY DEF readIdentity, UpdateFiles
    <3>2. RunKnows(u)'
      BY <1>4, <2>2, <3>1 DEF RunKnows, Go, Identifies, At
    <3> QED BY <1>4, <2>2, <3>1, <3>2, GoKnows DEF Identifies
  <2> QED BY <1>4, <2>1, <2>2 DEF Identifies
<1>5. ASSUME NEW u \in Updates, downloadBinary(u) PROVE UpdateInv'
  <2>1. CASE UNCHANGED executable /\ Go(u, End(u, "failed"))
    <3>1. End(u, "failed") \in UpdateStates /\ fileCount' \in Nat
      <4>1. End(u, "failed") \in UpdateStates
        BY NoFileType DEF End
      <4> QED BY <1>5, <4>1 DEF downloadBinary
    <3>2. RunKnows(u)'
      BY <2>1, <3>1 DEF RunKnows, Go, End
    <3> QED BY <1>5, <2>1, <3>1, <3>2, GoKnows DEF downloadBinary
  <2>2. ASSUME NEW whole \in BOOLEAN,
               Go(u, [update[u] EXCEPT !.step = "verifying",
                        !.temporary = [id |-> fileCount + 1, version |-> update[u].release,
                                       whole |-> whole, runnable |-> FALSE]])
        PROVE  UpdateInv'
    <3> DEFINE file == [id |-> fileCount + 1, version |-> update[u].release,
                        whole |-> whole, runnable |-> FALSE]
    <3> DEFINE fields == [update[u] EXCEPT !.step = "verifying", !.temporary = file]
    <3>1. file \in UpdateFiles /\ file.version = update[u].release /\ fileCount' \in Nat
      BY <1>5 DEF UpdateFiles, downloadBinary
    <3>2. fields \in UpdateStates
      BY <3>1
    <3>3. RunKnows(u)'
      BY <1>5, <2>2, <3>1, <3>2 DEF RunKnows, Go, downloadBinary, At
    <3> QED BY <1>5, <2>2, <3>1, <3>2, <3>3, GoKnows DEF downloadBinary
  <2> QED BY <1>5, <2>1, <2>2 DEF downloadBinary
<1>6. ASSUME NEW u \in Updates, Verifies(u) PROVE UpdateInv'
  <2> DEFINE fields == [update[u] EXCEPT !.step = "trying", !.temporary.runnable = TRUE]
  <2>1. CASE Go(u, End(u, "failed"))
    BY <1>6, <2>1, EndKnows DEF Verifies
  <2>2. CASE update[u].temporary.whole /\ Go(u, fields)
    <3>1. fields \in UpdateStates
      BY DEF UpdateFiles
    <3>2. RunKnows(u)'
      BY <1>6, <2>2, <3>1 DEF RunKnows, Go, Verifies, At, UpdateFiles
    <3> QED BY <1>6, <2>2, <3>1, <3>2, GoKnows DEF Verifies
  <2> QED BY <1>6, <2>1, <2>2 DEF Verifies, verify
<1>7. ASSUME NEW u \in Updates, runCandidate(u) \/ initializes(u) PROVE UpdateInv'
  <2>1. CASE Go(u, End(u, "failed"))
    BY <1>7, <2>1, EndKnows DEF runCandidate, initializes
  <2>2. CASE /\ At(u, "trying") /\ update[u].temporary.version \notin BadVersions
             /\ Go(u, [update[u] EXCEPT !.step = "initializing"])
    <3>1. RunKnows(u)' /\ [update[u] EXCEPT !.step = "initializing"] \in UpdateStates
      BY <2>2 DEF RunKnows, Go, At
    <3> QED BY <1>7, <2>2, <3>1, GoKnows DEF runCandidate, initializes
  <2>3. CASE At(u, "initializing") /\ Go(u, [update[u] EXCEPT !.step = "replacing"])
    <3>1. RunKnows(u)' /\ [update[u] EXCEPT !.step = "replacing"] \in UpdateStates
      BY <2>3 DEF RunKnows, Go, At
    <3> QED BY <1>7, <2>3, <3>1, GoKnows DEF runCandidate, initializes
  <2> QED BY <1>7, <2>1, <2>2, <2>3 DEF runCandidate, initializes, reportsItsVersion
<1>8. ASSUME NEW u \in Updates, LooksAgain(u) PROVE UpdateInv'
  <2> DEFINE fields == [update[u] EXCEPT !.step = "renaming", !.seen = executable]
  <2>1. CASE Go(u, End(u, "failed"))
    BY <1>8, <2>1, EndKnows DEF LooksAgain
  <2>2. CASE executable.id = update[u].identity /\ Go(u, fields)
    <3>1. fields \in UpdateStates
      OBVIOUS
    <3>2. RunKnows(u)'
      BY <1>8, <2>2, <3>1 DEF RunKnows, Go, LooksAgain, At
    <3> QED BY <1>8, <2>2, <3>1, <3>2, GoKnows DEF LooksAgain
  <2> QED BY <1>8, <2>1, <2>2 DEF LooksAgain, assertIdentityUnchanged, readIdentity
<1>9. ASSUME NEW u \in Updates, Renames(u) PROVE UpdateInv'
  <2>1. CASE UNCHANGED executable /\ Go(u, End(u, "failed"))
    BY <1>9, <2>1, EndKnows DEF Renames
  <2>2. CASE executable' = update[u].temporary /\ Go(u, End(u, "updated"))
    <3>1. End(u, "updated") \in UpdateStates /\ End(u, "updated").step = "ended"
          /\ End(u, "updated").temporary = NoUpdateFile
      BY NoFileType DEF End
    <3>2. ExecutableRuns' /\ UpdateTypeOK'
      BY <1>9, <2>2, <3>1 DEF RunKnows, Go, Renames, At, ExecutableRuns
    <3>3. ASSUME NEW v \in Updates PROVE RunKnows(v)'
      BY <2>2, <3>1 DEF RunKnows, Go
    <3> QED BY <3>2, <3>3
  <2> QED BY <1>9, <2>1, <2>2 DEF Renames
<1>10. ASSUME NEW u \in Updates, Killed(u) PROVE UpdateInv'
  <2>1. RunKnows(u)' /\ [update[u] EXCEPT !.step = "killed"] \in UpdateStates
    BY <1>10 DEF RunKnows, Go, Killed
  <2> QED BY <1>10, <2>1, GoKnows DEF Killed
<1>11. CASE Publishes
  BY <1>11 DEF Publishes, ExecutableRuns, RunKnows
<1>12. CASE InstallsAnother
  <2>1. executable' \in UpdateFiles /\ ExecutableRuns' /\ fileCount' \in Nat
    <3>1. CASE executable' = NoUpdateFile /\ UNCHANGED fileCount
      BY <3>1, NoFileType DEF ExecutableRuns, NoUpdateFile
    <3>2. ASSUME NEW version \in Versions \ BadVersions,
                 executable' = [id |-> fileCount + 1, version |-> version,
                                whole |-> TRUE, runnable |-> TRUE],
                 fileCount' = fileCount + 1
          PROVE  executable' \in UpdateFiles /\ ExecutableRuns' /\ fileCount' \in Nat
      BY <3>2, UpdateAssumption DEF ExecutableRuns, UpdateFiles
    <3> QED BY <1>12, <3>1, <3>2 DEF InstallsAnother
  <2> QED BY <1>12, <2>1 DEF InstallsAnother, RunKnows
<1> QED BY <1>1, <1>2, <1>3, <1>4, <1>5, <1>6, <1>7, <1>8, <1>9, <1>10, <1>11, <1>12
  DEF UpdateNext

THEOREM UpdateInvariance == UpdateSpec => []UpdateInv
BY UpdateInitially, UpdateStepKnows, PTL DEF UpdateSpec

\* However many updates run, are killed or meet another installer: the
\* executable is whole and runs, no update goes back or replaces what it did not
\* know when it last looked, and none that ended leaves a file behind
\* (self-update.ts:115-194).
THEOREM UpdateSafe == UpdateSpec => []UpdateIsSafe
<1>1. UpdateInv => UpdateIsSafe
  BY DEF UpdateInv, UpdateTypeOK, UpdateStates, UpdateSteps, Fetching, Trying, RunKnows,
         UpdateIsSafe, NeverGoesBack, ReplacesWhatItKnew, LeavesNothingBehind, At
<1> QED BY <1>1, UpdateInvariance, PTL

-----------------------------------------------------------------------------
(* The configuration files. *)
Layouts == {"table", "inline", "broken"}
ConfigMaps == Maps("config") \cup UNION {Maps(f) : f \in Files}
ConfigKeys == UNION {KeysOf[f] : f \in Files}
Documents == [there : BOOLEAN, layout : Layouts, says : ConfigMaps]
Snapshots == {s \in [Files -> ConfigMaps] : \A f \in Files : s[f] \in Maps(f)}
Holding == {"reading", "writing", "written"}
ConfigPhases == {"idle", "waiting", "dead"} \cup Holding
ConfigStates ==
  [phase : ConfigPhases, file : Files \cup {"none"}, snapshot : Snapshots,
   next : ConfigMaps, merged : Documents, disturbed : BOOLEAN, updates : Nat,
   start : Snapshots, saved : SUBSET (Files \X ConfigKeys)]

\* What a file may be: only config.toml is laid out in other ways.
FileOK(f, document) ==
  /\ document \in Documents /\ document.says \in Maps(f)
  /\ document.layout # "broken" /\ (f # "config" => document.layout = "table")

ConfigTypeOK ==
  /\ disk \in [Files -> Documents] /\ \A f \in Files : FileOK(f, disk[f])
  /\ locked \in [Files -> ConfigProcs \cup {NoOne}]
  /\ process \in [ConfigProcs -> ConfigStates]

\* A process that updates a file holds its lock from the read to the rename.
HoldsItsLock(p) ==
  process[p].phase \in Holding => locked[process[p].file] = p
KnowsItsFile(p) ==
  process[p].phase \in {"waiting"} \cup Holding =>
    process[p].file \in Files /\ process[p].next \in Maps(process[p].file)
MergedIsSound(p) ==
  process[p].phase = "writing" => FileOK(process[p].file, process[p].merged)
WritesItsChanges(p) ==
  process[p].phase = "writing" /\ ~process[p].disturbed =>
    LET f == process[p].file
    IN \A k \in KeysOf[f] :
         process[p].merged.says[k] = IF k \in Changed(p) THEN process[p].next[k] ELSE Says(f)[k]
HasSaved(p) ==
  \A f \in Files : \A k \in KeysOf[f] :
    process[p].snapshot[f][k] # process[p].start[f][k] => <<f, k>> \in process[p].saved

ProcessInv(p) ==
  HoldsItsLock(p) /\ KnowsItsFile(p) /\ MergedIsSound(p) /\ WritesItsChanges(p) /\ HasSaved(p)

ConfigInv == ConfigTypeOK /\ \A p \in ConfigProcs : ProcessInv(p)

LEMMA MapsAreMaps ==
  /\ \A f \in Files : Maps(f) \subseteq ConfigMaps /\ KeysOf[f] \subseteq ConfigKeys
  /\ Maps("config") \subseteq ConfigMaps
  /\ \A f \in Files : Empty(f) \in Maps(f)
  /\ Empty("config") \in Maps("config")
BY DEF ConfigMaps, ConfigKeys, Maps, Empty

LEMMA SaysMaps ==
  ASSUME \A f \in Files : FileOK(f, disk[f]), NEW f \in Files
  PROVE  Says(f) \in Maps(f)
BY MapsAreMaps DEF FileOK, Says

LEMMA LoadedIsASnapshot ==
  ASSUME \A f \in Files : FileOK(f, disk[f]), NEW p \in ConfigProcs
  PROVE  Loaded(p) \in Snapshots
<1>1. ASSUME NEW f \in Files PROVE Overridden(p, f, Says(f)) \in Maps(f)
  <2>1. Says(f) \in Maps(f)
    BY SaysMaps
  <2>2. ASSUME NEW k \in KeysOf[f]
        PROVE  (IF f = "config" /\ Overrides[p][k] # Unset THEN Overrides[p][k] ELSE Says(f)[k])
                 \in ValuesOf[f] \cup {Unset}
    BY <2>1, SharedConfigAssumption DEF Maps
  <2> QED BY <2>2 DEF Overridden, Maps
<1> QED BY <1>1, MapsAreMaps DEF Loaded, Snapshots

LEMMA IdleIsIdle ==
  ASSUME NEW snapshots \in Snapshots, NEW n \in Nat
  PROVE  /\ Idle(snapshots, n) \in ConfigStates
         /\ Idle(snapshots, n).phase = "idle"
         /\ Idle(snapshots, n).snapshot = Idle(snapshots, n).start
BY MapsAreMaps DEF Idle, ConfigStates, ConfigPhases, Holding, Documents, Layouts

LEMMA ConfigInitially == ConfigInit => ConfigInv
<1> SUFFICES ASSUME ConfigInit PROVE ConfigInv
  OBVIOUS
<1>1. PICK there \in BOOLEAN, layout \in {"table", "inline"}, k \in KeysOf["config"],
           v \in ValuesOf["config"] :
        disk = [f \in Files |->
          IF f = "config" THEN [there |-> there, layout |-> IF there THEN layout ELSE "table",
                                says |-> [Empty(f) EXCEPT ![k] = IF there THEN v ELSE Unset]]
          ELSE [there |-> there, layout |-> "table", says |-> Empty(f)]]
  BY DEF ConfigInit
<1>2. \A f \in Files : FileOK(f, disk[f])
  <2>1. [Empty("config") EXCEPT ![k] = IF there THEN v ELSE Unset] \in Maps("config")
    BY DEF Maps, Empty
  <2>2. \A f \in Files : Empty(f) \in Maps(f)
    BY MapsAreMaps
  <2>3. ASSUME NEW f \in Files PROVE FileOK(f, disk[f])
    BY <1>1, <2>1, <2>2, MapsAreMaps DEF FileOK, Documents, Layouts
  <2> QED BY <2>3
<1>3. disk \in [Files -> Documents]
  BY <1>1, <1>2 DEF FileOK
<1>4. \A p \in ConfigProcs : Loaded(p) \in Snapshots
  BY <1>2, LoadedIsASnapshot
<1>5. /\ process \in [ConfigProcs -> ConfigStates]
      /\ \A p \in ConfigProcs : /\ process[p].phase = "idle"
                                /\ process[p].snapshot = process[p].start
  BY <1>4, IdleIsIdle DEF ConfigInit
<1>6. \A p \in ConfigProcs : ProcessInv(p)
  BY <1>5 DEF ProcessInv, HoldsItsLock, KnowsItsFile, MergedIsSound, WritesItsChanges,
              HasSaved, Holding
<1> QED BY <1>2, <1>3, <1>5, <1>6 DEF ConfigInv, ConfigTypeOK, ConfigInit

\* What one process does of itself: the files stay, and so do the locks that
\* others hold.
LEMMA PutKeeps ==
  ASSUME ConfigInv, NEW p \in ConfigProcs, NEW fields \in ConfigStates, Put(p, fields),
         UNCHANGED disk, locked' \in [Files -> ConfigProcs \cup {NoOne}],
         \A q \in ConfigProcs \ {p} :
           process[q].phase \in Holding => locked'[process[q].file] = q,
         ProcessInv(p)'
  PROVE  ConfigInv'
<1>1. process' \in [ConfigProcs -> ConfigStates] /\ \A q \in ConfigProcs \ {p} : process'[q] = process[q]
  BY DEF Put, ConfigInv, ConfigTypeOK
<1>2. ConfigTypeOK'
  BY <1>1 DEF ConfigInv, ConfigTypeOK
<1>3. ASSUME NEW q \in ConfigProcs, q # p PROVE ProcessInv(q)'
  <2>1. process'[q] = process[q] /\ ProcessInv(q)
    BY <1>1, <1>3 DEF ConfigInv
  <2> QED
    BY <1>3, <2>1 DEF ProcessInv, HoldsItsLock, KnowsItsFile, MergedIsSound, WritesItsChanges,
                      HasSaved, Changed, Says
<1> QED BY <1>2, <1>3 DEF ConfigInv

\* The document that an update makes of the file: where it does not refuse it,
\* the file with what the user changed.
LEMMA PatchedIsMerged ==
  ASSUME ConfigInv, NEW p \in ConfigProcs, process[p].phase \in Holding,
         process[p].file = "config" => ParsesBack(p, Patched(p))
  PROVE  LET f == process[p].file
             document == Patched(p)
         IN /\ FileOK(f, document)
            /\ \A k \in KeysOf[f] :
                 document.says[k] = IF k \in Changed(p) THEN process[p].next[k] ELSE Says(f)[k]
<1> DEFINE f == process[p].file
           next == process[p].next
           document == Patched(p)
<1>1. /\ f \in Files /\ next \in Maps(f) /\ Says(f) \in Maps(f) /\ FileOK(f, disk[f])
      /\ process[p].snapshot[f] \in Maps(f)
  BY SaysMaps DEF ConfigInv, ConfigTypeOK, ProcessInv, KnowsItsFile, ConfigStates, Snapshots
<1>2. document = [there |-> TRUE,
                  layout |-> IF Blocked(p) # {} THEN "broken" ELSE disk[f].layout,
                  says |-> [k \in KeysOf[f] |->
                    IF k \in Blocked(p) \union Unseen(p) THEN Says(f)[k] ELSE Merged(p)[k]]]
  BY DEF Patched
<1>3. \A k \in KeysOf[f] :
        Merged(p)[k] = IF process[p].snapshot[f][k] = next[k] THEN Says(f)[k] ELSE next[k]
  BY <1>1 DEF Merged, merge, Maps
<1>4. \A k \in KeysOf[f] : k \in Changed(p) <=> process[p].snapshot[f][k] # next[k]
  BY DEF Changed
<1>a. Blocked(p) \subseteq Changed(p) /\ Unseen(p) \subseteq Changed(p)
  BY DEF Blocked, Unseen
<1> HIDE DEF document
<1>5. document.says \in Maps(f)
  BY <1>1, <1>2, <1>3 DEF Maps
<1>6. CASE f = "config"
  <2>1. document.layout # "broken" /\ \A k \in Changed(p) : document.says[k] = next[k]
    BY <1>6 DEF ParsesBack, document
  <2>2. ASSUME NEW k \in KeysOf[f]
        PROVE  document.says[k] = IF k \in Changed(p) THEN next[k] ELSE Says(f)[k]
    BY <1>2, <1>3, <1>4, <1>a, <2>1
  <2>3. FileOK(f, document)
    BY <1>1, <1>2, <1>5, <1>6, <2>1, MapsAreMaps DEF FileOK, Documents
  <2> QED BY <2>2, <2>3 DEF document
<1>7. CASE f # "config"
  <2>1. disk[f].layout = "table"
    BY <1>1, <1>7 DEF FileOK
  <2>2. ASSUME NEW k \in Changed(p)
        PROVE  PatchedField(p, k).layout = "table" /\ PatchedField(p, k).says[k] = Merged(p)[k]
    <3>1. k \in KeysOf[f]
      BY DEF Changed
    <3> QED BY <1>1, <2>1, <3>1 DEF PatchedField, updateTomlField, Maps
  <2>3. Blocked(p) = {} /\ Unseen(p) = {}
    BY <2>2 DEF Blocked, Unseen
  <2>4. ASSUME NEW k \in KeysOf[f]
        PROVE  document.says[k] = IF k \in Changed(p) THEN next[k] ELSE Says(f)[k]
    BY <1>2, <1>3, <1>4, <2>3
  <2>5. FileOK(f, document)
    BY <1>1, <1>2, <1>5, <2>1, <2>3, MapsAreMaps DEF FileOK, Documents
  <2> QED BY <2>4, <2>5 DEF document
<1> QED BY <1>6, <1>7

\* A process that gives up or returns its lock: it is idle again.
LEMMA LeavesKeeps ==
  ASSUME ConfigInv, NEW p \in ConfigProcs, NEW fields \in ConfigStates,
         process[p].phase \in Holding, Leaves(p, fields), UNCHANGED disk,
         \A f \in Files : \A k \in KeysOf[f] :
           fields.snapshot[f][k] # fields.start[f][k] => <<f, k>> \in fields.saved
  PROVE  ConfigInv'
<1> DEFINE left == [fields EXCEPT !.phase = "idle"]
<1>1. left \in ConfigStates /\ left.phase = "idle"
      /\ left.snapshot = fields.snapshot /\ left.start = fields.start /\ left.saved = fields.saved
  BY DEF ConfigStates, ConfigPhases
<1>2. Put(p, left) /\ locked' = [locked EXCEPT ![process[p].file] = NoOne]
  BY DEF Leaves
<1>3. \A q \in ConfigProcs : process[q].phase \in Holding => process[q].file \in Files /\ locked[process[q].file] = q
  BY DEF ConfigInv, ProcessInv, HoldsItsLock, KnowsItsFile
<1>4. /\ locked' \in [Files -> ConfigProcs \cup {NoOne}]
      /\ \A q \in ConfigProcs \ {p} : process[q].phase \in Holding => locked'[process[q].file] = q
  BY <1>2, <1>3 DEF ConfigInv, ConfigTypeOK
<1>5. process'[p] = left
  BY <1>2 DEF Put, ConfigInv, ConfigTypeOK
<1>6. ProcessInv(p)'
  BY <1>1, <1>5 DEF ProcessInv, HoldsItsLock, KnowsItsFile, MergedIsSound, WritesItsChanges,
                    HasSaved, Holding
<1> QED BY <1>1, <1>2, <1>4, <1>6, PutKeeps

\* What it wanted is its snapshot once it is saved.
LEMMA SavedIsSaved ==
  ASSUME ConfigInv, NEW p \in ConfigProcs, process[p].phase \in Holding
  PROVE  LET fields == [process[p] EXCEPT !.snapshot[process[p].file] = process[p].next,
                          !.saved = @ \union {<<process[p].file, k>> : k \in Changed(p)}]
         IN /\ fields \in ConfigStates
            /\ \A f \in Files : \A k \in KeysOf[f] :
                 fields.snapshot[f][k] # fields.start[f][k] => <<f, k>> \in fields.saved
<1> DEFINE file == process[p].file
           fields == [process[p] EXCEPT !.snapshot[file] = process[p].next,
                        !.saved = @ \union {<<file, k>> : k \in Changed(p)}]
<1>1. /\ process[p] \in ConfigStates /\ file \in Files /\ process[p].next \in Maps(file)
      /\ process[p].snapshot \in Snapshots /\ HasSaved(p)
  BY DEF ConfigInv, ConfigTypeOK, ProcessInv, KnowsItsFile, ConfigStates
<1>2. /\ fields.snapshot = [process[p].snapshot EXCEPT ![file] = process[p].next]
      /\ fields.saved = process[p].saved \union {<<file, k>> : k \in Changed(p)}
      /\ fields.start = process[p].start
  BY <1>1 DEF ConfigStates
<1>3. fields.snapshot \in Snapshots
  BY <1>1, <1>2, MapsAreMaps DEF Snapshots
<1>4. {<<file, k>> : k \in Changed(p)} \subseteq Files \X ConfigKeys
  BY <1>1, MapsAreMaps DEF Changed
<1>5. fields \in ConfigStates
  BY <1>1, <1>2, <1>3, <1>4 DEF ConfigStates
<1>6. ASSUME NEW f \in Files, NEW k \in KeysOf[f], fields.snapshot[f][k] # fields.start[f][k]
      PROVE  <<f, k>> \in fields.saved
  <2>1. CASE f = file /\ k \in Changed(p)
    BY <1>2, <2>1
  <2>2. CASE f = file /\ k \notin Changed(p)
    <3>1. process[p].snapshot[f][k] = process[p].next[k]
      BY <2>2 DEF Changed
    <3>2. fields.snapshot[f] = process[p].next
      BY <1>1, <1>2, <2>2 DEF Snapshots
    <3> QED BY <1>1, <1>2, <1>6, <3>1, <3>2 DEF HasSaved
  <2>3. CASE f # file
    <3>1. fields.snapshot[f] = process[p].snapshot[f]
      BY <1>1, <1>2, <2>3 DEF Snapshots
    <3> QED BY <1>1, <1>2, <1>6, <3>1 DEF HasSaved
  <2> QED BY <2>1, <2>2, <2>3
<1> QED BY <1>5, <1>6

\* A writer without the lock: whoever is about to write that file knows that it
\* may be stale.
LEMMA OverwriteKeeps ==
  ASSUME ConfigInv, NEW f \in Files, NEW document, FileOK(f, document),
         Overwrite(f, document), UNCHANGED locked
  PROVE  ConfigInv'
<1>1. /\ disk' = [disk EXCEPT ![f] = document]
      /\ process' = [q \in ConfigProcs |->
           IF process[q].phase = "writing" /\ process[q].file = f
           THEN [process[q] EXCEPT !.disturbed = TRUE] ELSE process[q]]
  BY DEF Overwrite, Disturb
<1>2. ASSUME NEW q \in ConfigProcs
      PROVE  /\ process'[q] \in ConfigStates /\ process'[q].phase = process[q].phase
             /\ process'[q].file = process[q].file /\ process'[q].next = process[q].next
             /\ process'[q].snapshot = process[q].snapshot /\ process'[q].start = process[q].start
             /\ process'[q].saved = process[q].saved /\ process'[q].merged = process[q].merged
             /\ process[q].phase = "writing" /\ ~process'[q].disturbed =>
                  process[q].file # f /\ ~process[q].disturbed
  BY <1>1 DEF ConfigInv, ConfigTypeOK, ConfigStates
<1>3. ConfigTypeOK'
  BY <1>1, <1>2 DEF ConfigInv, ConfigTypeOK, FileOK
<1>4. ASSUME NEW q \in ConfigProcs PROVE ProcessInv(q)'
  <2>1. ProcessInv(q)
    BY DEF ConfigInv
  <2>2. WritesItsChanges(q)'
    <3>1. ASSUME process[q].phase = "writing", ~process'[q].disturbed
          PROVE  UNCHANGED Says(process[q].file)
      <4>1. process[q].file \in Files /\ process[q].file # f
        BY <1>2, <2>1, <3>1 DEF ProcessInv, KnowsItsFile, Holding
      <4> QED BY <1>1, <4>1 DEF Says, ConfigInv, ConfigTypeOK
    <3> QED BY <1>2, <2>1, <3>1 DEF ProcessInv, WritesItsChanges, Changed
  <2> QED
    BY <1>2, <2>1, <2>2 DEF ProcessInv, HoldsItsLock, KnowsItsFile, MergedIsSound, HasSaved
<1> QED BY <1>3, <1>4 DEF ConfigInv

LEMMA UnlockedWriters ==
  ASSUME ConfigInv, resetKanaConfig \/ installKanaFile \/ EditsByHand
  PROVE  ConfigInv'
<1>1. \A f \in Files : FileOK(f, FreshFile(f))
  BY MapsAreMaps DEF FreshFile, FileOK, Documents, Layouts
<1>2. ASSUME UNCHANGED <<disk, process, locked>> PROVE ConfigInv'
  BY <1>2 DEF ConfigInv, ConfigTypeOK, ProcessInv, HoldsItsLock, KnowsItsFile, MergedIsSound,
              WritesItsChanges, HasSaved, Changed, Says
<1>3. CASE resetKanaConfig
  BY <1>1, <1>2, <1>3, OverwriteKeeps DEF resetKanaConfig
<1>4. CASE installKanaFile
  BY <1>1, <1>2, <1>4, OverwriteKeeps DEF installKanaFile
<1>5. CASE EditsByHand
  <2>0. PICK f \in Files :
          \E k \in KeysOf[f], v \in ValuesOf[f] \union {Unset}, layout \in {"table", "inline"} :
            /\ f # "config" => layout = "table"
            /\ Overwrite(f, [there |-> TRUE, layout |-> layout, says |-> [Says(f) EXCEPT ![k] = v]])
    BY <1>5 DEF EditsByHand
  <2>1. PICK k \in KeysOf[f], v \in ValuesOf[f] \union {Unset}, layout \in {"table", "inline"} :
          /\ f # "config" => layout = "table"
          /\ Overwrite(f, [there |-> TRUE, layout |-> layout, says |-> [Says(f) EXCEPT ![k] = v]])
    BY <2>0
  <2>2. [Says(f) EXCEPT ![k] = v] \in Maps(f)
    BY SaysMaps DEF Maps, ConfigInv, ConfigTypeOK
  <2>3. FileOK(f, [there |-> TRUE, layout |-> layout, says |-> [Says(f) EXCEPT ![k] = v]])
    BY <2>1, <2>2, MapsAreMaps DEF FileOK, Documents, Layouts
  <2> QED BY <1>5, <2>1, <2>3, OverwriteKeeps DEF EditsByHand
<1> QED BY <1>3, <1>4, <1>5

\* An update from the wish to the lock.
LEMMA UpdateTakesTheLock ==
  ASSUME ConfigInv, NEW p \in ConfigProcs,
         (\E f \in Files : Update(p, f)) \/ Lock(p) \/ LockTimesOut(p)
  PROVE  ConfigInv'
<1> USE DEF ConfigInv, ConfigTypeOK
<1>0. process[p] \in ConfigStates /\ ProcessInv(p)
  OBVIOUS
<1>1. ASSUME NEW f \in Files, Update(p, f) PROVE ConfigInv'
  <2>1. PICK next \in Wanted(f, process[p].snapshot[f]) :
          Put(p, [process[p] EXCEPT !.phase = "waiting", !.file = f, !.next = next, !.updates = @ + 1])
    BY <1>1 DEF Update
  <2> DEFINE fields == [process[p] EXCEPT !.phase = "waiting", !.file = f, !.next = next,
                                          !.updates = @ + 1]
  <2>2. next \in Maps(f)
    <3>1. process[p].snapshot[f] \in Maps(f)
      BY <1>0 DEF ConfigStates, Snapshots
    <3>2. CASE f = "trust"
      <4>1. next \in {[process[p].snapshot[f] EXCEPT ![k] = "on"] : k \in KeysOf[f]}
        BY <3>2 DEF Wanted
      <4>2. "on" \in ValuesOf[f]
        BY <3>2, SharedConfigAssumption
      <4>3. PICK k \in KeysOf[f] : next = [process[p].snapshot[f] EXCEPT ![k] = "on"]
        BY <4>1
      <4> QED BY <3>1, <4>2, <4>3 DEF Maps
    <3>3. CASE f # "trust"
      <4>1. f \in {"enabled", "config"}
        BY <3>3, SharedConfigAssumption
      <4> QED BY <4>1 DEF Wanted
    <3> QED BY <3>2, <3>3
  <2>3. fields \in ConfigStates
    <3>1. next \in ConfigMaps /\ "waiting" \in ConfigPhases /\ f \in Files \cup {"none"}
      BY <2>2, MapsAreMaps DEF ConfigPhases
    <3>2. process[p].updates + 1 \in Nat
      BY <1>0 DEF ConfigStates
    <3> QED BY <1>0, <3>1, <3>2 DEF ConfigStates
  <2>4. process'[p] = fields /\ fields.phase = "waiting" /\ fields.file = f /\ fields.next = next
        /\ fields.snapshot = process[p].snapshot /\ fields.start = process[p].start
        /\ fields.saved = process[p].saved
    BY <1>0, <2>1 DEF Put, ConfigStates
  <2>5. ProcessInv(p)'
    BY <1>0, <2>2, <2>4 DEF ProcessInv, HoldsItsLock, KnowsItsFile, MergedIsSound,
                            WritesItsChanges, HasSaved, Holding
  <2>6. \A q \in ConfigProcs \ {p} :
          process[q].phase \in Holding => locked'[process[q].file] = q
    BY <1>1 DEF Update, ProcessInv, HoldsItsLock
  <2> QED BY <1>1, <2>1, <2>3, <2>5, <2>6, PutKeeps DEF Update
<1>2. CASE Lock(p)
  <2> DEFINE fields == [process[p] EXCEPT !.phase = "reading"]
             file == process[p].file
  <2>1. Put(p, fields) /\ locked' = [locked EXCEPT ![file] = p] /\ file \in Files
    BY <1>0, <1>2 DEF Lock, ProcessInv, KnowsItsFile
  <2>2. fields \in ConfigStates /\ process'[p] = fields
    BY <1>0, <2>1 DEF ConfigStates, ConfigPhases, Holding, Put
  <2>3. \A q \in ConfigProcs \ {p} :
          process[q].phase \in Holding => locked'[process[q].file] = q
    <3>1. ASSUME NEW q \in ConfigProcs, process[q].phase \in Holding
          PROVE  process[q].file \in Files /\ locked[process[q].file] = q
      BY <3>1 DEF ProcessInv, HoldsItsLock, KnowsItsFile
    <3>2. ASSUME NEW q \in ConfigProcs, process[q].phase \in Holding PROVE locked[file] # q
      BY <1>2, <3>2, SharedConfigAssumption DEF Lock, MayLock, Holding
    <3> QED BY <2>1, <3>1, <3>2
  <2>4. ProcessInv(p)'
    BY <1>0, <1>2, <2>1, <2>2 DEF ProcessInv, HoldsItsLock, KnowsItsFile, MergedIsSound,
                            WritesItsChanges, HasSaved, Holding, ConfigStates, Lock
  <2> QED BY <1>2, <2>1, <2>2, <2>3, <2>4, PutKeeps DEF Lock
<1>3. CASE LockTimesOut(p)
  <2> DEFINE fields == [process[p] EXCEPT !.phase = "idle"]
  <2>1. Put(p, fields) /\ fields \in ConfigStates /\ process'[p] = fields
    BY <1>0, <1>3 DEF LockTimesOut, GivesUp, ConfigStates, ConfigPhases, Put
  <2>2. ProcessInv(p)'
    BY <1>0, <2>1 DEF ProcessInv, HoldsItsLock, KnowsItsFile, MergedIsSound,
                            WritesItsChanges, HasSaved, Holding, ConfigStates
  <2>3. \A q \in ConfigProcs \ {p} :
          process[q].phase \in Holding => locked'[process[q].file] = q
    BY <1>3 DEF LockTimesOut, ProcessInv, HoldsItsLock
  <2> QED BY <1>3, <2>1, <2>2, <2>3, PutKeeps DEF LockTimesOut
<1> QED BY <1>1, <1>2, <1>3

\* What it does with the lock.
LEMMA UpdateWrites ==
  ASSUME ConfigInv, NEW p \in ConfigProcs, ReadAndMerge(p) \/ Rename(p) \/ ReleaseConfig(p)
  PROVE  ConfigInv'
<1> USE DEF ConfigInv, ConfigTypeOK
<1>0. process[p] \in ConfigStates /\ ProcessInv(p)
  OBVIOUS
<1>1. CASE ReadAndMerge(p)
  <2> DEFINE f == process[p].file
             fields == [process[p] EXCEPT !.phase = "writing", !.merged = Patched(p), !.disturbed = FALSE]
  <2>0. process[p].phase = "reading" /\ process[p].phase \in Holding /\ UNCHANGED disk
    BY <1>1 DEF ReadAndMerge, Holding
  <2>1. CASE Leaves(p, process[p])
    BY <1>0, <2>0, <2>1, LeavesKeeps DEF ProcessInv, HasSaved
  <2>2. CASE Leaves(p, [process[p] EXCEPT !.snapshot[f] = process[p].next,
                                          !.saved = @ \union {<<f, k>> : k \in Changed(p)}])
    BY <2>0, <2>2, SavedIsSaved, LeavesKeeps
  <2>3. CASE /\ f = "config" => ParsesBack(p, Patched(p))
             /\ Put(p, fields) /\ UNCHANGED locked
    <3>1. /\ FileOK(f, Patched(p))
          /\ \A k \in KeysOf[f] : Patched(p).says[k] =
               IF k \in Changed(p) THEN process[p].next[k] ELSE Says(f)[k]
      BY <2>0, <2>3, PatchedIsMerged
    <3>2. fields \in ConfigStates /\ process'[p] = fields
      BY <1>0, <2>3, <3>1 DEF ConfigStates, ConfigPhases, Holding, Put, FileOK
    <3>3. /\ fields.phase = "writing" /\ fields.file = f /\ fields.next = process[p].next
          /\ fields.snapshot = process[p].snapshot /\ fields.start = process[p].start
          /\ fields.saved = process[p].saved /\ fields.merged = Patched(p)
      BY <1>0 DEF ConfigStates
    <3>4. Changed(p)' = Changed(p) /\ \A g \in Files : Says(g)' = Says(g)
      BY <2>0, <3>2, <3>3 DEF Changed, Says
    <3>5. f \in Files /\ locked[f] = p /\ process[p].next \in Maps(f)
      BY <1>0, <2>0 DEF ProcessInv, KnowsItsFile, HoldsItsLock
    <3>6. WritesItsChanges(p)'
      BY <3>1, <3>2, <3>3, <3>4, <3>5 DEF WritesItsChanges
    <3>7. ProcessInv(p)'
      BY <1>0, <2>3, <3>1, <3>2, <3>3, <3>5, <3>6
         DEF ProcessInv, HoldsItsLock, KnowsItsFile, MergedIsSound, HasSaved
    <3>8. \A q \in ConfigProcs \ {p} :
            process[q].phase \in Holding => locked'[process[q].file] = q
      BY <2>3 DEF ProcessInv, HoldsItsLock
    <3> QED BY <2>0, <2>3, <3>2, <3>7, <3>8, PutKeeps
  <2> QED BY <1>1, <2>1, <2>2, <2>3 DEF ReadAndMerge
<1>2. CASE Rename(p)
  <2> DEFINE f == process[p].file
             fields == [process[p] EXCEPT !.phase = "written"]
  <2>1. /\ process[p].phase = "writing" /\ f \in Files /\ locked[f] = p
        /\ FileOK(f, process[p].merged)
    BY <1>0, <1>2 DEF Rename, ProcessInv, KnowsItsFile, HoldsItsLock, MergedIsSound, Holding
  <2>2. disk' = [disk EXCEPT ![f] = process[p].merged] /\ process' = [process EXCEPT ![p] = fields]
        /\ locked' = locked
    BY <1>2 DEF Rename, Put
  <2>3. fields \in ConfigStates
    BY <1>0 DEF ConfigStates, ConfigPhases, Holding
  <2>4. ConfigTypeOK'
    BY <2>1, <2>2, <2>3 DEF FileOK
  <2>5. ASSUME NEW q \in ConfigProcs PROVE ProcessInv(q)'
    <3>1. CASE q = p
      <4>1. process'[q] = fields
        BY <2>2, <3>1
      <4> QED
        BY <1>0, <2>1, <2>2, <3>1, <4>1 DEF ProcessInv, HoldsItsLock, KnowsItsFile,
             MergedIsSound, WritesItsChanges, HasSaved, Holding, ConfigStates
    <3>2. CASE q # p
      <4>1. process'[q] = process[q] /\ ProcessInv(q)
        BY <2>2, <3>2
      <4>2. ASSUME process[q].phase = "writing"
            PROVE  UNCHANGED Says(process[q].file)
        <5>1. process[q].file \in Files /\ process[q].file # f
          BY <2>1, <3>2, <4>1, <4>2 DEF ProcessInv, HoldsItsLock, KnowsItsFile, Holding
        <5> QED BY <2>2, <5>1 DEF Says
      <4>3. WritesItsChanges(q)'
        BY <4>1, <4>2 DEF ProcessInv, WritesItsChanges, Changed
      <4> QED
        BY <2>2, <4>1, <4>3 DEF ProcessInv, HoldsItsLock, KnowsItsFile, MergedIsSound, HasSaved
    <3> QED BY <3>1, <3>2
  <2> QED BY <2>4, <2>5
<1>3. CASE ReleaseConfig(p)
  <2>1. process[p].phase \in Holding /\ UNCHANGED disk
    BY <1>3 DEF ReleaseConfig, Holding
  <2> QED BY <1>3, <2>1, SavedIsSaved, LeavesKeeps DEF ReleaseConfig
<1> QED BY <1>1, <1>2, <1>3

\* A process that dies with its lock, and the one that starts in its place.
LEMMA DeathKeeps ==
  ASSUME ConfigInv, NEW p \in ConfigProcs, Dies(p) \/ Starts(p)
  PROVE  ConfigInv'
<1> USE DEF ConfigInv, ConfigTypeOK
<1>0. process[p] \in ConfigStates /\ ProcessInv(p)
  OBVIOUS
<1>1. CASE Dies(p)
  <2> DEFINE fields == [process[p] EXCEPT !.phase = "dead"]
  <2>1. Put(p, fields) /\ fields \in ConfigStates /\ process'[p] = fields
    BY <1>0, <1>1 DEF Dies, ConfigStates, ConfigPhases, Put
  <2>2. ProcessInv(p)'
    BY <1>0, <2>1 DEF ProcessInv, HoldsItsLock, KnowsItsFile, MergedIsSound,
                            WritesItsChanges, HasSaved, Holding, ConfigStates
  <2>3. \A q \in ConfigProcs \ {p} :
          process[q].phase \in Holding => locked'[process[q].file] = q
    BY <1>1 DEF Dies, ProcessInv, HoldsItsLock
  <2> QED BY <1>1, <2>1, <2>2, <2>3, PutKeeps DEF Dies
<1>2. CASE Starts(p)
  <2> DEFINE fields == Idle(Loaded(p), process[p].updates)
  <2>1. Put(p, fields) /\ locked' = [f \in Files |-> IF locked[f] = p THEN NoOne ELSE locked[f]]
    BY <1>2 DEF Starts
  <2>2. fields \in ConfigStates /\ fields.phase = "idle" /\ fields.snapshot = fields.start
    <3>1. Loaded(p) \in Snapshots /\ process[p].updates \in Nat
      BY <1>0, LoadedIsASnapshot DEF ConfigStates
    <3> QED BY <3>1, IdleIsIdle
  <2> HIDE DEF fields
  <2>3. process'[p] = fields
    BY <2>1 DEF Put
  <2>4. ProcessInv(p)'
    BY <2>2, <2>3 DEF ProcessInv, HoldsItsLock, KnowsItsFile, MergedIsSound,
                            WritesItsChanges, HasSaved, Holding
  <2>5. \A q \in ConfigProcs \ {p} :
          process[q].phase \in Holding => locked'[process[q].file] = q
    BY <2>1 DEF ProcessInv, HoldsItsLock, KnowsItsFile
  <2>6. locked' \in [Files -> ConfigProcs \cup {NoOne}]
    BY <2>1
  <2> QED BY <1>2, <2>1, <2>2, <2>4, <2>5, <2>6, PutKeeps DEF Starts
<1> QED BY <1>1, <1>2

LEMMA ConfigStepKeeps ==
  ASSUME ConfigInv, [ConfigNext]_configVars
  PROVE  ConfigInv'
<1>1. CASE UNCHANGED configVars
  BY <1>1 DEF configVars, ConfigInv, ConfigTypeOK, ProcessInv, HoldsItsLock, KnowsItsFile,
              MergedIsSound, WritesItsChanges, HasSaved, Changed, Says
<1> QED
  BY <1>1, UpdateTakesTheLock, UpdateWrites, DeathKeeps, UnlockedWriters DEF ConfigNext

THEOREM ConfigInvariance == ConfigSpec => []ConfigInv
BY ConfigInitially, ConfigStepKeeps, PTL DEF ConfigSpec

\* However many processes update the files, die with the lock, or meet a reset,
\* an install or an editor: an update writes what its user changed and nothing
\* else, config.toml stays readable, and no process believes what it did not
\* save (config/store.ts:34-65, config/file-storage.ts:10-56).
THEOREM SharedConfigSafe == ConfigSpec => []SharedConfigIsSafe
<1>1. ConfigInv => SharedConfigIsSafe
  BY DEF ConfigInv, ConfigTypeOK, FileOK, ProcessInv, WritesItsChanges, HasSaved,
         SharedConfigIsSafe, OnlyChangesAreWritten, ConfigParses, SnapshotsAreSaved
<1> QED BY <1>1, ConfigInvariance, PTL

-----------------------------------------------------------------------------
(* The sessions of a host. *)

\* No call disposes of record r, and it owns its journal.
Untouched(r) ==
  /\ hosted[r].owns /\ hosted[r].disposal = "none" /\ hosted[r].artifacts = "open"
  /\ \A d \in disposers : d.record # r

\* The names in the state are those of records there are, and the current
\* session's newest record is the conversation's.
NamesAreRecords ==
  /\ conversation.record \in DOMAIN hosted
  /\ sessionMap[Current] = conversation.record
  /\ \A s \in Sessions : sessionMap[s] # NoRecord =>
       sessionMap[s] \in DOMAIN hosted /\ hosted[sessionMap[s]].session = s
  /\ \A d \in disposers : d.record \in DOMAIN hosted
  /\ activeRecord \in DOMAIN hosted

\* What a session change or deletion is about is not the current session, and a
\* candidate is the newest record of its own.
TransitionIsApart ==
  /\ transition.kind # "none" =>
       transition.session \in Sessions /\ transition.session # Current
  /\ transition.kind \in {"change", "rollback"} =>
       /\ transition.next \in DOMAIN hosted
       /\ hosted[transition.next].session = transition.session
       /\ sessionMap[transition.session] = transition.next
  /\ transition.kind = "delete" => activeRecord = conversation.record
  /\ Changing => ~conversation.running /\ parked = [s \in Sessions |-> <<>>]

\* While the host is not shut down, its active record is untouched, the calls that
\* dispose of others are those of the transition, and they are of all others that own.
HostIsServed ==
  ~Stopping =>
    /\ parked = [s \in Sessions |-> <<>>]
    /\ activeRecord = IF Changing THEN transition.next ELSE conversation.record
    /\ Untouched(activeRecord)
    /\ \A d \in disposers : d.by = transition.kind
    /\ \A r \in DOMAIN hosted :
         hosted[r].owns => r = activeRecord \/ \E d \in disposers : d.record = r

\* A run's record is there until the run has settled: who disposes of it waits,
\* and a shutdown waits for that.
RunIsHosted ==
  /\ conversation.running =>
       /\ hosted[conversation.record].owns
       /\ hosted[conversation.record].artifacts = "open"
       /\ conversation.closing \in {"no", "runtime"}
       /\ conversation.closing = "runtime" => ~Returned("close")
  /\ \A d \in disposers : d.record = conversation.record \/ d.by = "close" => d.idle
  /\ conversation.mcp = (conversation.closing # "done")

\* What is deleted nobody holds, and after a shutdown nobody holds anything.
NothingIsHeld ==
  /\ deleted \cap saved = {}
  /\ \A s \in deleted : journalLock[s] = NoRecord
  /\ conversation.closing \in {"registry", "done"} =>
       \A r \in DOMAIN hosted : ~hosted[r].owns /\ hosted[r].artifacts = "closed"

HostInv ==
  /\ HostTypeOK /\ NamesAreRecords /\ OneOwnerEach /\ TransitionIsApart
  /\ HostIsServed /\ RunIsHosted /\ NothingIsHeld

HostRecord ==
  [session : Sessions, owns : BOOLEAN, fork : BOOLEAN,
   disposal : {"none", "waiting", "pending", "done", "failed"},
   artifacts : {"open", "closed"}]

\* A function on the positions of a sequence of records is such a sequence.
LEMMA RecordsAreSeq ==
  ASSUME NEW n \in Nat, NEW f \in [1..n -> HostRecord]
  PROVE  f \in Seq(HostRecord) /\ Len(f) = n
OBVIOUS

\* How far a disposal is and whether a session is a fork say nothing of the rest.
LEMMA DisposalChanges ==
  ASSUME NEW rs \in Seq(HostRecord), NEW r \in DOMAIN rs,
         NEW v \in {"none", "waiting", "pending", "done", "failed"},
         NEW new, new = [rs EXCEPT ![r].disposal = v]
  PROVE  /\ new \in Seq(HostRecord) /\ Len(new) = Len(rs) /\ DOMAIN new = DOMAIN rs
         /\ \A x \in DOMAIN rs : /\ new[x].session = rs[x].session
                                 /\ new[x].owns = rs[x].owns
                                 /\ new[x].artifacts = rs[x].artifacts
                                 /\ x # r => new[x].disposal = rs[x].disposal
<1>1. DOMAIN rs = 1..Len(rs) /\ Len(rs) \in Nat /\ rs \in [1..Len(rs) -> HostRecord]
  OBVIOUS
<1>2. new \in [1..Len(rs) -> HostRecord]
  BY <1>1 DEF HostRecord
<1>3. new \in Seq(HostRecord) /\ Len(new) = Len(rs)
  BY <1>1, <1>2, RecordsAreSeq
<1>4. \A x \in DOMAIN rs : /\ new[x].session = rs[x].session /\ new[x].owns = rs[x].owns
                           /\ new[x].artifacts = rs[x].artifacts
                           /\ x # r => new[x].disposal = rs[x].disposal
  BY <1>1 DEF HostRecord
<1>. QED BY <1>1, <1>2, <1>3, <1>4

\* Whether a session is a fork says nothing of its records.
LEMMA ForkChanges ==
  ASSUME NEW rs \in Seq(HostRecord), NEW r \in DOMAIN rs,
         NEW new, new = [rs EXCEPT ![r].fork = FALSE]
  PROVE  /\ new \in Seq(HostRecord) /\ Len(new) = Len(rs) /\ DOMAIN new = DOMAIN rs
         /\ \A x \in DOMAIN rs : /\ new[x].session = rs[x].session
                                 /\ new[x].owns = rs[x].owns
                                 /\ new[x].artifacts = rs[x].artifacts
                                 /\ new[x].disposal = rs[x].disposal
<1>1. DOMAIN rs = 1..Len(rs) /\ Len(rs) \in Nat /\ rs \in [1..Len(rs) -> HostRecord]
  OBVIOUS
<1>2. new \in [1..Len(rs) -> HostRecord]
  BY <1>1 DEF HostRecord
<1>3. new \in Seq(HostRecord) /\ Len(new) = Len(rs)
  BY <1>1, <1>2, RecordsAreSeq
<1>4. \A x \in DOMAIN rs : /\ new[x].session = rs[x].session /\ new[x].owns = rs[x].owns
                           /\ new[x].artifacts = rs[x].artifacts
                           /\ new[x].disposal = rs[x].disposal
  BY <1>1 DEF HostRecord
<1>. QED BY <1>1, <1>2, <1>3, <1>4

\* A disposal changes nothing of a record but that it has begun.
DisposedOnly(rs, r, D) ==
  /\ D \in Seq(HostRecord) /\ Len(D) = Len(rs) /\ DOMAIN D = DOMAIN rs
  /\ \A x \in DOMAIN rs : /\ D[x].session = rs[x].session
                          /\ D[x].owns = rs[x].owns
                          /\ D[x].artifacts = rs[x].artifacts
                          /\ x # r => D[x].disposal = rs[x].disposal

\* A disposal closes the artifacts of its records and leaves their names.
LEMMA DisposedIs ==
  ASSUME NEW rs \in Seq(HostRecord), NEW r \in DOMAIN rs, NEW idle,
         NEW D, D = Disposed(rs, r, idle)
  PROVE  DisposedOnly(rs, r, D)
<1>1. CASE rs[r].disposal = "none"
  <2>1. PICK v \in {"none", "waiting", "pending", "done", "failed"} :
          Disposed(rs, r, idle) = [rs EXCEPT ![r].disposal = v]
    BY <1>1 DEF Disposed
  <2>2. D = [rs EXCEPT ![r].disposal = v]
    BY <2>1
  <2>. QED BY <2>2, DisposalChanges DEF DisposedOnly
<1>2. CASE rs[r].disposal # "none"
  BY <1>2 DEF Disposed, DisposedOnly
<1>. QED BY <1>1, <1>2

\* The types, with the names used here.
ConversationShape ==
  [record : Records, running : BOOLEAN, mcp : BOOLEAN,
   closing : {"no", "runtime", "host", "registry", "done"}]
TransitionShape ==
  [kind : {"none", "change", "rollback", "delete"}, next : Records \cup {NoRecord},
   session : Sessions \cup {NoRecord}]

\* The types of the state, by name.
LEMMA HostTypes ==
  ASSUME HostTypeOK
  PROVE  /\ hosted \in Seq(HostRecord) /\ Len(hosted) \in Nat /\ DOMAIN hosted = 1..Len(hosted)
         /\ DOMAIN hosted \subseteq Nat
         /\ \A r \in DOMAIN hosted : hosted[r] \in HostRecord /\ r \in Records /\ r # NoRecord
                                     /\ r # Elsewhere
         /\ journalLock \in [Sessions -> Records \cup {NoRecord, Elsewhere}]
         /\ sessionMap \in [Sessions -> Records \cup {NoRecord}]
         /\ parked \in [Sessions -> Seq(Records)]
         /\ conversation \in ConversationShape /\ transition \in TransitionShape
         /\ disposers \subseteq [by : Callers, record : Records, idle : BOOLEAN]
         /\ saved \subseteq Sessions /\ deleted \subseteq Sessions
<1>1. hosted \in Seq(HostRecord) /\ Len(hosted) <= MaxHostRecords
  BY DEF HostTypeOK, HostRecord
<1>2. /\ journalLock \in [Sessions -> Records \cup {NoRecord, Elsewhere}]
      /\ sessionMap \in [Sessions -> Records \cup {NoRecord}]
      /\ parked \in [Sessions -> Seq(Records)]
      /\ conversation \in ConversationShape /\ transition \in TransitionShape
      /\ disposers \subseteq [by : Callers, record : Records, idle : BOOLEAN]
      /\ saved \subseteq Sessions /\ deleted \subseteq Sessions
  BY DEF HostTypeOK, ConversationShape, TransitionShape
<1>3. /\ Len(hosted) \in Nat /\ DOMAIN hosted = 1..Len(hosted) /\ DOMAIN hosted \subseteq Nat
      /\ \A r \in DOMAIN hosted : hosted[r] \in HostRecord /\ r \in Records /\ r # NoRecord
                                     /\ r # Elsewhere
  BY <1>1, HostedAssumption DEF Records
<1>. QED BY <1>1, <1>2, <1>3

\* The types again, from these names.
LEMMA HostIsTyped ==
  ASSUME hosted' \in Seq(HostRecord), Len(hosted') <= MaxHostRecords,
         journalLock' \in [Sessions -> Records \cup {NoRecord, Elsewhere}],
         sessionMap' \in [Sessions -> Records \cup {NoRecord}],
         parked' \in [Sessions -> Seq(Records)], activeRecord' \in Records \cup {NoRecord},
         conversation' \in ConversationShape, transition' \in TransitionShape,
         disposers' \subseteq [by : Callers, record : Records, idle : BOOLEAN],
         saved' \subseteq Sessions, deleted' \subseteq Sessions
  PROVE  HostTypeOK'
BY DEF HostTypeOK, HostRecord, ConversationShape, TransitionShape

\* The current session, typed.
LEMMA CurrentIs ==
  ASSUME HostInv
  PROVE  /\ conversation.record \in DOMAIN hosted /\ Current \in Sessions
         /\ hosted[conversation.record].session = Current
         /\ sessionMap[Current] = conversation.record
BY HostTypes DEF HostInv, NamesAreRecords, Current, HostRecord

\* A record that is registered is the last one and holds the lock of its session.
LEMMA RegisteredIs ==
  ASSUME HostInv, NEW s \in Sessions, NEW forked \in BOOLEAN, Registered(s, forked)
  PROVE  LET next == Len(hosted) + 1
             new  == Append(hosted, HostedRecord(s, forked))
         IN  /\ next \in Records /\ next \notin DOMAIN hosted
             /\ new \in Seq(HostRecord) /\ Len(new) = next
             /\ DOMAIN new = DOMAIN hosted \cup {next}
             /\ \A r \in DOMAIN hosted : new[r] = hosted[r]
             /\ new[next] = HostedRecord(s, forked)
             /\ sessionMap' = [sessionMap EXCEPT ![s] = next]
             /\ journalLock' = [journalLock EXCEPT ![s] = next]
             /\ journalLock[s] = NoRecord
             /\ \A r \in DOMAIN hosted : hosted[r].session = s => ~hosted[r].owns
<1>. USE HostedAssumption
<1>1. HostedRecord(s, forked) \in HostRecord
  BY DEF HostedRecord, HostRecord
<1>2. \A r \in DOMAIN hosted : hosted[r].session = s => ~hosted[r].owns
  BY HostTypes DEF Registered, HostInv, OneOwnerEach
<1>. QED BY <1>1, <1>2, HostTypes DEF Registered, HostInv, Records

-----------------------------------------------------------------------------

\* The invariant holds when the host has opened its first session.
LEMMA HostInitially == HostInit => HostInv
<1>. SUFFICES ASSUME HostInit PROVE HostInv
  OBVIOUS
<1>. USE HostedAssumption
<1>1. PICK s \in Sessions, old \in SUBSET Sessions :
        /\ s \notin old
        /\ hosted = <<HostedRecord(s, FALSE)>>
        /\ sessionMap = [x \in Sessions |-> IF x = s THEN 1 ELSE NoRecord]
        /\ parked = [x \in Sessions |-> <<>>]
        /\ activeRecord = 1
        /\ journalLock = [x \in Sessions |-> IF x = s THEN 1 ELSE NoRecord]
        /\ saved = old
        /\ conversation = [record |-> 1, running |-> FALSE, mcp |-> TRUE, closing |-> "no"]
        /\ transition = NoTransition
        /\ disposers = {} /\ deleted = {}
  BY DEF HostInit
<1>2. /\ hosted \in Seq(HostRecord) /\ Len(hosted) = 1 /\ DOMAIN hosted = {1}
      /\ hosted[1] = HostedRecord(s, FALSE)
  BY <1>1 DEF HostedRecord, HostRecord
<1>3. 1 \in Records
  BY DEF Records
<1>4. HostTypeOK
  <2>1. parked \in [Sessions -> Seq(Records)]
    BY <1>1
  <2>2. conversation \in [record : Records, running : BOOLEAN, mcp : BOOLEAN,
                       closing : {"no", "runtime", "host", "registry", "done"}]
    BY <1>1, <1>3
  <2>3. transition \in [kind : {"none", "change", "rollback", "delete"},
                     next : Records \cup {NoRecord},
                     session : Sessions \cup {NoRecord}]
    BY <1>1 DEF NoTransition
  <2>4. /\ Len(hosted) <= MaxHostRecords /\ activeRecord \in Records \cup {NoRecord}
        /\ sessionMap \in [Sessions -> Records \cup {NoRecord}]
        /\ journalLock \in [Sessions -> Records \cup {NoRecord, Elsewhere}]
        /\ saved \subseteq Sessions /\ deleted \subseteq Sessions
        /\ disposers \subseteq [by : Callers, record : Records, idle : BOOLEAN]
    BY <1>1, <1>2, <1>3
  <2>. QED BY <1>2, <2>1, <2>2, <2>3, <2>4 DEF HostTypeOK, HostRecord
<1>5. NamesAreRecords /\ OneOwnerEach
  BY <1>1, <1>2 DEF NamesAreRecords, OneOwnerEach, Current, HostedRecord
<1>6. TransitionIsApart
  BY <1>1 DEF TransitionIsApart, NoTransition, Changing
<1>7. HostIsServed
  BY <1>1, <1>2 DEF HostIsServed, Changing, NoTransition, Untouched, HostedRecord
<1>8. RunIsHosted /\ NothingIsHeld
  BY <1>1, <1>2 DEF RunIsHosted, NothingIsHeld
<1>. QED BY <1>4, <1>5, <1>6, <1>7, <1>8 DEF HostInv

\* The candidate becomes the current session.
LEMMA AdoptSessionKeeps == ASSUME HostInv, AdoptSession PROVE HostInv'
<1>. USE HostedAssumption
<1>1. HostTypeOK'
  <2>1. transition.next \in Records
    BY HostTypes DEF HostInv, AdoptSession, TransitionIsApart, Changing
  <2>2. conversation' \in ConversationShape /\ transition' \in TransitionShape
    BY <2>1, HostTypes DEF HostInv, AdoptSession, ConversationShape, TransitionShape,
       NoTransition
  <2>. QED BY <2>2, HostTypes, HostIsTyped DEF HostInv, AdoptSession, HostTypeOK
<1>2. NamesAreRecords' /\ OneOwnerEach'
  BY HostTypes, CurrentIs DEF HostInv, AdoptSession, NamesAreRecords, OneOwnerEach,
     TransitionIsApart, Current, Changing
<1>3. TransitionIsApart'
  BY HostTypes, CurrentIs DEF HostInv, AdoptSession, TransitionIsApart, NoTransition
<1>4. HostIsServed'
  BY HostTypes, CurrentIs DEF HostInv, AdoptSession, HostIsServed, Changing, Untouched,
     Returned, NoTransition
<1>5. RunIsHosted'
  BY HostTypes, CurrentIs DEF HostInv, AdoptSession, RunIsHosted, HostIsServed, Untouched,
     TransitionIsApart
<1>6. NothingIsHeld'
  BY HostTypes, CurrentIs DEF HostInv, AdoptSession, NothingIsHeld
<1>. QED BY <1>1, <1>2, <1>3, <1>4, <1>5, <1>6 DEF HostInv

\* A candidate that failed has been disposed of.
LEMMA RollbackEndsKeeps == ASSUME HostInv, RollbackEnds PROVE HostInv'
<1>. USE HostedAssumption
<1>1. HostTypeOK'
  BY HostTypes, HostIsTyped DEF HostInv, RollbackEnds, HostTypeOK, NoTransition
<1>2. NamesAreRecords' /\ OneOwnerEach'
  BY HostTypes, CurrentIs DEF HostInv, RollbackEnds, NamesAreRecords, OneOwnerEach, Current
<1>3. TransitionIsApart'
  BY HostTypes, CurrentIs DEF HostInv, RollbackEnds, TransitionIsApart, Changing,
     NoTransition
<1>4. HostIsServed'
  BY HostTypes, CurrentIs DEF HostInv, RollbackEnds, HostIsServed, Stopping, Changing,
     Untouched, Returned, NoTransition
<1>5. RunIsHosted'
  BY HostTypes, CurrentIs DEF HostInv, RollbackEnds, RunIsHosted, Returned
<1>6. NothingIsHeld'
  BY HostTypes, CurrentIs DEF HostInv, RollbackEnds, NothingIsHeld
<1>. QED BY <1>1, <1>2, <1>3, <1>4, <1>5, <1>6 DEF HostInv

\* A run has settled.
LEMMA HostedRunSettlesKeeps == ASSUME HostInv, HostedRunSettles PROVE HostInv'
<1>. USE HostedAssumption
<1>1. HostTypeOK'
  BY HostTypes, HostIsTyped DEF HostInv, HostedRunSettles, HostTypeOK
<1>2. NamesAreRecords' /\ OneOwnerEach'
  BY HostTypes, CurrentIs DEF HostInv, HostedRunSettles, NamesAreRecords, OneOwnerEach,
     Current
<1>3. TransitionIsApart'
  BY HostTypes, CurrentIs DEF HostInv, HostedRunSettles, TransitionIsApart, Changing,
     Current
<1>4. HostIsServed'
  BY HostTypes, CurrentIs DEF HostInv, HostedRunSettles, HostIsServed, Stopping, Changing,
     Untouched
<1>5. RunIsHosted'
  BY HostTypes, CurrentIs DEF HostInv, HostedRunSettles, RunIsHosted
<1>6. NothingIsHeld'
  BY HostTypes, CurrentIs DEF HostInv, HostedRunSettles, NothingIsHeld
<1>. QED BY <1>1, <1>2, <1>3, <1>4, <1>5, <1>6 DEF HostInv

\* The host is asked to close.
LEMMA CloseHostKeeps == ASSUME HostInv, CloseHost PROVE HostInv'
<1>. USE HostedAssumption
<1>1. HostTypeOK'
  BY HostTypes, HostIsTyped DEF HostInv, CloseHost, HostTypeOK
<1>2. NamesAreRecords' /\ OneOwnerEach'
  BY HostTypes, CurrentIs DEF HostInv, CloseHost, NamesAreRecords, OneOwnerEach, Current
<1>3. TransitionIsApart'
  BY HostTypes, CurrentIs DEF HostInv, CloseHost, TransitionIsApart, Changing, Current
<1>4. HostIsServed'
  BY HostTypes, CurrentIs DEF HostInv, CloseHost, HostIsServed, Stopping
<1>5. RunIsHosted'
  BY HostTypes, CurrentIs DEF HostInv, CloseHost, RunIsHosted
<1>6. NothingIsHeld'
  BY HostTypes, CurrentIs DEF HostInv, CloseHost, NothingIsHeld
<1>. QED BY <1>1, <1>2, <1>3, <1>4, <1>5, <1>6 DEF HostInv

\* The registry has released everything.
LEMMA HostClosesKeeps == ASSUME HostInv, HostCloses PROVE HostInv'
<1>. USE HostedAssumption
<1>1. HostTypeOK'
  BY HostTypes, HostIsTyped DEF HostInv, HostCloses, HostTypeOK
<1>2. NamesAreRecords' /\ OneOwnerEach'
  BY HostTypes, CurrentIs DEF HostInv, HostCloses, NamesAreRecords, OneOwnerEach, Current
<1>3. TransitionIsApart'
  BY HostTypes, CurrentIs DEF HostInv, HostCloses, TransitionIsApart, Changing, Current
<1>4. HostIsServed'
  BY HostTypes, CurrentIs DEF HostInv, HostCloses, HostIsServed, Stopping
<1>5. RunIsHosted'
  BY HostTypes, CurrentIs DEF HostInv, HostCloses, RunIsHosted, ConversationShape
<1>6. NothingIsHeld'
  BY HostTypes, CurrentIs DEF HostInv, HostCloses, NothingIsHeld
<1>. QED BY <1>1, <1>2, <1>3, <1>4, <1>5, <1>6 DEF HostInv

\* Another process opens a saved session, or closes it.
LEMMA OpenedElsewhereKeeps == ASSUME HostInv, NEW s \in Sessions, OpenedElsewhere(s) PROVE HostInv'
<1>. USE HostedAssumption
<1>1. HostTypeOK'
  <2>1. journalLock' \in [Sessions -> Records \cup {NoRecord, Elsewhere}]
    BY HostTypes DEF HostInv, OpenedElsewhere
  <2>. QED BY <2>1, HostTypes, HostIsTyped DEF HostInv, OpenedElsewhere, HostTypeOK
<1>2. NamesAreRecords' /\ OneOwnerEach'
  BY HostTypes, CurrentIs DEF HostInv, OpenedElsewhere, NamesAreRecords, OneOwnerEach,
     Current, HostRecord
<1>3. TransitionIsApart'
  BY HostTypes, CurrentIs DEF HostInv, OpenedElsewhere, TransitionIsApart, Changing, Current
<1>4. HostIsServed'
  BY HostTypes, CurrentIs DEF HostInv, OpenedElsewhere, HostIsServed, Stopping, Changing,
     Untouched
<1>5. RunIsHosted'
  BY HostTypes, CurrentIs DEF HostInv, OpenedElsewhere, RunIsHosted, Returned
<1>6. NothingIsHeld'
  BY HostTypes, CurrentIs DEF HostInv, OpenedElsewhere, NothingIsHeld
<1>. QED BY <1>1, <1>2, <1>3, <1>4, <1>5, <1>6 DEF HostInv

\* A run begins in the current session.
LEMMA StartHostedRunKeeps == ASSUME HostInv, StartHostedRun PROVE HostInv'
<1>. USE HostedAssumption
<1>1. /\ hosted' \in Seq(HostRecord) /\ Len(hosted') = Len(hosted)
      /\ DOMAIN hosted' = DOMAIN hosted
      /\ \A x \in DOMAIN hosted :
           /\ hosted'[x].session = hosted[x].session /\ hosted'[x].owns = hosted[x].owns
           /\ hosted'[x].artifacts = hosted[x].artifacts
           /\ hosted'[x].disposal = hosted[x].disposal
  <2>1. CASE hosted[conversation.record].owns
    <3>1. hosted' = [hosted EXCEPT ![conversation.record].fork = FALSE]
      BY <2>1 DEF StartHostedRun
    <3>2. hosted \in Seq(HostRecord) /\ conversation.record \in DOMAIN hosted
      BY HostTypes, CurrentIs DEF HostInv
    <3>. QED BY <3>1, <3>2, ForkChanges
  <2>2. CASE ~hosted[conversation.record].owns
    BY <2>2, HostTypes DEF HostInv, StartHostedRun
  <2>. QED BY <2>1, <2>2
<1>2. /\ conversation' \in ConversationShape /\ conversation'.running
      /\ conversation'.record = conversation.record /\ conversation'.mcp = conversation.mcp
      /\ conversation'.closing = conversation.closing
  BY HostTypes DEF HostInv, StartHostedRun, ConversationShape
<1>3. /\ saved \subseteq saved' /\ saved' \subseteq saved \cup {Current}
      /\ UNCHANGED <<sessionMap, parked, activeRecord, journalLock, transition, disposers,
                     deleted>>
      /\ ~Changing /\ ~Stopping
  BY DEF StartHostedRun, Busy
<1>4. Current' = Current
  BY <1>1, <1>2, CurrentIs DEF Current
<1>5. Untouched(conversation.record)
  BY <1>3 DEF HostInv, HostIsServed
<1>6. HostTypeOK'
  <2>1. Len(hosted') <= MaxHostRecords
    BY <1>1 DEF HostInv, HostTypeOK
  <2>2. saved' \subseteq Sessions
    BY <1>3, CurrentIs, HostTypes DEF HostInv
  <2>. QED BY <2>1, <2>2, <1>1, <1>2, <1>3, HostTypes, HostIsTyped DEF HostInv, HostTypeOK
<1>7. NamesAreRecords' /\ OneOwnerEach'
  <2>1. NamesAreRecords'
    BY <1>1, <1>2, <1>3, <1>4 DEF HostInv, NamesAreRecords
  <2>2. Current \notin deleted
    BY <1>5, CurrentIs, HostTypes DEF HostInv, OneOwnerEach, Untouched, NothingIsHeld
  <2>. QED BY <2>1, <2>2, <1>1, <1>3 DEF HostInv, OneOwnerEach
<1>8. TransitionIsApart'
  BY <1>1, <1>2, <1>3, <1>4 DEF HostInv, TransitionIsApart, Changing
<1>9. HostIsServed'
  BY <1>1, <1>2, <1>3 DEF HostInv, HostIsServed, Stopping, Changing, Untouched,
     NamesAreRecords
<1>10. RunIsHosted'
  BY <1>1, <1>2, <1>3, <1>5, CurrentIs DEF HostInv, RunIsHosted, Stopping, Untouched
<1>11. NothingIsHeld'
  BY <1>1, <1>2, <1>3, <1>7 DEF HostInv, NothingIsHeld, OneOwnerEach
<1>. QED BY <1>6, <1>7, <1>8, <1>9, <1>10, <1>11 DEF HostInv

\* A record's memoised disposal settles, whoever waits for it.
LEMMA DisposalSettlesKeeps == ASSUME HostInv, NEW r \in Records, DisposalSettles(r) PROVE HostInv'
<1>. USE HostedAssumption
<1>1. HostTypeOK'
  <2>1. PICK end \in {"done", "failed"} : hosted' = [hosted EXCEPT ![r].disposal = end]
    BY DEF DisposalSettles
  <2>2. hosted' \in Seq(HostRecord) /\ Len(hosted') = Len(hosted)
    <3>1. hosted \in Seq(HostRecord) /\ r \in DOMAIN hosted
      BY HostTypes DEF HostInv, DisposalSettles
    <3>2. end \in {"none", "waiting", "pending", "done", "failed"}
      OBVIOUS
    <3>. QED BY <2>1, <3>1, <3>2, DisposalChanges
  <2>3. Len(hosted') <= MaxHostRecords
    BY <2>2 DEF HostInv, HostTypeOK
  <2>. QED BY <2>2, <2>3, HostTypes, HostIsTyped DEF HostInv, DisposalSettles, HostTypeOK
<1>2. NamesAreRecords' /\ OneOwnerEach'
  BY HostTypes, CurrentIs DEF HostInv, DisposalSettles, NamesAreRecords, OneOwnerEach,
     TransitionIsApart, Current, Changing, HostRecord, ConversationShape, TransitionShape
<1>3. TransitionIsApart'
  BY HostTypes, CurrentIs DEF HostInv, DisposalSettles, TransitionIsApart, Changing, Busy,
     Current, NamesAreRecords, NoTransition, HostRecord, ConversationShape, TransitionShape
<1>4. HostIsServed'
  BY HostTypes, CurrentIs DEF HostInv, DisposalSettles, HostIsServed, Stopping, Changing,
     Busy, Untouched, Returned, NamesAreRecords, TransitionIsApart, HostRecord, NoTransition
<1>5. RunIsHosted'
  BY HostTypes, CurrentIs DEF HostInv, DisposalSettles, RunIsHosted, Returned, Busy,
     Changing, Stopping, HostIsServed, Untouched, NamesAreRecords, TransitionIsApart,
     HostRecord, ConversationShape, TransitionShape
<1>6. NothingIsHeld'
  BY HostTypes, CurrentIs DEF HostInv, DisposalSettles, NothingIsHeld, Stopping,
     NamesAreRecords, HostIsServed, Untouched, OneOwnerEach, HostRecord, Current
<1>. QED BY <1>1, <1>2, <1>3, <1>4, <1>5, <1>6 DEF HostInv
-----------------------------------------------------------------------------
\* Records that are released no longer own, and the others still do.
ReleasedOnly(R, C) ==
  /\ hosted' \in Seq(HostRecord) /\ Len(hosted') = Len(hosted)
  /\ Len(hosted') <= MaxHostRecords /\ DOMAIN hosted' = DOMAIN hosted
  /\ \A r \in DOMAIN hosted :
       /\ hosted'[r].session = hosted[r].session
       /\ hosted'[r].disposal = hosted[r].disposal
       /\ hosted'[r].owns <=> hosted[r].owns /\ r \notin R
       /\ r \in C => hosted'[r].artifacts = "closed"
       /\ r \notin C => hosted'[r].artifacts = hosted[r].artifacts
  /\ journalLock' \in [Sessions -> Records \cup {NoRecord, Elsewhere}]
  /\ \A s \in Sessions : journalLock[s] = NoRecord => journalLock'[s] = NoRecord
  /\ \A r \in DOMAIN hosted : hosted'[r].owns <=> journalLock'[hosted[r].session] = r

\* The records released no longer own; the rest of each record stays.
LEMMA ReleasedIs ==
  ASSUME HostInv, NEW R \in SUBSET DOMAIN hosted, NEW C, ReleaseHosted(R, C)
  PROVE  ReleasedOnly(R, C)
<1>. USE HostedAssumption
<1>. HostTypeOK
  BY DEF HostInv
<1>1. hosted' = [r \in DOMAIN hosted |->
                  [hosted[r] EXCEPT !.owns = @ /\ r \notin R,
                                    !.artifacts = IF r \in C THEN "closed" ELSE @]]
  BY DEF ReleaseHosted
<1>2. hosted' \in [1..Len(hosted) -> HostRecord]
  BY <1>1, HostTypes DEF HostRecord
<1>3. hosted' \in Seq(HostRecord) /\ Len(hosted') = Len(hosted) /\ DOMAIN hosted' = DOMAIN hosted
  BY <1>2, HostTypes, RecordsAreSeq
<1>4. \A r \in DOMAIN hosted :
         /\ hosted'[r].session = hosted[r].session
         /\ hosted'[r].disposal = hosted[r].disposal
         /\ hosted'[r].owns <=> hosted[r].owns /\ r \notin R
         /\ r \in C => hosted'[r].artifacts = "closed"
         /\ r \notin C => hosted'[r].artifacts = hosted[r].artifacts
  BY <1>1, HostTypes DEF HostRecord
<1>5. /\ journalLock' \in [Sessions -> Records \cup {NoRecord, Elsewhere}]
      /\ \A s \in Sessions : journalLock[s] = NoRecord => journalLock'[s] = NoRecord
  BY HostTypes DEF ReleaseHosted
<1>6. ASSUME NEW r \in DOMAIN hosted
      PROVE  hosted'[r].owns <=> journalLock'[hosted[r].session] = r
  <2>1. /\ hosted[r].session \in Sessions /\ r # NoRecord
        /\ hosted[r].owns <=> journalLock[hosted[r].session] = r
    BY HostTypes DEF HostInv, OneOwnerEach, HostRecord
  <2>2. journalLock'[hosted[r].session] =
          IF journalLock[hosted[r].session] \in {x \in R : hosted[x].owns} THEN NoRecord
          ELSE journalLock[hosted[r].session]
    BY <2>1 DEF ReleaseHosted
  <2>. QED BY <2>1, <2>2, <1>4
<1>7. Len(hosted') <= MaxHostRecords
  BY <1>3 DEF HostTypeOK
<1>. QED BY <1>3, <1>4, <1>5, <1>6, <1>7 DEF ReleasedOnly

\* A caller learns that its disposal has settled, and releases the record.
LEMMA DisposerReturnsKeeps ==
  ASSUME HostInv, NEW d \in disposers, DisposerReturns(d) PROVE HostInv'
<1>. USE HostedAssumption
<1>. HostTypeOK
  BY DEF HostInv
<1>. DEFINE C == IF d.by \in {"stopped", "close"} THEN {} ELSE {d.record}
<1>1. /\ ReleaseHosted({d.record}, C) /\ disposers' = disposers \ {d}
      /\ d.idle => ~conversation.running
      /\ UNCHANGED <<sessionMap, parked, activeRecord, saved, conversation,
                     transition, deleted>>
  BY DEF DisposerReturns
<1>2. d.record \in DOMAIN hosted
  BY DEF HostInv, NamesAreRecords
<1>3. PICK R \in SUBSET DOMAIN hosted : R = {d.record}
  BY <1>2
<1>. ReleaseHosted(R, C)
  BY <1>1, <1>3
<1>. \A r : r # d.record => r \notin C
  OBVIOUS
<1>. HIDE DEF C
<1>4. /\ hosted' \in Seq(HostRecord) /\ Len(hosted') = Len(hosted)
      /\ Len(hosted') <= MaxHostRecords /\ DOMAIN hosted' = DOMAIN hosted
      /\ \A r \in DOMAIN hosted :
           /\ hosted'[r].session = hosted[r].session
           /\ hosted'[r].disposal = hosted[r].disposal
           /\ hosted'[r].owns <=> hosted[r].owns /\ r # d.record
           /\ hosted[r].artifacts = "closed" => hosted'[r].artifacts = "closed"
           /\ r # d.record => hosted'[r].artifacts = hosted[r].artifacts
      /\ journalLock' \in [Sessions -> Records \cup {NoRecord, Elsewhere}]
      /\ \A s \in Sessions : journalLock[s] = NoRecord => journalLock'[s] = NoRecord
      /\ \A r \in DOMAIN hosted : hosted'[r].owns <=> journalLock'[hosted[r].session] = r
  <2>1. ReleasedOnly(R, C)
    BY ReleasedIs
  <2>. QED BY <2>1, <1>3 DEF ReleasedOnly
<1>5. Current' = Current
  BY <1>1, <1>4, CurrentIs DEF Current
<1>6. HostTypeOK'
  BY <1>1, <1>4, HostTypes, HostIsTyped DEF HostTypeOK
<1>7. NamesAreRecords' /\ OneOwnerEach'
  <2>1. NamesAreRecords'
    BY <1>1, <1>4, <1>5 DEF HostInv, NamesAreRecords
  <2>2. OneOwnerEach'
    BY <1>1, <1>4 DEF HostInv, OneOwnerEach
  <2>. QED BY <2>1, <2>2
<1>8. TransitionIsApart'
  BY <1>1, <1>4, <1>5 DEF HostInv, TransitionIsApart, Changing
<1>9. HostIsServed'
  <2>. SUFFICES ASSUME ~Stopping PROVE HostIsServed'
    BY <1>1 DEF HostIsServed, Stopping
  <2>1. d.record # activeRecord /\ activeRecord \in DOMAIN hosted /\ Untouched(activeRecord)
    BY DEF HostInv, HostIsServed, Untouched, NamesAreRecords
  <2>2. Untouched(activeRecord)'
    BY <2>1, <1>1, <1>4 DEF Untouched
  <2>. QED BY <1>1, <1>4, <2>2 DEF HostInv, HostIsServed, Changing
<1>10. RunIsHosted'
  BY <1>1, <1>4, CurrentIs DEF HostInv, RunIsHosted, Returned
<1>11. NothingIsHeld'
  BY <1>1, <1>4, HostTypes DEF HostInv, NothingIsHeld
<1>. QED BY <1>6, <1>7, <1>8, <1>9, <1>10, <1>11 DEF HostInv

\* The registry releases what is left once every disposal has settled.
LEMMA RegistryReleasesKeeps == ASSUME HostInv, RegistryReleases PROVE HostInv'
<1>. USE HostedAssumption
<1>. HostTypeOK
  BY DEF HostInv
<1>1. /\ ReleaseHosted(DOMAIN hosted, DOMAIN hosted) /\ conversation.closing = "host"
      /\ conversation' = [conversation EXCEPT !.closing = "registry"]
      /\ UNCHANGED <<sessionMap, parked, activeRecord, saved, transition, disposers,
                     deleted>>
  BY DEF RegistryReleases
<1>2. /\ hosted' \in Seq(HostRecord) /\ Len(hosted') = Len(hosted)
      /\ Len(hosted') <= MaxHostRecords /\ DOMAIN hosted' = DOMAIN hosted
      /\ \A r \in DOMAIN hosted :
           /\ hosted'[r].session = hosted[r].session
           /\ ~hosted'[r].owns /\ hosted'[r].artifacts = "closed"
      /\ journalLock' \in [Sessions -> Records \cup {NoRecord, Elsewhere}]
      /\ \A s \in Sessions : journalLock[s] = NoRecord => journalLock'[s] = NoRecord
      /\ \A r \in DOMAIN hosted : hosted'[r].owns <=> journalLock'[hosted[r].session] = r
  <2>. DOMAIN hosted \in SUBSET DOMAIN hosted
    OBVIOUS
  <2>1. ReleasedOnly(DOMAIN hosted, DOMAIN hosted)
    BY <1>1, ReleasedIs
  <2>. QED BY <2>1 DEF ReleasedOnly
<1>3. /\ conversation' \in ConversationShape /\ conversation'.closing = "registry"
      /\ conversation'.record = conversation.record /\ conversation'.mcp = conversation.mcp
      /\ conversation'.running = conversation.running
  BY <1>1, HostTypes DEF ConversationShape
<1>4. Current' = Current
  BY <1>2, <1>3, CurrentIs DEF Current
<1>5. HostTypeOK'
  BY <1>1, <1>2, <1>3, HostTypes, HostIsTyped DEF HostTypeOK
<1>6. NamesAreRecords' /\ OneOwnerEach'
  BY <1>1, <1>2, <1>3, <1>4 DEF HostInv, NamesAreRecords, OneOwnerEach
<1>7. TransitionIsApart'
  BY <1>1, <1>2, <1>3, <1>4 DEF HostInv, TransitionIsApart, Changing
<1>8. HostIsServed'
  BY <1>3 DEF HostIsServed, Stopping
<1>9. RunIsHosted'
  BY <1>1, <1>3 DEF HostInv, RunIsHosted
<1>10. NothingIsHeld'
  BY <1>1, <1>2, HostTypes DEF HostInv, NothingIsHeld
<1>. QED BY <1>5, <1>6, <1>7, <1>8, <1>9, <1>10 DEF HostInv

-----------------------------------------------------------------------------
\* Before a transition the conversation's record is active and the only one that owns.
LEMMA BeforeTransition ==
  ASSUME HostInv, MayTransition
  PROVE  /\ disposers = {} /\ activeRecord = conversation.record
         /\ parked = [s \in Sessions |-> <<>>]
         /\ ~conversation.running /\ ~Stopping /\ conversation.closing = "no"
         /\ transition.kind = "none" /\ conversation.mcp
         /\ Untouched(conversation.record)
         /\ \A r \in DOMAIN hosted : hosted[r].owns => r = conversation.record
<1>1. /\ transition.kind = "none" /\ ~conversation.running /\ ~Stopping /\ ~Changing
      /\ conversation.closing = "no"
  BY DEF MayTransition, Busy, Stopping
<1>2. disposers = {}
  BY <1>1, HostTypes DEF HostInv, HostIsServed, Callers
<1>. QED BY <1>1, <1>2 DEF HostInv, HostIsServed, RunIsHosted

\* A candidate is registered, and what becomes of it and the session before it.
LEMMA CandidateKeeps ==
  ASSUME HostInv, MayTransition, NEW s \in Sessions, NEW forked \in BOOLEAN,
         s # Current, s \notin deleted, Registered(s, forked),
         UNCHANGED <<saved, conversation, deleted>>,
         BeginChange(s, forked) \/ CandidateFails(s, forked)
  PROVE  HostInv'
<1>. USE HostedAssumption
<1>. HostTypeOK
  BY DEF HostInv
<1>0. PICK next, new, cr : /\ next = Len(hosted) + 1 /\ cr = conversation.record
                           /\ new = Append(hosted, HostedRecord(s, forked))
  OBVIOUS
<1>1. /\ next \in Records /\ next \notin DOMAIN hosted /\ next # NoRecord
      /\ new \in Seq(HostRecord) /\ Len(new) = next
      /\ DOMAIN new = DOMAIN hosted \cup {next}
      /\ \A r \in DOMAIN hosted : new[r] = hosted[r]
      /\ new[next] = HostedRecord(s, forked)
      /\ sessionMap' = [sessionMap EXCEPT ![s] = next]
      /\ journalLock' = [journalLock EXCEPT ![s] = next]
      /\ \A r \in DOMAIN hosted : hosted[r].session = s => ~hosted[r].owns
  BY <1>0, RegisteredIs DEF Records
<1>2. /\ disposers = {} /\ activeRecord = cr /\ parked = [x \in Sessions |-> <<>>]
      /\ ~conversation.running /\ ~Stopping /\ conversation.closing = "no"
      /\ conversation.mcp /\ Untouched(cr)
      /\ \A r \in DOMAIN hosted : hosted[r].owns => r = cr
  BY <1>0, BeforeTransition
<1>3. /\ cr \in DOMAIN hosted /\ Current \in Sessions /\ hosted[cr].session = Current
      /\ sessionMap[Current] = cr /\ cr = conversation.record
  BY <1>0, CurrentIs
<1>4. /\ HostedRecord(s, forked).session = s /\ HostedRecord(s, forked).owns = TRUE
      /\ HostedRecord(s, forked).disposal = "none"
      /\ HostedRecord(s, forked).artifacts = "open"
  BY DEF HostedRecord
<1>5. PICK gone \in {cr, next}, by \in {"change", "rollback"}, idle \in BOOLEAN :
        /\ hosted' = Disposed(new, gone, idle)
        /\ disposers' = {Disposer(by, gone, idle)}
        /\ transition' = [kind |-> by, next |-> next, session |-> s]
        /\ parked' = parked
        /\ IF by = "change" THEN gone = cr /\ idle /\ activeRecord' = next
           ELSE gone = next /\ ~idle /\ activeRecord' = cr
  <2>1. CASE BeginChange(s, forked)
    <3>. DEFINE queue == [parked EXCEPT ![Current] = Append(@, cr)]
    <3>1. Parked(next) = queue
      BY <1>1, <1>2, <1>3 DEF Parked
    <3>2. queue[Current] = <<cr>>
      BY <1>2, <1>3
    <3>3. ToDispose(queue[Current], sessionMap', Current) = cr
      BY <3>2 DEF ToDispose
    <3>4. [queue EXCEPT ![Current] = IF @ = <<>> THEN @ ELSE Tail(@)] = parked
      BY <3>2, <1>2, <1>3
    <3>. HIDE DEF queue
    <3>5. /\ parked' = parked /\ activeRecord' = next
          /\ hosted' = Disposed(new, cr, TRUE) /\ disposers' = {Disposer("change", cr, TRUE)}
          /\ transition' = [kind |-> "change", next |-> next, session |-> s]
      BY <2>1, <3>1, <3>3, <3>4, <1>0, <1>2 DEF BeginChange
    <3>. QED BY <3>5
  <2>2. CASE CandidateFails(s, forked)
    <3>1. ToDispose(parked[s], sessionMap', s) = next
      BY <1>1, <1>2, HostTypes DEF ToDispose
    <3>2. [parked EXCEPT ![s] = IF @ = <<>> THEN @ ELSE Tail(@)] = parked
      BY <1>2
    <3>3. /\ parked' = parked /\ activeRecord' = cr
          /\ hosted' = Disposed(new, next, FALSE)
          /\ disposers' = {Disposer("rollback", next, FALSE)}
          /\ transition' = [kind |-> "rollback", next |-> next, session |-> s]
      BY <2>2, <3>1, <3>2, <1>0, <1>2 DEF CandidateFails
    <3>. QED BY <3>3
  <2>. QED BY <2>1, <2>2
<1>6. gone \in DOMAIN new
  BY <1>1, <1>3
<1>7. /\ hosted' \in Seq(HostRecord) /\ Len(hosted') = next
      /\ DOMAIN hosted' = DOMAIN hosted \cup {next}
      /\ \A x \in DOMAIN hosted' :
           /\ hosted'[x].session = new[x].session /\ hosted'[x].owns = new[x].owns
           /\ hosted'[x].artifacts = new[x].artifacts
           /\ x # gone => hosted'[x].disposal = new[x].disposal
  <2>1. PICK D : D = Disposed(new, gone, idle)
    OBVIOUS
  <2>2. /\ D \in Seq(HostRecord) /\ Len(D) = Len(new) /\ DOMAIN D = DOMAIN new
        /\ \A x \in DOMAIN new :
             /\ D[x].session = new[x].session /\ D[x].owns = new[x].owns
             /\ D[x].artifacts = new[x].artifacts
             /\ x # gone => D[x].disposal = new[x].disposal
    <3>1. new \in Seq(HostRecord) /\ gone \in DOMAIN new
      BY <1>1, <1>6
    <3>2. DisposedOnly(new, gone, D)
      BY <2>1, <3>1, DisposedIs
    <3>. QED BY <3>2 DEF DisposedOnly
  <2>. QED BY <2>1, <2>2, <1>1, <1>5
<1>8. Current' = Current
  BY <1>1, <1>3, <1>7 DEF Current
<1>9. /\ Disposer(by, gone, idle) \in [by : Callers, record : Records, idle : BOOLEAN]
      /\ Disposer(by, gone, idle).by = by /\ Disposer(by, gone, idle).record = gone
      /\ Disposer(by, gone, idle).idle = idle
  BY <1>1, <1>3, HostTypes DEF Disposer, Callers
<1>10. HostTypeOK'
  <2>1. transition' \in TransitionShape
    BY <1>1, <1>5 DEF TransitionShape
  <2>2. next <= MaxHostRecords
    BY <1>1 DEF Records
  <2>3. sessionMap' \in [Sessions -> Records \cup {NoRecord}]
    BY <1>1, HostTypes
  <2>4. journalLock' \in [Sessions -> Records \cup {NoRecord, Elsewhere}]
    BY <1>1, HostTypes
  <2>5. parked' \in [Sessions -> Seq(Records)] /\ activeRecord' \in Records \cup {NoRecord}
    BY <1>1, <1>3, <1>5, HostTypes
  <2>6. disposers' \subseteq [by : Callers, record : Records, idle : BOOLEAN]
    BY <1>5, <1>9
  <2>. QED BY <2>1, <2>2, <2>3, <2>4, <2>5, <2>6, <1>7, HostTypes, HostIsTyped
<1>11. NamesAreRecords'
  <2>1. sessionMap'[Current] = cr
    BY <1>1, <1>3, HostTypes
  <2>2. \A x \in Sessions : sessionMap'[x] # NoRecord =>
          sessionMap'[x] \in DOMAIN hosted' /\ hosted'[sessionMap'[x]].session = x
    <3>. TAKE x \in Sessions
    <3>1. CASE x = s
      BY <3>1, <1>1, <1>4, <1>7, HostTypes
    <3>2. CASE x # s
      <4>1. sessionMap'[x] = sessionMap[x]
        BY <3>2, <1>1, HostTypes
      <4>2. sessionMap[x] # NoRecord =>
              sessionMap[x] \in DOMAIN hosted /\ hosted[sessionMap[x]].session = x
        BY DEF HostInv, NamesAreRecords
      <4>. QED BY <4>1, <4>2, <1>1, <1>7
    <3>. QED BY <3>1, <3>2
  <2>. QED BY <2>1, <2>2, <1>1, <1>3, <1>5, <1>7, <1>8, <1>9 DEF NamesAreRecords
<1>12. OneOwnerEach'
  <2>1. ASSUME NEW r \in DOMAIN hosted' PROVE hosted'[r].owns <=> journalLock'[hosted'[r].session] = r
    <3>1. CASE r = next
      BY <3>1, <1>1, <1>4, <1>7, HostTypes
    <3>2. CASE r # next /\ hosted[r].session = s
      BY <3>2, <1>1, <1>7, HostTypes
    <3>3. CASE r # next /\ hosted[r].session # s
      BY <3>3, <1>1, <1>7, HostTypes DEF HostInv, OneOwnerEach, HostRecord
    <3>. QED BY <3>1, <3>2, <3>3
  <2>. QED BY <2>1 DEF HostInv, OneOwnerEach
<1>13. TransitionIsApart'
  BY <1>1, <1>2, <1>4, <1>5, <1>7, <1>8, HostTypes DEF TransitionIsApart, Changing
<1>14. HostIsServed'
  <2>1. CASE by = "change"
    <3>1. Untouched(next)'
      <4>1. gone = cr /\ gone # next /\ next \in DOMAIN hosted'
        BY <2>1, <1>1, <1>3, <1>5, <1>7
      <4>2. hosted'[next].owns = TRUE /\ hosted'[next].disposal = "none"
            /\ hosted'[next].artifacts = "open"
        BY <4>1, <1>1, <1>4, <1>7
      <4>3. \A d \in disposers' : d.record # next
        BY <4>1, <1>5, <1>9
      <4>. QED BY <4>2, <4>3 DEF Untouched
    <3>. QED BY <2>1, <3>1, <1>1, <1>2, <1>5, <1>7, <1>9 DEF HostIsServed, Changing
  <2>2. CASE by = "rollback"
    <3>1. Untouched(cr)'
      BY <2>2, <1>1, <1>2, <1>3, <1>5, <1>7, <1>9 DEF Untouched
    <3>. QED BY <2>2, <3>1, <1>1, <1>2, <1>3, <1>5, <1>7, <1>9 DEF HostIsServed, Changing
  <2>. QED BY <2>1, <2>2
<1>15. RunIsHosted'
  BY <1>1, <1>2, <1>3, <1>5, <1>9 DEF RunIsHosted, Returned
<1>16. NothingIsHeld'
  BY <1>1, <1>2, HostTypes DEF HostInv, NothingIsHeld
<1>. QED BY <1>10, <1>11, <1>12, <1>13, <1>14, <1>15, <1>16 DEF HostInv

\* A session is created and becomes a candidate.
LEMMA NewSessionKeeps ==
  ASSUME HostInv, NEW s \in Sessions, NEW forked \in BOOLEAN, NewSession(s, forked)
  PROVE  HostInv'
<1>1. s # Current
  BY CurrentIs, HostTypes DEF NewSession, HostInv
<1>. QED BY <1>1, CandidateKeeps DEF NewSession

\* A stored session is opened and becomes a candidate.
LEMMA ResumeKeeps == ASSUME HostInv, NEW s \in Sessions, Resume(s) PROVE HostInv'
<1>1. s \notin deleted
  BY DEF Resume, HostInv, NothingIsHeld
<1>. QED BY <1>1, CandidateKeeps DEF Resume

-----------------------------------------------------------------------------
\* What a disposal that begins says of the records, in the form the steps use.
LEMMA DisposalBegins ==
  ASSUME HostInv, NEW r \in DOMAIN hosted, NEW idle, hosted' = Disposed(hosted, r, idle)
  PROVE  /\ hosted' \in Seq(HostRecord) /\ Len(hosted') = Len(hosted)
         /\ Len(hosted') <= MaxHostRecords /\ DOMAIN hosted' = DOMAIN hosted
         /\ \A x \in DOMAIN hosted : /\ hosted'[x].session = hosted[x].session
                                     /\ hosted'[x].owns = hosted[x].owns
                                     /\ hosted'[x].artifacts = hosted[x].artifacts
                                     /\ x # r => hosted'[x].disposal = hosted[x].disposal
<1>1. hosted \in Seq(HostRecord) /\ Len(hosted) <= MaxHostRecords
  BY HostTypes DEF HostInv, HostTypeOK
<1>2. DisposedOnly(hosted, r, hosted')
  BY <1>1, DisposedIs
<1>. QED BY <1>1, <1>2 DEF DisposedOnly

\* The deletion of another session begins with its disposal.
LEMMA DeleteHostedKeeps == ASSUME HostInv, NEW s \in Sessions, DeleteHosted(s) PROVE HostInv'
<1>. USE HostedAssumption
<1>. HostTypeOK
  BY DEF HostInv
<1>0. PICK cr, mine : /\ cr = conversation.record
                      /\ mine = {r \in DOMAIN hosted : hosted[r].session = s}
  OBVIOUS
<1>1. /\ disposers = {} /\ activeRecord = cr /\ parked = [x \in Sessions |-> <<>>]
      /\ ~conversation.running /\ ~Stopping /\ conversation.closing = "no"
      /\ conversation.mcp /\ Untouched(cr)
      /\ \A r \in DOMAIN hosted : hosted[r].owns => r = cr
  BY <1>0, BeforeTransition DEF DeleteHosted
<1>2. /\ hosted' = [r \in DOMAIN hosted |-> IF r \in mine THEN Disposed(hosted, r, FALSE)[r]
                                            ELSE hosted[r]]
      /\ disposers' = {Disposer("delete", r, FALSE) : r \in mine}
      /\ transition' = [kind |-> "delete", next |-> NoRecord, session |-> s]
      /\ UNCHANGED <<sessionMap, parked, activeRecord, journalLock, saved,
                     conversation, deleted>>
      /\ s # Current
  BY <1>0, <1>1 DEF DeleteHosted
<1>3. /\ cr \in DOMAIN hosted /\ cr \notin mine /\ hosted[cr].session = Current
  BY <1>0, <1>2, CurrentIs
<1>4. ASSUME NEW r \in mine
      PROVE  LET x == Disposed(hosted, r, FALSE)[r]
             IN  /\ x \in HostRecord /\ x.session = hosted[r].session
                 /\ x.owns = hosted[r].owns /\ x.artifacts = hosted[r].artifacts
  <2>1. hosted \in Seq(HostRecord) /\ r \in DOMAIN hosted
    BY <1>0, HostTypes
  <2>2. PICK D : D = Disposed(hosted, r, FALSE)
    OBVIOUS
  <2>3. /\ D \in Seq(HostRecord) /\ DOMAIN D = DOMAIN hosted
        /\ D[r].session = hosted[r].session /\ D[r].owns = hosted[r].owns
        /\ D[r].artifacts = hosted[r].artifacts
    <3>1. /\ D \in Seq(HostRecord) /\ DOMAIN D = DOMAIN hosted
          /\ \A x \in DOMAIN hosted : /\ D[x].session = hosted[x].session
                                      /\ D[x].owns = hosted[x].owns
                                      /\ D[x].artifacts = hosted[x].artifacts
      <4>1. DisposedOnly(hosted, r, D)
        BY <2>1, <2>2, DisposedIs
      <4>. QED BY <4>1 DEF DisposedOnly
    <3>. QED BY <2>1, <3>1
  <2>4. D[r] \in HostRecord
    BY <2>1, <2>3
  <2>. QED BY <2>2, <2>3, <2>4
<1>5. /\ hosted' \in Seq(HostRecord) /\ Len(hosted') = Len(hosted)
      /\ Len(hosted') <= MaxHostRecords /\ DOMAIN hosted' = DOMAIN hosted
      /\ \A x \in DOMAIN hosted : /\ hosted'[x].session = hosted[x].session
                                  /\ hosted'[x].owns = hosted[x].owns
                                  /\ hosted'[x].artifacts = hosted[x].artifacts
                                  /\ x \notin mine => hosted'[x].disposal = hosted[x].disposal
  <2>1. hosted' \in [1..Len(hosted) -> HostRecord]
    BY <1>2, <1>4, HostTypes
  <2>2. hosted' \in Seq(HostRecord) /\ Len(hosted') = Len(hosted) /\ DOMAIN hosted' = DOMAIN hosted
    BY <2>1, HostTypes, RecordsAreSeq
  <2>3. Len(hosted') <= MaxHostRecords
    BY <2>2 DEF HostTypeOK
  <2>. QED BY <1>2, <1>4, <2>2, <2>3
<1>6. \A d \in disposers' : /\ d \in [by : Callers, record : Records, idle : BOOLEAN]
                            /\ d.by = "delete" /\ d.record \in mine
  <2>1. ASSUME NEW r \in mine
        PROVE  /\ Disposer("delete", r, FALSE) \in [by : Callers, record : Records, idle : BOOLEAN]
               /\ Disposer("delete", r, FALSE).by = "delete"
               /\ Disposer("delete", r, FALSE).record = r
    BY <1>0, HostTypes DEF Disposer, Callers
  <2>. TAKE d \in disposers'
  <2>2. PICK r \in mine : d = Disposer("delete", r, FALSE)
    BY <1>2
  <2>. QED BY <2>1, <2>2
<1>7. Current' = Current
  BY <1>2, <1>5, CurrentIs DEF Current
<1>8. HostTypeOK'
  <2>1. transition' \in TransitionShape
    BY <1>2 DEF TransitionShape
  <2>. QED BY <2>1, <1>2, <1>5, <1>6, HostTypes, HostIsTyped DEF HostTypeOK
<1>9. NamesAreRecords'
  BY <1>0, <1>2, <1>5, <1>6, <1>7 DEF HostInv, NamesAreRecords
<1>10. OneOwnerEach'
  <2>1. \A r \in DOMAIN hosted : hosted[r].owns <=> journalLock[hosted[r].session] = r
    BY DEF HostInv, OneOwnerEach
  <2>2. \A r \in DOMAIN hosted' : hosted'[r].owns <=> journalLock'[hosted'[r].session] = r
    <3>. TAKE r \in DOMAIN hosted'
    <3>1. r \in DOMAIN hosted /\ hosted'[r].session = hosted[r].session
          /\ hosted'[r].owns = hosted[r].owns
      BY <1>5
    <3>. QED BY <3>1, <1>2, <2>1
  <2>. QED BY <1>2, <2>2 DEF HostInv, OneOwnerEach
<1>11. TransitionIsApart'
  BY <1>0, <1>1, <1>2, <1>5, <1>7 DEF TransitionIsApart, Changing
<1>12. HostIsServed'
  <2>1. Untouched(cr)'
    BY <1>1, <1>3, <1>5, <1>6 DEF Untouched
  <2>. QED BY <2>1, <1>0, <1>1, <1>2, <1>5, <1>6 DEF HostIsServed, Changing
<1>13. RunIsHosted'
  BY <1>0, <1>1, <1>2, <1>3, <1>6 DEF RunIsHosted
<1>14. NothingIsHeld'
  BY <1>1, <1>2 DEF HostInv, NothingIsHeld
<1>. QED BY <1>8, <1>9, <1>10, <1>11, <1>12, <1>13, <1>14 DEF HostInv

\* A new Agent is bound to the record of the current session.
LEMMA HostReconfigureKeeps == ASSUME HostInv, HostReconfigure PROVE HostInv'
<1>. USE HostedAssumption
<1>. HostTypeOK
  BY DEF HostInv
<1>1. /\ ~Changing /\ ~conversation.running
      /\ conversation' = [conversation EXCEPT !.record = sessionMap[Current]]
      /\ activeRecord' = sessionMap[Current] /\ parked' = Parked(sessionMap[Current])
      /\ UNCHANGED <<hosted, sessionMap, journalLock, saved, transition, disposers, deleted>>
  BY DEF HostReconfigure, Busy
<1>2. /\ conversation' = conversation /\ activeRecord' = conversation.record
      /\ parked' = Parked(conversation.record)
  BY <1>1, CurrentIs, HostTypes DEF ConversationShape
<1>3. Current' = Current
  BY <1>1, <1>2 DEF Current
<1>4. /\ parked' \in [Sessions -> Seq(Records)]
      /\ ~Stopping => parked' = parked
  <2>1. CASE activeRecord = conversation.record
    BY <2>1, <1>2, HostTypes DEF Parked
  <2>2. CASE activeRecord # conversation.record
    <3>1. ~(~Stopping)
      BY <2>2, <1>1 DEF HostInv, HostIsServed
    <3>2. activeRecord \in Records
      BY HostTypes DEF HostInv, NamesAreRecords
    <3>3. parked' = [parked EXCEPT ![hosted[activeRecord].session] = Append(@, activeRecord)]
      BY <2>2, <1>2 DEF Parked
    <3>4. parked \in [Sessions -> Seq(Records)]
      BY HostTypes
    <3>5. parked' \in [Sessions -> Seq(Records)]
      <4>. \A q \in Seq(Records) : Append(q, activeRecord) \in Seq(Records)
        BY <3>2
      <4>. QED BY <3>3, <3>4
    <3>. QED BY <3>1, <3>5
  <2>. QED BY <2>1, <2>2
<1>5. HostTypeOK'
  BY <1>1, <1>2, <1>4, CurrentIs, HostTypes, HostIsTyped DEF HostTypeOK
<1>6. NamesAreRecords' /\ OneOwnerEach'
  BY <1>1, <1>2, <1>3, CurrentIs DEF HostInv, NamesAreRecords, OneOwnerEach
<1>7. TransitionIsApart'
  BY <1>1, <1>2, <1>3 DEF HostInv, TransitionIsApart, Changing
<1>8. HostIsServed'
  BY <1>1, <1>2, <1>4 DEF HostInv, HostIsServed, Stopping, Changing, Untouched
<1>9. RunIsHosted' /\ NothingIsHeld'
  BY <1>1, <1>2 DEF HostInv, RunIsHosted, NothingIsHeld
<1>. QED BY <1>5, <1>6, <1>7, <1>8, <1>9 DEF HostInv

\* The runtime stopped during a change: its candidate is disposed of as well.
LEMMA ChangeIsStoppedKeeps == ASSUME HostInv, ChangeIsStopped PROVE HostInv'
<1>. USE HostedAssumption
<1>. HostTypeOK
  BY DEF HostInv
<1>1. PICK next, s : next = transition.next /\ s = transition.session
  OBVIOUS
<1>2. /\ s \in Sessions /\ s # Current /\ next \in DOMAIN hosted /\ hosted[next].session = s
      /\ sessionMap[s] = next /\ ~conversation.running /\ Stopping
      /\ parked = [x \in Sessions |-> <<>>]
  BY <1>1 DEF HostInv, TransitionIsApart, ChangeIsStopped, Changing
<1>3. next # conversation.record
  BY <1>2, CurrentIs
<1>4. ToDispose(parked[s], sessionMap, s) = next
  BY <1>2 DEF ToDispose
<1>5. /\ hosted' = Disposed(hosted, next, FALSE)
      /\ disposers' = disposers \cup {Disposer("stopped", next, FALSE)}
      /\ transition' = NoTransition /\ parked' = parked
      /\ UNCHANGED <<sessionMap, activeRecord, journalLock, saved, conversation, deleted>>
  BY <1>1, <1>2, <1>4 DEF ChangeIsStopped
<1>6. /\ hosted' \in Seq(HostRecord) /\ Len(hosted') = Len(hosted)
      /\ Len(hosted') <= MaxHostRecords /\ DOMAIN hosted' = DOMAIN hosted
      /\ \A x \in DOMAIN hosted : /\ hosted'[x].session = hosted[x].session
                                  /\ hosted'[x].owns = hosted[x].owns
                                  /\ hosted'[x].artifacts = hosted[x].artifacts
                                  /\ x # next => hosted'[x].disposal = hosted[x].disposal
  BY <1>2, <1>5, DisposalBegins
<1>7. /\ Disposer("stopped", next, FALSE) \in [by : Callers, record : Records, idle : BOOLEAN]
      /\ Disposer("stopped", next, FALSE).by = "stopped"
      /\ Disposer("stopped", next, FALSE).record = next
  BY <1>2, HostTypes DEF Disposer, Callers
<1>8. Current' = Current
  BY <1>5, <1>6, CurrentIs DEF Current
<1>9. HostTypeOK'
  <2>1. transition' \in TransitionShape
    BY <1>5 DEF TransitionShape, NoTransition
  <2>2. disposers' \subseteq [by : Callers, record : Records, idle : BOOLEAN]
    BY <1>5, <1>7, HostTypes
  <2>. QED BY <2>1, <2>2, <1>5, <1>6, HostTypes, HostIsTyped DEF HostTypeOK
<1>10. NamesAreRecords'
  BY <1>2, <1>5, <1>6, <1>7, <1>8 DEF HostInv, NamesAreRecords
<1>11. OneOwnerEach'
  BY <1>5, <1>6 DEF HostInv, OneOwnerEach
<1>12. TransitionIsApart'
  BY <1>5 DEF TransitionIsApart, Changing, NoTransition
<1>13. HostIsServed'
  BY <1>2, <1>5 DEF HostIsServed, Stopping
<1>14. RunIsHosted'
  BY <1>2, <1>3, <1>5, <1>7 DEF HostInv, RunIsHosted
<1>15. NothingIsHeld'
  BY <1>5, <1>6 DEF HostInv, NothingIsHeld
<1>. QED BY <1>9, <1>10, <1>11, <1>12, <1>13, <1>14, <1>15 DEF HostInv

\* The runtime closes: every record of the host is disposed of.
LEMMA CloseRuntimeKeeps == ASSUME HostInv, CloseRuntime PROVE HostInv'
<1>. USE HostedAssumption
<1>. HostTypeOK
  BY DEF HostInv
<1>1. PICK cr : cr = conversation.record
  OBVIOUS
<1>2. /\ ~Stopping /\ conversation.closing = "no" /\ parked = [x \in Sessions |-> <<>>]
      /\ cr \in DOMAIN hosted /\ Current \in Sessions /\ sessionMap[Current] = cr
  BY <1>1, CurrentIs DEF HostInv, HostIsServed, CloseRuntime, Stopping
<1>3. ToDispose(parked[Current], sessionMap, Current) = cr
  BY <1>2 DEF ToDispose
<1>4. /\ hosted' = Disposed(hosted, cr, TRUE)
      /\ disposers' = disposers \cup {Disposer("close", cr, TRUE)}
      /\ parked' = parked
      /\ conversation' = [conversation EXCEPT !.closing = "runtime"]
      /\ UNCHANGED <<sessionMap, activeRecord, journalLock, saved, transition, deleted>>
  BY <1>2, <1>3 DEF CloseRuntime
<1>5. /\ hosted' \in Seq(HostRecord) /\ Len(hosted') = Len(hosted)
      /\ Len(hosted') <= MaxHostRecords /\ DOMAIN hosted' = DOMAIN hosted
      /\ \A x \in DOMAIN hosted : /\ hosted'[x].session = hosted[x].session
                                  /\ hosted'[x].owns = hosted[x].owns
                                  /\ hosted'[x].artifacts = hosted[x].artifacts
                                  /\ x # cr => hosted'[x].disposal = hosted[x].disposal
  BY <1>2, <1>4, DisposalBegins
<1>6. /\ conversation' \in ConversationShape /\ conversation'.closing = "runtime"
      /\ conversation'.record = conversation.record /\ conversation'.mcp = conversation.mcp
      /\ conversation'.running = conversation.running
  BY <1>4, HostTypes DEF ConversationShape
<1>7. /\ Disposer("close", cr, TRUE) \in [by : Callers, record : Records, idle : BOOLEAN]
      /\ Disposer("close", cr, TRUE).by = "close" /\ Disposer("close", cr, TRUE).idle = TRUE
      /\ Disposer("close", cr, TRUE).record = cr
  BY <1>2, HostTypes DEF Disposer, Callers
<1>8. Current' = Current
  BY <1>5, <1>6, CurrentIs DEF Current
<1>9. HostTypeOK'
  <2>1. disposers' \subseteq [by : Callers, record : Records, idle : BOOLEAN]
    BY <1>4, <1>7, HostTypes
  <2>. QED BY <2>1, <1>4, <1>5, <1>6, HostTypes, HostIsTyped DEF HostTypeOK
<1>10. NamesAreRecords'
  <2>1. \A d \in disposers' : d.record \in DOMAIN hosted'
    BY <1>2, <1>4, <1>5, <1>7 DEF HostInv, NamesAreRecords
  <2>2. \A s \in Sessions : sessionMap'[s] # NoRecord =>
          sessionMap'[s] \in DOMAIN hosted' /\ hosted'[sessionMap'[s]].session = s
    BY <1>4, <1>5 DEF HostInv, NamesAreRecords
  <2>. QED BY <2>1, <2>2, <1>2, <1>4, <1>5, <1>6, <1>8 DEF HostInv, NamesAreRecords
<1>11. OneOwnerEach'
  BY <1>4, <1>5 DEF HostInv, OneOwnerEach
<1>12. TransitionIsApart'
  BY <1>4, <1>5, <1>6, <1>8 DEF HostInv, TransitionIsApart, Changing
<1>13. HostIsServed'
  BY <1>6 DEF HostIsServed, Stopping
<1>14. RunIsHosted'
  <2>1. ~Returned("close")'
    BY <1>4, <1>7 DEF Returned
  <2>2. \A d \in disposers' : d.record = cr \/ d.by = "close" => d.idle
    BY <1>1, <1>4, <1>7 DEF HostInv, RunIsHosted
  <2>3. conversation.running => /\ hosted'[cr].owns /\ hosted'[cr].artifacts = "open"
    BY <1>1, <1>2, <1>5 DEF HostInv, RunIsHosted
  <2>. QED BY <2>1, <2>2, <2>3, <1>1, <1>2, <1>6 DEF HostInv, RunIsHosted
<1>15. NothingIsHeld'
  BY <1>4, <1>5, <1>6 DEF HostInv, NothingIsHeld
<1>. QED BY <1>9, <1>10, <1>11, <1>12, <1>13, <1>14, <1>15 DEF HostInv

\* A deletion ends: the session is no longer stored, unless another process has it.
LEMMA DeleteEndsKeeps == ASSUME HostInv, DeleteEnds PROVE HostInv'
<1>. USE HostedAssumption
<1>. HostTypeOK
  BY DEF HostInv
<1>1. PICK s : s = transition.session
  OBVIOUS
<1>2. /\ transition.kind = "delete" /\ Returned("delete") /\ transition' = NoTransition
      /\ UNCHANGED <<hosted, journalLock, conversation, disposers>>
      /\ s \in Sessions /\ s # Current /\ activeRecord = conversation.record
  BY <1>1 DEF HostInv, TransitionIsApart, DeleteEnds
<1>3. /\ activeRecord' = activeRecord
      /\ \/ /\ s \in saved /\ journalLock[s] = NoRecord
            /\ saved' = saved \ {s} /\ deleted' = deleted \cup {s}
            /\ sessionMap' = [sessionMap EXCEPT ![s] = NoRecord]
            /\ parked' = [parked EXCEPT ![s] = <<>>]
         \/ UNCHANGED <<saved, deleted, sessionMap, parked>>
  BY <1>1, <1>2, CurrentIs DEF DeleteEnds
<1>4. Current' = Current
  BY <1>2 DEF Current
<1>5. /\ sessionMap' \in [Sessions -> Records \cup {NoRecord}]
      /\ parked' \in [Sessions -> Seq(Records)]
      /\ ~Stopping => parked' = parked
      /\ sessionMap'[Current] = sessionMap[Current]
      /\ \A x \in Sessions : sessionMap'[x] \in {sessionMap[x], NoRecord}
      /\ saved' \subseteq Sessions /\ deleted' \subseteq Sessions
  <2>1. CASE UNCHANGED <<saved, deleted, sessionMap, parked>>
    BY <2>1, HostTypes
  <2>2. CASE /\ saved' = saved \ {s} /\ deleted' = deleted \cup {s}
             /\ sessionMap' = [sessionMap EXCEPT ![s] = NoRecord]
             /\ parked' = [parked EXCEPT ![s] = <<>>]
    <3>1. <<>> \in Seq(Records)
      OBVIOUS
    <3>2. ~Stopping => parked' = parked
      BY <2>2, <1>2 DEF HostInv, HostIsServed
    <3>. QED BY <2>2, <3>1, <3>2, <1>2, CurrentIs, HostTypes
  <2>. QED BY <1>3, <2>1, <2>2
<1>6. HostTypeOK'
  <2>1. transition' \in TransitionShape
    BY <1>2 DEF TransitionShape, NoTransition
  <2>. QED BY <2>1, <1>2, <1>3, <1>5, HostTypes, HostIsTyped DEF HostTypeOK
<1>7. NamesAreRecords'
  BY <1>2, <1>3, <1>4, <1>5 DEF HostInv, NamesAreRecords
<1>8. OneOwnerEach'
  BY <1>2, <1>3 DEF HostInv, OneOwnerEach
<1>9. TransitionIsApart'
  BY <1>2 DEF TransitionIsApart, Changing, NoTransition
<1>10. HostIsServed'
  <2>. SUFFICES ASSUME ~Stopping PROVE HostIsServed'
    BY <1>2 DEF HostIsServed, Stopping
  <2>1. disposers = {}
    BY <1>2 DEF HostInv, HostIsServed, Returned
  <2>. QED BY <2>1, <1>2, <1>3, <1>5
            DEF HostInv, HostIsServed, Changing, Untouched, NoTransition
<1>11. RunIsHosted'
  BY <1>2 DEF HostInv, RunIsHosted, Returned
<1>12. NothingIsHeld'
  BY <1>2, <1>3 DEF HostInv, NothingIsHeld
<1>. QED BY <1>6, <1>7, <1>8, <1>9, <1>10, <1>11, <1>12 DEF HostInv

\* Every step of a host keeps the invariant.
LEMMA HostStep == HostInv /\ [HostNext]_hostVars => HostInv'
<1>. SUFFICES ASSUME HostInv, [HostNext]_hostVars PROVE HostInv'
  OBVIOUS
<1>1. CASE UNCHANGED hostVars
  BY <1>1 DEF hostVars, HostInv, HostTypeOK, NamesAreRecords, OneOwnerEach,
     TransitionIsApart,
     HostIsServed, RunIsHosted, NothingIsHeld, Current, Changing, Stopping, Untouched, Returned
<1>2. ASSUME NEW s \in Sessions,
             \/ \E forked \in BOOLEAN : NewSession(s, forked)
             \/ Resume(s) \/ DeleteHosted(s) \/ OpenedElsewhere(s)
      PROVE  HostInv'
  BY <1>2, NewSessionKeeps, ResumeKeeps, DeleteHostedKeeps, OpenedElsewhereKeeps
<1>3. CASE HostReconfigure \/ StartHostedRun \/ HostedRunSettles \/ CloseRuntime
  BY <1>3, HostReconfigureKeeps, StartHostedRunKeeps, HostedRunSettlesKeeps,
     CloseRuntimeKeeps
<1>4. CASE HostSettles
  <2>1. CASE \E r \in Records : DisposalSettles(r)
    BY <2>1, DisposalSettlesKeeps
  <2>2. CASE \E d \in disposers : DisposerReturns(d)
    BY <2>2, DisposerReturnsKeeps
  <2>3. CASE AdoptSession \/ ChangeIsStopped \/ RollbackEnds \/ DeleteEnds
    BY <2>3, AdoptSessionKeeps, ChangeIsStoppedKeeps, RollbackEndsKeeps, DeleteEndsKeeps
  <2>4. CASE CloseHost \/ RegistryReleases \/ HostCloses
    BY <2>4, CloseHostKeeps, RegistryReleasesKeeps, HostClosesKeeps
  <2>. QED BY <1>4, <2>1, <2>2, <2>3, <2>4 DEF HostSettles
<1>. QED BY <1>1, <1>2, <1>3, <1>4 DEF HostNext

\* Whatever is opened, forked, resumed, deleted, reconfigured or closed, and
\* whichever disposals and candidates fail: a journal has one record that owns it, a
\* run keeps its session until it has settled, the current session is usable, and no
\* other stays locked (hosted-session-registry.ts, host.ts, runtime.ts).
THEOREM HostSafe == HostSpec => []HostIsSafe
<1>1. HostInv => HostIsSafe
  <2>. SUFFICES ASSUME HostInv PROVE HostIsSafe
    OBVIOUS
  <2>1. RunKeepsItsSession
    BY DEF HostInv, RunIsHosted, RunKeepsItsSession
  <2>2. CurrentIsUsable
    BY CurrentIs DEF HostInv, HostIsServed, CurrentIsUsable, Untouched, Changing
  <2>3. NothingStaysLocked
    <3>1. ASSUME transition.kind = "none", ~Stopping PROVE disposers = {}
      BY <3>1, HostTypes DEF HostInv, HostIsServed, Callers
    <3>. QED BY <3>1 DEF HostInv, HostIsServed, NothingIsHeld, NothingStaysLocked, Changing
  <2>. QED BY <2>1, <2>2, <2>3 DEF HostInv, HostIsSafe
<1>. QED BY <1>1, HostInitially, HostStep, PTL DEF HostSpec

-----------------------------------------------------------------------------
(* Headless runs. *)

\* Where an execution is tells what it is connected to and has begun.
ExecIsInOrder ==
  /\ exec.connected <=> exec.pc \in {"running", "await"}
  /\ exec.timer => exec.connected
  /\ exec.result => exec.pc \in {"closing", "done"}
  /\ exec.pc = "await" => exec.goal
  /\ exec.pc = "startup" =>
       /\ exec.term = "none" /\ ~exec.abortRequested
       /\ headlessRuns.first = "running" /\ headlessRuns.goal = "none" /\ ~headlessRuns.active
       /\ waiter = [terminal |-> FALSE, resolved |-> FALSE]
       /\ output.started = 0 /\ output.ends = <<>> /\ ~output.failed /\ ~output.completed
       /\ output.outcome = "none"

\* One terminal event is emitted for a run that failed or is complete, unless a
\* write threw, and its status is the one the projector's state gives.
EndsAreEmitted ==
  /\ exec.pc \in {"running", "await"} \/ exec.result => output.started = 1
  /\ output.failed \/ output.completed \/ output.ends = <<>>
  /\ Len(output.ends) <= 1
  /\ output.failed => ~output.completed
  /\ (output.failed \/ output.completed) /\ ~output.writeFailed => Len(output.ends) = 1
  /\ \A i \in DOMAIN output.ends :
       /\ output.failed => output.ends[i].type = "run.failed"
       /\ output.completed => /\ output.ends[i].type = "run.completed"
                              /\ output.ends[i].term = output.term
                              /\ output.ends[i].outcome = output.outcome

\* While the first run goes on nothing is decided; what it was tells what is.
FirstRunDecides ==
  exec.pc = "running" =>
    /\ headlessRuns.active <=> headlessRuns.first = "running"
    /\ headlessRuns.source = IF exec.goal THEN "goal" ELSE "user"
    /\ headlessRuns.first = "running" => ~output.failed /\ ~output.completed
    /\ headlessRuns.first = "rejected" => output.failed /\ headlessRuns.goal # "active"
    /\ headlessRuns.first = "resolved" =>
         IF exec.goal THEN ~output.failed /\ ~output.completed /\ output.outcome # "none"
         ELSE output.completed

\* A goal is complete only when it was waited out, and until then its rounds
\* leave an outcome or a failure.
GoalIsAwaited ==
  /\ ~exec.goal => headlessRuns.goal = "none"
  /\ exec.pc = "await" => ~output.completed /\ (output.failed \/ output.outcome # "none")
  /\ waiter.terminal => headlessRuns.goal # "active"
  /\ waiter.resolved => waiter.terminal
  /\ exec.pc \in {"running", "await"} /\ waiter.resolved => ~headlessRuns.active

ExecShape ==
  [pc : {"startup", "running", "await", "closing", "done"}, goal : BOOLEAN,
   connected : BOOLEAN, timer : BOOLEAN, signaled : BOOLEAN, abortRequested : BOOLEAN,
   term : Terms, exit : {0, 1, NoExit, 124, 130}, result : BOOLEAN]
RunsShape ==
  [active : BOOLEAN, source : {"user", "goal", "job"}, goal : GoalStates,
   rounds : 0..GoalRounds, others : 0..MaxOtherRuns,
   first : {"running", "resolved", "rejected"}]
WaiterShape == [terminal : BOOLEAN, resolved : BOOLEAN]
EndShape == [type : {"run.completed", "run.failed"}, term : Terms,
             outcome : HeadlessReasons \cup {"none"}, goal : GoalStates]
OutputShape ==
  [outcome : HeadlessReasons \cup {"none"}, term : Terms, failed : BOOLEAN,
   completed : BOOLEAN, writeFailed : BOOLEAN, late : BOOLEAN, started : 0..2,
   ends : Seq(EndShape)]

HeadlessShape ==
  exec \in ExecShape /\ headlessRuns \in RunsShape /\ waiter \in WaiterShape
  /\ output \in OutputShape

HeadlessInv ==
  /\ HeadlessShape /\ ExecIsInOrder /\ EndsAreEmitted /\ FirstRunDecides /\ GoalIsAwaited
  /\ ExitIsTruthful /\ CancelledIsAborted /\ ResultIsFinal /\ AbortStopsTheGoal

\* An error leaves the frontend.
LeftByError(x, e) ==
  /\ e \in ExecShape /\ e.pc = "closing" /\ ~e.connected /\ ~e.timer
  /\ e.result = x.result /\ e.goal = x.goal /\ e.term = x.term
  /\ e.abortRequested = x.abortRequested /\ e.signaled = x.signaled

\* Escapes does that.
LEMMA EscapesIs == ASSUME NEW x \in ExecShape PROVE LeftByError(x, Escapes(x))
BY DEF ExecShape, Escapes, LeftByError, NoExit

\* The frontend returns a result with the exit status of its projector.
LeftByReturn(x, e, o, goal) ==
  /\ e \in ExecShape /\ e.pc = "closing" /\ ~e.connected /\ ~e.timer /\ e.result
  /\ e.goal = x.goal /\ e.term = x.term
  /\ e.abortRequested = x.abortRequested /\ e.signaled = x.signaled
  /\ e.exit = ExitCode(o, goal)

\* Returns does that.
LEMMA ReturnsIs ==
  ASSUME NEW x \in ExecShape, NEW o \in OutputShape, NEW goal
  PROVE  LeftByReturn(x, Returns(x, o, goal), o, goal)
<1>1. ExitCode(o, goal) \in {0, 1, NoExit, 124, 130}
  BY DEF ExitCode, NoExit
<1>. HIDE DEF ExitCode
<1>. QED BY <1>1 DEF ExecShape, Returns, LeftByReturn

\* What else an output says stays when a write throws.
SameEvents(o, c) == c.late = o.late /\ c.started = o.started

\* The projector completes the run: only if it has an outcome, and once.
RunIsComplete(o, c, goal, throws) ==
  /\ c \in OutputShape /\ SameEvents(o, c) /\ c.failed = o.failed
  /\ IF o.failed \/ o.completed \/ o.outcome = "none" THEN c = o
     ELSE /\ c.completed /\ c.term = exec.term /\ c.outcome \in HeadlessReasons
          /\ c.outcome = IF exec.term = "none" THEN o.outcome ELSE "aborted"
          /\ IF throws THEN c.writeFailed /\ c.ends = o.ends
             ELSE /\ c.writeFailed = o.writeFailed
                  /\ c.ends = Append(o.ends, [type |-> "run.completed", term |-> c.term,
                                              outcome |-> c.outcome, goal |-> goal])

\* complete() does that.
LEMMA CompleteIs ==
  ASSUME NEW o \in OutputShape, NEW goal \in GoalStates, NEW throws, exec.term \in Terms
  PROVE  RunIsComplete(o, CompleteRun(o, goal, throws), goal, throws)
<1>1. CASE o.failed \/ o.completed \/ o.outcome = "none"
  BY <1>1 DEF CompleteRun, RunIsComplete, SameEvents
<1>2. CASE ~(o.failed \/ o.completed \/ o.outcome = "none")
  <2>1. PICK out : out = IF exec.term = "none" THEN o.outcome ELSE "aborted"
    OBVIOUS
  <2>2. out \in HeadlessReasons
    BY <1>2, <2>1 DEF OutputShape, HeadlessReasons
  <2>3. PICK c : c = [o EXCEPT !.completed = TRUE, !.term = exec.term, !.outcome = out]
    OBVIOUS
  <2>4. /\ c \in OutputShape /\ c.completed = TRUE /\ c.term = exec.term /\ c.outcome = out
        /\ c.failed = o.failed /\ c.late = o.late /\ c.started = o.started /\ c.ends = o.ends
        /\ c.writeFailed = o.writeFailed
    BY <2>2, <2>3 DEF OutputShape
  <2>5. PICK end : end = [type |-> "run.completed", term |-> c.term, outcome |-> c.outcome,
                          goal |-> goal]
    OBVIOUS
  <2>6. end \in EndShape /\ Append(o.ends, end) \in Seq(EndShape)
    <3>1. end \in EndShape
      BY <2>2, <2>4, <2>5 DEF EndShape
    <3>. QED BY <3>1 DEF OutputShape
  <2>7. CompleteRun(o, goal, throws) =
          IF throws THEN [c EXCEPT !.writeFailed = TRUE]
          ELSE [c EXCEPT !.ends = Append(o.ends, end)]
    <3>1. /\ [o EXCEPT !.completed = TRUE, !.term = exec.term,
                       !.outcome = IF exec.term = "none" THEN @ ELSE "aborted"] = c
      BY <2>1, <2>3
    <3>2. [c EXCEPT !.ends = Append(@, end)] = [c EXCEPT !.ends = Append(o.ends, end)]
      BY <2>4 DEF OutputShape
    <3>. QED BY <1>2, <2>5, <3>1, <3>2 DEF CompleteRun, HeadlessWritten
  <2>8. PICK r : r = CompleteRun(o, goal, throws)
    OBVIOUS
  <2>9. CASE throws
    <3>1. r = [c EXCEPT !.writeFailed = TRUE]
      BY <2>7, <2>8, <2>9
    <3>2. /\ r \in OutputShape /\ r.completed = TRUE /\ r.term = exec.term /\ r.outcome = out
          /\ r.failed = o.failed /\ r.late = o.late /\ r.started = o.started /\ r.ends = o.ends
          /\ r.writeFailed = TRUE
      BY <2>4, <3>1 DEF OutputShape
    <3>. QED BY <1>2, <2>1, <2>2, <2>8, <2>9, <3>2 DEF RunIsComplete, SameEvents
  <2>10. CASE ~throws
    <3>1. r = [c EXCEPT !.ends = Append(o.ends, end)]
      BY <2>7, <2>8, <2>10
    <3>2. /\ r \in OutputShape /\ r.completed = TRUE /\ r.term = exec.term /\ r.outcome = out
          /\ r.failed = o.failed /\ r.late = o.late /\ r.started = o.started
          /\ r.ends = Append(o.ends, end) /\ r.writeFailed = o.writeFailed
      BY <2>4, <2>6, <3>1 DEF OutputShape
    <3>3. end = [type |-> "run.completed", term |-> r.term, outcome |-> r.outcome, goal |-> goal]
      BY <2>4, <2>5, <3>2
    <3>. QED BY <1>2, <2>1, <2>2, <2>8, <2>10, <3>2, <3>3 DEF RunIsComplete, SameEvents
  <2>. QED BY <2>9, <2>10
<1>. QED BY <1>1, <1>2

\* The projector reports a failure: once, and not after a complete run.
RunHasFailed(o, c, goal, throws) ==
  /\ c \in OutputShape /\ SameEvents(o, c) /\ c.completed = o.completed
  /\ IF o.failed \/ o.completed THEN c = o
     ELSE /\ c.failed /\ c.outcome = "none" /\ c.term = exec.term
          /\ IF throws THEN c.writeFailed /\ c.ends = o.ends
             ELSE /\ c.writeFailed = o.writeFailed
                  /\ c.ends = Append(o.ends, [type |-> "run.failed", term |-> c.term,
                                              outcome |-> "none", goal |-> goal])

\* fail() does that.
LEMMA FailureIs ==
  ASSUME NEW o \in OutputShape, NEW goal \in GoalStates, NEW throws, exec.term \in Terms
  PROVE  RunHasFailed(o, HeadlessFails(o, goal, throws), goal, throws)
<1>1. CASE o.failed \/ o.completed
  BY <1>1 DEF HeadlessFails, RunHasFailed, SameEvents
<1>2. CASE ~(o.failed \/ o.completed)
  <2>1. PICK c : c = [o EXCEPT !.failed = TRUE, !.outcome = "none", !.term = exec.term]
    OBVIOUS
  <2>2. /\ c \in OutputShape /\ c.failed = TRUE /\ c.term = exec.term /\ c.outcome = "none"
        /\ c.completed = o.completed /\ c.late = o.late /\ c.started = o.started
        /\ c.ends = o.ends /\ c.writeFailed = o.writeFailed
    BY <2>1 DEF OutputShape
  <2>3. PICK end : end = [type |-> "run.failed", term |-> c.term, outcome |-> "none",
                          goal |-> goal]
    OBVIOUS
  <2>4. end \in EndShape /\ Append(o.ends, end) \in Seq(EndShape)
    <3>1. end \in EndShape
      BY <2>2, <2>3 DEF EndShape
    <3>. QED BY <3>1 DEF OutputShape
  <2>5. HeadlessFails(o, goal, throws) =
          IF throws THEN [c EXCEPT !.writeFailed = TRUE]
          ELSE [c EXCEPT !.ends = Append(o.ends, end)]
    <3>1. [c EXCEPT !.ends = Append(@, end)] = [c EXCEPT !.ends = Append(o.ends, end)]
      BY <2>2 DEF OutputShape
    <3>. QED BY <1>2, <2>1, <2>3, <3>1 DEF HeadlessFails, HeadlessWritten
  <2>6. PICK r : r = HeadlessFails(o, goal, throws)
    OBVIOUS
  <2>7. CASE throws
    <3>1. r = [c EXCEPT !.writeFailed = TRUE]
      BY <2>5, <2>6, <2>7
    <3>2. /\ r \in OutputShape /\ r.failed = TRUE /\ r.term = exec.term /\ r.outcome = "none"
          /\ r.completed = o.completed /\ r.late = o.late /\ r.started = o.started
          /\ r.ends = o.ends /\ r.writeFailed = TRUE
      BY <2>2, <3>1 DEF OutputShape
    <3>. QED BY <1>2, <2>6, <2>7, <3>2 DEF RunHasFailed, SameEvents
  <2>8. CASE ~throws
    <3>1. r = [c EXCEPT !.ends = Append(o.ends, end)]
      BY <2>5, <2>6, <2>8
    <3>2. /\ r \in OutputShape /\ r.failed = TRUE /\ r.term = exec.term /\ r.outcome = "none"
          /\ r.completed = o.completed /\ r.late = o.late /\ r.started = o.started
          /\ r.ends = Append(o.ends, end) /\ r.writeFailed = o.writeFailed
      BY <2>2, <2>4, <3>1 DEF OutputShape
    <3>3. end = [type |-> "run.failed", term |-> r.term, outcome |-> "none", goal |-> goal]
      BY <2>2, <2>3, <3>2
    <3>. QED BY <1>2, <2>6, <2>8, <3>2, <3>3 DEF RunHasFailed, SameEvents
  <2>. QED BY <2>7, <2>8
<1>. QED BY <1>1, <1>2

\* A run of the Agent ends: what it says of the outcome, and, without a goal, that
\* it is complete.
OutcomeIsNoted(o, e, reason) ==
  /\ e \in OutputShape /\ SameEvents(o, e) /\ e.failed = o.failed
  /\ e.completed = o.completed /\ e.writeFailed = o.writeFailed /\ e.ends = o.ends
  /\ e.term = exec.term /\ e.outcome \in HeadlessReasons

\* run_end does that: its outcome is noted, and a run without a goal is complete.
LEMMA EndedIs ==
  ASSUME NEW o \in OutputShape, NEW reason \in HeadlessReasons, NEW throws, exec.term \in Terms
  PROVE  \E e : /\ OutcomeIsNoted(o, e, reason)
                /\ IF exec.goal THEN HeadlessEnded(o, reason, throws) = e
                   ELSE RunIsComplete(e, HeadlessEnded(o, reason, throws), "none", throws)
<1>1. PICK out : out = IF exec.term = "none" THEN reason ELSE "aborted"
  OBVIOUS
<1>2. out \in HeadlessReasons
  BY <1>1 DEF HeadlessReasons
<1>3. PICK e : e = [o EXCEPT !.term = exec.term, !.outcome = out]
  OBVIOUS
<1>4. OutcomeIsNoted(o, e, reason)
  BY <1>2, <1>3 DEF OutcomeIsNoted, SameEvents, OutputShape
<1>5. HeadlessEnded(o, reason, throws) = IF exec.goal THEN e ELSE CompleteRun(e, "none", throws)
  BY <1>1, <1>3 DEF HeadlessEnded
<1>6. RunIsComplete(e, CompleteRun(e, "none", throws), "none", throws)
  <2>1. e \in OutputShape /\ "none" \in GoalStates
    BY <1>4 DEF OutcomeIsNoted, GoalStates
  <2>. QED BY <2>1, CompleteIs
<1>. QED BY <1>4, <1>5, <1>6

\* The goal ends in a run, and its waiter waits for that run.
LEMMA GoalStopsIs ==
  ASSUME headlessRuns \in RunsShape, waiter \in WaiterShape, NEW status \in GoalStates,
         NEW running, NEW goal, NEW w, GoalStops(status, running) = <<goal, w>>
  PROVE  /\ goal \in GoalStates /\ w \in WaiterShape
         /\ headlessRuns.goal = "active" =>
              goal = status /\ w.terminal /\ (w.resolved <=> waiter.resolved \/ ~running)
         /\ headlessRuns.goal # "active" => goal = headlessRuns.goal /\ w = waiter
<1>1. CASE headlessRuns.goal = "active"
  <2>1. goal = status /\ w = [terminal |-> TRUE, resolved |-> waiter.resolved \/ ~running]
    BY <1>1 DEF GoalStops, GoalEnds
  <2>2. w \in WaiterShape /\ w.terminal = TRUE /\ w.resolved = (waiter.resolved \/ ~running)
    BY <2>1 DEF WaiterShape
  <2>. QED BY <1>1, <2>1, <2>2
<1>2. CASE headlessRuns.goal # "active"
  BY <1>2 DEF GoalStops, RunsShape
<1>. QED BY <1>1, <1>2

-----------------------------------------------------------------------------

\* The invariant holds before anything is submitted.
LEMMA HeadlessInitially == HeadlessInit => HeadlessInv
<1>. SUFFICES ASSUME HeadlessInit PROVE HeadlessInv
  OBVIOUS
<1>1. /\ exec.pc = "startup" /\ exec.goal \in BOOLEAN /\ exec.connected = FALSE
      /\ exec.timer = FALSE /\ exec.signaled = FALSE /\ exec.abortRequested = FALSE
      /\ exec.term = "none" /\ exec.exit = NoExit /\ exec.result = FALSE
  BY DEF HeadlessInit
<1>2. exec \in ExecShape
  BY DEF HeadlessInit, ExecShape, Terms, NoExit
<1>3. /\ headlessRuns \in RunsShape /\ headlessRuns.active = FALSE
      /\ headlessRuns.goal = "none" /\ headlessRuns.first = "running"
  BY HeadlessAssumption DEF HeadlessInit, RunsShape, GoalStates
<1>4. /\ waiter \in WaiterShape /\ waiter.terminal = FALSE /\ waiter.resolved = FALSE
      /\ waiter = [terminal |-> FALSE, resolved |-> FALSE]
  BY DEF HeadlessInit, WaiterShape
<1>5. /\ output \in OutputShape /\ output.outcome = "none" /\ output.failed = FALSE
      /\ output.completed = FALSE /\ output.started = 0 /\ output.ends = <<>>
  BY DEF HeadlessInit, OutputShape, Terms
<1>6. HeadlessShape /\ ExecIsInOrder
  BY <1>1, <1>2, <1>3, <1>4, <1>5 DEF HeadlessShape, ExecIsInOrder
<1>7. EndsAreEmitted /\ FirstRunDecides /\ GoalIsAwaited
  BY <1>1, <1>3, <1>4, <1>5 DEF EndsAreEmitted, FirstRunDecides, GoalIsAwaited
<1>8. ExitIsTruthful /\ CancelledIsAborted /\ ResultIsFinal /\ AbortStopsTheGoal
  BY <1>1, <1>5 DEF ExitIsTruthful, CancelledIsAborted, ResultIsFinal, AbortStopsTheGoal
<1>. QED BY <1>6, <1>7, <1>8 DEF HeadlessInv

\* The frontend is left by an error: nothing it reported changes.
LEMMA LeavingKeeps ==
  ASSUME HeadlessInv, LeftByError(exec, exec'), exec.result = FALSE,
         UNCHANGED <<headlessRuns, waiter>>, output' \in OutputShape,
         EndsAreEmitted', CancelledIsAborted'
  PROVE  HeadlessInv'
<1>1. HeadlessShape'
  BY DEF HeadlessInv, HeadlessShape, LeftByError
<1>2. ExecIsInOrder' /\ FirstRunDecides' /\ GoalIsAwaited'
  BY DEF HeadlessInv, LeftByError, ExecIsInOrder, FirstRunDecides, GoalIsAwaited
<1>3. ExitIsTruthful' /\ ResultIsFinal' /\ AbortStopsTheGoal'
  BY DEF HeadlessInv, LeftByError, ExitIsTruthful, ResultIsFinal, AbortStopsTheGoal
<1>. QED BY <1>1, <1>2, <1>3 DEF HeadlessInv

\* Startup fails, or was interrupted.
LEMMA StartupFailsKeeps == ASSUME HeadlessInv, StartupFails PROVE HeadlessInv'
<1>1. /\ LeftByError(exec, exec') /\ exec.result = FALSE
      /\ UNCHANGED <<headlessRuns, waiter, output>> /\ exec.pc = "startup"
  BY EscapesIs DEF HeadlessInv, HeadlessShape, ExecIsInOrder, StartupFails, ExecShape
<1>2. EndsAreEmitted' /\ CancelledIsAborted' /\ output' \in OutputShape
  BY <1>1 DEF HeadlessInv, HeadlessShape, EndsAreEmitted, CancelledIsAborted, LeftByError
<1>. QED BY <1>1, <1>2, LeavingKeeps

\* The run is submitted.
LEMMA SubmittedKeeps ==
  ASSUME HeadlessInv, NEW hasTimeout \in BOOLEAN, Submitted(hasTimeout) PROVE HeadlessInv'
<1>. HeadlessShape
  BY DEF HeadlessInv
<1>1. /\ exec.pc = "startup" /\ exec.result = FALSE /\ exec.abortRequested = FALSE
      /\ exec.term = "none" /\ exec.connected = FALSE /\ exec.timer = FALSE
      /\ waiter = [terminal |-> FALSE, resolved |-> FALSE]
      /\ output.started = 0 /\ output.ends = <<>> /\ output.failed = FALSE
      /\ output.completed = FALSE
      /\ headlessRuns.first = "running" /\ headlessRuns.active = FALSE
  BY DEF HeadlessInv, ExecIsInOrder, Submitted, HeadlessShape, ExecShape, OutputShape,
     RunsShape
<1>2. CASE exec' = Escapes(exec) /\ output' = [output EXCEPT !.writeFailed = TRUE]
           /\ UNCHANGED <<headlessRuns, waiter>>
  <2>1. LeftByError(exec, exec')
    BY <1>2, EscapesIs DEF HeadlessShape
  <2>2. /\ output' \in OutputShape /\ output'.ends = <<>> /\ output'.failed = FALSE
        /\ output'.completed = FALSE
    BY <1>1, <1>2 DEF HeadlessShape, OutputShape
  <2>3. EndsAreEmitted' /\ CancelledIsAborted'
    BY <1>1, <2>1, <2>2 DEF EndsAreEmitted, CancelledIsAborted, LeftByError
  <2>. QED BY <1>1, <1>2, <2>1, <2>2, <2>3, LeavingKeeps
<1>3. CASE /\ exec' = [exec EXCEPT !.pc = "running", !.connected = TRUE, !.timer = hasTimeout]
           /\ output' = [output EXCEPT !.started = @ + 1]
           /\ headlessRuns' = [headlessRuns EXCEPT !.active = TRUE,
                                !.source = IF exec.goal THEN "goal" ELSE "user",
                                !.goal = IF exec.goal THEN "active" ELSE "none",
                                !.rounds = IF exec.goal THEN 1 ELSE 0]
           /\ UNCHANGED waiter
  <2>1. /\ exec' \in ExecShape /\ exec'.pc = "running" /\ exec'.connected = TRUE
        /\ exec'.result = FALSE /\ exec'.abortRequested = FALSE /\ exec'.term = "none"
        /\ exec'.goal = exec.goal
    BY <1>1, <1>3 DEF HeadlessShape, ExecShape
  <2>2. /\ output' \in OutputShape /\ output'.started = 1 /\ output'.ends = <<>>
        /\ output'.failed = FALSE /\ output'.completed = FALSE
    BY <1>1, <1>3 DEF HeadlessShape, OutputShape
  <2>3. PICK source, goal, rounds :
          /\ source = (IF exec.goal THEN "goal" ELSE "user")
          /\ goal = (IF exec.goal THEN "active" ELSE "none")
          /\ rounds = (IF exec.goal THEN 1 ELSE 0)
    OBVIOUS
  <2>4. headlessRuns' = [headlessRuns EXCEPT !.active = TRUE, !.source = source,
                                             !.goal = goal, !.rounds = rounds]
    BY <1>3, <2>3
  <2>5. /\ source \in {"user", "goal", "job"} /\ goal \in GoalStates /\ rounds \in 0..GoalRounds
    BY <2>3, HeadlessAssumption DEF GoalStates
  <2>6. /\ headlessRuns' \in RunsShape /\ headlessRuns'.active = TRUE
        /\ headlessRuns'.source = source /\ headlessRuns'.goal = goal
        /\ headlessRuns'.first = "running"
    BY <1>1, <2>4, <2>5 DEF HeadlessShape, RunsShape
  <2>7. HeadlessShape' /\ ExecIsInOrder'
    BY <1>3, <2>1, <2>2, <2>3, <2>6 DEF HeadlessShape, ExecIsInOrder
  <2>8. EndsAreEmitted' /\ FirstRunDecides' /\ GoalIsAwaited'
    BY <1>1, <1>3, <2>1, <2>2, <2>3, <2>6 DEF EndsAreEmitted, FirstRunDecides, GoalIsAwaited
  <2>9. ExitIsTruthful' /\ CancelledIsAborted' /\ ResultIsFinal' /\ AbortStopsTheGoal'
    BY <2>1, <2>2 DEF ExitIsTruthful, CancelledIsAborted, ResultIsFinal, AbortStopsTheGoal
  <2>. QED BY <2>7, <2>8, <2>9 DEF HeadlessInv
<1>. QED BY <1>2, <1>3 DEF Submitted

\* The frontend returns a result: the terminal event says what the status says.
LEMMA ReturningKeeps ==
  ASSUME HeadlessInv, exec.pc \in {"running", "await"},
         LeftByReturn(exec, exec', output', headlessRuns.goal),
         UNCHANGED <<headlessRuns, waiter>>, output' \in OutputShape,
         EndsAreEmitted', CancelledIsAborted',
         output'.failed \/ output'.completed, ~output'.writeFailed,
         output'.completed /\ exec.goal => output'.ends[1].goal = headlessRuns.goal,
         ~headlessRuns.active, headlessRuns.goal # "active"
  PROVE  HeadlessInv'
<1>1. HeadlessShape'
  BY DEF HeadlessInv, HeadlessShape, LeftByReturn
<1>2. ExecIsInOrder' /\ FirstRunDecides' /\ GoalIsAwaited'
  BY DEF HeadlessInv, LeftByReturn, ExecIsInOrder, FirstRunDecides, GoalIsAwaited
<1>3. /\ output'.started = 1 /\ Len(output'.ends) = 1 /\ 1 \in DOMAIN output'.ends
      /\ output'.ends[1] \in EndShape
  BY DEF EndsAreEmitted, LeftByReturn, OutputShape
<1>4. ExitIsTruthful'
  <2>1. exec'.exit = ExitCode(output', headlessRuns.goal) /\ exec'.goal = exec.goal
    BY DEF LeftByReturn
  <2>2. CASE output'.failed
    BY <2>1, <2>2, <1>3 DEF ExitCode, EndsAreEmitted, ExitIsTruthful
  <2>3. CASE ~output'.failed
    <3>1. /\ output'.ends[1].type = "run.completed"
          /\ output'.ends[1].term = output'.term
          /\ output'.ends[1].outcome = output'.outcome
          /\ exec.goal => output'.ends[1].goal = headlessRuns.goal
          /\ output'.term \in Terms
      BY <2>3, <1>3 DEF EndsAreEmitted, OutputShape
    <3>. QED BY <2>1, <2>3, <3>1, <1>3 DEF ExitCode, ExitIsTruthful, Terms
  <2>. QED BY <2>2, <2>3
<1>5. ResultIsFinal' /\ AbortStopsTheGoal'
  BY DEF ResultIsFinal, AbortStopsTheGoal
<1>. QED BY <1>1, <1>2, <1>4, <1>5 DEF HeadlessInv

\* The submission of the first run settles.
LEMMA SubmissionSettlesKeeps ==
  ASSUME HeadlessInv, NEW throws, SubmissionSettles(throws) PROVE HeadlessInv'
<1>1. /\ exec.pc = "running" /\ headlessRuns.first # "running" /\ exec.result = FALSE
      /\ exec \in ExecShape /\ output \in OutputShape /\ headlessRuns \in RunsShape
      /\ UNCHANGED <<headlessRuns, waiter>> /\ exec.term \in Terms
      /\ headlessRuns.goal \in GoalStates /\ headlessRuns.first \in {"resolved", "rejected"}
  BY DEF HeadlessInv, HeadlessShape, ExecIsInOrder, SubmissionSettles, ExecShape, RunsShape
<1>2. ~headlessRuns.active /\ (headlessRuns.first = "rejected" => output.failed)
  BY <1>1 DEF HeadlessInv, FirstRunDecides
<1>3. headlessRuns.first = "rejected" => HeadlessFails(output, headlessRuns.goal, throws) = output
  BY <1>2 DEF HeadlessFails
<1>4. CASE output.writeFailed
  <2>1. LeftByError(exec, exec') /\ UNCHANGED output
    BY <1>1, <1>4, EscapesIs DEF SubmissionSettles
  <2>2. EndsAreEmitted' /\ CancelledIsAborted' /\ output' \in OutputShape
    BY <1>1, <2>1 DEF HeadlessInv, EndsAreEmitted, CancelledIsAborted, LeftByError
  <2>. QED BY <1>1, <2>1, <2>2, LeavingKeeps
<1>5. CASE ~output.writeFailed /\ headlessRuns.first = "resolved" /\ exec.goal
  <2>1. UNCHANGED output /\ exec' = [exec EXCEPT !.pc = "await"]
    BY <1>5 DEF SubmissionSettles
  <2>2. /\ exec' \in ExecShape /\ exec'.pc = "await" /\ exec'.connected = exec.connected
        /\ exec'.timer = exec.timer /\ exec'.result = FALSE /\ exec'.goal = exec.goal
        /\ exec'.abortRequested = exec.abortRequested
    BY <1>1, <2>1 DEF ExecShape
  <2>3. HeadlessShape' /\ ExecIsInOrder' /\ EndsAreEmitted' /\ FirstRunDecides'
    BY <1>1, <1>5, <2>1, <2>2 DEF HeadlessInv, HeadlessShape, ExecIsInOrder, EndsAreEmitted,
       FirstRunDecides
  <2>4. GoalIsAwaited'
    BY <1>1, <1>5, <2>1, <2>2 DEF HeadlessInv, FirstRunDecides, GoalIsAwaited
  <2>5. ExitIsTruthful' /\ CancelledIsAborted' /\ ResultIsFinal' /\ AbortStopsTheGoal'
    BY <1>1, <2>1, <2>2 DEF HeadlessInv, ExitIsTruthful, CancelledIsAborted, ResultIsFinal,
       AbortStopsTheGoal
  <2>. QED BY <2>3, <2>4, <2>5 DEF HeadlessInv
<1>6. CASE ~output.writeFailed /\ ~(headlessRuns.first = "resolved" /\ exec.goal)
  <2>1. UNCHANGED output /\ exec' = Returns(exec, output, headlessRuns.goal)
    BY <1>1, <1>3, <1>6 DEF SubmissionSettles
  <2>2. LeftByReturn(exec, exec', output', headlessRuns.goal)
    <3>1. LeftByReturn(exec, Returns(exec, output, headlessRuns.goal), output, headlessRuns.goal)
      BY <1>1, ReturnsIs
    <3>. QED BY <2>1, <3>1
  <2>3. EndsAreEmitted' /\ CancelledIsAborted' /\ output' \in OutputShape
    BY <1>1, <2>1, <2>2 DEF HeadlessInv, EndsAreEmitted, CancelledIsAborted, LeftByReturn
  <2>4. /\ output'.failed \/ output'.completed
        /\ output'.completed /\ exec.goal => output'.ends[1].goal = headlessRuns.goal
        /\ headlessRuns.goal # "active"
    BY <1>1, <1>2, <1>6, <2>1 DEF HeadlessInv, FirstRunDecides, EndsAreEmitted,
       GoalIsAwaited
  <2>. QED BY <1>1, <1>2, <1>6, <2>1, <2>2, <2>3, <2>4, ReturningKeeps
<1>. QED BY <1>1, <1>4, <1>5, <1>6

\* The projector completes a run: the facts about terminal events stay.
LEMMA CompletingEmits ==
  ASSUME NEW o \in OutputShape, NEW c, NEW goal, NEW throws,
         RunIsComplete(o, c, goal, throws), exec.term \in Terms,
         o.failed \/ o.completed \/ o.ends = <<>>, Len(o.ends) <= 1,
         o.failed => ~o.completed,
         (o.failed \/ o.completed) /\ ~o.writeFailed => Len(o.ends) = 1,
         \A i \in DOMAIN o.ends :
           /\ o.failed => o.ends[i].type = "run.failed"
           /\ o.completed => /\ o.ends[i].type = "run.completed"
                             /\ o.ends[i].term = o.term /\ o.ends[i].outcome = o.outcome,
         \A i \in DOMAIN o.ends :
           o.ends[i].type = "run.completed" /\ o.ends[i].term # "none"
             => o.ends[i].outcome = "aborted"
  PROVE  /\ c.failed \/ c.completed \/ c.ends = <<>>
         /\ Len(c.ends) <= 1 /\ (c.failed => ~c.completed)
         /\ (c.failed \/ c.completed) /\ ~c.writeFailed => Len(c.ends) = 1
         /\ \A i \in DOMAIN c.ends :
              /\ c.failed => c.ends[i].type = "run.failed"
              /\ c.completed => /\ c.ends[i].type = "run.completed"
                                /\ c.ends[i].term = c.term /\ c.ends[i].outcome = c.outcome
         /\ \A i \in DOMAIN c.ends :
              c.ends[i].type = "run.completed" /\ c.ends[i].term # "none"
                => c.ends[i].outcome = "aborted"
<1>1. CASE o.failed \/ o.completed \/ o.outcome = "none"
  BY <1>1 DEF RunIsComplete
<1>2. CASE ~(o.failed \/ o.completed \/ o.outcome = "none")
  <2>1. o.ends = <<>> /\ c.completed /\ ~c.failed
    BY <1>2 DEF RunIsComplete
  <2>2. CASE throws
    <3>1. c.ends = <<>> /\ c.writeFailed
      BY <1>2, <2>1, <2>2 DEF RunIsComplete
    <3>. QED BY <2>1, <3>1
  <2>3. CASE ~throws
    <3>1. PICK end : /\ end = [type |-> "run.completed", term |-> c.term,
                               outcome |-> c.outcome, goal |-> goal]
                     /\ c.ends = Append(<<>>, end)
      BY <1>2, <2>1, <2>3 DEF RunIsComplete
    <3>2. c.ends = <<end>> /\ DOMAIN c.ends = {1} /\ Len(c.ends) = 1 /\ c.ends[1] = end
      BY <3>1
    <3>3. c.term # "none" => c.outcome = "aborted"
      BY <1>2 DEF RunIsComplete
    <3>. QED BY <2>1, <3>1, <3>2, <3>3
  <2>. QED BY <2>2, <2>3
<1>. QED BY <1>1, <1>2

\* The goal has been waited out.
LEMMA GoalAwaitedKeeps ==
  ASSUME HeadlessInv, NEW throws, GoalAwaited(throws) PROVE HeadlessInv'
<1>1. /\ exec.pc = "await" /\ exec.result = FALSE /\ waiter.resolved /\ exec.goal
      /\ exec \in ExecShape /\ output \in OutputShape /\ headlessRuns \in RunsShape
      /\ UNCHANGED <<headlessRuns, waiter>> /\ exec.term \in Terms
      /\ headlessRuns.goal \in GoalStates
  BY DEF HeadlessInv, HeadlessShape, ExecIsInOrder, GoalAwaited, ExecShape, RunsShape
<1>2. /\ ~headlessRuns.active /\ headlessRuns.goal # "active"
      /\ ~output.completed /\ (output.failed \/ output.outcome # "none")
      /\ output.started = 1
  BY <1>1 DEF HeadlessInv, GoalIsAwaited, EndsAreEmitted
<1>3. RunIsComplete(output, output', headlessRuns.goal, throws)
  BY <1>1, CompleteIs DEF GoalAwaited
<1>4. output' \in OutputShape /\ output'.started = 1
  BY <1>2, <1>3 DEF RunIsComplete, SameEvents
<1>5. CASE output'.writeFailed
  <2>1. LeftByError(exec, exec')
    BY <1>1, <1>5, EscapesIs DEF GoalAwaited
  <2>2. EndsAreEmitted' /\ CancelledIsAborted'
    BY <1>1, <1>3, <1>4, CompletingEmits DEF HeadlessInv, EndsAreEmitted, CancelledIsAborted
  <2>. QED BY <1>1, <1>4, <2>1, <2>2, LeavingKeeps
<1>6. CASE ~output'.writeFailed
  <2>1. LeftByReturn(exec, exec', output', headlessRuns.goal)
    BY <1>1, <1>4, <1>6, ReturnsIs DEF GoalAwaited
  <2>2. EndsAreEmitted' /\ CancelledIsAborted'
    BY <1>1, <1>3, <1>4, CompletingEmits DEF HeadlessInv, EndsAreEmitted, CancelledIsAborted
  <2>3. output'.failed \/ output'.completed
    BY <1>2, <1>3 DEF RunIsComplete
  <2>4. output'.completed => output'.ends[1].goal = headlessRuns.goal
    <3>. SUFFICES ASSUME output'.completed PROVE output'.ends[1].goal = headlessRuns.goal
      OBVIOUS
    <3>1. output'.failed = output.failed /\ ~output'.failed
      BY <2>2, <1>3 DEF EndsAreEmitted, RunIsComplete
    <3>2. output.ends = <<>> /\ ~throws
      BY <1>2, <1>3, <1>6, <3>1 DEF HeadlessInv, EndsAreEmitted, RunIsComplete
    <3>3. output'.ends = Append(<<>>, [type |-> "run.completed", term |-> output'.term,
                                       outcome |-> output'.outcome, goal |-> headlessRuns.goal])
      BY <1>2, <1>3, <3>1, <3>2 DEF RunIsComplete
    <3>. QED BY <3>3
  <2>. QED BY <1>1, <1>2, <1>4, <1>6, <2>1, <2>2, <2>3, <2>4, ReturningKeeps
<1>. QED BY <1>5, <1>6

\* An event of the Agent is written.
LEMMA AgentEventKeeps ==
  ASSUME HeadlessInv, NEW throws, AgentEvent(throws) PROVE HeadlessInv'
<1>1. UNCHANGED <<exec, headlessRuns, waiter>> /\ output \in OutputShape
      /\ headlessRuns.active /\ exec.pc \in {"running", "await"}
      /\ exec.result = FALSE
  BY DEF HeadlessInv, HeadlessShape, AgentEvent, ExecIsInOrder, ExecShape
<1>2. PICK late \in BOOLEAN : late = (output.late \/ output.ends # <<>>)
  OBVIOUS
<1>3. output' = IF throws THEN [output EXCEPT !.writeFailed = TRUE]
                ELSE [output EXCEPT !.late = late]
  BY <1>2 DEF AgentEvent, HeadlessWritten
<1>4. /\ output' \in OutputShape /\ output'.ends = output.ends /\ output'.failed = output.failed
      /\ output'.completed = output.completed /\ output'.started = output.started
      /\ output'.term = output.term /\ output'.outcome = output.outcome
      /\ output'.writeFailed \/ output'.writeFailed = output.writeFailed
  BY <1>1, <1>3 DEF OutputShape
<1>5. HeadlessShape' /\ ExecIsInOrder' /\ FirstRunDecides' /\ GoalIsAwaited'
  BY <1>1, <1>4 DEF HeadlessInv, HeadlessShape, ExecIsInOrder, FirstRunDecides,
     GoalIsAwaited
<1>6. EndsAreEmitted' /\ CancelledIsAborted'
  BY <1>1, <1>4 DEF HeadlessInv, EndsAreEmitted, CancelledIsAborted
<1>7. ExitIsTruthful' /\ ResultIsFinal' /\ AbortStopsTheGoal'
  BY <1>1 DEF HeadlessInv, ExitIsTruthful, ResultIsFinal, AbortStopsTheGoal
<1>. QED BY <1>5, <1>6, <1>7 DEF HeadlessInv

\* Runtime and host are closed.
LEMMA ResourcesCloseKeeps == ASSUME HeadlessInv, ResourcesClose PROVE HeadlessInv'
<1>1. /\ UNCHANGED <<waiter, output>> /\ exec \in ExecShape /\ headlessRuns \in RunsShape
      /\ exec.pc = "closing" /\ exec.connected = FALSE /\ exec.timer = FALSE
  BY DEF HeadlessInv, HeadlessShape, ResourcesClose, ExecIsInOrder, ExecShape
<1>2. /\ exec' \in ExecShape /\ exec'.pc = "done" /\ exec'.connected = FALSE
      /\ exec'.timer = FALSE /\ exec'.goal = exec.goal
      /\ exec'.abortRequested = exec.abortRequested
      /\ exec'.result => exec.result /\ exec'.exit = exec.exit
  <2>1. CASE exec' = [exec EXCEPT !.pc = "done"]
    BY <1>1, <2>1 DEF ExecShape
  <2>2. CASE exec' = [exec EXCEPT !.pc = "done", !.exit = 1, !.result = FALSE]
    BY <1>1, <2>2 DEF ExecShape
  <2>. QED BY <2>1, <2>2 DEF ResourcesClose
<1>3. /\ headlessRuns' \in RunsShape /\ headlessRuns'.active = FALSE
      /\ headlessRuns'.goal = headlessRuns.goal
  BY <1>1 DEF ResourcesClose, RunsShape
<1>4. HeadlessShape' /\ ExecIsInOrder' /\ FirstRunDecides' /\ GoalIsAwaited'
  BY <1>1, <1>2, <1>3 DEF HeadlessInv, HeadlessShape, ExecIsInOrder, FirstRunDecides,
     GoalIsAwaited
<1>5. EndsAreEmitted' /\ CancelledIsAborted' /\ ResultIsFinal' /\ AbortStopsTheGoal'
  BY <1>1, <1>2, <1>3 DEF HeadlessInv, EndsAreEmitted, CancelledIsAborted, ResultIsFinal,
     AbortStopsTheGoal
<1>6. ExitIsTruthful'
  BY <1>1, <1>2 DEF HeadlessInv, ExitIsTruthful
<1>. QED BY <1>4, <1>5, <1>6 DEF HeadlessInv
\* An abort is requested while the frontend is connected: the goal stops with it.
LEMMA RequestAbortKeeps ==
  ASSUME HeadlessInv, NEW x \in ExecShape, NEW term \in Terms, exec.connected,
         x.pc = exec.pc, x.goal = exec.goal, x.connected = exec.connected, ~x.timer \/ exec.timer,
         x.abortRequested = exec.abortRequested, x.result = exec.result, x.term = exec.term,
         RequestAbort(x, term), UNCHANGED output
  PROVE  HeadlessInv'
<1>1. /\ exec.pc \in {"running", "await"} /\ exec.result = FALSE /\ headlessRuns \in RunsShape
      /\ waiter \in WaiterShape /\ exec \in ExecShape /\ output \in OutputShape
  BY DEF HeadlessInv, HeadlessShape, ExecIsInOrder, ExecShape
<1>2. CASE x.abortRequested
  <2>1. exec' = x /\ UNCHANGED <<headlessRuns, waiter>>
    BY <1>2 DEF RequestAbort
  <2>2. HeadlessShape' /\ ExecIsInOrder' /\ FirstRunDecides' /\ GoalIsAwaited'
    BY <1>1, <2>1 DEF HeadlessInv, HeadlessShape, ExecIsInOrder, FirstRunDecides,
       GoalIsAwaited
  <2>3. EndsAreEmitted' /\ CancelledIsAborted' /\ ResultIsFinal' /\ AbortStopsTheGoal'
    BY <1>1, <2>1 DEF HeadlessInv, EndsAreEmitted, CancelledIsAborted, ResultIsFinal,
       AbortStopsTheGoal
  <2>4. ExitIsTruthful'
    BY <1>1, <2>1 DEF ExitIsTruthful
  <2>. QED BY <2>2, <2>3, <2>4 DEF HeadlessInv
<1>3. CASE ~x.abortRequested
  <2>1. exec' = [x EXCEPT !.abortRequested = TRUE, !.term = term] /\ AbortRuntime
    BY <1>3 DEF RequestAbort
  <2>2. /\ exec' \in ExecShape /\ exec'.pc = exec.pc /\ exec'.goal = exec.goal
        /\ exec'.connected = exec.connected /\ exec'.timer = x.timer /\ exec'.result = FALSE
    BY <1>1, <2>1 DEF ExecShape
  <2>3. PICK goal, w : GoalStops("cancelled", headlessRuns.active) = <<goal, w>>
    BY DEF GoalStops
  <2>4. headlessRuns' = [headlessRuns EXCEPT !.goal = goal] /\ waiter' = w
    BY <2>1, <2>3 DEF AbortRuntime
  <2>5. /\ goal \in GoalStates /\ w \in WaiterShape
        /\ headlessRuns.goal = "active" =>
             goal = "cancelled" /\ w.terminal
             /\ (w.resolved <=> waiter.resolved \/ ~headlessRuns.active)
        /\ headlessRuns.goal # "active" => goal = headlessRuns.goal /\ w = waiter
    <3>1. "cancelled" \in GoalStates
      BY DEF GoalStates
    <3>. QED BY <1>1, <2>3, <3>1, GoalStopsIs
  <2>6. /\ headlessRuns' \in RunsShape /\ headlessRuns'.goal = goal
        /\ headlessRuns'.active = headlessRuns.active
        /\ headlessRuns'.source = headlessRuns.source
        /\ headlessRuns'.first = headlessRuns.first
    BY <1>1, <2>4, <2>5 DEF RunsShape
  <2>7. goal # "active"
    BY <2>5
  <2>8. HeadlessShape' /\ ExecIsInOrder'
    BY <1>1, <2>2, <2>4, <2>5, <2>6 DEF HeadlessInv, HeadlessShape, ExecIsInOrder
  <2>9. FirstRunDecides'
    BY <1>1, <2>2, <2>6, <2>7 DEF HeadlessInv, FirstRunDecides
  <2>10. GoalIsAwaited'
    BY <1>1, <2>2, <2>4, <2>5, <2>6, <2>7 DEF HeadlessInv, GoalIsAwaited
  <2>11. EndsAreEmitted' /\ CancelledIsAborted'
    BY <1>1, <2>2 DEF HeadlessInv, EndsAreEmitted, CancelledIsAborted
  <2>12. ExitIsTruthful' /\ ResultIsFinal' /\ AbortStopsTheGoal'
    BY <2>2, <2>6, <2>7 DEF ExitIsTruthful, ResultIsFinal, AbortStopsTheGoal
  <2>. QED BY <2>8, <2>9, <2>10, <2>11, <2>12 DEF HeadlessInv
<1>. QED BY <1>2, <1>3

\* SIGINT: an abort if the frontend is connected, else the mark is read later.
LEMMA InterruptKeeps == ASSUME HeadlessInv, Interrupt PROVE HeadlessInv'
<1>1. PICK x : x = [exec EXCEPT !.signaled = TRUE]
  OBVIOUS
<1>2. /\ x \in ExecShape /\ x.pc = exec.pc /\ x.goal = exec.goal
      /\ x.connected = exec.connected /\ x.timer = exec.timer
      /\ x.abortRequested = exec.abortRequested /\ x.result = exec.result
      /\ x.term = exec.term /\ x.exit = exec.exit
  BY <1>1 DEF HeadlessInv, HeadlessShape, ExecShape
<1>3. "sigint" \in Terms
  BY DEF Terms
<1>4. CASE exec.connected
  <2>1. RequestAbort(x, "sigint") /\ UNCHANGED output
    BY <1>1, <1>4 DEF Interrupt
  <2>2. ~x.timer \/ exec.timer
    BY <1>2
  <2>. QED BY <1>2, <1>3, <1>4, <2>1, <2>2, RequestAbortKeeps
<1>5. CASE ~exec.connected
  <2>1. exec' = x /\ UNCHANGED <<headlessRuns, waiter, output>>
    BY <1>1, <1>5 DEF Interrupt
  <2>2. HeadlessShape' /\ ExecIsInOrder' /\ FirstRunDecides' /\ GoalIsAwaited'
    BY <1>2, <2>1 DEF HeadlessInv, HeadlessShape, ExecIsInOrder, FirstRunDecides,
       GoalIsAwaited
  <2>3. EndsAreEmitted' /\ CancelledIsAborted' /\ ResultIsFinal' /\ AbortStopsTheGoal'
    BY <1>2, <2>1 DEF HeadlessInv, EndsAreEmitted, CancelledIsAborted, ResultIsFinal,
       AbortStopsTheGoal
  <2>4. ExitIsTruthful'
    BY <1>2, <2>1 DEF HeadlessInv, ExitIsTruthful
  <2>. QED BY <2>2, <2>3, <2>4 DEF HeadlessInv
<1>. QED BY <1>4, <1>5

\* The deadline elapses.
LEMMA DeadlineElapsesKeeps == ASSUME HeadlessInv, DeadlineElapses PROVE HeadlessInv'
<1>1. PICK x : x = [exec EXCEPT !.timer = FALSE]
  OBVIOUS
<1>2. /\ x \in ExecShape /\ x.pc = exec.pc /\ x.goal = exec.goal
      /\ x.connected = exec.connected /\ x.timer = FALSE
      /\ x.abortRequested = exec.abortRequested /\ x.result = exec.result
      /\ x.term = exec.term
  BY <1>1 DEF HeadlessInv, HeadlessShape, ExecShape
<1>3. /\ "timeout" \in Terms /\ exec.connected /\ ~x.timer
      /\ RequestAbort(x, "timeout") /\ UNCHANGED output
  BY <1>1, <1>2 DEF Terms, DeadlineElapses, HeadlessInv, ExecIsInOrder
<1>. QED BY <1>2, <1>3, RequestAbortKeeps

\* What a change of the runtime keeps when the frontend and its output stay: the
\* goal did not become active again and the first run did not change.
LEMMA RuntimeMovesKeeps ==
  ASSUME HeadlessInv, UNCHANGED <<exec, output>>, exec.connected,
         headlessRuns' \in RunsShape, waiter' \in WaiterShape,
         FirstRunDecides', GoalIsAwaited',
         headlessRuns'.goal = "active" => headlessRuns.goal = "active"
  PROVE  HeadlessInv'
<1>1. /\ exec.pc \in {"running", "await"} /\ exec.result = FALSE
  BY DEF HeadlessInv, HeadlessShape, ExecIsInOrder, ExecShape
<1>2. HeadlessShape' /\ ExecIsInOrder' /\ EndsAreEmitted'
  BY <1>1 DEF HeadlessInv, HeadlessShape, ExecIsInOrder, EndsAreEmitted
<1>3. ExitIsTruthful' /\ CancelledIsAborted' /\ ResultIsFinal' /\ AbortStopsTheGoal'
  BY <1>1 DEF HeadlessInv, ExitIsTruthful, CancelledIsAborted, ResultIsFinal,
     AbortStopsTheGoal
<1>. QED BY <1>2, <1>3 DEF HeadlessInv

\* The next run, or the end of the rounds.
LEMMA RunContinuesKeeps == ASSUME HeadlessInv, RunContinues PROVE HeadlessInv'
<1>1. /\ UNCHANGED <<exec, output>> /\ exec.pc = "await" /\ exec.connected
      /\ ~headlessRuns.active /\ ~waiter.resolved /\ headlessRuns \in RunsShape
      /\ waiter \in WaiterShape /\ exec.goal
  BY DEF HeadlessInv, HeadlessShape, ExecIsInOrder, RunContinues
<1>2. FirstRunDecides'
  BY <1>1 DEF FirstRunDecides
<1>3. CASE /\ headlessRuns.others < MaxOtherRuns
           /\ headlessRuns' = [headlessRuns EXCEPT !.active = TRUE, !.source = "job",
                                                   !.others = @ + 1]
           /\ UNCHANGED waiter
  <2>1. headlessRuns' \in RunsShape /\ headlessRuns'.goal = headlessRuns.goal
    <3>1. PICK n : n = headlessRuns.others + 1
      OBVIOUS
    <3>2. n \in 0..MaxOtherRuns
      BY <1>1, <1>3, <3>1, HeadlessAssumption DEF RunsShape
    <3>3. headlessRuns' = [headlessRuns EXCEPT !.active = TRUE, !.source = "job", !.others = n]
      BY <1>3, <3>1
    <3>. QED BY <1>1, <3>2, <3>3 DEF RunsShape
  <2>2. GoalIsAwaited'
    BY <1>1, <1>3, <2>1 DEF HeadlessInv, GoalIsAwaited
  <2>. QED BY <1>1, <1>2, <1>3, <2>1, <2>2, RuntimeMovesKeeps
<1>4. CASE /\ headlessRuns.goal = "active" /\ headlessRuns.rounds < GoalRounds
           /\ headlessRuns' = [headlessRuns EXCEPT !.active = TRUE, !.source = "goal",
                                                   !.rounds = @ + 1]
           /\ UNCHANGED waiter
  <2>1. headlessRuns' \in RunsShape /\ headlessRuns'.goal = headlessRuns.goal
    <3>1. PICK n : n = headlessRuns.rounds + 1
      OBVIOUS
    <3>2. n \in 0..GoalRounds
      BY <1>1, <1>4, <3>1, HeadlessAssumption DEF RunsShape
    <3>3. headlessRuns' = [headlessRuns EXCEPT !.active = TRUE, !.source = "goal", !.rounds = n]
      BY <1>4, <3>1
    <3>. QED BY <1>1, <3>2, <3>3 DEF RunsShape
  <2>2. GoalIsAwaited'
    BY <1>1, <1>4, <2>1 DEF HeadlessInv, GoalIsAwaited
  <2>. QED BY <1>1, <1>2, <1>4, <2>1, <2>2, RuntimeMovesKeeps
<1>5. CASE /\ headlessRuns.goal = "active" /\ headlessRuns.rounds = GoalRounds
           /\ headlessRuns' = [headlessRuns EXCEPT !.goal = "round_limit"]
           /\ waiter' = GoalEnds(waiter, FALSE)
  <2>1. /\ headlessRuns' \in RunsShape /\ headlessRuns'.goal = "round_limit"
        /\ headlessRuns'.active = headlessRuns.active
    BY <1>1, <1>5 DEF RunsShape, GoalStates
  <2>2. waiter' \in WaiterShape /\ waiter'.terminal = TRUE
    BY <1>1, <1>5 DEF WaiterShape, GoalEnds
  <2>3. GoalIsAwaited'
    BY <1>1, <1>5, <2>1, <2>2 DEF HeadlessInv, GoalIsAwaited
  <2>. QED BY <1>1, <1>2, <2>1, <2>2, <2>3, RuntimeMovesKeeps
<1>. QED BY <1>3, <1>4, <1>5 DEF RunContinues

\* update_goal ends the goal in one of its runs.
LEMMA GoalUpdatedKeeps ==
  ASSUME HeadlessInv, NEW status \in {"completed", "blocked"}, GoalUpdated(status)
  PROVE  HeadlessInv'
<1>1. /\ UNCHANGED <<exec, output>> /\ headlessRuns.active /\ headlessRuns.goal = "active"
      /\ headlessRuns \in RunsShape /\ waiter \in WaiterShape /\ exec \in ExecShape
      /\ exec.goal
  BY DEF HeadlessInv, HeadlessShape, GoalIsAwaited, GoalUpdated
<1>2. /\ headlessRuns' \in RunsShape /\ headlessRuns'.goal = status
      /\ headlessRuns'.active = headlessRuns.active /\ headlessRuns'.first = headlessRuns.first
      /\ headlessRuns'.source = headlessRuns.source
  BY <1>1 DEF GoalUpdated, RunsShape, GoalStates
<1>3. waiter' \in WaiterShape /\ waiter'.terminal = TRUE /\ waiter'.resolved = waiter.resolved
  BY <1>1 DEF GoalUpdated, GoalEnds, WaiterShape
<1>4. FirstRunDecides' /\ GoalIsAwaited'
  BY <1>1, <1>2, <1>3 DEF HeadlessInv, FirstRunDecides, GoalIsAwaited
<1>5. HeadlessShape' /\ ExecIsInOrder' /\ EndsAreEmitted'
  BY <1>1, <1>2, <1>3 DEF HeadlessInv, HeadlessShape, ExecIsInOrder, EndsAreEmitted
<1>6. ExitIsTruthful' /\ CancelledIsAborted' /\ ResultIsFinal' /\ AbortStopsTheGoal'
  BY <1>1, <1>2 DEF HeadlessInv, ExitIsTruthful, CancelledIsAborted, ResultIsFinal,
     AbortStopsTheGoal
<1>. QED BY <1>4, <1>5, <1>6 DEF HeadlessInv
\* A run of the Agent has ended, whether it says so or fails: what the output and
\* the goal must then be for the invariant to stay.
LEMMA RunIsOverKeeps ==
  ASSUME HeadlessInv, UNCHANGED exec, headlessRuns.active, exec.connected,
         NEW first \in {"resolved", "rejected"}, NEW goal, NEW w,
         goal \in GoalStates, w \in WaiterShape,
         headlessRuns.goal = "active" =>
           goal # "none" /\ (goal = "active" => w = waiter)
           /\ (goal # "active" => w.terminal /\ (w.resolved <=> waiter.resolved)),
         headlessRuns.goal # "active" => goal = headlessRuns.goal /\ w = waiter,
         headlessRuns' = [headlessRuns EXCEPT !.active = FALSE, !.goal = goal,
                            !.first = IF @ = "running" THEN first ELSE @],
         waiter' = RunSettled(w),
         output' \in OutputShape, EndsAreEmitted', CancelledIsAborted',
         exec.pc = "running" /\ first = "rejected" => output'.failed /\ goal # "active",
         exec.pc = "running" /\ first = "resolved" =>
           IF exec.goal THEN ~output'.failed /\ ~output'.completed /\ output'.outcome # "none"
           ELSE output'.completed,
         exec.pc = "await" => ~output'.completed /\ (output'.failed \/ output'.outcome # "none")
  PROVE  HeadlessInv'
<1>1. /\ exec.pc \in {"running", "await"} /\ exec.result = FALSE /\ headlessRuns \in RunsShape
      /\ waiter \in WaiterShape /\ exec \in ExecShape
      /\ exec.pc = "running" => headlessRuns.first = "running"
  BY DEF HeadlessInv, HeadlessShape, ExecIsInOrder, ExecShape, FirstRunDecides
<1>2. PICK settled : settled = IF headlessRuns.first = "running" THEN first ELSE headlessRuns.first
  OBVIOUS
<1>3. headlessRuns' = [headlessRuns EXCEPT !.active = FALSE, !.goal = goal, !.first = settled]
  BY <1>2
<1>4. /\ headlessRuns' \in RunsShape /\ headlessRuns'.active = FALSE
      /\ headlessRuns'.goal = goal /\ headlessRuns'.first = settled
      /\ headlessRuns'.source = headlessRuns.source
  <2>1. settled \in {"running", "resolved", "rejected"}
    BY <1>1, <1>2 DEF RunsShape
  <2>. QED BY <1>1, <1>3, <2>1 DEF RunsShape
<1>5. /\ waiter' \in WaiterShape /\ waiter'.terminal = w.terminal
      /\ waiter'.resolved = (w.resolved \/ w.terminal)
  BY DEF RunSettled, WaiterShape
<1>6. exec.abortRequested => goal # "active"
  BY DEF HeadlessInv, AbortStopsTheGoal
<1>7. HeadlessShape' /\ ExecIsInOrder'
  BY <1>1, <1>4, <1>5 DEF HeadlessInv, HeadlessShape, ExecIsInOrder
<1>8. FirstRunDecides'
  BY <1>1, <1>2, <1>4 DEF HeadlessInv, FirstRunDecides
<1>9. GoalIsAwaited'
  BY <1>1, <1>4, <1>5 DEF HeadlessInv, GoalIsAwaited
<1>10. ExitIsTruthful' /\ ResultIsFinal' /\ AbortStopsTheGoal'
  BY <1>1, <1>4, <1>6 DEF ExitIsTruthful, ResultIsFinal, AbortStopsTheGoal
<1>. QED BY <1>7, <1>8, <1>9, <1>10 DEF HeadlessInv

\* run_end.
LEMMA HeadlessRunEndsKeeps ==
  ASSUME HeadlessInv, NEW reason \in HeadlessReasons, NEW throws, HeadlessRunEnds(reason, throws)
  PROVE  HeadlessInv'
<1>1. /\ UNCHANGED exec /\ headlessRuns.active /\ exec.connected /\ exec.pc \in {"running", "await"}
      /\ exec \in ExecShape /\ headlessRuns \in RunsShape /\ waiter \in WaiterShape
      /\ output \in OutputShape /\ exec.term \in Terms /\ output.started = 1
      /\ output' = HeadlessEnded(output, reason, throws)
  BY DEF HeadlessInv, HeadlessShape, ExecIsInOrder, EndsAreEmitted, HeadlessRunEnds,
     ExecShape
<1>2. PICK goal, w :
        /\ headlessRuns' = [headlessRuns EXCEPT !.active = FALSE, !.goal = goal,
                              !.first = IF @ = "running" THEN "resolved" ELSE @]
        /\ waiter' = RunSettled(w) /\ goal \in GoalStates /\ w \in WaiterShape
        /\ headlessRuns.goal = "active" =>
             goal # "none" /\ (goal = "active" => w = waiter)
             /\ (goal # "active" => w.terminal /\ (w.resolved <=> waiter.resolved))
        /\ headlessRuns.goal # "active" => goal = headlessRuns.goal /\ w = waiter
  <2>1. CASE headlessRuns.source = "goal" /\ reason # "stop"
    <3>1. PICK goal, w : GoalStops("blocked", TRUE) = <<goal, w>>
      BY DEF GoalStops
    <3>2. "blocked" \in GoalStates
      BY DEF GoalStates
    <3>3. /\ goal \in GoalStates /\ w \in WaiterShape
          /\ headlessRuns.goal = "active" =>
               goal = "blocked" /\ w.terminal /\ (w.resolved <=> waiter.resolved \/ ~TRUE)
          /\ headlessRuns.goal # "active" => goal = headlessRuns.goal /\ w = waiter
      BY <1>1, <3>1, <3>2, GoalStopsIs
    <3>4. PICK stopped : stopped = GoalStops("blocked", TRUE)
      OBVIOUS
    <3>5. stopped[1] = goal /\ stopped[2] = w
      <4>1. stopped = <<goal, w>>
        BY <3>1, <3>4
      <4>. QED BY <4>1
    <3>6. /\ headlessRuns' = [headlessRuns EXCEPT !.active = FALSE, !.goal = stopped[1],
                                !.first = IF @ = "running" THEN "resolved" ELSE @]
          /\ waiter' = RunSettled(stopped[2])
      BY <2>1, <3>4 DEF HeadlessRunEnds
    <3>. QED BY <3>3, <3>5, <3>6
  <2>2. CASE ~(headlessRuns.source = "goal" /\ reason # "stop")
    <3>1. /\ headlessRuns' = [headlessRuns EXCEPT !.active = FALSE, !.goal = headlessRuns.goal,
                                !.first = IF @ = "running" THEN "resolved" ELSE @]
          /\ waiter' = RunSettled(waiter)
      BY <2>2 DEF HeadlessRunEnds
    <3>2. headlessRuns.goal \in GoalStates
      BY <1>1 DEF RunsShape
    <3>. QED BY <1>1, <3>1, <3>2
  <2>. QED BY <2>1, <2>2
<1>3. PICK e : /\ OutcomeIsNoted(output, e, reason)
               /\ IF exec.goal THEN output' = e
                  ELSE RunIsComplete(e, output', "none", throws)
  BY <1>1, EndedIs
<1>4. /\ e \in OutputShape /\ e.failed = output.failed /\ e.completed = output.completed
      /\ e.ends = output.ends /\ e.outcome \in HeadlessReasons /\ e.started = 1
      /\ e.writeFailed = output.writeFailed /\ e.outcome # "none"
  BY <1>1, <1>3 DEF OutcomeIsNoted, SameEvents, HeadlessReasons
<1>5. ~output.completed /\ (exec.pc = "running" => ~output.failed)
  BY <1>1 DEF HeadlessInv, FirstRunDecides, GoalIsAwaited
<1>6. output' \in OutputShape /\ output'.started = 1
  BY <1>3, <1>4 DEF RunIsComplete, SameEvents
<1>7. /\ e.failed \/ e.completed \/ e.ends = <<>>
      /\ Len(e.ends) <= 1 /\ (e.failed => ~e.completed)
      /\ (e.failed \/ e.completed) /\ ~e.writeFailed => Len(e.ends) = 1
      /\ \A i \in DOMAIN e.ends :
           /\ e.failed => e.ends[i].type = "run.failed"
           /\ e.completed => /\ e.ends[i].type = "run.completed"
                             /\ e.ends[i].term = e.term /\ e.ends[i].outcome = e.outcome
      /\ \A i \in DOMAIN e.ends :
           e.ends[i].type = "run.completed" /\ e.ends[i].term # "none"
             => e.ends[i].outcome = "aborted"
  BY <1>4, <1>5 DEF HeadlessInv, EndsAreEmitted, CancelledIsAborted
<1>8. EndsAreEmitted' /\ CancelledIsAborted'
  <2>1. CASE exec.goal
    BY <1>3, <1>6, <1>7, <2>1 DEF EndsAreEmitted, CancelledIsAborted
  <2>2. CASE ~exec.goal
    <3>1. RunIsComplete(e, output', "none", throws)
      BY <1>3, <2>2
    <3>2. /\ output'.failed \/ output'.completed \/ output'.ends = <<>>
          /\ Len(output'.ends) <= 1 /\ (output'.failed => ~output'.completed)
          /\ (output'.failed \/ output'.completed) /\ ~output'.writeFailed
               => Len(output'.ends) = 1
          /\ \A i \in DOMAIN output'.ends :
               /\ output'.failed => output'.ends[i].type = "run.failed"
               /\ output'.completed => /\ output'.ends[i].type = "run.completed"
                                       /\ output'.ends[i].term = output'.term
                                       /\ output'.ends[i].outcome = output'.outcome
          /\ \A i \in DOMAIN output'.ends :
               output'.ends[i].type = "run.completed" /\ output'.ends[i].term # "none"
                 => output'.ends[i].outcome = "aborted"
      BY <1>1, <1>4, <1>7, <3>1, CompletingEmits
    <3>. QED BY <1>6, <3>2 DEF EndsAreEmitted, CancelledIsAborted
  <2>. QED BY <2>1, <2>2
<1>9. exec.pc = "running" =>
        IF exec.goal THEN ~output'.failed /\ ~output'.completed /\ output'.outcome # "none"
        ELSE output'.completed
  BY <1>3, <1>4, <1>5 DEF RunIsComplete
<1>10. exec.pc = "await" => ~output'.completed /\ (output'.failed \/ output'.outcome # "none")
  <2>1. exec.pc = "await" => exec.goal
    BY DEF HeadlessInv, ExecIsInOrder
  <2>. QED BY <1>3, <1>4, <1>5, <2>1
<1>. QED BY <1>1, <1>2, <1>6, <1>8, <1>9, <1>10, RunIsOverKeeps

\* run_error.
LEMMA HeadlessRunFailsKeeps ==
  ASSUME HeadlessInv, NEW throws, HeadlessRunFails(throws) PROVE HeadlessInv'
<1>1. /\ UNCHANGED exec /\ headlessRuns.active /\ exec.connected /\ exec.pc \in {"running", "await"}
      /\ exec \in ExecShape /\ headlessRuns \in RunsShape /\ waiter \in WaiterShape
      /\ output \in OutputShape /\ exec.term \in Terms /\ output.started = 1
  BY DEF HeadlessInv, HeadlessShape, ExecIsInOrder, EndsAreEmitted, HeadlessRunFails,
     ExecShape
<1>2. PICK goal, w :
        /\ headlessRuns' = [headlessRuns EXCEPT !.active = FALSE, !.goal = goal,
                              !.first = IF @ = "running" THEN "rejected" ELSE @]
        /\ waiter' = RunSettled(w) /\ goal \in GoalStates /\ w \in WaiterShape
        /\ output' = HeadlessFails(output, goal, throws)
        /\ headlessRuns.goal = "active" =>
             goal # "none" /\ (goal = "active" => w = waiter)
             /\ (goal # "active" => w.terminal /\ (w.resolved <=> waiter.resolved))
        /\ headlessRuns.goal # "active" => goal = headlessRuns.goal /\ w = waiter
        /\ headlessRuns.source = "goal" => goal # "active"
  <2>1. CASE headlessRuns.source = "goal"
    <3>1. PICK goal, w : GoalStops("blocked", TRUE) = <<goal, w>>
      BY DEF GoalStops
    <3>2. "blocked" \in GoalStates
      BY DEF GoalStates
    <3>3. /\ goal \in GoalStates /\ w \in WaiterShape
          /\ headlessRuns.goal = "active" =>
               goal = "blocked" /\ w.terminal /\ (w.resolved <=> waiter.resolved \/ ~TRUE)
          /\ headlessRuns.goal # "active" => goal = headlessRuns.goal /\ w = waiter
      BY <1>1, <3>1, <3>2, GoalStopsIs
    <3>4. PICK stopped : stopped = GoalStops("blocked", TRUE)
      OBVIOUS
    <3>5. stopped[1] = goal /\ stopped[2] = w
      <4>1. stopped = <<goal, w>>
        BY <3>1, <3>4
      <4>. QED BY <4>1
    <3>6. /\ headlessRuns' = [headlessRuns EXCEPT !.active = FALSE, !.goal = stopped[1],
                                !.first = IF @ = "running" THEN "rejected" ELSE @]
          /\ waiter' = RunSettled(stopped[2])
          /\ output' = HeadlessFails(output, stopped[1], throws)
      BY <2>1, <3>4 DEF HeadlessRunFails
    <3>. QED BY <3>3, <3>5, <3>6
  <2>2. CASE headlessRuns.source # "goal"
    <3>1. /\ headlessRuns' = [headlessRuns EXCEPT !.active = FALSE, !.goal = headlessRuns.goal,
                                !.first = IF @ = "running" THEN "rejected" ELSE @]
          /\ waiter' = RunSettled(waiter)
          /\ output' = HeadlessFails(output, headlessRuns.goal, throws)
      BY <2>2 DEF HeadlessRunFails
    <3>2. headlessRuns.goal \in GoalStates
      BY <1>1 DEF RunsShape
    <3>. QED BY <1>1, <2>2, <3>1, <3>2
  <2>. QED BY <2>1, <2>2
<1>3. RunHasFailed(output, output', goal, throws)
  BY <1>1, <1>2, FailureIs
<1>4. ~output.completed /\ output.failed \in BOOLEAN
  BY <1>1 DEF HeadlessInv, FirstRunDecides, GoalIsAwaited, OutputShape
<1>5. /\ output' \in OutputShape /\ output'.started = 1 /\ ~output'.completed
      /\ output'.failed
  BY <1>1, <1>3, <1>4 DEF RunHasFailed, SameEvents
<1>6. EndsAreEmitted' /\ CancelledIsAborted'
  <2>1. CASE output.failed
    <3>1. UNCHANGED output
      BY <1>3, <2>1 DEF RunHasFailed
    <3>. QED BY <1>1, <3>1 DEF HeadlessInv, EndsAreEmitted, CancelledIsAborted
  <2>2. CASE ~output.failed
    <3>1. output.ends = <<>>
      BY <1>4, <2>2 DEF HeadlessInv, EndsAreEmitted
    <3>2. CASE throws
      <4>1. output'.ends = <<>> /\ output'.writeFailed
        BY <1>3, <1>4, <2>2, <3>1, <3>2 DEF RunHasFailed
      <4>. QED BY <1>5, <4>1 DEF EndsAreEmitted, CancelledIsAborted
    <3>3. CASE ~throws
      <4>1. PICK end : /\ end = [type |-> "run.failed", term |-> output'.term,
                                 outcome |-> "none", goal |-> goal]
                       /\ output'.ends = Append(<<>>, end)
        BY <1>3, <1>4, <2>2, <3>1, <3>3 DEF RunHasFailed
      <4>2. /\ DOMAIN output'.ends = {1} /\ Len(output'.ends) = 1
            /\ output'.ends[1].type = "run.failed"
        BY <4>1
      <4>. QED BY <1>5, <4>2 DEF EndsAreEmitted, CancelledIsAborted
    <3>. QED BY <3>2, <3>3
  <2>. QED BY <2>1, <2>2
<1>7. exec.pc = "running" => goal # "active"
  BY <1>1, <1>2 DEF HeadlessInv, FirstRunDecides, GoalIsAwaited
<1>8. /\ exec.pc = "running" => output'.failed /\ goal # "active"
      /\ exec.pc = "await" => ~output'.completed /\ (output'.failed \/ output'.outcome # "none")
  BY <1>5, <1>7
<1>. QED BY <1>1, <1>2, <1>5, <1>6, <1>8, RunIsOverKeeps

-----------------------------------------------------------------------------

\* Every step of a headless run keeps the invariant.
LEMMA HeadlessStep == HeadlessInv /\ [HeadlessNext]_headlessVars => HeadlessInv'
<1>. SUFFICES ASSUME HeadlessInv, [HeadlessNext]_headlessVars PROVE HeadlessInv'
  OBVIOUS
<1>1. CASE StartupFails
  BY <1>1, StartupFailsKeeps
<1>2. CASE \E b \in BOOLEAN : Submitted(b)
  BY <1>2, SubmittedKeeps
<1>3. CASE \E b \in BOOLEAN : SubmissionSettles(b)
  BY <1>3, SubmissionSettlesKeeps
<1>4. CASE \E b \in BOOLEAN : GoalAwaited(b)
  BY <1>4, GoalAwaitedKeeps
<1>5. CASE \E b \in BOOLEAN : AgentEvent(b)
  BY <1>5, AgentEventKeeps
<1>6. CASE \E b \in BOOLEAN : HeadlessRunFails(b)
  BY <1>6, HeadlessRunFailsKeeps
<1>7. CASE \E b \in BOOLEAN, reason \in HeadlessReasons : HeadlessRunEnds(reason, b)
  BY <1>7, HeadlessRunEndsKeeps
<1>8. CASE ResourcesClose
  BY <1>8, ResourcesCloseKeeps
<1>9. CASE Interrupt
  BY <1>9, InterruptKeeps
<1>10. CASE DeadlineElapses
  BY <1>10, DeadlineElapsesKeeps
<1>11. CASE RunContinues
  BY <1>11, RunContinuesKeeps
<1>12. CASE \E status \in {"completed", "blocked"} : GoalUpdated(status)
  BY <1>12, GoalUpdatedKeeps
<1>13. CASE UNCHANGED headlessVars
  BY <1>13 DEF headlessVars, HeadlessInv, HeadlessShape, ExecIsInOrder, EndsAreEmitted,
     FirstRunDecides, GoalIsAwaited, ExitIsTruthful, CancelledIsAborted, ResultIsFinal,
     AbortStopsTheGoal, ExitCode
<1>. QED
  BY <1>1, <1>2, <1>3, <1>4, <1>5, <1>6, <1>7, <1>8, <1>9, <1>10, <1>11, <1>12, <1>13
  DEF HeadlessNext

\* A headless execution reports the truth: a result comes after one start and one
\* terminal event whose status the exit code repeats, a cancelled run is reported
\* aborted, the run a result reports is over, and an abort leaves no goal active.
THEOREM HeadlessSafe == HeadlessSpec => []HeadlessIsSafe
<1>1. HeadlessInv => HeadlessIsSafe
  <2>. SUFFICES ASSUME HeadlessInv PROVE HeadlessIsSafe
    OBVIOUS
  <2>1. HeadlessTypeOK
    BY DEF HeadlessInv, HeadlessShape, HeadlessTypeOK, ExecShape, RunsShape, WaiterShape,
       OutputShape, EndShape
  <2>. QED BY <2>1 DEF HeadlessInv, HeadlessIsSafe
<1>. QED BY HeadlessInitially, HeadlessStep, <1>1, PTL DEF HeadlessSpec
=============================================================================
