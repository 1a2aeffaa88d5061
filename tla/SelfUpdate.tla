----------------------------- MODULE SelfUpdate -----------------------------
(***************************************************************************)
(* `kana update` (src/kana/update/self-update.ts): the latest release is   *)
(* looked up, its binary downloaded beside the executable, verified, tried *)
(* out and put in the place of the executable.  Several updates, another   *)
(* installer and the publisher of releases work at the same time, and an   *)
(* update may be killed at any of its steps.                               *)
(*                                                                         *)
(* A file is the version it holds and whether all of it is there and       *)
(* unspoiled.  An executable's identity (device, inode, time and size) is  *)
(* a number that no two files share.  GitHub, the network and the file     *)
(* system are external.                                                    *)
(***************************************************************************)
EXTENDS Naturals, FiniteSets

CONSTANTS
  Updates,        \* runs of kana update, of one executable
  Versions,       \* the versions released, in order
  StartVersion,   \* the version installed at the start
  BadVersions,    \* releases whose binary does not run, or reports another version
  MaxFiles        \* how many files are made

ASSUME UpdateAssumption ==
  /\ Versions \subseteq Nat /\ StartVersion \in Versions /\ BadVersions \subseteq Versions
  /\ StartVersion \notin BadVersions

VARIABLES
  executable,  \* the file at executablePath
  update,      \* each run: its step, what it knows, its temporary file
  latest,      \* the version of the latest release
  fileCount    \* identities given out

updateVars == <<executable, update, latest, fileCount>>

NoUpdateFile == [id |-> 0, version |-> 0, whole |-> FALSE, runnable |-> FALSE]
Go(u, fields) == update' = [update EXCEPT ![u] = fields]
At(u, step) == update[u].step = step
\* A failure or a result ends in the finally: the temporary file is removed.
End(u, result) == [update[u] EXCEPT !.step = "ended", !.result = result, !.temporary = NoUpdateFile]
\* A process whose executable was replaced keeps the version it was built as.
UpdateBegins(u) ==
  /\ At(u, "idle") /\ executable.id # 0
  /\ Go(u, [update[u] EXCEPT !.step = "checking", !.current = executable.version])
  /\ UNCHANGED <<executable, latest, fileCount>>
compareVersionsBackwards(current, offered) ==
  IF current = offered THEN "up-to-date" ELSE "update-available"
compareVersions(current, offered) ==
  IF current = offered THEN "up-to-date"
  ELSE IF current > offered THEN "ahead" ELSE "update-available"
\* loadLatestRelease: metadata that cannot be had or read is a failure.
loadLatestRelease(u) ==
  /\ At(u, "checking")
  /\ LET comparison == compareVersions(update[u].current, latest)
     IN \/ Go(u, End(u, "failed"))
        \/ /\ comparison # "update-available" /\ Go(u, End(u, comparison))
        \/ /\ comparison = "update-available" /\ update[u].checkOnly
           /\ Go(u, End(u, "update-available"))
        \/ /\ comparison = "update-available" /\ ~update[u].checkOnly
           /\ Go(u, [update[u] EXCEPT !.step = "identifying", !.release = latest])
  /\ UNCHANGED <<executable, latest, fileCount>>
readIdentity == executable.id
Identifies(u) ==
  /\ At(u, "identifying")
  /\ IF readIdentity = 0 THEN Go(u, End(u, "failed"))
     ELSE Go(u, [update[u] EXCEPT !.step = "downloading", !.identity = readIdentity])
  /\ UNCHANGED <<executable, latest, fileCount>>
\* A download may be cut short, or spoiled on the way.
downloadBinary(u) ==
  /\ At(u, "downloading") /\ fileCount < MaxFiles
  /\ fileCount' = fileCount + 1
  /\ \E whole \in BOOLEAN, cut \in BOOLEAN :
       IF cut THEN Go(u, End(u, "failed"))
       ELSE Go(u, [update[u] EXCEPT !.step = "verifying",
                     !.temporary = [id |-> fileCount + 1, version |-> update[u].release,
                                    whole |-> whole, runnable |-> FALSE]])
  /\ UNCHANGED <<executable, latest>>
\* The number of bytes and the SHA-256 of the release's metadata.
verifyNothing(file) == TRUE
verify(file) == file.whole
Verifies(u) ==
  /\ At(u, "verifying")
  /\ IF verify(update[u].temporary)
     THEN Go(u, [update[u] EXCEPT !.step = "trying", !.temporary.runnable = TRUE])
     ELSE Go(u, End(u, "failed"))
  /\ UNCHANGED <<executable, latest, fileCount>>
\* runCandidate --version, then install.
reportsAny(file) == TRUE
reportsItsVersion(file) == file.version \notin BadVersions
runCandidate(u) ==
  /\ At(u, "trying")
  /\ IF reportsItsVersion(update[u].temporary)
     THEN Go(u, [update[u] EXCEPT !.step = "initializing"])
     ELSE Go(u, End(u, "failed"))
  /\ UNCHANGED <<executable, latest, fileCount>>
initializes(u) ==
  /\ At(u, "initializing")
  /\ \/ Go(u, [update[u] EXCEPT !.step = "replacing"]) \/ Go(u, End(u, "failed"))
  /\ UNCHANGED <<executable, latest, fileCount>>
\* assertIdentityUnchanged.
assertNothing(u) == TRUE
assertIdentityUnchanged(u) == readIdentity = update[u].identity
LooksAgain(u) ==
  /\ At(u, "replacing")
  /\ IF assertIdentityUnchanged(u) THEN Go(u, [update[u] EXCEPT !.step = "renaming", !.seen = executable])
     ELSE Go(u, End(u, "failed"))
  /\ UNCHANGED <<executable, latest, fileCount>>
\* renameSync: it moves the temporary file, or fails.
Renames(u) ==
  /\ At(u, "renaming")
  /\ \/ /\ executable' = update[u].temporary
        /\ Go(u, End(u, "updated"))
     \/ Go(u, End(u, "failed")) /\ UNCHANGED executable
  /\ UNCHANGED <<latest, fileCount>>
\* A killed update leaves its temporary file behind.
Killed(u) ==
  /\ update[u].step \notin {"idle", "ended", "killed"}
  /\ Go(u, [update[u] EXCEPT !.step = "killed"])
  /\ UNCHANGED <<executable, latest, fileCount>>

(* The surroundings. *)
\* The publisher releases a version, or withdraws the latest.
Publishes ==
  /\ \E version \in Versions \ {latest} : latest' = version
  /\ UNCHANGED <<executable, update, fileCount>>
\* The direct installer, or the user, puts another binary there or removes it.
InstallsAnother ==
  /\ \/ /\ fileCount < MaxFiles
        /\ \E version \in Versions \ BadVersions :
             executable' = [id |-> fileCount + 1, version |-> version, whole |-> TRUE, runnable |-> TRUE]
        /\ fileCount' = fileCount + 1
     \/ executable' = NoUpdateFile /\ UNCHANGED fileCount
  /\ UNCHANGED <<update, latest>>

UpdateInit ==
  /\ executable = [id |-> 1, version |-> StartVersion, whole |-> TRUE, runnable |-> TRUE]
  /\ \E checkOnly \in BOOLEAN :
       update = [u \in Updates |->
         [step |-> "idle", checkOnly |-> checkOnly, current |-> 0, release |-> 0, identity |-> 0,
          temporary |-> NoUpdateFile, seen |-> NoUpdateFile, result |-> "none"]]
  /\ latest \in Versions
  /\ fileCount = 1
UpdateNext ==
  \/ \E u \in Updates :
       \/ UpdateBegins(u) \/ loadLatestRelease(u) \/ Identifies(u) \/ downloadBinary(u) \/ Verifies(u)
       \/ runCandidate(u) \/ initializes(u) \/ LooksAgain(u) \/ Renames(u) \/ Killed(u)
  \/ Publishes \/ InstallsAnother
UpdateSpec == UpdateInit /\ [][UpdateNext]_updateVars

(* What is required. *)
\* Whatever is killed, cut short or replaced, the executable is missing only if
\* somebody removed it, and is otherwise a whole binary that runs as what it is.
ExecutableRuns ==
  executable.id # 0 => executable.whole /\ executable.runnable /\ executable.version \notin BadVersions
\* An update never goes back: what it is about to put in place is later than
\* the version it runs as.
NeverGoesBack ==
  \A u \in Updates :
    At(u, "renaming") => update[u].temporary.version > update[u].current
\* The executable an update is about to replace was still, when it last looked,
\* the one it found before the download: of several updates begun together, one
\* wins.  It may change after the last look; nothing in the code prevents that.
ReplacesWhatItKnew ==
  \A u \in Updates : At(u, "renaming") => update[u].seen.id = update[u].identity
\* A run that ended leaves no temporary file, whatever it ended with.
LeavesNothingBehind == \A u \in Updates : At(u, "ended") => update[u].temporary = NoUpdateFile
\* kana update, as a whole.
UpdateIsSafe == ExecutableRuns /\ NeverGoesBack /\ ReplacesWhatItKnew /\ LeavesNothingBehind
=============================================================================
