----------------------------- MODULE MCStorage -----------------------------
(***************************************************************************)
(* One instance of what sessions keep: the journal, the artifact files     *)
(* beside it, the output of background jobs and the tasks that produce it. *)
(* Which of the four a behaviour exercises is chosen at the start, so that *)
(* TLC's states are the sum of theirs and not the product.                 *)
(***************************************************************************)
EXTENDS SessionJournal, ArtifactFiles, JobOutput, OwnedTasks, TLC

\* The processes are interchangeable.
Processes == Permutations(Process)

VARIABLE store

storageVars == <<store, vars, artifactVars, outputVars, taskVars>>

StorageInit ==
  /\ store \in {"journal", "artifacts", "output", "tasks"}
  /\ Init /\ ArtifactInit /\ OutputInit /\ TasksInit

StorageNext ==
  /\ UNCHANGED store
  /\ \/ /\ store = "journal" /\ Next
        /\ UNCHANGED <<artifactVars, outputVars, taskVars>>
     \/ /\ store = "artifacts" /\ ArtifactNext
        /\ UNCHANGED <<vars, outputVars, taskVars>>
     \/ /\ store = "output" /\ OutputNext
        /\ UNCHANGED <<vars, artifactVars, taskVars>>
     \/ /\ store = "tasks" /\ TasksNext
        /\ UNCHANGED <<vars, artifactVars, outputVars>>

StorageSpec == StorageInit /\ [][StorageNext]_storageVars

-----------------------------------------------------------------------------
\* Writes of one piece, of several, and of one larger than the buffer.
ShortAndLongTexts == {<<1>>, <<2, 3>>, <<3, 1, 3, 2, 2>>}

\* Background jobs: no end of one is missed, and no byte of its output.
JobsAreSafe == TasksAreSafe /\ OutputIsSafe
=============================================================================
