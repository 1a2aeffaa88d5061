----------------------------- MODULE SkillFiles -----------------------------
(***************************************************************************)
(* The Skills that Kana installs, copies to another agent and loads        *)
(* (src/kana/skills/install.ts, sync.ts, loader.ts).  `kana skills         *)
(* install` and `reinstall` clone or pull a repository, `sync` and         *)
(* `resync` copy its Skills file by file into the target agent's           *)
(* directory; any of them may stop between two steps, and they may run     *)
(* side by side.  loadKanaSkills walks directories that may link to each   *)
(* other.                                                                  *)
(*                                                                         *)
(* External: the releases of the repository and git, which may fail, and   *)
(* whose checkout keeps a user's own files; the user, who writes files in  *)
(* the repository and in the target.  A file is what wrote it.  Left out:  *)
(* emptied directories, and a repository that is a single Skill.           *)
(***************************************************************************)
EXTENDS Naturals, Sequences, FiniteSets, SequencesExt

CONSTANTS SkillNames,  \* Skills of the repository
          SkillPaths,  \* files a Skill may have, among them SKILL.md
          Releases,    \* releases of the repository, 1..n
          Shipped,     \* files of each Skill in each release
          Ignores,     \* files that a release's .gitignore rules match
          Folders,     \* directories that Skills are loaded from
          Sorted,      \* them in the order of their names
          Roots,       \* the sequence of defaultSkillPaths, the global one last
          LoadNames    \* names Skills give themselves

ASSUME SkillAssumption ==
  /\ "SKILL.md" \in SkillPaths /\ 1 \in Releases /\ Releases \subseteq Nat
  /\ Ignores \in [Releases -> SUBSET SkillPaths]
  /\ Shipped \in [Releases -> [SkillNames -> SUBSET SkillPaths]]
  /\ \A r \in Releases, s \in SkillNames : Shipped[r][s] \cap Ignores[r] = {}

VARIABLES
  checkout,   \* the repository below <KANA_HOME>/skills
  released,   \* its newest release
  installer,  \* the install or reinstall that runs
  target,     \* the target agent's Skills
  copier,     \* the sync or resync that runs
  drafts,       \* files the user wrote into the target
  folders     \* what directories hold, their links included

skillVars == <<checkout, released, installer, target, copier, drafts, folders>>

\* What a file holds: nothing, what a release shipped, or what the user wrote
\* in the target or in the repository.
NoFile == <<>>
From(r) == <<"release", r>>
Mine == <<"target">>
Private == <<"repository">>

NoSkill == [p \in SkillPaths |-> NoFile]
FilesOf(skill) == {p \in SkillPaths : skill[p] # NoFile}
NoCheckout == [exists |-> FALSE, git |-> FALSE, release |-> 0,
               files |-> [s \in SkillNames |-> NoSkill]]

-----------------------------------------------------------------------------
(* kana skills install, reinstall *)

\* Somebody else changed what a sync reads or wrote: what it reports may not
\* describe the outcome any more.
Disturbed(c) == [c EXCEPT !.fresh = FALSE]

InstallBegins ==
  /\ installer = "idle" /\ (checkout.exists => checkout.git)
  /\ installer' = IF checkout.exists THEN "pulling" ELSE "cloning"
  /\ UNCHANGED <<checkout, released, target, copier, drafts, folders>>

ReinstallBegins ==
  /\ installer = "idle" /\ installer' = "cloning"
  /\ checkout' = NoCheckout /\ copier' = Disturbed(copier)
  /\ UNCHANGED <<released, target, drafts, folders>>

\* The process is killed while it deletes the repository.
ReinstallStops ==
  /\ installer = "idle" /\ checkout.exists
  /\ \E gone \in SUBSET SkillNames, git \in {FALSE, checkout.git} :
       checkout' = [checkout EXCEPT
         !.git = git, !.release = IF git THEN @ ELSE 0,
         !.files = [s \in SkillNames |-> IF s \in gone THEN NoSkill ELSE @[s]]]
  /\ copier' = Disturbed(copier)
  /\ UNCHANGED <<released, installer, target, drafts, folders>>

Shipping(r) == [s \in SkillNames |-> [p \in SkillPaths |->
                  IF p \in Shipped[r][s] THEN From(r) ELSE NoFile]]

GitClones ==
  /\ installer = "cloning" /\ ~checkout.exists /\ installer' = "idle"
  /\ checkout' = [exists |-> TRUE, git |-> TRUE, release |-> released, files |-> Shipping(released)]
  /\ copier' = Disturbed(copier)
  /\ UNCHANGED <<released, target, drafts, folders>>

\* git overwrites what the old release shipped and nothing of the user's.
MayPull ==
  /\ checkout.release # 0
  /\ \A s \in SkillNames : \A p \in Shipped[released][s] :
       checkout.files[s][p] \in {NoFile, From(checkout.release)}

GitPulls ==
  /\ installer = "pulling" /\ MayPull /\ installer' = "idle"
  /\ checkout' = [checkout EXCEPT
       !.release = released,
       !.files = [s \in SkillNames |-> [p \in SkillPaths |->
         IF @[s][p] \in {NoFile, From(checkout.release)} THEN Shipping(released)[s][p] ELSE @[s][p]]]]
  /\ copier' = Disturbed(copier)
  /\ UNCHANGED <<released, target, drafts, folders>>

GitFails ==
  /\ installer # "idle" /\ installer' = "idle"
  /\ UNCHANGED <<checkout, released, target, copier, drafts, folders>>

\* A clone that is killed leaves a directory without any release.
CloneStops ==
  /\ installer = "cloning" /\ ~checkout.exists /\ installer' = "idle"
  /\ checkout' = [NoCheckout EXCEPT !.exists = TRUE, !.git = TRUE]
  /\ UNCHANGED <<released, target, copier, drafts, folders>>

-----------------------------------------------------------------------------
(* kana skills sync, resync *)

\* listSourceSkillDirectories
SourceSkills == {s \in SkillNames : "SKILL.md" \in FilesOf(checkout.files[s])}

\* createSkillIgnoreMatcher asks git in the Skill's directory.  It ignores
\* nothing if git does not run there or fails, or outside a work tree.
GitAnswers(s, runs) == runs /\ checkout.release # 0 /\ FilesOf(checkout.files[s]) # {}
Ignored(s, runs) == IF GitAnswers(s, runs) THEN Ignores[checkout.release] ELSE {}

\* blind: nothing was ignored for want of an answer.
Asks(c, s, runs) ==
  IF GitAnswers(s, runs) THEN c ELSE [c EXCEPT !.blind = TRUE, !.fresh = FALSE]

SyncBegins ==
  /\ copier.step = "idle" /\ checkout.exists /\ SourceSkills # {}
  /\ \E replace \in BOOLEAN :
       copier' = [copier EXCEPT !.step = "next", !.replace = replace, !.todo = SourceSkills,
                                !.copied = {}, !.fresh = TRUE]
  /\ UNCHANGED <<checkout, released, installer, target, drafts, folders>>

Skips(s) ==
  /\ copier.step = "next" /\ s \in copier.todo
  /\ target[s].exists /\ ~copier.replace
  /\ copier' = [copier EXCEPT !.todo = @ \ {s}]
  /\ UNCHANGED <<checkout, released, installer, target, drafts, folders>>

RemoveAllBegins(s) ==
  /\ copier.step = "next" /\ s \in copier.todo
  /\ target[s].exists /\ copier.replace
  /\ copier' = [copier EXCEPT !.step = "removing", !.skill = s, !.files = FilesOf(target[s].files)]
  /\ UNCHANGED <<checkout, released, installer, target, drafts, folders>>

\* removeUnignoredFiles lists first and then removes one file after another.
RemoveBegins(s) ==
  /\ copier.step = "next" /\ s \in copier.todo
  /\ target[s].exists /\ copier.replace
  /\ \E runs \in BOOLEAN :
       copier' = Asks([copier EXCEPT !.step = "removing", !.skill = s,
                         !.files = FilesOf(target[s].files) \ Ignored(s, runs)], s, runs)
  /\ UNCHANGED <<checkout, released, installer, target, drafts, folders>>

FileRemoved(p) ==
  /\ copier.step = "removing" /\ p \in copier.files
  /\ target' = [target EXCEPT ![copier.skill].files[p] = NoFile]
  /\ copier' = [copier EXCEPT !.files = @ \ {p}]
  /\ UNCHANGED <<checkout, released, installer, drafts, folders>>

CopyAllBegins(s) ==
  /\ \/ copier.step = "next" /\ s \in copier.todo /\ ~target[s].exists
     \/ copier.step = "removing" /\ s = copier.skill /\ copier.files = {}
  /\ FilesOf(checkout.files[s]) # {}
  /\ copier' = [copier EXCEPT !.step = "copying", !.skill = s, !.files = FilesOf(checkout.files[s])]
  /\ target' = [target EXCEPT ![s].exists = TRUE]
  /\ UNCHANGED <<checkout, released, installer, drafts, folders>>

\* copyUnignoredFiles
CopyBegins(s) ==
  /\ \/ copier.step = "next" /\ s \in copier.todo /\ ~target[s].exists
     \/ copier.step = "removing" /\ s = copier.skill /\ copier.files = {}
  /\ FilesOf(checkout.files[s]) # {}
  /\ \E runs \in BOOLEAN :
       copier' = Asks([copier EXCEPT !.step = "copying", !.skill = s,
                         !.files = FilesOf(checkout.files[s]) \ Ignored(s, runs)], s, runs)
  /\ target' = [target EXCEPT ![s].exists = TRUE]
  /\ UNCHANGED <<checkout, released, installer, drafts, folders>>

FileCopied(p) ==
  /\ copier.step = "copying" /\ p \in copier.files
  /\ checkout.files[copier.skill][p] # NoFile
  /\ target' = [target EXCEPT ![copier.skill].files[p] = checkout.files[copier.skill][p]]
  /\ copier' = [copier EXCEPT !.files = @ \ {p}]
  /\ UNCHANGED <<checkout, released, installer, drafts, folders>>

CopyEnds ==
  /\ copier.step = "copying" /\ copier.files = {}
  /\ copier' = [copier EXCEPT !.step = "next", !.todo = @ \ {copier.skill},
                              !.copied = @ \cup {copier.skill}]
  /\ UNCHANGED <<checkout, released, installer, target, drafts, folders>>

SyncEnds ==
  /\ copier.step = "next" /\ copier.todo = {}
  /\ copier' = [copier EXCEPT !.step = "idle"]
  /\ UNCHANGED <<checkout, released, installer, target, drafts, folders>>

\* It is killed, or a file or directory is gone or cannot be written.
SyncStops ==
  /\ copier.step # "idle"
  /\ copier' = [copier EXCEPT !.step = "idle", !.todo = {}, !.files = {}]
  /\ UNCHANGED <<checkout, released, installer, target, drafts, folders>>

-----------------------------------------------------------------------------
(* The user and the repository *)

UserKeeps(s, p) ==
  /\ checkout.release # 0 /\ p \in Ignores[checkout.release] /\ FilesOf(checkout.files[s]) # {}
  /\ checkout' = [checkout EXCEPT !.files[s][p] = Private]
  /\ copier' = Disturbed(copier)
  /\ UNCHANGED <<released, installer, target, drafts, folders>>

UserWrites(s, p) ==
  /\ target' = [target EXCEPT ![s].exists = TRUE, ![s].files[p] = Mine]
  /\ drafts' = drafts \cup {<<s, p>>}
  /\ copier' = Disturbed(copier)
  /\ UNCHANGED <<checkout, released, installer, folders>>

NewSkillsRelease ==
  /\ released + 1 \in Releases /\ released' = released + 1
  /\ UNCHANGED <<checkout, installer, target, copier, drafts, folders>>

-----------------------------------------------------------------------------
(* loadKanaSkills *)

\* A directory that was visited is not entered again, and one with a SKILL.md
\* is a Skill and not searched; entries come in the order of their names.
InOrder(entries) == SelectSeq(Sorted, LAMBDA d : d \in entries)

RECURSIVE loadSkillsFromDir(_, _)
loadSkillsFromDir(dir, walk) ==
  IF dir \in walk.visited THEN walk
  ELSE LET entered == [walk EXCEPT !.visited = @ \cup {dir}] IN
       IF folders[dir].skill # "none" THEN [entered EXCEPT !.skills = Append(@, dir)]
       ELSE FoldLeft(LAMBDA w, d : loadSkillsFromDir(d, w), entered,
                     InOrder(folders[dir].entries))

AddsBlindly(loaded, dir, root) ==
  IF \E i \in DOMAIN loaded.skills : loaded.skills[i].dir = dir THEN loaded
  ELSE [loaded EXCEPT !.skills = Append(@, [dir |-> dir, root |-> root])]

\* The first Skill of a name wins, and a file found again is not a collision.
Adds(loaded, dir, root) ==
  LET name == folders[dir].skill IN
  IF \E i \in DOMAIN loaded.skills : loaded.skills[i].dir = dir THEN loaded
  ELSE IF \E i \in DOMAIN loaded.skills : folders[loaded.skills[i].dir].skill = name
  THEN [loaded EXCEPT !.collisions = @ \cup {dir}]
  ELSE [loaded EXCEPT !.skills = Append(@, [dir |-> dir, root |-> root])]

loadKanaSkills ==
  FoldLeft(LAMBDA all, root :
             FoldLeft(LAMBDA some, dir : Adds(some, dir, root), all,
                      loadSkillsFromDir(root, [visited |-> {}, skills |-> <<>>]).skills),
           [skills |-> <<>>, collisions |-> {}], Roots)

-----------------------------------------------------------------------------
AnyFolders == [Folders -> [skill : LoadNames \cup {"none"}, entries : SUBSET Folders]]

SkillsInit ==
  /\ checkout = NoCheckout /\ released = 1 /\ installer = "idle"
  /\ target = [s \in SkillNames |-> [exists |-> FALSE, files |-> NoSkill]]
  /\ copier = [step |-> "idle", replace |-> FALSE, todo |-> {}, skill |-> "none", files |-> {},
               copied |-> {}, fresh |-> FALSE, blind |-> FALSE]
  /\ drafts = {}
  /\ folders \in AnyFolders

SkillsNext ==
  \/ InstallBegins \/ ReinstallBegins \/ ReinstallStops
  \/ GitClones \/ GitPulls \/ GitFails \/ CloneStops
  \/ SyncBegins \/ CopyEnds \/ SyncEnds \/ SyncStops
  \/ \E s \in SkillNames : Skips(s) \/ RemoveBegins(s) \/ CopyBegins(s)
  \/ \E p \in SkillPaths : FileRemoved(p) \/ FileCopied(p)
  \/ \E s \in SkillNames, p \in SkillPaths : UserKeeps(s, p) \/ UserWrites(s, p)
  \/ NewSkillsRelease

SkillsSpec == SkillsInit /\ [][SkillsNext]_skillVars

-----------------------------------------------------------------------------
(* Properties *)

SkillsTypeOK ==
  /\ checkout.release \in Releases \cup {0} /\ released \in Releases
  /\ installer \in {"idle", "cloning", "pulling"}
  /\ copier.step \in {"idle", "next", "removing", "copying"}
  /\ copier.todo \cup copier.copied \subseteq SkillNames /\ copier.files \subseteq SkillPaths
  /\ drafts \subseteq SkillNames \X SkillPaths

AlwaysIgnored == {p \in SkillPaths : \A r \in Releases : p \in Ignores[r]}

\* As long as git answers, what a user wrote into files that .gitignore matches
\* stays: a sync or resync, also one that is killed, repeated or runs while the
\* repository changes under it, neither removes nor overwrites such files in
\* the target, nor takes those of the repository there (sync.ts:191-192).
UserDataStays ==
  ~copier.blind =>
    \A s \in SkillNames, p \in AlwaysIgnored :
      /\ <<s, p>> \in drafts => target[s].files[p] = Mine
      /\ target[s].files[p] # Private

\* A Skill that was copied or replaced, and that nobody changed since, is the
\* repository's: what is left of an earlier release or a killed sync is gone.
CopiesAreWhole ==
  copier.fresh =>
    \A s \in copier.copied : \A p \in SkillPaths \ Ignores[checkout.release] :
      target[s].files[p] = checkout.files[s][p]

\* The directories a walk from a root can reach; those below a Skill are not.
ReachedFrom(root) ==
  LET Reach[n \in Nat] ==
        IF n = 0 THEN {root}
        ELSE Reach[n - 1] \cup UNION {IF folders[d].skill = "none" THEN folders[d].entries ELSE {} :
                                        d \in Reach[n - 1]}
  IN {d \in Reach[Cardinality(Folders)] : folders[d].skill # "none"}

\* Whatever links directories have, each Skill a root reaches is loaded once,
\* under the first root that reaches it, or its name is taken by a Skill of
\* that root or an earlier one, which is reported; no name is loaded twice.
LoadingIsRight ==
  LET loaded == loadKanaSkills.skills
      named(i) == folders[loaded[i].dir].skill
      reached(i) == ReachedFrom(Roots[i]) IN
  /\ \A i, j \in DOMAIN loaded : named(i) = named(j) => i = j
  /\ \A i \in DOMAIN Roots : \A d \in reached(i) :
       \E l \in DOMAIN loaded :
         /\ named(l) = folders[d].skill
         /\ \E k \in 1..i : loaded[l].root = Roots[k] /\ loaded[l].dir \in reached(k)
         /\ loaded[l].dir = d \/ d \in loadKanaSkills.collisions
  /\ \A l \in DOMAIN loaded : loaded[l].dir \in ReachedFrom(loaded[l].root)

SkillsAreSafe == SkillsTypeOK /\ UserDataStays /\ CopiesAreWhole /\ LoadingIsRight
=============================================================================
