--------------------------- MODULE MCInstallation ---------------------------
(***************************************************************************)
(* One instance of what an installation of Kana keeps outside sessions:    *)
(* the configuration files that processes share, the executable, and the   *)
(* Skills, which are installed and copied, or loaded from any directories. *)
(* Which of them a behaviour exercises is chosen at the start, so that     *)
(* TLC's states are the sum of theirs and not the product.                 *)
(***************************************************************************)
EXTENDS SharedConfig, SelfUpdate, SkillFiles

VARIABLE kept

installationVars == <<kept, configVars, updateVars, skillVars>>

\* What is not exercised begins in one of its initial states.
InstallationInit ==
  /\ kept \in {"config", "update", "skills", "load"}
  /\ ConfigInit
  /\ kept # "config" => disk["config"] = FreshFile("config") /\ cli.does = "reset"
  /\ UpdateInit
  /\ kept # "update" => latest = StartVersion /\ \E u \in Updates : update[u].checkOnly
  /\ SkillsInit
  /\ kept # "load" => folders = [f \in Folders |-> [skill |-> "none", entries |-> {}]]

InstallationNext ==
  /\ UNCHANGED kept
  /\ \/ kept = "config" /\ ConfigNext /\ UNCHANGED <<updateVars, skillVars>>
     \/ kept = "update" /\ UpdateNext /\ UNCHANGED <<configVars, skillVars>>
     \/ kept = "skills" /\ SkillsNext /\ UNCHANGED <<configVars, updateVars>>

InstallationSpec == InstallationInit /\ [][InstallationNext]_installationVars

-----------------------------------------------------------------------------
MCKeysOf == [enabled |-> {"docs", "web"}, trust |-> {"make"}, config |-> {"model", "effort"}]
MCValuesOf == [enabled |-> {"on"}, trust |-> {"on"}, config |-> {"high"}]

\* One process is given an effort on its command line, the other nothing.
MCOverrides ==
  [p \in ConfigProcs |-> [model |-> Unset, effort |-> IF p = "p1" THEN "high" ELSE Unset]]

\* The second release no longer ships a guide and ignores one that is there.
MCShipped == <<[s \in SkillNames |-> {"SKILL.md", "guide"}], [s \in SkillNames |-> {"SKILL.md"}]>>
MCIgnores == <<{"draft"}, {"draft", "guide"}>>
MCSorted == <<1, 2, 3>>
MCRoots == <<1, 2>>
=============================================================================
