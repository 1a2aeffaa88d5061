\* Two processes that share three configuration files, and two updates of one
\* executable; a Skill of three files in two releases; three directories of
\* Skills that link to each other in every way.
SPECIFICATION InstallationSpec
CONSTANTS
  ConfigProcs = {"p1", "p2"}
  Files = {"enabled", "trust", "config"}
  KeysOf <- MCKeysOf
  ValuesOf <- MCValuesOf
  Overrides <- MCOverrides
  MaxUpdates = 1
  Updates = {"u1", "u2"}
  Versions = {1, 2, 3, 4}
  StartVersion = 2
  BadVersions = {4}
  MaxFiles = 4
  SkillNames = {"a"}
  SkillPaths = {"SKILL.md", "guide", "draft"}
  Releases = {1, 2}
  Shipped <- MCShipped
  Ignores <- MCIgnores
  Folders = {1, 2, 3}
  Sorted <- MCSorted
  Roots <- MCRoots
  LoadNames = {"x", "y"}
INVARIANTS
  SharedConfigIsSafe
  UpdateIsSafe
  SkillsAreSafe
CHECK_DEADLOCK FALSE
