\* Every part of the terminal interface at its full bounds, safety only.
SPECIFICATION TerminalSpec
CONSTANTS
  Scripts <- MCScripts
  CutAfterEscapes = FALSE
  Typed <- MCTyped
  Pasted <- MCPasted
  Threshold = 3
  MarkerWidth = 2
  Suggested <- MCSuggested
  Sizes <- MCSizes
  PaletteRows <- MCPaletteRows
  MaxHistory = 1
  MaxImages = 1
  MaxEdits = 3
  AskedCalls = {"shell1", "task1"}
  CommandOf <- MCCommandOf
  UserTaskCalls = {"task1"}
  ChildCalls = {"shell1"}
  Views = {"picker", "mcp", "agents", "viewer", "schedule", "memory", "approval", "provider", "btw", "shell", "tools"}
  MayBeginInPicker = TRUE
  MaxQueued = 1
  MaxCommands = 2
  NameOf <- MCNameOf
  MaxCalls = 2
  Burst = 2
  MaxText = 2
  MaxTurns = 2
  MaxRuns = 1
  Faults = {"aborted", "error", "length", "throw"}
  Texts = {x, y}
  Heights = {2, 3}
  FrameLines = 3
INVARIANTS
  TerminalIsFaithful
  DialogsAreSafe
CHECK_DEADLOCK FALSE
