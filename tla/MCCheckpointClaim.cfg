SPECIFICATION AgentSpec
CONSTANTS
  Inputs = {i1}
  NoInput = NoInput
  MaxTurns = 2
  MaxCalls = 1
  ToolTurnBound = 2
  HistoryBound = 3
  FaultBound = 1
INVARIANT CheckpointIsAlwaysDurable
CHECK_DEADLOCK FALSE
