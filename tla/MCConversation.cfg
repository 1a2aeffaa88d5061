\* A user input, two jobs and a goal of one round; runs of two turns with two
\* calls, three inputs and one failure, safety only.
SPECIFICATION MachinesSpec
CONSTANTS
  Machines = {"agent", "conversation"}
  UserInputs = {u1}
  Wakes = {}
  Jobs = {j1, j2}
  Subagents = {}
  GoalInput = goal
  CompletionRuns = TRUE
  MaxRounds = 1
  MaxGoals = 1
  MaxSessions = 1
  MaxAside = 0
  Inputs = {i1, i2, i3}
  NoInput = NoInput
  MaxTurns = 2
  MaxCalls = 2
  ToolTurnBound = 2
  HistoryBound = 3
  FaultBound = 1
  ApiSessions = {s1}
  ApiCalls = {a1}
  ApiTools = {t1}
  ApiClients = {c1}
  ApiKinds = {"shell", "sensitive"}
  ApiModes = {"unless_trusted"}
  HighWater = 2
  MaxRuns = 1
SYMMETRY InputSymmetry
INVARIANTS
  AgentTypeOK
  HistoryIsDurable
  CheckpointIsDurable
  EndIsDurable
  AgentIsConsistent
  InputsRunOnce
CHECK_DEADLOCK FALSE
