\* A user input, a job and a goal of one round; runs of two turns with two
\* calls, two inputs and one failure.
SPECIFICATION FairMachinesSpec
CONSTANTS
  Machines = {"agent", "conversation"}
  UserInputs = {u1}
  Wakes = {}
  Jobs = {j1}
  Subagents = {}
  GoalInput = goal
  CompletionRuns = TRUE
  MaxRounds = 1
  MaxGoals = 1
  MaxSessions = 1
  MaxAside = 0
  Inputs = {i1, i2}
  NoInput = NoInput
  MaxTurns = 2
  MaxCalls = 2
  ToolTurnBound = 2
  HistoryBound = 3
  FaultBound = 1
  ApiSessions = {s1}
  ApiCalls = {a1}
  ApiTools = {t1}
  ApiClients = {c1}
  ApiKinds = {"shell", "sensitive"}
  ApiModes = {"unless_trusted"}
  HighWater = 2
  MaxRuns = 1
PROPERTIES
  RunsAndCallersSettle
  InputsSettle
CHECK_DEADLOCK FALSE
