\* A goal of two rounds, a wake, a user input and a session change; a server
\* with two sessions, two calls and one client.
SPECIFICATION MachinesSpec
CONSTANTS
  Machines = {"conversation", "server"}
  UserInputs = {u1}
  Wakes = {w1}
  Jobs = {}
  Subagents = {}
  GoalInput = goal
  CompletionRuns = TRUE
  MaxRounds = 2
  MaxGoals = 1
  MaxSessions = 2
  MaxAside = 1
  Inputs = {i1}
  NoInput = NoInput
  MaxTurns = 1
  MaxCalls = 1
  ToolTurnBound = 1
  HistoryBound = 1
  FaultBound = 0
  ApiSessions = {s1, s2}
  ApiCalls = {a1, a2}
  ApiTools = {t1}
  ApiClients = {c1}
  ApiKinds = {"shell", "sensitive"}
  ApiModes = {"unless_trusted"}
  HighWater = 2
  MaxRuns = 1
INVARIANTS
  ConversationIsSafe
  ServerIsSafe
PROPERTIES
  StartsAreAllowed
  ServerBehaves
CHECK_DEADLOCK FALSE
