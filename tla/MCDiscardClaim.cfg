SPECIFICATION Spec
CONSTANTS
  UserInputs = {u1, u2}
  Wakes = {}
  Jobs = {}
  Subagents = {}
  GoalInput = goal
  CompletionRuns = TRUE
  MaxRounds = 1
  MaxGoals = 0
  MaxSessions = 1
  MaxAside = 0
INVARIANTS
  DiscardedOnlyOnChange
CHECK_DEADLOCK FALSE
