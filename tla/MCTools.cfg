\* Three calls on two workers and one failure anywhere; three nested calls on
\* two slots; a command whose shell leaves one process; two tasks of one
\* owner; an inbox of four inputs.
SPECIFICATION FairToolsSpec
CONSTANTS
  N = 3
  MaxParallel = 2
  ParallelToolCalls = TRUE
  Tools <- SomeTools
  FaultBound = 1
  NestedCall = {1, 2, 3}
  NestedLimit = 2
  Streams = {"stdout"}
  MaxChunks = 2
  MaxForks = 1
  Tasks = {t1, t2}
  Owners = {o1}
  NoOwner = NoOwner
  MaxConcurrent = 2
  MaxRetainedTerminal = 1
  MaxWaiting = 1
  Inputs = {i1, i2, i3, i4}
INVARIANTS
  PoolIsSafe
  NestedIsSafe
  CommandIsSafe
  QueueIsSound
  OutcomeIsTruthful
PROPERTIES
  StopsReplenishing
  ImplementsToolTurn
  ToolsSettle
  NextTurnIsFifo
  DeliversInput
CHECK_DEADLOCK FALSE
