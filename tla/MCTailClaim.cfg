SPECIFICATION Spec
CONSTANTS
  Process = {p1}
  Call = {todo}
  TodoCall = {todo}
  WideText = {FALSE, TRUE}
  MaySuspend = FALSE
  MaxRecords = 6
  Free = Free
  Dead = Dead
  NoCall = NoCall
PROPERTIES
  OnlyTheTailIsTruncated
CHECK_DEADLOCK FALSE
