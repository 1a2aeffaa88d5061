\* Two processes on one session and on two sessions' artifacts; a buffer of two
\* full chunks; two tasks of one owner.  The processes are interchangeable.
SPECIFICATION StorageSpec
CONSTANTS
  Process = {p1, p2}
  Call = {todo, code}
  TodoCall = {todo}
  WideText = {FALSE}
  MaySuspend = FALSE
  MaxRecords = 8
  Free = Free
  Dead = Dead
  NoCall = NoCall
  ArtifactProcs = {p1, p2}
  ArtifactSessions = {s1, s2}
  NoArtifactSession = NoArtifactSession
  MaxArtifacts = 2
  MaxDaysPassed = 1
  Texts <- ShortAndLongTexts
  ChunkBytes = 4
  MaxRetained = 8
  PeekBytes = 5
  Readers = {r1, r2}
  MaxWritten = 18
  Tasks = {t1, t2}
  Owners = {o1}
  NoOwner = NoOwner
  MaxConcurrent = 2
  MaxRetainedTerminal = 1
  MaxWaiting = 2
SYMMETRY Processes
INVARIANTS
  JournalIsSafe
  ArtifactsAreSafe
  JobsAreSafe
PROPERTIES
  AppendsHoldTheLock
CHECK_DEADLOCK FALSE
