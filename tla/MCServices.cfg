\* Every service at its full bounds, safety only.
SPECIFICATION ServicesSpec
CONSTANTS
  Sessions = {s1, s2}
  MaxHostRecords = 4
  NoRecord = NoRecord
  Elsewhere = Elsewhere
  WakeSessions = {s1, s2}
  WakeKeys = {k1}
  NoWakeKey = NoWakeKey
  MaxClock = 3
  MaxDelay = 2
  MaxWakes = 2
  MaxDeliveries = 2
  Children = {1, 2}
  MaxLive = 1
  ChildTools = {c1, c2}
  GoalRounds = 2
  MaxOtherRuns = 1
  McpServerCount = 2
  MaxReloads = 1
  AuthThreads <- MCThreads
  MaxTokens = 3
  MaxAuthOps = 2
  MemoryScopes = {global, project}
  MaxEntries = 2
  LongEntries = {1}
  RetentionDays = 1
  MaxDays = 2
  MaxCompactions = 1
  ItemCount = 2
  MaxPieces = 1
  MaxRetries = 1
  Dialects <- MCDialects
  Responses <- MCResponses
  ChatCalls = 3
  ChatPieces = 2
  Interleaves = FALSE
  PromptBudget = 5
  TriggerTokens = 4
  TargetTokens = 2
  MaxOutput = 2
  MaxMessages = 5
  MaxCheckpoints = 2
  Authorizers = {"client", "menu"}
  Operations = {"p", "r1", "r2", "d", "z"}
  OwnerOf <- MCOwnerOf
  KindOf <- MCKindOf
  Scopes = {"read", "write", "admin"}
  NeedOf <- MCNeedOf
  Supported = {"read"}
  Configured <- MCConfigured
  ClientIsSet = FALSE
  Rotates = TRUE
  StoredAtStart <- MCStored
  Plans = {{"p", "r1", "r2", "d"}, {"p", "r1", "z"}}
  MaxOAuthTokens = 2
INVARIANTS
  HostIsSafe
  HeadlessIsSafe
  WakesAreSafe
  McpIsSafe
  CredentialsAreSafe
  MemoryIsSafe
  ProvidersAreSafe
  AgentsAreSafe
CHECK_DEADLOCK FALSE
