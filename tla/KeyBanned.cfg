SPECIFICATION Spec
CONSTANTS
  HealthMax = 4
  Penalty <- MCPenalty
  RecoverSuccess = 1
  CooldownStreak = 2
  CooldownFloor = 1
  ThawScore = 2
  CooldownTime = 1
  None = none
  NumKeys = 2
  Tier = {hot}
  Shares = {hot}
  PoolFallback = FALSE
  ActivePoolSize = 0
  MaxAttempts = 2
  Sharded = FALSE
  RowAtStart <- MCRowAtStart
  Worker = {w1}
  Admin = {a1}
  Periodic = p
  PatchStatus = {"active", "banned"}
  MaxRequests = 1
  MaxOps = 1
  MaxFaults = 0
  MaxRestarts = 0
  MaxTime = 1
CHECK_DEADLOCK FALSE
PROPERTIES
  TerminalIsFinal
