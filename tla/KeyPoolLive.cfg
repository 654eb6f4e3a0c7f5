SPECIFICATION LiveSpec
CONSTANTS
  HealthMax = 4
  Penalty <- MCPenalty
  RecoverSuccess = 1
  CooldownStreak = 2
  CooldownFloor = 1
  ThawScore = 2
  CooldownTime = 1
  None = none
  NumKeys = 2
  Tier = {hot, cold}
  Shares = {hot}
  PoolFallback = FALSE
  ActivePoolSize = 0
  MaxAttempts = 1
  Sharded = TRUE
  RowAtStart <- MCRowAtStart
  Worker = {w1}
  Admin = {a1}
  Periodic = p
  PatchStatus = {"active", "banned"}
  MaxRequests = 0
  MaxOps = 2
  MaxFaults = 1
  MaxRestarts = 1
  MaxTime = 0
CHECK_DEADLOCK FALSE
PROPERTIES
  PoolConverges
