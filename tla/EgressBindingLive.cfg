SPECIFICATION LiveSpec
CONSTANTS
  Key = {k1}
  a1 = a1
  a2 = a2
  Addr = {a1, a2}
  Tier = {hot, cold}
  AnyTier = any
  None = none
  TierOf <- MCTierOf
  MaxKeys <- MCMaxKeys
  Hash <- AnyHash
  CooldownStreak = 2
  BanStreak = 3
  Worker = {w1}
  BanDetectKeys = 1
  MaxRequests = 1
  MaxOps = 1
  MaxFaults = 1
  MaxDBFails = 1
  MaxStops = 0
CHECK_DEADLOCK FALSE
PROPERTIES
  RecordConverges
  DeletedKeyReleased
