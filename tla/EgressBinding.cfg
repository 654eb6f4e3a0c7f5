SPECIFICATION Spec
CONSTANTS
  Key = {k1, k2}
  a1 = a1
  a2 = a2
  Addr = {a1, a2}
  Tier = {hot}
  AnyTier = any
  None = none
  TierOf <- MCTierOf
  MaxKeys <- MCMaxKeys
  Hash <- AnyHash
  CooldownStreak = 2
  BanStreak = 3
  Worker = {w1}
  BanDetectKeys = 2
  MaxRequests = 2
  MaxOps = 1
  MaxFaults = 0
  MaxDBFails = 0
  MaxStops = 1
CHECK_DEADLOCK FALSE
SYMMETRY Symmetry
INVARIANTS
  CapacityRespected
  LifelongAddress
  EvacuationComplete
PROPERTIES
  ImplementsBook
