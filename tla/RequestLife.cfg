SPECIFICATION Spec
SYMMETRY Symmetry
CONSTANTS
  Request = {r1, r2}
  TTL = 1
  Estimate = {2}
  Capacity = 1
  Rate = 1
  QueueSize = 1
  Batch = 2
  None = none
  MaxFaults = 1
  MaxTime = 2
CHECK_DEADLOCK FALSE
INVARIANTS
  TypeOK
  DrainedMeansEmpty
  HitFresh
  RevocationHolds
  WaitersHaveOwner
  UserBounded
  CleanExit
