SPECIFICATION Spec
CONSTANTS
  k1 = k1
  k2 = k2
  Key = {k1}
  Offset <- MCOffset
  DayLen = 4
  WindowStart = 1
  WindowEnd = 3
  LastMinute = 2
  RefreshHour = 1
  ProbeInterval = 1
  RoundTime = 1
  Quota = 1
  Limit = {1, 2}
  Handler = {h1, h2}
  Boot = boot
  None = none
  MaxProber = 3
  MaxEvents = 2
  MaxTime = 3
CHECK_DEADLOCK FALSE
INVARIANTS
  TypeOK
  ResetNeedsAnswer
  ResetOnce
  LimitsTogether
  Aligned
  RemovedStops
