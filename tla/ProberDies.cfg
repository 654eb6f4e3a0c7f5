SPECIFICATION Spec
CONSTANTS
  k1 = k1
  k2 = k2
  Key = {k1}
  Offset <- MCOffset
  DayLen = 4
  WindowStart = 1
  WindowEnd = 3
  LastMinute = 2
  RefreshHour = 1
  ProbeInterval = 1
  RoundTime = 1
  Quota = 1
  Limit = {1}
  Handler = {h1}
  Boot = boot
  None = none
  MaxProber = 2
  MaxEvents = 1
  MaxTime = 2
CHECK_DEADLOCK FALSE
INVARIANT HandleAlive
