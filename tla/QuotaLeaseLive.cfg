SPECIFICATION LiveSpec
CONSTANTS
  Bucket = {b1}
  Lease = {l1, l2}
  Hard = 2
  MaxAmount = 1
  MaxActual = 1
  TTL = 1
  DayLen = 2
  Batch = 1
  Horizon = 3
  LastStart = 2
  MaxSend = 2
  MaxRefresh = 0
PROPERTIES
  LeasesEnd
  CounterHeals
