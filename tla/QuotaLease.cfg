SPECIFICATION Spec
SYMMETRY Symmetry
CONSTANTS
  Bucket = {b1}
  Lease = {l1, l2}
  Hard = 3
  MaxAmount = 2
  MaxActual = 2
  TTL = 1
  DayLen = 2
  Batch = 1
  Horizon = 3
  LastStart = 1
  MaxSend = 1
  MaxRefresh = 1
INVARIANTS
  TypeOK
  NoPhantomReservation
  ReservationsCovered
  OverspendBounded
  SettledIsBooked
  BookedOnce
PROPERTIES
  LeaseKeptUntilExpiry
  ImplementsLedger
