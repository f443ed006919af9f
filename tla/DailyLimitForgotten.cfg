SPECIFICATION Spec
CONSTANTS
  Requests = {r1, r2, r3, r4}
  MaxInFlight = 1
  RequestTimeout = 1
  Window = 3
  MaxRequests = 2
  MagicMax = 2
  ShortExpiry = 2
  LongExpiry = 4
  MaxTime = 8
SYMMETRY RequestSymmetry
CHECK_DEADLOCK FALSE
INVARIANT LimitHolds
