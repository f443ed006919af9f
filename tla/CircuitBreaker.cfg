SPECIFICATION FairBreakerSpec
CONSTANTS
  Backends = {b1, b2}
  Threshold = 3
  Timeout = 2
  HalfOpenMaxCalls = 2
INVARIANTS
  BreakerTypes
PROPERTIES
  TransitionsAreEarned
  QuietBackendReadmitted
  ImplementsContract
