SPECIFICATION FairSpec
CONSTANTS
  p1 = p1
  p2 = p2
  k1 = k1
  k2 = k2
  k3 = k3
  Calls = {c1, c2}
  Providers = {p1, p2}
  Keys <- MCKeys
  NoKey = NoKey
  MaxRetries = 1
  CounterCycle = 2
INVARIANTS
  TypeOK
  ExhaustedAfterEveryKey
PROPERTIES
  StickyUntilCause
  RetiredKeyAbandoned
