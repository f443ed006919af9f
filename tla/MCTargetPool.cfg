SPECIFICATION FairSpec
CONSTANTS
  t1 = t1
  t2 = t2
  t3 = t3
  b1 = b1
  b2 = b2
  Backends = {b1, b2}
  Targets = {t1, t2, t3}
  Pool <- MCPool
  Priority <- MCPriority
  Requests = {r1, r2}
  NoBackend = NoBackend
  Threshold = 1
  Timeout = 1
  HalfOpenMaxCalls = 2
INVARIANTS
  TypeOK
  ExhaustedOnlyAfterAllAttempts
  HigherPriorityFirst
PROPERTIES
  OpenBackendCalledOnlyForCause
  RequestsMoveForward
  RequestEnds
  RecoveredBackendCloses
