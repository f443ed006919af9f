CONSTANTS
  p1 = p1
  p2 = p2
  n1 = n1
  n2 = n2
  Providers = {p1, p2}
  Names = {n1, n2}
  FirstNames <- MCNames
  Prices <- MCPrices
  Seed <- MCSeed
  Commands = {c1, c2}
  MaxChanges = 1
  Requests = {r1}
  CaptureLevel = "metadata_only"
  MaxRestarts = 1
SPECIFICATION Spec
SYMMETRY CommandSymmetry
INVARIANTS
  TypeOK
  BilledForTheAnswer
  LogAgreesWithCharge
  CapturedIffAnswered
  EngineDiffersOnlyForCause

CHECK_DEADLOCK FALSE
