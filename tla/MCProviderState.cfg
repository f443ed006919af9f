CONSTANTS
  p1 = p1
  p2 = p2
  n1 = n1
  n2 = n2
  x1 = x1
  blank = blank
  Providers = {p1, p2}
  Names = {n1, n2}
  TargetModels = {x1}
  Models = {x1}
  Upstream <- MCUpstream
  Blank = blank
  MaxListed = 2
  InitialTables <- MCTables
  EnvBackend = env
  EnvName = n2
  EnvModels = {x1}
  Admins = {h1, h2}
  Requests = {r1}
SPECIFICATION Spec
SYMMETRY AdminSymmetry
INVARIANTS
  TypeOK
  QuietLoadRoutesAsTables
  EveryVersionWasStored
PROPERTIES
  MissingBackendOnlyForCause

CHECK_DEADLOCK FALSE
