SPECIFICATION FairSpec
CONSTANTS
  Requests = {r1, r2}
  SentBudgets <- MCSentBudgets
  MaxBudget = 3
  Costs = {1}
  DefaultBudget = 3
  Enforce = TRUE
  Day = 1
  SpendCap = 4
INVARIANTS
  TypeOK
  OvershootBounded
  AdmittedByBothReadings
PROPERTIES
  ExhaustedKeyRecovers
  RevokedKeyDrains
