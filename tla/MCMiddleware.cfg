CONSTANTS
  Configs = {1, 2}
  Priorities = {1, 2}
  Initial <- MCInitial
  Requests = {r1}
  MaxEdits = 2
SPECIFICATION Spec
INVARIANTS
  TypeOK
  NothingSentPastAScript
  AuditAgreesWithFate

CHECK_DEADLOCK FALSE
