CONSTANTS
  UTC = UTC
  Bangkok = Bangkok
  Requests = {r1}
  Zones = {UTC, Bangkok}
  DefaultZone = UTC
  BrowserZone = Bangkok
  Offset <- MCOffset
  BadZones = {BadZone, EmptyZone}
  BadZone = BadZone
  EmptyZone = EmptyZone
  Tags = {t1}
  BadTags = BadTags
  Null = Null
  LastHour = 2
  Byte = 5
  SentHours <- MCSentHours
  MaxEdits = 3
SPECIFICATION Spec
INVARIANTS
  TypeOK
  WindowSoundUnlessPartial
PROPERTIES
  AdmittedOnTheArc
  UntouchedFormKeepsHours

CHECK_DEADLOCK FALSE
