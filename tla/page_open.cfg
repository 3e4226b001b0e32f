SPECIFICATION Spec
CONSTANTS
  Room = {r1, r2}
  NoRoom = NoRoom
  Name = {n1}
  DefaultName = Default
  Colors = 2
  Unadmitted = {r2}
  Outdated = {}
  Hurried = FALSE
  MaxOps = 2
  MaxCalls = 2
  MaxStops = 1
CHECK_DEADLOCK FALSE
INVARIANTS
  TypeOK
  ShowsStored
  CatalogColors
PROPERTIES
  SessionPromise
