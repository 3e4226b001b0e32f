SPECIFICATION Spec
CONSTANTS
  Room = {r1, r3}
  NoRoom = NoRoom
  Name = {n1}
  DefaultName = Default
  Colors = 2
  Unadmitted = {}
  Outdated = {r3}
  Hurried = FALSE
  MaxOps = 1
  MaxCalls = 2
  MaxStops = 1
CHECK_DEADLOCK FALSE
PROPERTY WaitingEnds
