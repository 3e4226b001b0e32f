SPECIFICATION Spec
CONSTANTS
  Finger = {f1, f2}
  None = None
  Width = 2
  MaxScale = 2
  MaxZoom = 2
  Frames = {2, 3}
  MaxObjects = 1
  Tools = {"pen", "text"}
  TwoHands = FALSE
SYMMETRY Symmetry
CONSTRAINT Focus
CHECK_DEADLOCK FALSE
INVARIANTS
  TypeOK
  
  InSight
  HandsOff
PROPERTIES
  WorkKept
