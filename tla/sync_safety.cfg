SPECIFICATION Spec
CONSTANTS
  Phone = {1,2,3}
  Neighbour = {{1, 2}, {2, 3}}
  Wifi = {{1, 2}}
  Author = {1,2}
  MaxOps = 2
  MaxQueue = 2
  Reserve = 1
  MaxAttempts = 1
  MaxPulse = 1
  MaxRange = 1
  MaxWantRanges = 1
  MaxUpsets = 1
  MaxTraffic = 2
  Third = {3}
  Second = {2}
INVARIANTS
  TypeOK
  NoForkedSequence
  ConfirmedIsStored
  NothingClaimedUnstored
PROPERTIES
  
  ImplementsLog
CONSTRAINT Focus
