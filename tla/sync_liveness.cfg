SPECIFICATION FairSpec
CONSTANTS
  Phone = {1,2}
  Neighbour = {{1, 2}}
  Wifi = {}
  Author = {1}
  MaxOps = 1
  MaxQueue = 3
  Reserve = 1
  MaxAttempts = 1
  MaxPulse = 1
  MaxRange = 1
  MaxWantRanges = 1
  MaxUpsets = 1
  MaxTraffic = 99
  Third = {}
  Second = {}
PROPERTY Convergence
