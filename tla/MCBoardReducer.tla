--------------------------- MODULE MCBoardReducer ---------------------------
EXTENDS BoardReducer

CONSTANTS
  MaxObjects, MaxMods, MaxDeletes, MaxOthers,  \* caps, scaled down
  ShortKinds  \* bound: kinds left out of the longest histories

CapOf == [objects |-> MaxObjects, mods |-> MaxMods, deletes |-> MaxDeletes,
          clears |-> MaxOthers, names |-> MaxOthers, cancels |-> MaxOthers]

Short == Cardinality(Events) < MaxEvents \/ \A e \in Events : e.k \notin ShortKinds
=============================================================================
