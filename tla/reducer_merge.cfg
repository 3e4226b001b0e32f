SPECIFICATION Spec
CONSTANTS
  Phone = {1, 2}
  Kinds = {"s", "m", "k", "d", "c", "n", "x"}
  MaxObjects = 2
  MaxMods = 1
  MaxDeletes = 1
  MaxOthers = 1
  Cap <- CapOf
  MaxSeen = 9
  MaxEvents = 4
  MaxInbox = 1
  ShortKinds = {"c", "k", "n", "x"}
INVARIANTS TypeOK BoardIsMerge
PROPERTIES LocalEditWins
CONSTRAINT Short
