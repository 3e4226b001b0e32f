SPECIFICATION Spec
CONSTANTS
  None = None
  Person = {owner, ann, bob}
  Creator = owner
  MaxMembers = 2
  MaxInvites = 2
  Cooldown = 2
  MaxStamp = 4
  Artists = {ann}
CHECK_DEADLOCK FALSE
INVARIANTS
  OnlyInvited
  
PROPERTIES
  PlacesKept
  StaysRight
