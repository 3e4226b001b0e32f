SPECIFICATION Spec
CONSTANTS
  Person = {"me", "b"}
  Me = "me"
  Hide = TRUE
  Hurried = FALSE
  MaxPosts = 2
  MaxQueue = 2
  MaxKills = 1
CONSTRAINT Focus
CHECK_DEADLOCK FALSE
INVARIANTS
  TypeOK
  Complete
  Openable
  AboutWhomItSays
  BackLeadsOut
