SPECIFICATION Spec
CONSTANTS
  Client = {1}
  Server = {2, 3}
  Key = {"hello", "operation", "event"}
  Greeting = "hello"
  Urgency <- UrgencyOf
  Frames <- FramesOf
  MaxFrames = 4
  Reserve = 1
  MaxFailures = 2
  MaxInbound = 2
  IdSpace = 65536
  MaxMessages = 5
  MaxUpsets = 2
INVARIANTS
  TypeOK
  HandledWhole
  KeysHeld
  OneSender
  NoStall
CONSTRAINT Focus
CHECK_DEADLOCK FALSE
