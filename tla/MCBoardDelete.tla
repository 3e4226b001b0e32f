--------------------------- MODULE MCBoardDelete ----------------------------
EXTENDS BoardDelete, FiniteSetsExt

CONSTANT MaxTraffic  \* bound: messages queued or in flight, all routes together

BoundedTraffic ==
  MapThenSumSet(LAMBDA r : Cardinality(out[r[1]][r[2]]), Phone \X Phone) <= MaxTraffic
=============================================================================
