SPECIFICATION FairSpec
CONSTANTS
  a1 = a1
  a2 = a2
  Accepts = {a1, a2}
  Types = {"connection", "listener", "udp"}
  Uses <- MCUses
  w1 = w1
  w2 = w2
  Writes = {w1, w2}
INVARIANTS
  Accounted
  AliveWhileDue
PROPERTIES
  ImplementsContract
  CloseEnds
  ShutdownAnswered
CHECK_DEADLOCK FALSE
