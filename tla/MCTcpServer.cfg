SPECIFICATION FairSpec
CONSTANTS
  MaxSessions = 2
  MaxCalls = 1
  MaxBroadcasts = 2
  MaxList = 0
  Excludes <- MCExcludes
  Closers = {2}
  Shutters = {1}
INVARIANTS
  Accounted
  GotInOrder
  EventsFindSessions
PROPERTIES
  ImplementsRegistry
  ClosedWhenTold
  BroadcastReaches
  LooperEnds
CHECK_DEADLOCK FALSE
