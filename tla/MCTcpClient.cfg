SPECIFICATION FairSpec
CONSTANTS
  Threads <- MCTwoThreads
  MaxConnects = 2
  MaxSends = 2
  MaxCalls = 2
  MayFailAtOnce = TRUE
INVARIANTS
  ClientInv
  NoGapInData
  ClosedOnce
  QuietAfterLooper
PROPERTIES
  TimeOutOnlyWhileConnecting
  FirstConnectAnswered
  CloseReported
  LooperEnds
CHECK_DEADLOCK FALSE
