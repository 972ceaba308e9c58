SPECIFICATION FairSpec
CONSTANTS
  Threads <- MCTwoThreads
  MaxConnects = 1
  MaxSends = 0
  MaxCalls = 1
  MayFailAtOnce = FALSE
INVARIANTS
  EndsOnce
CHECK_DEADLOCK FALSE
