SPECIFICATION FairSpec
CONSTANTS
  Threads <- MCOneThread
  MaxConnects = 2
  MaxSends = 0
  MaxCalls = 0
  MayFailAtOnce = FALSE
PROPERTIES
  ConnectAnswered
CHECK_DEADLOCK FALSE
