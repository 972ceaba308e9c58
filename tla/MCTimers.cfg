SPECIFICATION FairSpec
CONSTANTS
  Timers = {t1, t2}
  None = None
  Request = Request
  Timeouts = {0, 2, 4}
  Repeats = {0, 2}
  Top = 4
  IntMax = 1
  Early = 1
  MaxTime = 3
  LastCall = 1
  Horizon = 2
  MaxCalls = 3
INVARIANTS
  TimersInv
PROPERTIES
  ImplementsTimers
  DueRuns
  RequestsRun
CHECK_DEADLOCK FALSE
