SPECIFICATION FairSpec
CONSTANTS
  Producers = {p1, p2}
  Closers = {c1}
  Users = {u1}
  Owner = Owner
  Loop = Loop
  Nobody = Nobody
  MaxEvents = 1
  PromptInit = TRUE
INVARIANTS
  IInv
  NoLostWakeup
  CloseComesAfterEvents
  LoopEndsClosed
PROPERTIES
  ImplementsQueue
  EndsQuietly
  EventsHandled
  DestroyEnds
CHECK_DEADLOCK FALSE
