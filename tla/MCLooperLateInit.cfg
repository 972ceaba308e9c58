SPECIFICATION Spec
CONSTANTS
  Producers = {p1}
  Closers = {c1}
  Users = {u1}
  Owner = Owner
  Loop = Loop
  Nobody = Nobody
  MaxEvents = 1
  PromptInit = FALSE
INVARIANTS
  RunsUntilClosed
CHECK_DEADLOCK FALSE
