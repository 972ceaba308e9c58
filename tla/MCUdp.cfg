SPECIFICATION FairSpec
CONSTANTS
  Senders = {t1, t2}
  MaxSends = 1
  MaxItems = 3
  Room = 2
INVARIANTS
  UdpInv
PROPERTIES
  Heard
  Ends
CHECK_DEADLOCK FALSE
