\* A network that loses, repeats or reorders one fragment, in the recorded build.
CONSTANTS
  Datagram <- Mixed
  Id = {1, 2, 3, 4, 5}
  NoId = free
  MaxUnits = 2
  BufUnits = 5
  IP_RECV_BUF_NO = 2
  OldestInit <- SignedOldest
  MaxClock = 0
  MaxFaults = 1
SPECIFICATION FairSpec
INVARIANTS TypeOK UniqueIds SingleFrameIntact BuffersAreReturned
PROPERTIES WildOnlyWhenCrowded ImplementsDelivery EventuallyDelivered
CHECK_DEADLOCK FALSE
