\* An echo request of three fragments between two hosts that run this program.
CONSTANTS
  Datagram <- BigPing
  Id = {1, 2, 3, 4}
  NoId = free
  MaxUnits = 2
  BufUnits = 5
  IP_RECV_BUF_NO = 2
  OldestInit <- SignedOldest
  MaxClock = 0
  MaxFaults = 0
SPECIFICATION Spec
INVARIANTS EchoArrivesAsSent
CHECK_DEADLOCK FALSE
