\* What icmp.c:241 prints.
CONSTANTS
  PING_SEND_NO = 2
  Second = 2
  Borrow = 1
  Pid = 5
  IdRange = 8
  Commands = 2
  MaxClock = 9
SPECIFICATION Spec
INVARIANT TimeIsMilliseconds
CHECK_DEADLOCK FALSE
