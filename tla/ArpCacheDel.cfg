\* "arp -d addr" in the recorded build.
CONSTANTS
  Mac = {m1, m2}
  AllZeroMac = m0
  Ip = {a, b, c}
  AnyIp = ip0
  ARP_TABLE_NO = 3
  OldestInit <- SignedOldest
  MaxClock = 1
SYMMETRY Symmetry
SPECIFICATION Spec

PROPERTIES DelOnlyTarget
