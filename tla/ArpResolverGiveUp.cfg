\* "Destination Host Unreachable" for a host that has answered.
CONSTANTS
  a = a
  m1 = m1
  m2 = m2
  Mac = {m1, m2}
  AllZeroMac = m0
  Vip = vip
  Ip = {vip, a}
  AnyIp = ip0
  ARP_TABLE_NO = 2
  OldestInit <- SignedOldest
  MaxClock = 0
  Gateway = ip0
  OnLink = {vip, a}
  RETRY_COUNT = 1
  Frame <- FewFrames
  QueueMax = 1
SPECIFICATION ResolverSpec
PROPERTIES UnreachableMeansUnknown
CHECK_DEADLOCK FALSE
