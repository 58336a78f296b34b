\* Two hosts with one address, three probes each, and any frame lost or late.
CONSTANTS
  h1 = h1
  h2 = h2
  Host <- MCHost
  Mac <- MCHost
  AllZeroMac = m0
  Vip = vip
  Ip = {vip}
  AnyIp = ip0
  ARP_TABLE_NO = 2
  OldestInit <- SignedOldest
  RETRY_COUNT = 2
SYMMETRY HostSymmetry
SPECIFICATION Spec
INVARIANTS TypeOK BothKeepOnlyAfterMisses NoFalseAlarm UnsetGatewayIsAProber
CHECK_DEADLOCK FALSE
