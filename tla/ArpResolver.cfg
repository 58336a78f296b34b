\* The three threads around the table; main may end the process. Hosts that are not
\* on our link are reached through a.
CONSTANTS
  a = a
  m1 = m1
  m2 = m2
  Mac = {m1, m2}
  AllZeroMac = m0
  Vip = vip
  Ip = {vip, a}
  AnyIp = ip0
  ARP_TABLE_NO = 2
  OldestInit <- SignedOldest
  MaxClock = 0
  Gateway = a
  OnLink = {vip, a}
  RETRY_COUNT = 1
  Frame <- MCFrame
  QueueMax = 1
SPECIFICATION FairSpec
INVARIANTS ResolverTypeOK UniqueBinding LookupIsLatest ReceiverAsksInVain
PROPERTIES DelForgets DelHarmsOnlySlotZero AddLostOnlyWhenFull SpillsOnlyWhenCrowded ResolutionReturns QueueIsServed
CHECK_DEADLOCK FALSE
