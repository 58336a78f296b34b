\* Seven parameter files, two lines typed, two DHCP tries, pings of two requests.
CONSTANTS
  AnyIp = ip0
  AllOnes = ones
  BadAddress = bad
  Vip = leased
  vip = vip
  File <- MCFile
  Line <- MCLine
  Atoi <- MCAtoi
  MaxLines = 2
  LongName <- MCLongName
  EchoSize = {4, 8}
  DHCP_TRIES = 2
  PING_SEND_NO = 2
  Wide = 1073741824
SPECIFICATION FairSpec
INVARIANTS TypeOK OverrunOnlyWhenAskedFor AnswersCountUnlessLate EachTypedLineActsOnce
PROPERTIES SignalEnds SendersReturn
CHECK_DEADLOCK FALSE
