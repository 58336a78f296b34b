\* Three slots, four ports: a full table, reopened ports, closes under traffic.
CONSTANTS
  Port = {68, 7, 32768, 65535}
  DhcpPort = 68
  LastPort = 65535
  FreeRange = {32768}
  UDP_TABLE_NO = 3
SPECIFICATION Spec
INVARIANTS TypeOK TableIsOpened
PROPERTIES UnreachableIffClosed
