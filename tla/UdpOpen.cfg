\* "udp open port" typed at the prompt.
CONSTANTS
  Port = {68, 7, 32768, 65535}
  DhcpPort = 68
  LastPort = 65535
  FreeRange = {32768}
  UDP_TABLE_NO = 3
  Atoi = atoi
SPECIFICATION CmdSpec
PROPERTIES OpenCommandOpens
