------------------------------ MODULE UdpPorts ------------------------------
(***************************************************************************)
(* The table of UDP ports of udp.c, as the StdInThread opens and closes    *)
(* ports in it and MyEthThread looks datagrams up in it.  Port 0 marks a   *)
(* free slot.  Every access takes UdpTableLock, but UdpSocketClose takes   *)
(* it twice: a datagram can arrive between its search and its write.       *)
(***************************************************************************)
EXTENDS Integers

CONSTANTS
  Port,           \* port numbers other than 0
  DhcpPort,       \* DHCP_CLIENT_PORT, kept for the DHCP client
  LastPort,       \* 65535: (u_int16_t)-1
  FreeRange,      \* 32768 .. 60999, where UdpSearchFreePort looks
  UDP_TABLE_NO    \* number of slots (16 in udp.c:35)

ASSUME PortAssumption  == 0 \notin Port /\ {DhcpPort, LastPort} \subseteq Port
ASSUME RangeAssumption == FreeRange \subseteq Port \ {LastPort}
ASSUME SizeAssumption  == UDP_TABLE_NO \in Nat \ {0}

VARIABLES
  UdpTable,   \* the port of each slot
  closing,    \* what UdpSocketClose has found and not cleared yet
  opened,     \* history: the ports opened and not closed since
  verdict     \* history: what UdpRecv made of the last datagram

vars == <<UdpTable, closing, opened, verdict>>

Slot == 0 .. UDP_TABLE_NO - 1
None == [no |-> -1, port |-> 0]

TypeOK ==
  /\ UdpTable \in [Slot -> Port \cup {0}]
  /\ closing \in [no : Slot, port : Port \cup {0}] \cup {None}
  /\ opened \subseteq Port
  /\ verdict \in {"none", "dhcp", "received", "unreachable"}

Init ==
  /\ UdpTable = [i \in Slot |-> 0]
  /\ closing = None
  /\ opened = {}
  /\ verdict = "none"

-----------------------------------------------------------------------------
FirstSlot(S) == CHOOSE i \in S : \A j \in S : i <= j

\* UdpSearchTable: the first slot with the port, -1 if there is none; port 0 is
\* found in a free slot.
UdpSearchTable(port) ==
  LET found == {i \in Slot : UdpTable[i] = port}
  IN  IF found = {} THEN -1 ELSE FirstSlot(found)

\* A variant in a type wider than u_int16_t.
BadSearchFreePort ==
  IF \E p \in FreeRange : UdpSearchTable(p) = -1 THEN -1 ELSE 0

\* The search stops at the first port of the range that is free and returns -1
\* in its place.
UdpSearchFreePort ==
  IF \E p \in FreeRange : UdpSearchTable(p) = -1 THEN LastPort ELSE 0

\* A variant that opens a port twice.
BadCanAdd(port) == UdpSearchTable(0) # -1

CanAdd(port) == UdpSearchTable(port) = -1 /\ UdpSearchTable(0) # -1

\* StdInThread runs one command at a time.
StdinReady == closing = None

\* UdpSocket: the table is full, has the port already, or takes it.
UdpSocket(port) ==
  /\ StdinReady
  /\ LET p == IF port = 0 THEN UdpSearchFreePort ELSE port
     IN  IF port # DhcpPort /\ p # 0 /\ CanAdd(p)
         THEN /\ UdpTable' = [UdpTable EXCEPT ![UdpSearchTable(0)] = p]
              /\ opened' = opened \cup {p}
         ELSE UNCHANGED <<UdpTable, opened>>
  /\ UNCHANGED <<closing, verdict>>

\* UdpSocketClose, up to the end of its search.
CloseSearch(port) ==
  /\ StdinReady
  /\ UdpSearchTable(port) # -1
  /\ closing' = [no |-> UdpSearchTable(port), port |-> port]
  /\ UNCHANGED <<UdpTable, opened, verdict>>

\* UdpSocketClose, from its second lock on.
CloseClear ==
  /\ closing # None
  /\ UdpTable' = [UdpTable EXCEPT ![closing.no] = 0]
  /\ opened' = opened \ {closing.port}
  /\ closing' = None
  /\ UNCHANGED verdict

\* A variant that takes slot 0 for "not found".
BadUdpRecv(port) ==
  /\ verdict' = IF port = DhcpPort THEN "dhcp"
                ELSE IF UdpSearchTable(port) > 0 THEN "received"
                ELSE "unreachable"
  /\ UNCHANGED <<UdpTable, closing, opened>>

\* MyEthThread: a datagram for the port.
UdpRecv(port) ==
  /\ verdict' = IF port = DhcpPort THEN "dhcp"
                ELSE IF UdpSearchTable(port) # -1 THEN "received"
                ELSE "unreachable"
  /\ UNCHANGED <<UdpTable, closing, opened>>

Next ==
  \/ \E port \in Port \cup {0} : UdpSocket(port) \/ CloseSearch(port) \/ UdpRecv(port)
  \/ CloseClear

Spec == Init /\ [][Next]_vars

-----------------------------------------------------------------------------
\* The table holds the open ports, each of them once: nothing is opened twice
\* or survives its close, and CloseClear never frees the slot of another port.
TableIsOpened ==
  /\ {UdpTable[i] : i \in Slot} \ {0} = opened
  /\ \A i, j \in Slot : UdpTable[i] = UdpTable[j] /\ UdpTable[i] # 0 => i = j

\* A datagram for a port that is not open is answered with port unreachable, one
\* for an open port never; port 0, which no one can open, is the exception.
UnreachableIffClosed ==
  [][\A port \in Port \ {DhcpPort} : UdpRecv(port) =>
       (verdict' = "unreachable" <=> port \notin opened)]_vars
=============================================================================
