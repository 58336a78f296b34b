--------------------------- MODULE UdpPortsProofs ---------------------------
(***************************************************************************)
(* Proofs about the table of UDP ports, for every set of ports and every   *)
(* number of slots.                                                        *)
(***************************************************************************)
EXTENDS UdpPorts, WellFoundedInduction, TLAPS

USE PortAssumption, RangeAssumption, SizeAssumption

-----------------------------------------------------------------------------
(* The scan of the table. *)

LEMMA FirstSlotIsIn ==
  ASSUME NEW S \in SUBSET Slot, S # {}
  PROVE  FirstSlot(S) \in S
<1> DEFINE Less == {ss \in Nat \X Nat : ss[1] < ss[2]}
<1>1. IsWellFoundedOn(Less, Nat)
  BY NatLessThanWellFounded DEF OpToRel
<1>2. S \in SUBSET Nat
  BY DEF Slot
<1>3. PICK x \in S : \A y \in S : ~ (<<y, x>> \in Less)
  <2> HIDE DEF Less
  <2> QED BY <1>1, <1>2, WFMin
<1>4. ASSUME NEW y \in S PROVE x <= y
  <2>1. ~ (<<y, x>> \in Less)
    BY <1>3
  <2>2. <<y, x>> \in Nat \X Nat
    BY <1>2
  <2>3. ~ (y < x)
    BY <2>1, <2>2
  <2>4. QED
    BY <2>2, <2>3
<1>5. QED
  BY <1>4 DEF FirstSlot

\* A search finds a slot with the port, or there is none.
LEMMA SearchCases ==
  ASSUME NEW port
  PROVE  \/ UdpSearchTable(port) = -1 /\ \A i \in Slot : UdpTable[i] # port
         \/ UdpSearchTable(port) \in Slot /\ UdpTable[UdpSearchTable(port)] = port
<1> DEFINE found == {i \in Slot : UdpTable[i] = port}
<1>1. CASE found = {}
  BY <1>1 DEF UdpSearchTable
<1>2. CASE found # {}
  <2>1. FirstSlot(found) \in found
    BY <1>2, FirstSlotIsIn
  <2>2. UdpSearchTable(port) = FirstSlot(found)
    BY <1>2 DEF UdpSearchTable
  <2>3. QED
    BY <2>1, <2>2
<1>3. QED
  BY <1>1, <1>2

LEMMA MinusOneIsNoSlot == -1 \notin Slot
  BY DEF Slot

LEMMA FreePortType == UdpSearchFreePort \in Port \cup {0}
  BY DEF UdpSearchFreePort

-----------------------------------------------------------------------------
(* The inductive invariant. *)

\* The slot a close is about to clear still holds the port it was found for: the
\* only thread that changes the table is the one that closes.
CloseHitsItsPort == closing # None => UdpTable[closing.no] = closing.port

IInv == TypeOK /\ TableIsOpened /\ CloseHitsItsPort

LEMMA InitIInv == Init => IInv
<1> SUFFICES ASSUME Init PROVE IInv
  OBVIOUS
<1>1. TypeOK
  BY DEF Init, TypeOK, None
<1>2. TableIsOpened
  BY DEF Init, TableIsOpened
<1>3. QED
  BY <1>1, <1>2 DEF Init, IInv, CloseHitsItsPort

LEMMA SocketIInv ==
  ASSUME IInv, NEW port \in Port \cup {0}, UdpSocket(port)
  PROVE  IInv'
<1> DEFINE p    == IF port = 0 THEN UdpSearchFreePort ELSE port
           free == UdpSearchTable(0)
<1>1. CASE UNCHANGED <<UdpTable, opened>>
  BY <1>1 DEF UdpSocket, IInv, TypeOK, TableIsOpened, CloseHitsItsPort, None, StdinReady
<1>2. CASE ~UNCHANGED <<UdpTable, opened>>
  <2>1. p # 0 /\ CanAdd(p) /\ closing = None /\ closing' = closing /\ verdict' = verdict
    BY <1>2 DEF UdpSocket, StdinReady
  <2>2. UdpTable' = [UdpTable EXCEPT ![free] = p] /\ opened' = opened \cup {p}
    BY <1>2 DEF UdpSocket
  <2>3. p \in Port
    BY <2>1, FreePortType
  <2>4. \A i \in Slot : UdpTable[i] # p
    <3>1. UdpSearchTable(p) = -1
      BY <2>1 DEF CanAdd
    <3>2. QED
      BY <3>1, SearchCases, MinusOneIsNoSlot
  <2>5. free \in Slot /\ UdpTable[free] = 0
    <3>1. free # -1
      BY <2>1 DEF CanAdd
    <3>2. QED
      BY <3>1, SearchCases
  <2> HIDE DEF p, free
  <2>6. UdpTable \in [Slot -> Port \cup {0}] /\ opened \subseteq Port
    BY DEF IInv, TypeOK
  <2>7. TypeOK'
    BY <2>1, <2>2, <2>3, <2>5, <2>6 DEF IInv, TypeOK, None
  <2>8. TableIsOpened'
    <3>1. \A i \in Slot : UdpTable'[i] = IF i = free THEN p ELSE UdpTable[i]
      BY <2>2, <2>6
    <3>2. {UdpTable[i] : i \in Slot} \ {0} = opened
      BY DEF IInv, TableIsOpened
    <3>3. \A i, j \in Slot : UdpTable[i] = UdpTable[j] /\ UdpTable[i] # 0 => i = j
      BY DEF IInv, TableIsOpened
    <3>4. {UdpTable'[i] : i \in Slot} \ {0} = opened'
      BY <2>1, <2>2, <2>5, <3>1, <3>2
    <3>5. \A i, j \in Slot : UdpTable'[i] = UdpTable'[j] /\ UdpTable'[i] # 0 => i = j
      BY <2>4, <3>1, <3>3
    <3>6. QED
      BY <3>4, <3>5 DEF TableIsOpened
  <2>9. CloseHitsItsPort'
    BY <2>1 DEF CloseHitsItsPort, None
  <2>10. QED
    BY <2>7, <2>8, <2>9 DEF IInv
<1>3. QED
  BY <1>1, <1>2

LEMMA SearchIInv ==
  ASSUME IInv, NEW port \in Port \cup {0}, CloseSearch(port)
  PROVE  IInv'
<1>1. UdpSearchTable(port) \in Slot /\ UdpTable[UdpSearchTable(port)] = port
  BY SearchCases DEF CloseSearch
<1>2. closing' = [no |-> UdpSearchTable(port), port |-> port] /\ UNCHANGED <<UdpTable, opened, verdict>>
  BY DEF CloseSearch
<1>3. TypeOK'
  BY <1>1, <1>2 DEF IInv, TypeOK
<1>4. TableIsOpened'
  BY <1>2 DEF IInv, TableIsOpened
<1>5. CloseHitsItsPort'
  BY <1>1, <1>2 DEF CloseHitsItsPort
<1>6. QED
  BY <1>3, <1>4, <1>5 DEF IInv

LEMMA ClearIInv ==
  ASSUME IInv, CloseClear
  PROVE  IInv'
<1> DEFINE no == closing.no
           port == closing.port
<1>1. no \in Slot /\ port \in Port \cup {0} /\ UdpTable[no] = port
  BY DEF IInv, TypeOK, CloseClear, CloseHitsItsPort
<1>2. /\ UdpTable' = [UdpTable EXCEPT ![no] = 0]
      /\ opened' = opened \ {port}
      /\ closing' = None /\ verdict' = verdict
  BY DEF CloseClear
<1> HIDE DEF no, port
<1>3. UdpTable \in [Slot -> Port \cup {0}] /\ opened \subseteq Port
  BY DEF IInv, TypeOK
<1>4. \A i \in Slot : UdpTable'[i] = IF i = no THEN 0 ELSE UdpTable[i]
  BY <1>2, <1>3
<1>5. TypeOK'
  BY <1>1, <1>2, <1>3 DEF IInv, TypeOK
<1>6. TableIsOpened'
  <2>1. {UdpTable[i] : i \in Slot} \ {0} = opened
    BY DEF IInv, TableIsOpened
  <2>2. \A i, j \in Slot : UdpTable[i] = UdpTable[j] /\ UdpTable[i] # 0 => i = j
    BY DEF IInv, TableIsOpened
  <2>3. ASSUME NEW i \in Slot, i # no, UdpTable[i] # 0
        PROVE  UdpTable[i] # port
    BY <1>1, <2>2, <2>3
  <2>4. {UdpTable'[i] : i \in Slot} \ {0} = opened \ {port}
    BY <1>1, <1>4, <2>1, <2>3
  <2>5. \A i, j \in Slot : UdpTable'[i] = UdpTable'[j] /\ UdpTable'[i] # 0 => i = j
    BY <1>4, <2>2
  <2>6. QED
    BY <1>2, <2>4, <2>5 DEF TableIsOpened
<1>7. CloseHitsItsPort'
  BY <1>2 DEF CloseHitsItsPort
<1>8. QED
  BY <1>5, <1>6, <1>7 DEF IInv

LEMMA RecvIInv ==
  ASSUME IInv, NEW port \in Port \cup {0}, UdpRecv(port)
  PROVE  IInv'
<1>1. UNCHANGED <<UdpTable, closing, opened>>
  BY DEF UdpRecv
<1>2. verdict' \in {"dhcp", "received", "unreachable"}
  BY DEF UdpRecv
<1>3. QED
  BY <1>1, <1>2 DEF IInv, TypeOK, TableIsOpened, CloseHitsItsPort

LEMMA StepIInv == IInv /\ [Next]_vars => IInv'
<1> SUFFICES ASSUME IInv, [Next]_vars PROVE IInv'
  OBVIOUS
<1>1. CASE \E port \in Port \cup {0} : UdpSocket(port)
  BY <1>1, SocketIInv
<1>2. CASE \E port \in Port \cup {0} : CloseSearch(port)
  BY <1>2, SearchIInv
<1>3. CASE \E port \in Port \cup {0} : UdpRecv(port)
  BY <1>3, RecvIInv
<1>4. CASE CloseClear
  BY <1>4, ClearIInv
<1>5. CASE UNCHANGED vars
  BY <1>5 DEF vars, IInv, TypeOK, TableIsOpened, CloseHitsItsPort
<1>6. QED
  BY <1>1, <1>2, <1>3, <1>4, <1>5 DEF Next

LEMMA SpecIInv == Spec => []IInv
<1>1. QED
  BY InitIInv, StepIInv, PTL DEF Spec

-----------------------------------------------------------------------------
(* Theorems. *)

\* The table, the close under way and the verdicts keep their types (udp.c:34-42).
THEOREM PortsTypeCorrect == Spec => []TypeOK
<1>1. IInv => TypeOK
  BY DEF IInv
<1>2. QED
  BY <1>1, SpecIInv, PTL

\* The table holds the open ports, each once, also between the two locks of
\* UdpSocketClose (udp.c:209-227).
THEOREM TableFollowsOpens == Spec => []TableIsOpened
<1>1. IInv => TableIsOpened
  BY DEF IInv
<1>2. QED
  BY <1>1, SpecIInv, PTL

\* UdpRecv answers with port unreachable exactly where no port is open
\* (udp.c:318), port 0 and the DHCP port apart.
THEOREM ClosedPortsAreUnreachable == Spec => UnreachableIffClosed
<1>1. ASSUME IInv, NEW port \in Port \ {DhcpPort}, UdpRecv(port)
      PROVE  verdict' = "unreachable" <=> port \notin opened
  <2>1. verdict' = IF UdpSearchTable(port) # -1 THEN "received" ELSE "unreachable"
    BY <1>1 DEF UdpRecv
  <2>2. port \in opened <=> \E i \in Slot : UdpTable[i] = port
    BY <1>1 DEF IInv, TableIsOpened
  <2>3. UdpSearchTable(port) # -1 <=> \E i \in Slot : UdpTable[i] = port
    BY SearchCases, MinusOneIsNoSlot
  <2>4. QED
    BY <2>1, <2>2, <2>3
<1>2. IInv /\ [Next]_vars =>
        [\A port \in Port \ {DhcpPort} : UdpRecv(port) =>
           (verdict' = "unreachable" <=> port \notin opened)]_vars
  BY <1>1
<1>3. QED
  BY <1>2, SpecIInv, PTL DEF Spec, UnreachableIffClosed
=============================================================================
