------------------------------ MODULE ArpTable ------------------------------
(***************************************************************************)
(* The ARP table of arp.c as a value, and what its four operations compute *)
(* from it.  Every operation of the code runs start to end under           *)
(* ArpTableLock (wrlock for ArpAddTable and ArpDelTable, rdlock for        *)
(* ArpSearchTable and ArpShowTable), so each is one atomic function of the *)
(* table; the modules that use this one decide who calls it and when.      *)
(*                                                                         *)
(* A slot is free exactly when its MAC is AllZeroMac; the address and the  *)
(* timestamp left behind in a free slot are never looked at.               *)
(***************************************************************************)
EXTENDS Integers

CONSTANTS
  Mac,           \* hardware addresses of cards
  AllZeroMac,    \* ether.c:30, the mark of a free slot
  Ip,            \* addresses other than 0.0.0.0
  AnyIp,         \* 0.0.0.0, also the value ArpDelTable leaves in ipaddr
  ARP_TABLE_NO,  \* number of slots (16 in arp.c:22)
  OldestInit     \* what "time_t oldsetTime = ULONG_MAX" leaves in oldsetTime:
                 \* -1 where time_t is a signed 64-bit long (the recorded
                 \* build), a value above every clock where long has 32 bits
                 \* and time_t 64

ASSUME MacAssumption  == AllZeroMac \notin Mac
ASSUME IpAssumption   == AnyIp \notin Ip
ASSUME SizeAssumption == ARP_TABLE_NO \in Nat \ {0}
ASSUME TimeAssumption == OldestInit \in Int

\* What a frame's arp_sha holds is not looked at, so it may be AllZeroMac too.
HwAddress == Mac \cup {AllZeroMac}

Slot    == 0 .. ARP_TABLE_NO - 1
Address == Ip \cup {AnyIp}
Entry   == [timestamp : Nat, mac : HwAddress, ipaddr : Address]

\* The table is a zero-initialised global.
EmptyTable == [i \in Slot |-> [timestamp |-> 0, mac |-> AllZeroMac, ipaddr |-> AnyIp]]

First(S)       == CHOOSE i \in S : \A j \in S : i <= j
Used(t)        == {i \in Slot : t[i].mac # AllZeroMac}
Free(t)        == Slot \ Used(t)
Matching(t, ip) == {i \in Used(t) : t[i].ipaddr = ip}

\* The scan keeps a used slot when its timestamp is strictly below the best so
\* far, starting from OldestInit: with OldestInit = -1 it keeps none.
OldestNo(t) ==
  LET older  == {i \in Used(t) : t[i].timestamp < OldestInit}
      oldest == {i \in older : \A j \in older : t[i].timestamp <= t[j].timestamp}
  IN  IF older = {} THEN -1 ELSE First(oldest)

\* Variants of the code by which the properties are tested, as all "Bad" operators
\* are; no specification uses them.  Here a scan that stops at the first free slot.
BadIntoNoFreeFirst(t, ip) ==
  IF Free(t) # {} THEN First(Free(t))
  ELSE IF Matching(t, ip) # {} THEN First(Matching(t, ip))
  ELSE OldestNo(t)

\* A scan that does not remember free slots.
BadIntoNoNoFree(t, ip) ==
  IF Matching(t, ip) # {} THEN First(Matching(t, ip)) ELSE OldestNo(t)

\* The index ArpAddTable writes and returns; -1 is not a slot.
IntoNo(t, ip) ==
  IF Matching(t, ip) # {} THEN First(Matching(t, ip))
  ELSE IF Free(t) # {} THEN First(Free(t))
  ELSE OldestNo(t)

\* A known address has its timestamp refreshed but not its MAC.
BadAddTable(t, mac, ip, now) ==
  IF Matching(t, ip) # {} THEN [t EXCEPT ![First(Matching(t, ip))].timestamp = now]
  ELSE IF IntoNo(t, ip) \in Slot
  THEN [t EXCEPT ![IntoNo(t, ip)] = [timestamp |-> now, mac |-> mac, ipaddr |-> ip]]
  ELSE t

\* A write through index -1 lands in front of the array and leaves it as it was; the
\* modules that use this one note it.  An entry stored with AllZeroMac is a free slot.
AddTable(t, mac, ip, now) ==
  IF IntoNo(t, ip) \in Slot
  THEN [t EXCEPT ![IntoNo(t, ip)] = [timestamp |-> now, mac |-> mac, ipaddr |-> ip]]
  ELSE t

\* The matching slot keeps its address.
BadDelKeepsAddress(t, ip) ==
  IF Matching(t, ip) = {} THEN t ELSE [t EXCEPT ![0].mac = AllZeroMac]

\* The MAC of the last slot is cleared.
BadDelLastSlot(t, ip) ==
  IF Matching(t, ip) = {} THEN t
  ELSE LET i == First(Matching(t, ip))
       IN  [[t EXCEPT ![i].ipaddr = AnyIp] EXCEPT ![ARP_TABLE_NO - 1].mac = AllZeroMac]

\* "memcpy(ArpTable->mac, AllZeroMac, 6)" clears the MAC of slot 0, not of the
\* slot that matched; address and timestamp are cleared in the matching slot.
DelTable(t, ip) ==
  IF Matching(t, ip) = {} THEN t
  ELSE LET i       == First(Matching(t, ip))
           cleared == [t EXCEPT ![i].ipaddr = AnyIp, ![i].timestamp = 0]
       IN  [cleared EXCEPT ![0].mac = AllZeroMac]

\* AllZeroMac stands for "return 0": a MAC found in the table is never zero.
SearchTable(t, ip) ==
  IF Matching(t, ip) = {} THEN AllZeroMac ELSE t[First(Matching(t, ip))].mac
=============================================================================
