------------------------------ MODULE ArpCache ------------------------------
(***************************************************************************)
(* The ARP table as a component: any thread may announce a binding         *)
(* (ArpAddTable, called by ArpRecv) or delete one (ArpDelTable, called by  *)
(* "arp -d") at any time, in any order.  Lookups change nothing, so they   *)
(* are the operator SearchTable of the table in each state.                *)
(***************************************************************************)
EXTENDS ArpTable, FiniteSets

CONSTANT MaxClock   \* bound on time(NULL), a wall clock that may be set back

ASSUME ClockAssumption == MaxClock \in Nat

VARIABLES
  ArpTable,   \* the array
  spilled,    \* TRUE once ArpAddTable has written in front of the array
  announced,  \* history: the MAC of the latest ArpAddTable call for an address
  deleted     \* history: the ArpDelTable calls that found their address, counted
              \* up to ARP_TABLE_NO

histories == <<announced, deleted>>
vars      == <<ArpTable, spilled, histories>>

TypeOK ==
  /\ ArpTable \in [Slot -> Entry]
  /\ spilled \in BOOLEAN
  /\ announced \in [Address -> HwAddress]
  /\ deleted \in 0 .. ARP_TABLE_NO

Init ==
  /\ ArpTable = EmptyTable
  /\ spilled = FALSE
  /\ announced = [ip \in Address |-> AllZeroMac]
  /\ deleted = 0

ArpAddTable(mac, ip) ==
  /\ \E now \in 0 .. MaxClock : ArpTable' = AddTable(ArpTable, mac, ip, now)
  /\ spilled' = (spilled \/ IntoNo(ArpTable, ip) \notin Slot)
  /\ announced' = [announced EXCEPT ![ip] = mac]
  /\ UNCHANGED deleted

ArpDelTable(ip) ==
  /\ ArpTable' = DelTable(ArpTable, ip)
  /\ deleted' = IF Matching(ArpTable, ip) # {} /\ deleted < ARP_TABLE_NO
                THEN deleted + 1 ELSE deleted
  /\ UNCHANGED <<spilled, announced>>

Next ==
  \/ \E mac \in HwAddress, ip \in Address : ArpAddTable(mac, ip)
  \/ \E ip \in Address : ArpDelTable(ip)

Spec == Init /\ [][Next]_vars

-----------------------------------------------------------------------------
Lookup(ip) == SearchTable(ArpTable, ip)
Full       == Free(ArpTable) = {}

\* No address other than 0.0.0.0 is bound in two slots: ArpAddTable scans the
\* whole table for the address before it takes a free slot, even one it meets
\* first.  (ArpDelTable can leave several used slots with address 0.0.0.0.)
UniqueBinding ==
  \A i, j \in Used(ArpTable) :
    ArpTable[i].ipaddr = ArpTable[j].ipaddr /\ ArpTable[i].ipaddr \in Ip => i = j

\* A lookup never returns an outdated or invented binding: whatever was added,
\* deleted, evicted or lost before, the table binds an address to the MAC of
\* the latest announcement for it, or not at all.
LookupIsLatest ==
  \A ip \in Ip : Lookup(ip) \in {AllZeroMac, announced[ip]}

\* After ArpDelTable(ip) a lookup of ip misses, although the matching slot
\* keeps its MAC unless it is slot 0.
DelForgets ==
  [][\A ip \in Ip : ArpDelTable(ip) => Lookup(ip)' = AllZeroMac]_vars

\* ArpDelTable(ip) can change the lookup of two other addresses only: the one
\* whose entry happens to sit in slot 0, and 0.0.0.0.
DelHarmsOnlySlotZero ==
  [][\A ip \in Address : ArpDelTable(ip) =>
       \A other \in Ip \ {ip} :
         Lookup(other)' # Lookup(other) => 0 \in Matching(ArpTable, other)]_vars

\* An announcement is lost only when the table is full of other addresses, and
\* then ArpAddTable has written in front of the array: slots freed or left
\* half-deleted by ArpDelTable never make an add fail before that.
AddLostOnlyWhenFull ==
  [][\A mac \in Mac, ip \in Address : ArpAddTable(mac, ip) =>
       Lookup(ip)' = mac \/ (Full /\ Lookup(ip) = AllZeroMac /\ spilled')]_vars

\* ArpAddTable writes in front of the array (arp.c:208, "IntoNo" still -1) only
\* when more slots have been asked for than there are: one for each address that
\* has been announced, and one for each deletion, since ArpDelTable leaves the
\* MAC of the slot it empties.
SpillsOnlyWhenCrowded ==
  [][\A mac \in HwAddress, ip \in Address : ArpAddTable(mac, ip) /\ ~spilled /\ spilled' =>
       Cardinality({o \in Address : announced[o] # AllZeroMac} \cup {ip}) + deleted
         > ARP_TABLE_NO]_vars

\* What "arp -d addr : del arp table" promises: the entry of addr goes, every
\* other entry stays.
DelOnlyTarget ==
  [][\A ip \in Address : ArpDelTable(ip) =>
       \A other \in Ip \ {ip} : Lookup(other)' = Lookup(other)]_vars
=============================================================================
