------------------------------ MODULE ArpProofs ------------------------------
(***************************************************************************)
(* Proofs about the ARP cache, for every set of addresses and MACs, every  *)
(* table size and every value OldestInit of the eviction scan, and about   *)
(* the three threads around it, for every set of frames and every number   *)
(* of retries.                                                             *)
(***************************************************************************)
EXTENDS ArpResolver, ArpTableProofs, FiniteSetTheorems

-----------------------------------------------------------------------------
(* The inductive invariant.  UniqueBinding alone is inductive; that lookups *)
(* are up to date is not: an add to the first of two slots of one address   *)
(* would leave the other one outdated, so the two go together, and the      *)
(* second speaks of slots, not of lookups.                                  *)

SlotsAreLatest ==
  \A i \in Used(ArpTable) :
    ArpTable[i].ipaddr \in Ip => ArpTable[i].mac = announced[ArpTable[i].ipaddr]

IInv == TypeOK /\ UniqueBinding /\ SlotsAreLatest

LEMMA InitIInv == Init => IInv
<1> SUFFICES ASSUME Init PROVE IInv
  OBVIOUS
<1>1. TypeOK
  <2>1. ArpTable \in [Slot -> Entry]
    BY DEF Init, EmptyTable, Entry, Address, HwAddress
  <2>2. /\ spilled \in BOOLEAN /\ announced \in [Address -> HwAddress]
        /\ deleted \in 0 .. ARP_TABLE_NO
    <3>1. AllZeroMac \in HwAddress /\ 0 \in 0 .. ARP_TABLE_NO
      BY SizeAssumption DEF HwAddress
    <3>2. QED
      BY <3>1 DEF Init
  <2>3. QED
    BY <2>1, <2>2 DEF TypeOK
<1>2. Used(ArpTable) = {}
  BY DEF Init, EmptyTable, Used
<1>3. QED
  BY <1>1, <1>2 DEF IInv, UniqueBinding, SlotsAreLatest

LEMMA AddIInv ==
  ASSUME IInv, NEW mac \in HwAddress, NEW ip \in Address, ArpAddTable(mac, ip)
  PROVE  IInv'
<1> PICK now \in 0 .. MaxClock : ArpTable' = AddTable(ArpTable, mac, ip, now)
  BY DEF ArpAddTable
<1> DEFINE n == IntoNo(ArpTable, ip)
           e == [timestamp |-> now, mac |-> mac, ipaddr |-> ip]
<1>1. ArpTable \in Table /\ now \in Nat
  BY ClockAssumption DEF IInv, TypeOK, Table
<1>2. TypeOK'
  BY <1>1, AddTableType DEF IInv, TypeOK, ArpAddTable, Table
<1>3. ArpTable' = IF n \in Slot THEN [ArpTable EXCEPT ![n] = e] ELSE ArpTable
  BY DEF AddTable
<1>4. announced' = [announced EXCEPT ![ip] = mac]
  BY DEF ArpAddTable
<1>5. CASE n \in Slot
  <2>1. /\ ArpTable'[n] = e
        /\ \A i \in Slot : i # n => ArpTable'[i] = ArpTable[i]
    BY <1>1, <1>3, <1>5 DEF Table
  <2>2. Used(ArpTable)' \subseteq Used(ArpTable) \cup {n}
    BY <2>1, <1>5 DEF Used
  <2>3. ASSUME NEW i \in Used(ArpTable), ArpTable[i].ipaddr = ip, ip \in Ip
        PROVE  i = n
    <3>1. i \in Matching(ArpTable, ip)
      BY <2>3 DEF Matching
    <3>2. n \in Matching(ArpTable, ip)
      BY <1>1, <3>1, IntoNoCases
    <3>3. QED
      BY <3>2, <2>3 DEF Matching, IInv, UniqueBinding
  <2>4. UniqueBinding'
    <3> SUFFICES ASSUME NEW i \in Used(ArpTable)', NEW j \in Used(ArpTable)',
                        ArpTable'[i].ipaddr = ArpTable'[j].ipaddr,
                        ArpTable'[i].ipaddr \in Ip
                 PROVE  i = j
      BY DEF UniqueBinding
    <3>1. i \in Slot /\ j \in Slot
      BY DEF Used
    <3>2. CASE i = n \/ j = n
      BY <2>1, <2>2, <2>3, <3>1, <3>2
    <3>3. CASE i # n /\ j # n
      BY <2>1, <2>2, <3>1, <3>3 DEF IInv, UniqueBinding
    <3>4. QED
      BY <3>2, <3>3
  <2>5. SlotsAreLatest'
    <3> SUFFICES ASSUME NEW i \in Used(ArpTable)', ArpTable'[i].ipaddr \in Ip
                 PROVE  ArpTable'[i].mac = announced'[ArpTable'[i].ipaddr]
      BY DEF SlotsAreLatest
    <3>1. i \in Slot
      BY DEF Used
    <3>2. CASE i = n
      BY <1>4, <2>1, <3>2 DEF IInv, TypeOK
    <3>3. CASE i # n
      <4>1. i \in Used(ArpTable) /\ ArpTable'[i] = ArpTable[i]
        BY <2>1, <2>2, <3>1, <3>3
      <4>2. ArpTable[i].ipaddr # ip
        BY <2>3, <3>3, <4>1
      <4>3. QED
        BY <1>4, <4>1, <4>2 DEF IInv, SlotsAreLatest, TypeOK, Address
    <3>4. QED
      BY <3>2, <3>3
  <2>6. QED
    BY <1>2, <2>4, <2>5 DEF IInv
<1>6. CASE n \notin Slot
  <2>1. ArpTable' = ArpTable /\ Matching(ArpTable, ip) = {}
    BY <1>1, <1>3, <1>6, IntoNoCases DEF Matching, Used
  <2>2. UniqueBinding'
    BY <2>1 DEF IInv, UniqueBinding
  <2>3. SlotsAreLatest'
    <3> SUFFICES ASSUME NEW i \in Used(ArpTable), ArpTable[i].ipaddr \in Ip
                 PROVE  ArpTable[i].mac = announced'[ArpTable[i].ipaddr]
      BY <2>1 DEF SlotsAreLatest
    <3>1. ArpTable[i].ipaddr # ip
      BY <2>1 DEF Matching
    <3>2. QED
      BY <1>4, <3>1 DEF IInv, SlotsAreLatest, TypeOK, Address
  <2>4. QED
    BY <1>2, <2>2, <2>3 DEF IInv
<1>7. QED
  BY <1>5, <1>6

LEMMA DelIInv ==
  ASSUME IInv, NEW ip \in Address, ArpDelTable(ip)
  PROVE  IInv'
<1>1. ArpTable \in Table /\ ArpTable' = DelTable(ArpTable, ip)
  BY DEF IInv, TypeOK, Table, ArpDelTable
<1>2. TypeOK'
  BY <1>1, DelTableType, SizeAssumption DEF IInv, TypeOK, ArpDelTable, Table
<1>3. ASSUME NEW i \in Used(ArpTable)', ArpTable'[i].ipaddr \in Ip
      PROVE  /\ i \in Used(ArpTable)
             /\ ArpTable'[i].mac = ArpTable[i].mac
             /\ ArpTable'[i].ipaddr = ArpTable[i].ipaddr
  <2>1. i \in Slot /\ ArpTable'[i].mac # AllZeroMac
    BY DEF Used
  <2>2. QED
    BY <1>1, <1>3, <2>1, DelTableSlots, IpAssumption DEF Used
<1>4. UniqueBinding'
  BY <1>3 DEF IInv, UniqueBinding
<1>5. SlotsAreLatest'
  BY <1>3 DEF IInv, SlotsAreLatest, ArpDelTable
<1>6. QED
  BY <1>2, <1>4, <1>5 DEF IInv

LEMMA NextIInv == IInv /\ [Next]_vars => IInv'
<1> SUFFICES ASSUME IInv, [Next]_vars PROVE IInv'
  OBVIOUS
<1>1. ASSUME NEW mac \in HwAddress, NEW ip \in Address, ArpAddTable(mac, ip)
      PROVE  IInv'
  BY <1>1, AddIInv
<1>2. ASSUME NEW ip \in Address, ArpDelTable(ip) PROVE IInv'
  BY <1>2, DelIInv
<1>3. CASE UNCHANGED vars
  BY <1>3 DEF vars, histories, IInv, TypeOK, UniqueBinding, SlotsAreLatest
<1>4. QED
  BY <1>1, <1>2, <1>3 DEF Next

-----------------------------------------------------------------------------
(* The theorems about the cache. *)

LEMMA SpecIInv == Spec => []IInv
  BY InitIInv, NextIInv, PTL DEF Spec

\* The ARP table stays an array of well-formed slots.
THEOREM TypeCorrect == Spec => []TypeOK
<1>1. IInv => TypeOK
  BY DEF IInv
<1>2. QED
  BY <1>1, SpecIInv, PTL

\* No address is ever bound twice.
THEOREM BindingsAreUnique == Spec => []UniqueBinding
<1>1. IInv => UniqueBinding
  BY DEF IInv
<1>2. QED
  BY <1>1, SpecIInv, PTL

\* A lookup returns the latest announced MAC or nothing.
THEOREM LookupsAreLatest == Spec => []LookupIsLatest
<1>1. ASSUME IInv, NEW ip \in Ip
      PROVE  Lookup(ip) \in {AllZeroMac, announced[ip]}
  <2>1. ArpTable \in Table
    BY <1>1 DEF IInv, TypeOK, Table
  <2>2. CASE \E i \in Matching(ArpTable, ip) : Lookup(ip) = ArpTable[i].mac
    BY <1>1, <2>2 DEF IInv, SlotsAreLatest, Matching
  <2>3. QED
    BY <2>1, <2>2, LookupCases DEF Lookup
<1>2. IInv => LookupIsLatest
  BY <1>1 DEF LookupIsLatest
<1>3. QED
  BY <1>2, SpecIInv, PTL

\* Deleting an address makes its lookup miss.
THEOREM DeletesForget == Spec => DelForgets
<1>1. ASSUME IInv, NEW ip \in Ip, ArpDelTable(ip)
      PROVE  Lookup(ip)' = AllZeroMac
  <2>1. ArpTable \in Table /\ ArpTable' = DelTable(ArpTable, ip) /\ ip \in Address
    BY <1>1 DEF IInv, TypeOK, Table, ArpDelTable, Address
  <2>2. ASSUME NEW i \in Matching(ArpTable', ip) PROVE FALSE
    <3>1. i \in Slot /\ ArpTable'[i].mac # AllZeroMac /\ ArpTable'[i].ipaddr = ip
      BY DEF Matching, Used
    <3>2. i \in Matching(ArpTable, ip)
      BY <2>1, <3>1, DelTableSlots, IpAssumption DEF Matching, Used
    <3>3. First(Matching(ArpTable, ip)) \in Matching(ArpTable, ip)
      BY <2>1, <3>2, MatchingFirst
    <3>4. i = First(Matching(ArpTable, ip))
      BY <1>1, <3>2, <3>3 DEF IInv, UniqueBinding, Matching
    <3>5. ArpTable'[i].ipaddr = AnyIp
      BY <2>1, <3>1, <3>2, <3>4, DelTableSlots
    <3>6. QED
      BY <3>1, <3>5, IpAssumption
  <2>3. Matching(ArpTable', ip) = {}
    BY <2>2
  <2>4. QED
    BY <2>3 DEF Lookup, SearchTable
<1>2. IInv /\ [Next]_vars => [\A ip \in Ip : ArpDelTable(ip) => Lookup(ip)' = AllZeroMac]_vars
  BY <1>1
<1>3. QED
  BY <1>2, SpecIInv, PTL DEF Spec, DelForgets

\* A deletion disturbs the lookup of another address only if that address is
\* bound in slot 0.
THEOREM DeletesHarmOnlySlotZero == Spec => DelHarmsOnlySlotZero
<1> DEFINE Harmless ==
      \A ip \in Address : ArpDelTable(ip) =>
        \A other \in Ip \ {ip} :
          Lookup(other)' # Lookup(other) => 0 \in Matching(ArpTable, other)
<1>1. ASSUME IInv, NEW ip \in Address, ArpDelTable(ip), NEW other \in Ip \ {ip},
             0 \notin Matching(ArpTable, other)
      PROVE  Lookup(other)' = Lookup(other)
  <2>1. ArpTable \in Table /\ ArpTable' = DelTable(ArpTable, ip)
    BY <1>1 DEF IInv, TypeOK, Table, ArpDelTable
  <2>2. ASSUME NEW i \in Matching(ArpTable, other)
        PROVE  i \in Matching(ArpTable', other) /\ ArpTable'[i].mac = ArpTable[i].mac
    <3>1. i \in Slot /\ i # 0 /\ ArpTable[i].ipaddr # ip
      BY <1>1 DEF Matching, Used
    <3>2. QED
      BY <2>1, <3>1, DelTableSlots DEF Matching, Used
  <2>3. ASSUME NEW i \in Matching(ArpTable', other)
        PROVE  i \in Matching(ArpTable, other)
    <3>1. i \in Slot /\ ArpTable'[i].mac # AllZeroMac /\ ArpTable'[i].ipaddr = other
      BY DEF Matching, Used
    <3>2. QED
      BY <2>1, <3>1, DelTableSlots, IpAssumption DEF Matching, Used
  <2>4. Matching(ArpTable', other) = Matching(ArpTable, other)
    BY <2>2, <2>3
  <2>5. QED
    BY <2>1, <2>2, <2>4, MatchingFirst DEF Lookup, SearchTable
<1>2. IInv /\ [Next]_vars => [Harmless]_vars
  BY <1>1
<1>3. QED
  BY <1>2, SpecIInv, PTL DEF Spec, DelHarmsOnlySlotZero

\* An announced binding can be looked up at once, unless the table was full of
\* other addresses.
THEOREM AddsAreFound == Spec => AddLostOnlyWhenFull
<1> DEFINE Kept ==
      \A mac \in Mac, ip \in Address : ArpAddTable(mac, ip) =>
        Lookup(ip)' = mac \/ (Full /\ Lookup(ip) = AllZeroMac /\ spilled')
<1>1. ASSUME IInv, NEW mac \in Mac, NEW ip \in Address, ArpAddTable(mac, ip)
      PROVE  Lookup(ip)' = mac \/ (Full /\ Lookup(ip) = AllZeroMac /\ spilled')
  <2> DEFINE n == IntoNo(ArpTable, ip)
             M == Matching(ArpTable, ip)
  <2>1. ArpTable \in Table
    BY <1>1 DEF IInv, TypeOK, Table
  <2>2. CASE n \in Slot
    <3>1. /\ ArpTable'[n].mac = mac /\ ArpTable'[n].ipaddr = ip
          /\ \A i \in Slot : i # n => ArpTable'[i] = ArpTable[i]
      BY <1>1, <2>1, <2>2 DEF ArpAddTable, AddTable, Table
    <3>2. Matching(ArpTable', ip) = M \cup {n}
      BY <2>2, <3>1, MacAssumption DEF Matching, Used
    <3>3. \A i \in M \cup {n} : n <= i
      <4>1. M \in SUBSET Nat /\ n \in Nat
        BY <2>2 DEF Matching, Used, Slot
      <4>2. CASE M = {}
        BY <4>1, <4>2
      <4>3. CASE M # {}
        BY <4>1, <4>3, FirstIsMin DEF IntoNo
      <4>4. QED
        BY <4>2, <4>3
    <3>4. M \cup {n} \in SUBSET Nat
      BY <2>2 DEF Matching, Used, Slot
    <3>5. First(M \cup {n}) = n
      BY <3>3, <3>4, FirstIsMin
    <3>6. QED
      BY <3>1, <3>2, <3>5 DEF Lookup, SearchTable
  <2>3. CASE n \notin Slot
    BY <1>1, <2>1, <2>3, IntoNoCases
       DEF ArpAddTable, Full, Lookup, SearchTable, Matching, Used
  <2>4. QED
    BY <2>2, <2>3
<1>2. IInv /\ [Next]_vars => [Kept]_vars
  BY <1>1
<1>3. QED
  BY <1>2, SpecIInv, PTL DEF Spec, AddLostOnlyWhenFull

-----------------------------------------------------------------------------
(* When ArpAddTable writes in front of the array.  The addresses announced   *)
(* account for the slots that are in use with an address, deletions for the  *)
(* slots in use without one.                                                 *)

Announced == {o \in Address : announced[o] # AllZeroMac}
Leftover  == {i \in Used(ArpTable) : ArpTable[i].ipaddr = AnyIp}
FromAny   == IF AnyIp \in Announced THEN 1 ELSE 0

LeftoversPaid ==
  /\ IsFiniteSet(Announced)
  /\ Cardinality(Leftover) <= deleted + FromAny

LEMMA SlotsFinite ==
  /\ IsFiniteSet(Slot) /\ Cardinality(Slot) = ARP_TABLE_NO
  /\ \A S \in SUBSET Slot : IsFiniteSet(S) /\ Cardinality(S) \in 0 .. ARP_TABLE_NO
<1>1. IsFiniteSet(Slot) /\ Cardinality(Slot) = ARP_TABLE_NO
  BY SizeAssumption, FS_Interval DEF Slot
<1>2. ASSUME NEW S \in SUBSET Slot PROVE IsFiniteSet(S) /\ Cardinality(S) \in 0 .. ARP_TABLE_NO
  BY <1>1, FS_Subset, FS_CardinalityType, SizeAssumption
<1>3. QED
  BY <1>1, <1>2

LEMMA AddPaid ==
  ASSUME IInv, LeftoversPaid, NEW mac \in HwAddress, NEW ip \in Address, ArpAddTable(mac, ip)
  PROVE  LeftoversPaid'
<1> PICK now \in 0 .. MaxClock : ArpTable' = AddTable(ArpTable, mac, ip, now)
  BY DEF ArpAddTable
<1> DEFINE n == IntoNo(ArpTable, ip)
<1>1. /\ ArpTable \in Table /\ deleted' = deleted /\ deleted \in Nat
      /\ announced \in [Address -> HwAddress] /\ announced' = [announced EXCEPT ![ip] = mac]
  BY SizeAssumption DEF IInv, TypeOK, Table, ArpAddTable
<1>2. Announced' \subseteq Announced \cup {ip}
  BY <1>1 DEF Announced
<1>3. IsFiniteSet(Announced')
  BY <1>2, FS_AddElement, FS_Subset DEF LeftoversPaid
<1>4. Leftover \in SUBSET Slot /\ Leftover' \in SUBSET Slot
  BY DEF Leftover, Used
<1>5. /\ IsFiniteSet(Leftover) /\ Cardinality(Leftover) \in Nat
      /\ IsFiniteSet(Leftover') /\ Cardinality(Leftover') \in Nat
  BY <1>4, SlotsFinite
<1>6. \A i \in Slot : i # n => ArpTable'[i] = ArpTable[i]
  BY <1>1 DEF AddTable, Table
<1>7. n \in Slot => ArpTable'[n].mac = mac /\ ArpTable'[n].ipaddr = ip
  BY <1>1 DEF AddTable, Table
<1>8. CASE ip # AnyIp
  <2>1. Leftover' \subseteq Leftover
    BY <1>6, <1>7, <1>8 DEF Leftover, Used
  <2>2. AnyIp \in Announced' <=> AnyIp \in Announced
    BY <1>1, <1>8 DEF Announced
  <2>3. Cardinality(Leftover') <= Cardinality(Leftover)
    BY <1>5, <2>1, FS_Subset
  <2>4. QED
    BY <1>1, <1>3, <1>5, <2>2, <2>3 DEF LeftoversPaid, FromAny
<1>9. CASE ip = AnyIp /\ mac # AllZeroMac
  <2>1. AnyIp \in Announced'
    BY <1>1, <1>9 DEF Announced, Address
  <2>2. CASE Matching(ArpTable, ip) # {}
    <3>1. n \in Leftover
      BY <1>1, <1>9, <2>2, IntoNoCases DEF Matching, Leftover
    <3>2. Leftover' \subseteq Leftover
      BY <1>6, <3>1 DEF Leftover, Used
    <3>3. Cardinality(Leftover') <= Cardinality(Leftover)
      BY <1>5, <3>2, FS_Subset
    <3>4. QED
      BY <1>1, <1>3, <1>5, <2>1, <3>3 DEF LeftoversPaid, FromAny
  <2>3. CASE Matching(ArpTable, ip) = {}
    <3>1. Leftover' \subseteq {n}
      BY <1>6, <1>9, <2>3 DEF Leftover, Matching, Used
    <3>2. IsFiniteSet({n}) /\ Cardinality({n}) = 1
      BY FS_Singleton
    <3>3. Cardinality(Leftover') <= 1
      BY <3>1, <3>2, FS_Subset
    <3>4. QED
      BY <1>1, <1>3, <1>5, <2>1, <3>3 DEF LeftoversPaid, FromAny
  <2>4. QED
    BY <2>2, <2>3
<1>10. CASE ip = AnyIp /\ mac = AllZeroMac
  <2>1. AnyIp \notin Announced'
    BY <1>1, <1>10 DEF Announced, Address
  <2>2. CASE Matching(ArpTable, ip) # {}
    <3>1. n \in Leftover
      BY <1>1, <1>10, <2>2, IntoNoCases DEF Matching, Leftover
    <3>2. n \in Slot
      BY <1>4, <3>1
    <3>3. Leftover' \subseteq Leftover \ {n}
      BY <1>6, <1>7, <1>10, <3>2 DEF Leftover, Used
    <3>4. /\ IsFiniteSet(Leftover \ {n})
          /\ Cardinality(Leftover \ {n}) = Cardinality(Leftover) - 1
      BY <1>5, <3>1, FS_RemoveElement
    <3>5. Cardinality(Leftover') <= Cardinality(Leftover) - 1
      BY <3>3, <3>4, FS_Subset
    <3>6. QED
      BY <1>1, <1>3, <1>5, <2>1, <3>5 DEF LeftoversPaid, FromAny
  <2>3. CASE Matching(ArpTable, ip) = {}
    <3>1. Leftover' = {}
      BY <1>6, <1>7, <1>10, <2>3 DEF Leftover, Matching, Used
    <3>2. Cardinality(Leftover') = 0
      BY <3>1, FS_EmptySet
    <3>3. QED
      BY <1>1, <1>3, <2>1, <3>2 DEF LeftoversPaid, FromAny
  <2>4. QED
    BY <2>2, <2>3
<1>11. QED
  BY <1>8, <1>9, <1>10

LEMMA DelPaid ==
  ASSUME IInv, LeftoversPaid, NEW ip \in Address, ArpDelTable(ip)
  PROVE  LeftoversPaid'
<1>1. /\ ArpTable \in Table /\ ArpTable' = DelTable(ArpTable, ip)
      /\ deleted \in 0 .. ARP_TABLE_NO /\ ARP_TABLE_NO \in Nat
      /\ Announced' = Announced
  BY SizeAssumption DEF IInv, TypeOK, Table, ArpDelTable, Announced
<1>2. Leftover \in SUBSET Slot /\ Leftover' \in SUBSET Slot
  BY DEF Leftover, Used
<1>3. /\ IsFiniteSet(Leftover) /\ Cardinality(Leftover) \in 0 .. ARP_TABLE_NO
      /\ Cardinality(Leftover') \in 0 .. ARP_TABLE_NO
  BY <1>2, SlotsFinite
<1>4. CASE Matching(ArpTable, ip) = {}
  BY <1>1, <1>4 DEF DelTable, ArpDelTable, LeftoversPaid, Leftover, FromAny
<1>5. CASE Matching(ArpTable, ip) # {}
  <2> DEFINE k == First(Matching(ArpTable, ip))
  <2>1. Leftover' \subseteq Leftover \cup {k}
    <3> SUFFICES ASSUME NEW i \in Leftover', i # k PROVE i \in Leftover
      OBVIOUS
    <3>1. i \in Slot /\ ArpTable'[i].mac # AllZeroMac /\ ArpTable'[i].ipaddr = AnyIp
      BY DEF Leftover, Used
    <3>2. ArpTable[i].mac # AllZeroMac
      BY <1>1, <3>1, DelTableSlots
    <3>3. ArpTable'[i].ipaddr = ArpTable[i].ipaddr
      <4>1. k \in Slot
        BY <1>1, <1>5, MatchingFirst DEF Matching, Used
      <4>2. ArpTable' = [[ArpTable EXCEPT ![k].ipaddr = AnyIp, ![k].timestamp = 0]
                           EXCEPT ![0].mac = AllZeroMac]
        BY <1>1, <1>5 DEF DelTable
      <4> HIDE DEF k
      <4>3. QED
        BY <1>1, <3>1, <4>1, <4>2, ZeroIsSlot DEF Table, Entry
    <3>4. QED
      BY <3>1, <3>2, <3>3 DEF Leftover, Used
  <2>2. Cardinality(Leftover') <= Cardinality(Leftover) + 1
    <3>1. /\ IsFiniteSet(Leftover \cup {k})
          /\ Cardinality(Leftover \cup {k}) \in
               {Cardinality(Leftover), Cardinality(Leftover) + 1}
      BY <1>3, FS_AddElement
    <3>2. Cardinality(Leftover') <= Cardinality(Leftover \cup {k})
      BY <2>1, <3>1, FS_Subset
    <3>3. QED
      BY <1>3, <3>1, <3>2
  <2>3. deleted' = IF deleted < ARP_TABLE_NO THEN deleted + 1 ELSE deleted
    BY <1>5 DEF ArpDelTable
  <2>4. QED
    BY <1>1, <1>3, <2>2, <2>3 DEF LeftoversPaid, FromAny
<1>6. QED
  BY <1>4, <1>5

LEMMA SpecPaid == Spec => [](IInv /\ LeftoversPaid)
<1>1. Init => LeftoversPaid
  <2> SUFFICES ASSUME Init PROVE LeftoversPaid
    OBVIOUS
  <2>1. Announced = {} /\ Leftover = {} /\ deleted = 0
    BY DEF Init, EmptyTable, Announced, Leftover, Used
  <2>2. QED
    BY <2>1, FS_EmptySet DEF LeftoversPaid, FromAny
<1>2. IInv /\ LeftoversPaid /\ [Next]_vars => LeftoversPaid'
  <2>1. UNCHANGED vars => UNCHANGED <<Announced, Leftover, deleted, FromAny>>
    BY DEF vars, histories, Announced, Leftover, FromAny
  <2>2. QED
    BY <2>1, AddPaid, DelPaid DEF Next, LeftoversPaid
<1>3. QED
  BY <1>1, <1>2, InitIInv, NextIInv, PTL DEF Spec

LEMMA SpillStep ==
  ASSUME IInv, LeftoversPaid, NEW mac \in HwAddress, NEW ip \in Address,
         ArpAddTable(mac, ip), ~spilled, spilled'
  PROVE  Cardinality(Announced \cup {ip}) + deleted > ARP_TABLE_NO
<1> DEFINE Held  == Slot \ Leftover
           Known == Announced \ {ip, AnyIp}
           at    == [i \in Held |-> ArpTable[i].ipaddr]
<1>1. /\ ArpTable \in Table /\ deleted \in Nat /\ ARP_TABLE_NO \in Nat
      /\ Used(ArpTable) = Slot /\ Matching(ArpTable, ip) = {}
  <2>1. ArpTable \in Table /\ deleted \in Nat /\ ARP_TABLE_NO \in Nat
    BY SizeAssumption DEF IInv, TypeOK, Table
  <2>2. IntoNo(ArpTable, ip) \notin Slot
    BY DEF ArpAddTable
  <2>3. QED
    BY <2>1, <2>2, IntoNoCases DEF Free, Matching, Used
<1>2. at \in Injection(Held, Known)
  <2>1. ASSUME NEW i \in Held PROVE at[i] \in Known /\ at[i] \in Ip
    <3>1. i \in Used(ArpTable) /\ ArpTable[i].ipaddr \in Ip
      BY <1>1, <2>1 DEF Leftover, Table, Entry, Address
    <3>2. ArpTable[i].ipaddr \in Announced
      BY <3>1 DEF IInv, SlotsAreLatest, Used, Announced, Address
    <3>3. QED
      BY <1>1, <3>1, <3>2, IpAssumption DEF Matching
  <2>2. ASSUME NEW i \in Held, NEW j \in Held, at[i] = at[j] PROVE i = j
    BY <1>1, <2>1, <2>2 DEF IInv, UniqueBinding
  <2>3. QED
    BY <2>1, <2>2 DEF Injection, IsInjective
<1> HIDE DEF at
<1>3. IsFiniteSet(Announced)
  BY DEF LeftoversPaid
<1>4. IsFiniteSet(Known) /\ Cardinality(Known) \in Nat
  BY <1>3, FS_Subset, FS_CardinalityType
<1>5. Cardinality(Held) <= Cardinality(Known)
  BY <1>2, <1>4, FS_Injection
<1>6. /\ IsFiniteSet(Leftover) /\ Cardinality(Leftover) \in Nat
      /\ Cardinality(Held) \in Nat
      /\ Cardinality(Leftover) + Cardinality(Held) = ARP_TABLE_NO
  <2>1. Leftover \in SUBSET Slot /\ Held \in SUBSET Slot /\ Slot \cap Leftover = Leftover
    BY DEF Leftover, Used
  <2>2. IsFiniteSet(Leftover) /\ Cardinality(Leftover) \in Nat /\ Cardinality(Held) \in Nat
    BY <2>1, SlotsFinite
  <2>3. Cardinality(Held) = Cardinality(Slot) - Cardinality(Leftover)
    BY <2>1, SlotsFinite, FS_Difference
  <2>4. QED
    BY <1>1, <2>2, <2>3, SlotsFinite
<1>7. /\ IsFiniteSet(Known \cup {ip})
      /\ Cardinality(Known \cup {ip}) = Cardinality(Known) + 1
  BY <1>4, FS_AddElement
<1>8. /\ IsFiniteSet(Announced \cup {ip})
      /\ Cardinality(Announced \cup {ip}) \in Nat
  BY <1>3, FS_AddElement, FS_CardinalityType
<1>9. CASE ip # AnyIp /\ AnyIp \in Announced
  <2>1. Announced \cup {ip} = (Known \cup {ip}) \cup {AnyIp} /\ AnyIp \notin Known \cup {ip}
    BY <1>9
  <2>2. Cardinality(Announced \cup {ip}) = Cardinality(Known) + 2
    BY <1>4, <1>7, <2>1, FS_AddElement
  <2>3. QED
    BY <1>1, <1>4, <1>5, <1>6, <1>9, <2>2 DEF LeftoversPaid, FromAny
<1>10. CASE ip # AnyIp /\ AnyIp \notin Announced
  <2>1. Announced \cup {ip} = Known \cup {ip}
    BY <1>10
  <2>2. Cardinality(Announced \cup {ip}) = Cardinality(Known) + 1
    BY <1>7, <2>1
  <2>3. Cardinality(Leftover) <= deleted
    BY <1>1, <1>6, <1>10 DEF LeftoversPaid, FromAny
  <2> HIDE DEF Known, Held
  <2>4. QED
    BY <1>1, <1>4, <1>5, <1>6, <2>2, <2>3
<1>11. CASE ip = AnyIp
  <2>1. Announced \cup {ip} = Known \cup {ip}
    BY <1>11
  <2>2. Leftover = {}
    BY <1>1, <1>11 DEF Leftover, Matching
  <2>3. Cardinality(Leftover) = 0
    BY <2>2, FS_EmptySet
  <2>4. Cardinality(Announced \cup {ip}) = Cardinality(Known) + 1
    BY <1>7, <2>1
  <2> HIDE DEF Known, Held
  <2>5. QED
    BY <1>1, <1>4, <1>5, <1>6, <2>3, <2>4
<1>12. QED
  BY <1>9, <1>10, <1>11

\* ArpAddTable writes in front of the array only when the addresses announced and
\* the deletions ask for more slots than the table has.
THEOREM SpillsAreCrowded == Spec => SpillsOnlyWhenCrowded
<1> DEFINE Crowded ==
      \A mac \in HwAddress, ip \in Address : ArpAddTable(mac, ip) /\ ~spilled /\ spilled' =>
        Cardinality({o \in Address : announced[o] # AllZeroMac} \cup {ip}) + deleted
          > ARP_TABLE_NO
<1>1. IInv /\ LeftoversPaid => [Crowded]_vars
  BY SpillStep DEF Announced
<1>2. QED
  BY <1>1, SpecPaid, PTL DEF SpillsOnlyWhenCrowded

-----------------------------------------------------------------------------
(* The threads' steps are steps of the ARP table. *)

LEMMA TableType == TypeOK => ArpTable \in Table
  BY DEF TypeOK, Table

LEMMA HeadIsFrame ==
  ASSUME ResolverTypeOK, rxq # <<>>
  PROVE  /\ Head(rxq) \in Frame /\ Tail(rxq) \in Seq(Frame)
         /\ Head(rxq).sha \in HwAddress /\ Head(rxq).spa \in Address
<1>1. rxq \in Seq(Frame)
  BY DEF ResolverTypeOK
<1>2. Head(rxq) \in Frame /\ Tail(rxq) \in Seq(Frame)
  BY <1>1
<1>3. QED
  BY <1>2, FrameAssumption DEF AnyFrame

\* Each step does to the table one thing that ArpCache allows, or nothing; and
\* only an idle MyEthThread adds to it.
LEMMA StepCases ==
  ASSUME ResolverTypeOK, [ResolverNext]_resolverVars
  PROVE  \/ /\ \E mac \in HwAddress, ip \in Address : ArpAddTable(mac, ip)
            /\ pc["eth"] = "idle"
            /\ UNCHANGED threadVars
         \/ \E ip \in Address : ArpDelTable(ip) /\ UNCHANGED threadVars
         \/ UNCHANGED cacheVars
<1>1. ASSUME NEW th \in Thread, Resolve(th) PROVE UNCHANGED cacheVars
  BY <1>1 DEF Resolve, Hit, Miss, WakeUp
<1>2. ASSUME NEW ip \in Address, Send(ip) PROVE UNCHANGED cacheVars
  BY <1>2 DEF Send
<1>3. ASSUME NEW ip \in Address, ArpDel(ip)
      PROVE  ArpDelTable(ip) /\ UNCHANGED threadVars
  BY <1>3 DEF ArpDel
<1>4. CASE EtherRecv
  <2>1. rxq # <<>> /\ pc["eth"] = "idle"
    BY <1>4 DEF EtherRecv, ReaderReady
  <2>2. \/ ArpRecv(Head(rxq))
        \/ UNCHANGED cacheVars
    BY <1>4 DEF EtherRecv, ReaderReady
  <2>3. QED
    BY <2>1, <2>2, HeadIsFrame DEF ArpRecv
<1>5. ASSUME NEW f \in Frame, Deliver(f) PROVE UNCHANGED cacheVars
  BY <1>5 DEF Deliver
<1>6. CASE UNCHANGED resolverVars
  BY <1>6 DEF resolverVars
<1>7. QED
  BY <1>1, <1>2, <1>3, <1>4, <1>5, <1>6 DEF ResolverNext

-----------------------------------------------------------------------------
(* Type correctness. *)

LEMMA InitType == ResolverInit => ResolverTypeOK
<1> SUFFICES ASSUME ResolverInit PROVE ResolverTypeOK
  OBVIOUS
<1>1. TypeOK
  BY InitIInv DEF ResolverInit, IInv
<1>2. rxq \in Seq(Frame) /\ alive \in BOOLEAN
  BY DEF ResolverInit
<1>3. /\ pc \in [Thread -> {"idle", "search", "wait"}]
      /\ addr \in [Thread -> Address]
      /\ count \in [Thread -> 0 .. RETRY_COUNT]
  BY VipAssumption, RetryAssumption DEF ResolverInit, Address
<1>4. QED
  BY <1>1, <1>2, <1>3 DEF ResolverTypeOK

LEMMA NextType == ResolverTypeOK /\ [ResolverNext]_resolverVars => ResolverTypeOK'
<1> SUFFICES ASSUME ResolverTypeOK, [ResolverNext]_resolverVars PROVE ResolverTypeOK'
  OBVIOUS
<1>1. TypeOK'
  <2>1. TypeOK /\ ArpTable \in Table
    BY TableType DEF ResolverTypeOK
  <2>2. ASSUME NEW mac \in HwAddress, NEW ip \in Address, ArpAddTable(mac, ip) PROVE TypeOK'
    BY <2>1, <2>2, AddTableType, ClockAssumption DEF ArpAddTable, TypeOK, Table
  <2>3. ASSUME NEW ip \in Address, ArpDelTable(ip) PROVE TypeOK'
    BY <2>1, <2>3, DelTableType, SizeAssumption DEF ArpDelTable, TypeOK, Table
  <2>4. CASE UNCHANGED cacheVars
    BY <2>1, <2>4 DEF TypeOK, cacheVars, vars, histories
  <2>5. QED
    BY <2>2, <2>3, <2>4, StepCases
<1>2. (pc \in [Thread -> {"idle", "search", "wait"}]
       /\ addr \in [Thread -> Address]
       /\ count \in [Thread -> 0 .. RETRY_COUNT])'
  <2>1. ASSUME NEW th \in Thread, NEW daddr \in Address, StartResolution(th, daddr)
        PROVE  (pc \in [Thread -> {"idle", "search", "wait"}]
                /\ addr \in [Thread -> Address]
                /\ count \in [Thread -> 0 .. RETRY_COUNT])'
    BY <2>1, GatewayAssumption, RetryAssumption DEF StartResolution, NextHop, ResolverTypeOK
  <2>2. ASSUME NEW th \in Thread, Resolve(th)
        PROVE  (pc \in [Thread -> {"idle", "search", "wait"}]
                /\ addr \in [Thread -> Address]
                /\ count \in [Thread -> 0 .. RETRY_COUNT])'
    <3> /\ pc \in [Thread -> {"idle", "search", "wait"}]
        /\ addr \in [Thread -> Address]
        /\ count \in [Thread -> 0 .. RETRY_COUNT]
      BY DEF ResolverTypeOK
    <3>1. CASE Return(th)
      BY <3>1, RetryAssumption DEF Return, Address
    <3>2. CASE Miss(th)
      BY <3>2 DEF Miss
    <3>3. CASE WakeUp(th) /\ ~Return(th)
      BY <3>3, RetryAssumption DEF WakeUp
    <3>4. QED
      BY <2>2, <3>1, <3>2, <3>3 DEF Resolve, Hit
  <2>3. CASE UNCHANGED threadVars
    BY <2>3 DEF threadVars, ResolverTypeOK
  <2>4. CASE EtherRecv
    <3>1. rxq # <<>>
      BY <2>4 DEF EtherRecv
    <3>2. StartResolution("eth", Head(rxq).spa) \/ UNCHANGED threadVars
      BY <2>4 DEF EtherRecv, ArpRecv
    <3>3. QED
      BY <2>1, <2>3, <3>1, <3>2, HeadIsFrame DEF Thread
  <2>5. ASSUME NEW ip \in Address, Send(ip) \/ ArpDel(ip)
        PROVE  \/ StartResolution("stdin", ip)
               \/ UNCHANGED threadVars
    BY <2>5 DEF Send, ArpDel
  <2>6. CASE (\E f \in Frame : Deliver(f)) \/ UNCHANGED resolverVars
    BY <2>3, <2>6 DEF Deliver, resolverVars
  <2>7. QED
    BY <2>1, <2>2, <2>3, <2>4, <2>5, <2>6 DEF ResolverNext, Thread
<1>3. (rxq \in Seq(Frame) /\ alive \in BOOLEAN)'
  <2> rxq \in Seq(Frame) /\ alive \in BOOLEAN
    BY DEF ResolverTypeOK
  <2>1. ASSUME NEW th \in Thread, Resolve(th) PROVE (rxq \in Seq(Frame) /\ alive \in BOOLEAN)'
    BY <2>1 DEF Resolve, Hit, Miss, WakeUp
  <2>2. ASSUME NEW f \in Frame, Deliver(f) PROVE (rxq \in Seq(Frame) /\ alive \in BOOLEAN)'
    BY <2>2 DEF Deliver
  <2>3. CASE EtherRecv
    BY <2>3, HeadIsFrame DEF EtherRecv
  <2>4. CASE \/ \E ip \in Address : Send(ip) \/ ArpDel(ip)
             \/ UNCHANGED resolverVars
    BY <2>4 DEF Send, ArpDel, resolverVars
  <2>5. QED
    BY <2>1, <2>2, <2>3, <2>4 DEF ResolverNext
<1>4. QED
  BY <1>1, <1>2, <1>3 DEF ResolverTypeOK

\* The threads keep well-typed locals, queue and table.
THEOREM ResolverTypeCorrect == ResolverSpec => []ResolverTypeOK
  BY InitType, NextType, PTL DEF ResolverSpec

-----------------------------------------------------------------------------
(* What is proved of the table holds of the table between the threads.  The  *)
(* step to ArpCache is short because the threads use its actions.            *)

LEMMA RefinesCache == ResolverSpec => Spec
<1>1. ResolverInit => Init
  BY DEF ResolverInit
<1>2. ResolverTypeOK /\ [ResolverNext]_resolverVars => [Next]_vars
  BY StepCases DEF Next, cacheVars
<1>3. QED
  BY <1>1, <1>2, ResolverTypeCorrect, PTL DEF ResolverSpec, Spec

\* So what holds of the cache alone holds whatever the three threads and the network
\* do: a next hop found by GetTargetMac is never outdated, and "arp -d" forgets.
COROLLARY ThreadsSeeTheLatest ==
  ResolverSpec => /\ [](UniqueBinding /\ LookupIsLatest)
                  /\ DelForgets /\ AddLostOnlyWhenFull /\ SpillsOnlyWhenCrowded
  BY RefinesCache, BindingsAreUnique, LookupsAreLatest, DeletesForget, AddsAreFound,
     SpillsAreCrowded, PTL

-----------------------------------------------------------------------------
(* GetTargetMac ends: the core of ResolutionReturns that needs no fairness.  *)

\* How many turns of the loop the thread has left at most.
Turns(th) ==
  IF pc[th] = "idle" THEN 0
  ELSE 2 * (RETRY_COUNT - count[th]) + (IF pc[th] = "search" THEN 2 ELSE 1)

\* Each turn of a thread leaves it fewer, and no other step gives a thread in
\* GetTargetMac more.
TurnsRunOut ==
  [][\A th \in Thread :
       /\ Resolve(th) => Turns(th)' < Turns(th)
       /\ pc[th] # "idle" => Turns(th)' <= Turns(th)]_resolverVars

LEMMA OwnTurn ==
  ASSUME ResolverTypeOK, NEW th \in Thread, Resolve(th)
  PROVE  /\ Turns(th)' < Turns(th)
         /\ \A other \in Thread \ {th} : Turns(other)' = Turns(other)
<1>1. /\ pc \in [Thread -> {"idle", "search", "wait"}]
      /\ count \in [Thread -> 0 .. RETRY_COUNT] /\ RETRY_COUNT \in Nat
  BY RetryAssumption DEF ResolverTypeOK
<1>2. /\ pc[th] # "idle" /\ count[th] \in 0 .. RETRY_COUNT
      /\ pc[th] \in {"idle", "search", "wait"}
  BY <1>1 DEF Resolve, Hit, Miss, WakeUp
<1>3. CASE Return(th)
  <2>1. /\ pc' = [pc EXCEPT ![th] = "idle"]
        /\ count' = [count EXCEPT ![th] = 0]
    BY <1>3 DEF Return
  <2>2. Turns(th)' = 0 /\ Turns(th) > 0
    BY <1>1, <1>2, <2>1 DEF Turns
  <2>3. \A other \in Thread \ {th} : pc'[other] = pc[other] /\ count'[other] = count[other]
    BY <1>1, <2>1
  <2>4. QED
    BY <2>2, <2>3 DEF Turns
<1>4. CASE Miss(th)
  <2>1. pc[th] = "search" /\ pc' = [pc EXCEPT ![th] = "wait"] /\ count' = count
    BY <1>4 DEF Miss
  <2>2. Turns(th)' < Turns(th)
    BY <1>1, <1>2, <2>1 DEF Turns
  <2>3. \A other \in Thread \ {th} : pc'[other] = pc[other] /\ count'[other] = count[other]
    BY <1>1, <2>1
  <2>4. QED
    BY <2>2, <2>3 DEF Turns
<1>5. CASE WakeUp(th) /\ ~Return(th)
  <2>1. /\ pc[th] = "wait" /\ pc' = [pc EXCEPT ![th] = "search"]
        /\ count[th] < RETRY_COUNT /\ count' = [count EXCEPT ![th] = @ + 1]
    BY <1>5 DEF WakeUp
  <2>2. Turns(th)' < Turns(th)
    BY <1>1, <1>2, <2>1 DEF Turns
  <2>3. \A other \in Thread \ {th} : pc'[other] = pc[other] /\ count'[other] = count[other]
    BY <1>1, <2>1
  <2>4. QED
    BY <2>2, <2>3 DEF Turns
<1>6. QED
  BY <1>3, <1>4, <1>5 DEF Resolve, Hit

\* A thread is never kept in GetTargetMac by the others, and returns after at most
\* 2 * (RETRY_COUNT + 1) turns of its own.
THEOREM TurnsAreBounded ==
  ResolverSpec => []((\A th \in Thread : Turns(th) \in 0 .. 2 * (RETRY_COUNT + 1)))
                  /\ TurnsRunOut
<1> DEFINE Bounded == \A th \in Thread : Turns(th) \in 0 .. 2 * (RETRY_COUNT + 1)
           Fewer   == \A th \in Thread :
                        /\ Resolve(th) => Turns(th)' < Turns(th)
                        /\ pc[th] # "idle" => Turns(th)' <= Turns(th)
<1>1. ResolverTypeOK => Bounded
  BY RetryAssumption DEF ResolverTypeOK, Turns
<1>2. ASSUME ResolverTypeOK, ResolverNext
      PROVE  Fewer
  <2> SUFFICES ASSUME NEW th \in Thread
               PROVE  /\ Resolve(th) => Turns(th)' < Turns(th)
                      /\ pc[th] # "idle" => Turns(th)' <= Turns(th)
    OBVIOUS
  <2>1. Resolve(th) => Turns(th)' < Turns(th)
    BY <1>2, OwnTurn
  <2>2. Turns(th) \in Int
    BY <1>1, <1>2, RetryAssumption
  <2> SUFFICES ASSUME pc[th] # "idle" PROVE Turns(th)' <= Turns(th)
    BY <2>1
  <2>3. ASSUME NEW other \in Thread, Resolve(other) PROVE Turns(th)' <= Turns(th)
    <3>1. CASE other = th
      <4>1. Turns(th)' < Turns(th)
        BY <1>2, <2>3, <3>1, OwnTurn
      <4>2. ResolverTypeOK'
        BY <1>2, NextType
      <4>3. Turns(th)' \in Int
        BY <4>2, RetryAssumption DEF ResolverTypeOK, Turns
      <4>4. QED
        BY <2>2, <4>1, <4>3
    <3>2. CASE other # th
      BY <1>2, <2>2, <2>3, <3>2, OwnTurn
    <3>3. QED
      BY <3>1, <3>2
  <2>4. CASE pc'[th] = pc[th] /\ count'[th] = count[th]
    BY <2>2, <2>4 DEF Turns
  <2>5. CASE UNCHANGED threadVars
    BY <2>4, <2>5 DEF threadVars
  <2>6. ASSUME NEW caller \in {"eth", "stdin"}, pc[caller] = "idle",
               NEW ip, StartResolution(caller, ip)
        PROVE  pc'[th] = pc[th] /\ count'[th] = count[th]
    BY <1>2, <2>6 DEF StartResolution, ResolverTypeOK, Thread
  <2>7. CASE EtherRecv
    BY <2>4, <2>5, <2>6, <2>7 DEF EtherRecv, ReaderReady, ArpRecv
  <2>8. ASSUME NEW ip \in Address, Send(ip) \/ ArpDel(ip) PROVE Turns(th)' <= Turns(th)
    BY <2>4, <2>5, <2>6, <2>8 DEF Send, ArpDel
  <2>9. CASE \E f \in Frame : Deliver(f)
    BY <2>5, <2>9 DEF Deliver
  <2>10. QED
    BY <1>2, <2>3, <2>7, <2>8, <2>9 DEF ResolverNext
<1>3. ResolverTypeOK /\ [ResolverNext]_resolverVars => [Fewer]_resolverVars
  BY <1>2
<1>4. QED
  BY <1>1, <1>3, ResolverTypeCorrect, PTL DEF ResolverSpec, TurnsRunOut

-----------------------------------------------------------------------------
(* MyEthThread asks in vain.  The invariant is inductive: the only step that *)
(* binds an address is a step of an idle MyEthThread, and ArpDelTable binds  *)
(* no address but 0.0.0.0.                                                   *)

LEMMA DelBindsNothing ==
  ASSUME NEW t \in Table, NEW ip \in Address, NEW other \in Ip, Matching(t, other) = {}
  PROVE  Matching(DelTable(t, ip), other) = {}
<1>1. ASSUME NEW i \in Matching(DelTable(t, ip), other) PROVE FALSE
  <2>1. i \in Slot /\ DelTable(t, ip)[i].mac # AllZeroMac
          /\ DelTable(t, ip)[i].ipaddr = other
    BY DEF Matching, Used
  <2>2. t[i].mac # AllZeroMac /\ t[i].ipaddr = other
    BY <2>1, DelTableSlots, IpAssumption
  <2>3. QED
    BY <2>1, <2>2 DEF Matching, Used
<1>2. QED
  BY <1>1

LEMMA AsksInVainStep ==
  ResolverTypeOK /\ ReceiverAsksInVain /\ [ResolverNext]_resolverVars => ReceiverAsksInVain'
<1> SUFFICES ASSUME ResolverTypeOK, ReceiverAsksInVain, [ResolverNext]_resolverVars,
                    Asking("eth")', addr'["eth"] \in Ip
             PROVE  Matching(ArpTable, addr["eth"])' = {}
  BY DEF ReceiverAsksInVain, Bound
<1>1. CASE UNCHANGED <<pc, addr, count>>
  <2>1. Matching(ArpTable, addr["eth"]) = {} /\ pc["eth"] # "idle"
    BY <1>1 DEF ReceiverAsksInVain, Bound, Asking
  <2>2. CASE UNCHANGED cacheVars
    BY <1>1, <2>1, <2>2 DEF cacheVars, vars
  <2>3. ASSUME NEW ip \in Address, ArpDelTable(ip)
        PROVE  Matching(ArpTable, addr["eth"])' = {}
    <3>1. ArpTable' = DelTable(ArpTable, ip)
      BY <2>3 DEF ArpDelTable
    <3>2. QED
      BY <1>1, <2>1, <3>1, TableType, DelBindsNothing DEF ResolverTypeOK
  <2>4. QED
    BY <2>1, <2>2, <2>3, StepCases
<1>2. ASSUME NEW th \in Thread, Resolve(th)
      PROVE  Matching(ArpTable, addr["eth"])' = {}
  <2>1. ArpTable' = ArpTable
    BY <1>2 DEF Resolve, Hit, Miss, WakeUp, cacheVars, vars
  <2>2. CASE th # "eth"
    <3>1. pc'["eth"] = pc["eth"] /\ addr'["eth"] = addr["eth"] /\ count'["eth"] = count["eth"]
      BY <1>2, <2>2 DEF Resolve, Hit, Miss, WakeUp, Return, ResolverTypeOK, Thread
    <3>2. QED
      BY <2>1, <3>1 DEF ReceiverAsksInVain, Bound, Asking
  <2>3. CASE th = "eth"
    <3>1. CASE Hit("eth")
      BY <3>1 DEF Hit, Return, Asking, ResolverTypeOK, Thread
    <3>2. CASE Miss("eth")
      BY <2>1, <3>2 DEF Miss, Bound
    <3>3. CASE WakeUp("eth")
      <4>1. count["eth"] = RETRY_COUNT /\ Return("eth") => ~Asking("eth")'
        BY DEF Return, Asking, ResolverTypeOK, Thread
      <4>2. addr' = addr /\ pc["eth"] = "wait"
        BY <3>3, <4>1 DEF WakeUp
      <4>3. QED
        BY <2>1, <4>2 DEF ReceiverAsksInVain, Bound, Asking
    <3>4. QED
      BY <1>2, <2>3, <3>1, <3>2, <3>3 DEF Resolve
  <2>4. QED
    BY <2>2, <2>3
<1>3. ASSUME NEW ip \in Address, Send(ip)
      PROVE  Matching(ArpTable, addr["eth"])' = {}
  <2>1. pc'["eth"] = pc["eth"] /\ addr'["eth"] = addr["eth"] /\ count'["eth"] = count["eth"]
    BY <1>3 DEF Send, StartResolution, ResolverTypeOK, Thread
  <2>2. QED
    BY <1>3, <2>1 DEF Send, cacheVars, vars, ReceiverAsksInVain, Bound, Asking
<1>4. CASE EtherRecv
  <2>1. pc["eth"] = "idle"
    BY <1>4 DEF EtherRecv, ReaderReady
  <2>2. UNCHANGED threadVars \/ StartResolution("eth", Head(rxq).spa)
    BY <1>4 DEF EtherRecv, ArpRecv
  <2>3. pc'["eth"] = "idle" \/ (pc'["eth"] = "search" /\ count'["eth"] = 0)
    BY <2>1, <2>2 DEF StartResolution, threadVars, ResolverTypeOK, Thread
  <2>4. QED
    BY <2>3 DEF Asking
<1>5. QED
  BY <1>1, <1>2, <1>3, <1>4 DEF ResolverNext, ArpDel, Deliver, resolverVars, threadVars

\* While MyEthThread waits for an address it has asked for, the address stays
\* out of the table.
THEOREM ReceiverAlwaysAsksInVain == ResolverSpec => []ReceiverAsksInVain
<1>1. ResolverInit => ReceiverAsksInVain
  BY DEF ResolverInit, ReceiverAsksInVain, Asking, Thread
<1>2. QED
  BY <1>1, AsksInVainStep, ResolverTypeCorrect, PTL DEF ResolverSpec
=============================================================================
