--------------------------- MODULE ArpTableProofs ---------------------------
(***************************************************************************)
(* What the operations of the ARP table preserve and return, for every     *)
(* table, every table size and every value OldestInit of the eviction scan. *)
(***************************************************************************)
EXTENDS ArpTable, WellFoundedInduction, TLAPS

Table == [Slot -> Entry]

-----------------------------------------------------------------------------
(* The table operators. *)

LEMMA FirstIsMin ==
  ASSUME NEW S \in SUBSET Nat, S # {}
  PROVE  First(S) \in S /\ \A j \in S : First(S) <= j
<1> DEFINE Less == {ss \in Nat \X Nat : ss[1] < ss[2]}
<1>1. IsWellFoundedOn(Less, Nat)
  BY NatLessThanWellFounded DEF OpToRel
<1>2. PICK x \in S : \A y \in S : ~ (<<y, x>> \in Less)
  <2> HIDE DEF Less
  <2> QED BY <1>1, WFMin
<1>3. ASSUME NEW y \in S PROVE x <= y
  <2>1. ~ (<<y, x>> \in Less)
    BY <1>2
  <2>2. <<y, x>> \in Nat \X Nat
    OBVIOUS
  <2>3. ~ (y < x)
    BY <2>1, <2>2
  <2>4. QED
    BY <2>2, <2>3
<1>4. QED
  BY <1>3 DEF First

LEMMA OldestIsSlot ==
  ASSUME NEW t \in Table, OldestNo(t) # -1
  PROVE  OldestNo(t) \in Used(t)
<1> DEFINE older  == {i \in Used(t) : t[i].timestamp < OldestInit}
           stamps == {t[i].timestamp : i \in older}
           oldest == {i \in older : \A j \in older : t[i].timestamp <= t[j].timestamp}
<1>1. older # {} /\ OldestNo(t) = First(oldest)
  BY DEF OldestNo
<1>2. stamps \in SUBSET Nat /\ stamps # {}
  BY <1>1 DEF Used, Table, Entry
<1>3. First(stamps) \in stamps /\ \A s \in stamps : First(stamps) <= s
  BY <1>2, FirstIsMin
<1>4. PICK i \in older : t[i].timestamp = First(stamps)
  BY <1>3
<1> i \in oldest
  BY <1>3, <1>4
<1>5. oldest \in SUBSET Nat
  BY DEF Used, Slot
<1>6. First(oldest) \in oldest
  BY <1>5, FirstIsMin
<1>7. QED
  BY <1>1, <1>6

LEMMA MatchingFirst ==
  ASSUME NEW t \in Table, NEW ip, Matching(t, ip) # {}
  PROVE  First(Matching(t, ip)) \in Matching(t, ip)
<1>1. Matching(t, ip) \in SUBSET Nat
  BY DEF Matching, Used, Slot
<1>2. QED
  BY <1>1, FirstIsMin

\* ArpAddTable writes the slot of the address if there is one, else a free
\* slot if there is one, else a used slot or no slot at all.
LEMMA IntoNoCases ==
  ASSUME NEW t \in Table, NEW ip
  PROVE  /\ Matching(t, ip) # {} => IntoNo(t, ip) \in Matching(t, ip)
         /\ Matching(t, ip) = {} /\ Free(t) # {} => IntoNo(t, ip) \in Free(t)
         /\ IntoNo(t, ip) \in Slot \/ (IntoNo(t, ip) = -1 /\ Free(t) = {})
<1>1. CASE Matching(t, ip) # {}
  BY <1>1, MatchingFirst DEF IntoNo, Matching, Used
<1>2. CASE Matching(t, ip) = {} /\ Free(t) # {}
  <2>1. Free(t) \in SUBSET Nat
    BY DEF Free, Slot
  <2>2. First(Free(t)) \in Free(t)
    BY <1>2, <2>1, FirstIsMin
  <2>3. QED
    BY <1>2, <2>2 DEF IntoNo, Free
<1>3. CASE Matching(t, ip) = {} /\ Free(t) = {}
  BY <1>3, OldestIsSlot DEF IntoNo, Used
<1>4. QED
  BY <1>1, <1>2, <1>3

LEMMA ZeroIsSlot == 0 \in Slot
  BY SizeAssumption DEF Slot

LEMMA AddTableType ==
  ASSUME NEW t \in Table, NEW mac \in HwAddress, NEW ip \in Address, NEW now \in Nat
  PROVE  AddTable(t, mac, ip, now) \in Table
  BY DEF AddTable, Table, Entry

LEMMA DelTableType ==
  ASSUME NEW t \in Table, NEW ip \in Address
  PROVE  DelTable(t, ip) \in Table
<1>1. CASE Matching(t, ip) = {}
  BY <1>1 DEF DelTable
<1>2. CASE Matching(t, ip) # {}
  <2>1. First(Matching(t, ip)) \in Slot
    BY <1>2, MatchingFirst DEF Matching, Used
  <2>2. QED
    BY <1>2, <2>1, ZeroIsSlot DEF DelTable, Table, Entry, Address, HwAddress
<1>3. QED
  BY <1>1, <1>2

\* The slot ArpDelTable finds is one of the table, and what it stores there.
LEMMA DelTableSlots ==
  ASSUME NEW t \in Table, NEW ip \in Address, NEW i \in Slot
  PROVE  /\ DelTable(t, ip)[i].mac \in {t[i].mac, AllZeroMac}
         /\ DelTable(t, ip)[i].ipaddr \in {t[i].ipaddr, AnyIp}
         /\ i # 0 => DelTable(t, ip)[i].mac = t[i].mac
         /\ ip # t[i].ipaddr => DelTable(t, ip)[i].ipaddr = t[i].ipaddr
         /\ Matching(t, ip) # {} /\ i = First(Matching(t, ip))
              => DelTable(t, ip)[i].ipaddr = AnyIp
<1>1. CASE Matching(t, ip) = {}
  BY <1>1 DEF DelTable
<1>2. CASE Matching(t, ip) # {}
  <2> DEFINE k == First(Matching(t, ip))
  <2>1. k \in Slot /\ t[k].ipaddr = ip
    BY <1>2, MatchingFirst DEF Matching, Used
  <2> HIDE DEF k
  <2>2. DelTable(t, ip) =
          [[t EXCEPT ![k].ipaddr = AnyIp, ![k].timestamp = 0] EXCEPT ![0].mac = AllZeroMac]
    BY <1>2 DEF DelTable, k
  <2>3. QED
    BY <2>1, <2>2, ZeroIsSlot DEF Table, Entry, k
<1>3. QED
  BY <1>1, <1>2

LEMMA LookupCases ==
  ASSUME NEW t \in Table, NEW ip
  PROVE  \/ Matching(t, ip) = {} /\ SearchTable(t, ip) = AllZeroMac
         \/ \E i \in Matching(t, ip) : SearchTable(t, ip) = t[i].mac
  BY MatchingFirst DEF SearchTable
=============================================================================
