---------------------------- MODULE DupAddrProofs ----------------------------
(***************************************************************************)
(* What the address check of ArpCheckGArp can and cannot conclude, for any *)
(* number of hosts, any table size and any number of retries.  The network *)
(* may lose every frame or keep it for ever.                               *)
(***************************************************************************)
EXTENDS DupAddr, ArpTableProofs

Started(h) == pc[h] # "off"

\* The host has sent a probe.
Probed(h) == Started(h) /\ (pc[h] = "search" => count[h] > 0)

\* Whoever a frame names as its sender was there to send it; a probe is the only
\* frame that carries 0.0.0.0 as its sender.
FramesAreSent ==
  \A f \in net : /\ f.sha # f.to /\ Started(f.sha)
                 /\ f.op = "request" => f.spa = AnyIp /\ f.tpa = Vip /\ Probed(f.sha)
                 /\ f.op = "reply"   => f.spa = Vip

\* What is stored comes from such frames.
SlotsAreSent ==
  \A h \in Host : \A i \in Used(ArpTable[h]) :
    /\ ArpTable[h][i].mac \in Host \ {h}
    /\ Started(ArpTable[h][i].mac)
    /\ ArpTable[h][i].ipaddr = AnyIp => Probed(ArpTable[h][i].mac)

\* Somebody else is there when a host has given up.
FailuresHaveCause ==
  \A h \in Host : pc[h] = "failed" => \E g \in Host \ {h} : Started(g)

IInv == TypeOK /\ FramesAreSent /\ SlotsAreSent /\ FailuresHaveCause

LEMMA VipIsNotAny == Vip # AnyIp /\ Vip \in Address /\ AnyIp \in Address
  BY VipAssumption, IpAssumption DEF Address

\* Every used slot of the written table is one of the old table or the new entry.
LEMMA AddedSlots ==
  ASSUME NEW t \in Table, NEW mac \in Mac, NEW ip \in Address, NEW now \in Nat,
         NEW i \in Used(AddTable(t, mac, ip, now))
  PROVE  /\ i \in Slot
         /\ \/ i \in Used(t) /\ AddTable(t, mac, ip, now)[i] = t[i]
            \/ AddTable(t, mac, ip, now)[i] = [timestamp |-> now, mac |-> mac, ipaddr |-> ip]
<1>1. i \in Slot
  BY DEF Used
<1>2. CASE IntoNo(t, ip) \in Slot
  BY <1>1, <1>2 DEF AddTable, Used, Table, Entry
<1>3. CASE IntoNo(t, ip) \notin Slot
  BY <1>1, <1>3 DEF AddTable, Used
<1>4. QED
  BY <1>1, <1>2, <1>3

LEMMA EmptyIsTable == EmptyTable \in Table /\ Used(EmptyTable) = {}
  BY DEF EmptyTable, Table, Entry, Used, Address, HwAddress

-----------------------------------------------------------------------------
LEMMA InitIInv == Init => IInv
  BY EmptyIsTable, RetryAssumption
  DEF Init, IInv, TypeOK, Table, Round, FramesAreSent, SlotsAreSent, FailuresHaveCause

\* The steps of a main thread that leave the frames alone.
LEMMA StartIInv ==
  ASSUME IInv, NEW h \in Host, Start(h)
  PROVE  IInv'
<1>1. TypeOK'
  BY DEF IInv, TypeOK, Start
<1>2. \A g \in Host : (Started(g) => Started(g)') /\ (Probed(g) => Probed(g)')
  BY DEF IInv, TypeOK, Start, Started, Probed
<1>3. FramesAreSent'
  BY <1>2 DEF IInv, TypeOK, Start, FramesAreSent, Frame
<1>4. SlotsAreSent'
  BY <1>2 DEF IInv, Start, SlotsAreSent
<1>5. FailuresHaveCause'
  BY <1>2 DEF IInv, TypeOK, Start, FailuresHaveCause
<1>6. QED
  BY <1>1, <1>3, <1>4, <1>5 DEF IInv

LEMMA FoundIInv ==
  ASSUME IInv, NEW h \in Host, Found(h)
  PROVE  IInv'
<1>1. TypeOK'
  BY EmptyIsTable DEF IInv, TypeOK, Found, Table
<1>2. \A g \in Host : (Started(g) => Started(g)') /\ (Probed(g) => Probed(g)')
  BY DEF IInv, TypeOK, Found, Started, Probed
<1>3. FramesAreSent'
  BY <1>2 DEF IInv, TypeOK, Found, FramesAreSent, Frame
<1>4. SlotsAreSent'
  BY <1>2, EmptyIsTable DEF IInv, TypeOK, Found, SlotsAreSent
<1>5. \E g \in Host \ {h} : Started(g)
  <2>1. ArpTable[h] \in Table /\ SearchTable(ArpTable[h], Vip) # AllZeroMac
    BY DEF IInv, TypeOK, Found, Table
  <2>2. PICK i \in Matching(ArpTable[h], Vip) :
          SearchTable(ArpTable[h], Vip) = ArpTable[h][i].mac
    BY <2>1, LookupCases
  <2>3. QED
    BY <2>2 DEF Matching, IInv, SlotsAreSent
<1>6. FailuresHaveCause'
  BY <1>2, <1>5 DEF IInv, TypeOK, Found, FailuresHaveCause
<1>7. QED
  BY <1>1, <1>3, <1>4, <1>6 DEF IInv

LEMMA ProbeIInv ==
  ASSUME IInv, NEW h \in Host, Probe(h)
  PROVE  IInv'
<1> DEFINE P(g) == [op |-> "request", sha |-> h, spa |-> AnyIp, tpa |-> Vip,
                    to |-> g, probe |-> h, n |-> count[h]]
<1>1. net' = net \cup {P(g) : g \in Host \ {h}}
  BY DEF Probe, Receivers
<1>2. \A g \in Host : P(g) \in Frame
  BY VipIsNotAny DEF Frame, IInv, TypeOK
<1>3. TypeOK'
  BY <1>1, <1>2 DEF IInv, TypeOK, Probe
<1>4. \A g \in Host : (Started(g) => Started(g)') /\ (Probed(g) => Probed(g)')
  BY DEF IInv, TypeOK, Probe, Started, Probed
<1>5. Started(h)' /\ Probed(h)'
  BY DEF IInv, TypeOK, Probe, Started, Probed
<1>6. FramesAreSent'
  BY <1>1, <1>4, <1>5 DEF IInv, TypeOK, FramesAreSent, Frame
<1>7. SlotsAreSent'
  BY <1>4 DEF IInv, Probe, SlotsAreSent
<1>8. FailuresHaveCause'
  BY <1>4 DEF IInv, TypeOK, Probe, FailuresHaveCause
<1>9. QED
  BY <1>3, <1>6, <1>7, <1>8 DEF IInv

LEMMA WakeUpIInv ==
  ASSUME IInv, NEW h \in Host, WakeUp(h)
  PROVE  IInv'
<1>1. count[h] # RETRY_COUNT => count[h] + 1 \in Round
  BY RetryAssumption DEF IInv, TypeOK, Round
<1>2. missed' \subseteq Host \X Round
  BY DEF IInv, TypeOK, WakeUp
<1>3. TypeOK'
  BY <1>1, <1>2 DEF IInv, TypeOK, WakeUp
<1>4. \A g \in Host : (Started(g) => Started(g)') /\ (Probed(g) => Probed(g)')
  BY RetryAssumption DEF IInv, TypeOK, WakeUp, Started, Probed, Round
<1>5. FramesAreSent'
  BY <1>4 DEF IInv, TypeOK, WakeUp, FramesAreSent, Frame
<1>6. SlotsAreSent'
  BY <1>4 DEF IInv, WakeUp, SlotsAreSent
<1>7. FailuresHaveCause'
  BY <1>4 DEF IInv, TypeOK, WakeUp, FailuresHaveCause
<1>8. QED
  BY <1>3, <1>5, <1>6, <1>7 DEF IInv

LEMMA EndIInv ==
  ASSUME IInv, NEW h \in Host, End(h)
  PROVE  IInv'
<1>1. TypeOK'
  BY EmptyIsTable DEF IInv, TypeOK, End, Table
<1>2. \A g \in Host : (Started(g) => Started(g)') /\ (Probed(g) => Probed(g)')
  BY DEF IInv, TypeOK, End, Started, Probed
<1>3. FramesAreSent'
  BY <1>2 DEF IInv, TypeOK, End, FramesAreSent, Frame
<1>4. SlotsAreSent'
  BY <1>2, EmptyIsTable DEF IInv, TypeOK, End, SlotsAreSent
<1>5. FailuresHaveCause'
  BY <1>2 DEF IInv, TypeOK, End, FailuresHaveCause
<1>6. QED
  BY <1>1, <1>3, <1>4, <1>5 DEF IInv

\* A probe leaves a binding of 0.0.0.0 to its sender, a reply one of Vip.
LEMMA ArpRecvIInv ==
  ASSUME IInv, NEW f \in net, ArpRecv(f)
  PROVE  IInv'
<1>1. f \in Frame /\ ArpTable[f.to] \in Table /\ f.sha \in Mac
  BY HostAssumption DEF IInv, TypeOK, Table, Frame
<1>2. f.to \in Host /\ f.sha \in Host /\ f.spa \in Address
  BY <1>1 DEF Frame
<1>3. Store(f) \in Table
  BY <1>1, <1>2, AddTableType DEF Store, HwAddress
<1>4. Reply(f) \in Frame /\ Reply(f).op = "reply" /\ Reply(f).spa = f.tpa
        /\ Reply(f).sha = f.to /\ Reply(f).to = f.sha
  BY <1>1 DEF Reply, Frame
<1>5. \A g \in net' : g \in net \/ (g = Reply(f) /\ f.op = "request")
  BY DEF ArpRecv
<1>6. TypeOK'
  BY <1>2, <1>3, <1>4, <1>5 DEF IInv, TypeOK, ArpRecv, Table
<1>7. \A g \in Host : (Started(g) <=> Started(g)') /\ (Probed(g) <=> Probed(g)')
  BY DEF ArpRecv, Started, Probed
<1>8. Started(f.to)
  BY DEF ArpRecv, Up, Started
<1>9. FramesAreSent'
  <2> SUFFICES ASSUME NEW g \in net'
               PROVE  /\ g.sha # g.to /\ Started(g.sha)'
                      /\ g.op = "request" => g.spa = AnyIp /\ g.tpa = Vip /\ Probed(g.sha)'
                      /\ g.op = "reply"   => g.spa = Vip
    BY DEF FramesAreSent
  <2>1. CASE g \in net
    BY <1>7, <2>1 DEF IInv, TypeOK, FramesAreSent, Frame
  <2>2. CASE g = Reply(f) /\ f.op = "request"
    <3>1. f.sha # f.to /\ f.tpa = Vip
      BY <2>2 DEF IInv, FramesAreSent
    <3>2. QED
      BY <1>2, <1>4, <1>7, <1>8, <2>2, <3>1
  <2>3. QED
    BY <1>5, <2>1, <2>2
<1>10. SlotsAreSent'
  <2> SUFFICES ASSUME NEW h \in Host, NEW i \in Used(ArpTable'[h]),
                      NEW m, m = ArpTable'[h][i].mac
               PROVE  /\ m \in Host \ {h}
                      /\ Started(m)'
                      /\ ArpTable'[h][i].ipaddr = AnyIp => Probed(m)'
    BY DEF SlotsAreSent, Used, Started, Probed
  <2>1. CASE i \in Used(ArpTable[h]) /\ ArpTable'[h][i] = ArpTable[h][i]
    BY <1>7, <2>1 DEF IInv, SlotsAreSent
  <2>2. CASE h = f.to /\ ArpTable'[h][i] = [timestamp |-> 0, mac |-> f.sha, ipaddr |-> f.spa]
    <3>1. f.sha # f.to /\ Started(f.sha)
      BY DEF IInv, FramesAreSent
    <3>2. f.spa = AnyIp => Probed(f.sha)
      BY <1>1, VipIsNotAny DEF IInv, FramesAreSent, Frame
    <3>3. QED
      BY <1>2, <1>7, <2>2, <3>1, <3>2
  <2>3. h # f.to => ArpTable'[h] = ArpTable[h]
    BY DEF ArpRecv, IInv, TypeOK
  <2>4. h = f.to => ArpTable'[h] = AddTable(ArpTable[f.to], f.sha, f.spa, 0)
    BY <1>2 DEF ArpRecv, IInv, TypeOK, Store
  <2>5. QED
    BY <1>1, <1>2, <2>1, <2>2, <2>3, <2>4, AddedSlots
<1>11. FailuresHaveCause'
  BY <1>7 DEF IInv, ArpRecv, FailuresHaveCause
<1>12. QED
  BY <1>6, <1>9, <1>10, <1>11 DEF IInv

LEMMA DropIInv ==
  ASSUME IInv, NEW f \in net, Vanish(f) \/ Lose(f)
  PROVE  IInv'
<1>1. net' \subseteq net /\ UNCHANGED <<ArpTable, pc, count>>
  BY DEF Vanish, Lose
<1>2. f.probe \in Host /\ f.n \in Round
  BY DEF IInv, TypeOK, Frame
<1>3. TypeOK'
  BY <1>1, <1>2 DEF IInv, TypeOK, Vanish, Lose
<1>4. FramesAreSent' /\ SlotsAreSent' /\ FailuresHaveCause'
  BY <1>1 DEF IInv, FramesAreSent, SlotsAreSent, FailuresHaveCause, Started, Probed
<1>5. QED
  BY <1>3, <1>4 DEF IInv

LEMMA StepIInv == IInv /\ [Next]_vars => IInv'
<1> SUFFICES ASSUME IInv, [Next]_vars PROVE IInv'
  OBVIOUS
<1>1. ASSUME NEW h \in Host, Start(h) \/ Found(h) \/ Probe(h) \/ WakeUp(h) \/ End(h)
      PROVE  IInv'
  BY <1>1, StartIInv, FoundIInv, ProbeIInv, WakeUpIInv, EndIInv
<1>2. ASSUME NEW f \in net, ArpRecv(f) \/ Vanish(f) \/ Lose(f)
      PROVE  IInv'
  BY <1>2, ArpRecvIInv, DropIInv
<1>3. CASE UNCHANGED vars
  BY <1>3 DEF vars, IInv, TypeOK, FramesAreSent, SlotsAreSent, FailuresHaveCause,
              Started, Probed
<1>4. QED
  BY <1>1, <1>2, <1>3 DEF Next

LEMMA SpecIInv == Spec => []IInv
<1>1. QED
  BY InitIInv, StepIInv, PTL DEF Spec

-----------------------------------------------------------------------------
\* Tables, threads and frames keep their types: ArpRecv is fed by other hosts, and
\* GetTargetMac's count never passes RETRY_COUNT.
THEOREM CheckTypeCorrect == Spec => []TypeOK
<1>1. IInv => TypeOK
  BY DEF IInv
<1>2. QED
  BY SpecIInv, <1>1, PTL

\* "GArp check fail" is never a false alarm (main.c:322), however many hosts there
\* are and whatever the network does to their frames.
THEOREM AlarmsAreTrue == Spec => []NoFalseAlarm
<1>1. IInv => NoFalseAlarm
  BY DEF IInv, FailuresHaveCause, Started, NoFalseAlarm
<1>2. QED
  BY SpecIInv, <1>1, PTL

\* What GetTargetMac finds for 0.0.0.0 is a host that has probed, whose receiver
\* entered the binding at arp.c:467.
THEOREM ZeroLeadsToAProber == Spec => []UnsetGatewayIsAProber
<1>1. ASSUME IInv PROVE UnsetGatewayIsAProber
  <2> SUFFICES ASSUME NEW h \in Host, SearchTable(ArpTable[h], AnyIp) # AllZeroMac
               PROVE  /\ SearchTable(ArpTable[h], AnyIp) \in Host \ {h}
                      /\ Probed(SearchTable(ArpTable[h], AnyIp))
    BY DEF UnsetGatewayIsAProber, Probed, Started
  <2>1. ArpTable[h] \in Table
    BY <1>1 DEF IInv, TypeOK, Table
  <2>2. PICK i \in Matching(ArpTable[h], AnyIp) :
          SearchTable(ArpTable[h], AnyIp) = ArpTable[h][i].mac
    BY <2>1, LookupCases
  <2>3. QED
    BY <1>1, <2>2 DEF Matching, IInv, SlotsAreSent
<1>2. QED
  BY SpecIInv, <1>1, PTL

-----------------------------------------------------------------------------
(* Who keeps the address: each probe is followed from its sender to the    *)
(* answer in the sender's table, or to missed.                             *)

\* An answer is in the table.
Heard(h) == Matching(ArpTable[h], Vip) # {}

\* Probe n of h has gone out; the sleep after it is over; and the search that
\* follows the sleep is over too, which there is none of after the last probe.
Sent(h, n)   == n < count[h] \/ (n = count[h] /\ pc[h] \in {"wait", "kept"})
Done(h, n)   == n < count[h] \/ pc[h] = "kept"
Passed(h, n) == /\ Done(h, n)
                /\ ~ (pc[h] = "search" /\ n = count[h] - 1)
                /\ ~ (pc[h] = "kept" /\ n = RETRY_COUNT)

\* The probe on its way to g, or the answer on its way back.
UnderWay(h, n, g) ==
  \E f \in net : /\ f.probe = h /\ f.n = n
                 /\ \/ f.op = "request" /\ f.sha = h /\ f.to = g
                    \/ f.op = "reply" /\ f.to = h

\* What has become of a probe that g was there to answer.
Counts(h, n, g) ==
  \/ <<h, n>> \in missed
  \/ ~Passed(h, n) /\ Heard(h)
  \/ ~Done(h, n) /\ UnderWay(h, n, g)

CountsFit ==
  \A h \in Host : /\ pc[h] = "off" => count[h] = 0
                  /\ pc[h] = "kept" => count[h] = RETRY_COUNT

\* A table has at most one slot for 0.0.0.0 and one for Vip.
Small(t) ==
  \A i, j \in Used(t) : /\ t[i].ipaddr \in {AnyIp, Vip}
                        /\ t[i].ipaddr = t[j].ipaddr => i = j
TablesSmall == \A h \in Host : Small(ArpTable[h])

\* Of two probes of two hosts that both run, the one sent later was sent while the
\* other host was there; which of them that is does not matter.
PairsMeet ==
  \A h, g \in Host : h # g /\ Up(h) /\ Up(g) =>
    \A n, m \in Round : Sent(h, n) /\ Sent(g, m) => Counts(h, n, g) \/ Counts(g, m, h)

JInv == IInv /\ CountsFit /\ TablesSmall /\ PairsMeet

\* With two slots an add always finds one, and evicts nothing.
LEMMA AddKeeps ==
  ASSUME ARP_TABLE_NO > 1, NEW t \in Table, Small(t), NEW mac \in Mac,
         NEW ip \in {AnyIp, Vip}, NEW now \in Nat
  PROVE  /\ Small(AddTable(t, mac, ip, now))
         /\ Matching(AddTable(t, mac, ip, now), ip) # {}
         /\ \A other : Matching(t, other) # {} => Matching(AddTable(t, mac, ip, now), other) # {}
<1> DEFINE n == IntoNo(t, ip)
           e == [timestamp |-> now, mac |-> mac, ipaddr |-> ip]
           u == AddTable(t, mac, ip, now)
<1>1. n \in Slot /\ (n \in Matching(t, ip) \/ (n \in Free(t) /\ Matching(t, ip) = {}))
  <2>1. CASE Matching(t, ip) # {}
    BY <2>1, IntoNoCases DEF Matching, Used
  <2>2. CASE Matching(t, ip) = {}
    <3>1. Free(t) # {}
      <4> SUFFICES ASSUME Free(t) = {} PROVE FALSE
        OBVIOUS
      <4>1. 0 \in Slot /\ 1 \in Slot
        BY SizeAssumption DEF Slot
      <4>2. 0 \in Used(t) /\ 1 \in Used(t)
        BY <4>1 DEF Free
      <4>3. t[0].ipaddr # ip /\ t[1].ipaddr # ip
        BY <2>2, <4>2 DEF Matching
      <4>4. QED
        BY <4>2, <4>3 DEF Small
    <3>2. QED
      BY <2>2, <3>1, IntoNoCases DEF Free
  <2>3. QED
    BY <2>1, <2>2
<1>2. u = [t EXCEPT ![n] = e]
  BY <1>1 DEF AddTable
<1> HIDE DEF u, n
<1>3. u[n] = e /\ \A i \in Slot \ {n} : u[i] = t[i]
  BY <1>1, <1>2 DEF Table
<1>4. n \in Used(u)
  BY <1>1, <1>3, MacAssumption DEF Used
<1>5. \A i \in Used(u) : i # n => i \in Used(t) /\ u[i] = t[i] /\ t[i].ipaddr # ip
  <2> SUFFICES ASSUME NEW i \in Used(u), i # n
               PROVE  i \in Used(t) /\ u[i] = t[i] /\ t[i].ipaddr # ip
    OBVIOUS
  <2>1. i \in Used(t) /\ u[i] = t[i]
    BY <1>3 DEF Used
  <2>2. CASE n \in Matching(t, ip)
    BY <2>1, <2>2 DEF Matching, Small
  <2>3. CASE Matching(t, ip) = {}
    BY <2>1, <2>3 DEF Matching
  <2>4. QED
    BY <1>1, <2>1, <2>2, <2>3
<1>6. Small(u)
  BY <1>3, <1>5 DEF Small
<1>7. n \in Matching(u, ip)
  BY <1>3, <1>4 DEF Matching
<1>8. ASSUME NEW other, NEW i \in Matching(t, other), other # ip
      PROVE  i \in Matching(u, other)
  <2>1. i \in Used(t) /\ t[i].ipaddr = other /\ i # n
    BY <1>1, <1>8 DEF Matching, Free
  <2>2. u[i] = t[i]
    BY <1>3, <2>1 DEF Used
  <2>3. QED
    BY <2>1, <2>2 DEF Matching, Used
<1>9. QED
  BY <1>6, <1>7, <1>8 DEF u

-----------------------------------------------------------------------------
(* What a step does to one host. *)

LEMMA TableSteps ==
  ASSUME IInv, [Next]_vars, NEW h \in Host
  PROVE  \/ ArpTable'[h] = ArpTable[h]
         \/ ArpTable'[h] = EmptyTable /\ ~Up(h)'
         \/ \E f \in net : f.to = h /\ ArpRecv(f) /\ ArpTable'[h] = Store(f)
<1>1. ASSUME NEW x \in Host, Found(x) \/ End(x)
      PROVE  ArpTable'[h] = ArpTable[h] \/ (ArpTable'[h] = EmptyTable /\ ~Up(h)')
  BY <1>1 DEF Found, End, Up, IInv, TypeOK
<1>2. ASSUME NEW x \in Host, Start(x) \/ Probe(x) \/ WakeUp(x)
      PROVE  ArpTable' = ArpTable
  BY <1>2 DEF Start, Probe, WakeUp
<1>3. ASSUME NEW f \in net, ArpRecv(f)
      PROVE  ArpTable'[h] = ArpTable[h] \/ (f.to = h /\ ArpTable'[h] = Store(f))
  BY <1>3 DEF ArpRecv, IInv, TypeOK
<1>4. ASSUME NEW f \in net, Vanish(f) \/ Lose(f)
      PROVE  ArpTable' = ArpTable
  BY <1>4 DEF Vanish, Lose
<1>5. CASE UNCHANGED vars
  BY <1>5 DEF vars
<1>6. QED
  BY <1>1, <1>2, <1>3, <1>4, <1>5 DEF Next

LEMMA OwnSteps ==
  ASSUME IInv, [Next]_vars, NEW h \in Host
  PROVE  \/ Start(h) \/ Found(h) \/ Probe(h) \/ WakeUp(h) \/ End(h)
         \/ pc'[h] = pc[h] /\ count'[h] = count[h]
<1>1. ASSUME NEW x \in Host, x # h,
             Start(x) \/ Found(x) \/ Probe(x) \/ WakeUp(x) \/ End(x)
      PROVE  pc'[h] = pc[h] /\ count'[h] = count[h]
  BY <1>1 DEF Start, Found, Probe, WakeUp, End, IInv, TypeOK
<1>2. ASSUME NEW f \in net, ArpRecv(f) \/ Vanish(f) \/ Lose(f)
      PROVE  pc'[h] = pc[h] /\ count'[h] = count[h]
  BY <1>2 DEF ArpRecv, Vanish, Lose
<1>3. CASE UNCHANGED vars
  BY <1>3 DEF vars
<1>4. QED
  BY <1>1, <1>2, <1>3 DEF Next

LEMMA MissedGrows == IInv /\ [Next]_vars => missed \subseteq missed'
  BY DEF Next, Start, Found, Probe, WakeUp, End, ArpRecv, Vanish, Lose, vars

\* What a receiver stores is for 0.0.0.0 or Vip.
LEMMA StoreKeeps ==
  ASSUME ARP_TABLE_NO > 1, IInv, TablesSmall, NEW f \in net
  PROVE  /\ Small(Store(f))
         /\ Matching(Store(f), f.spa) # {}
         /\ Heard(f.to) => Matching(Store(f), Vip) # {}
<1>1. f \in Frame /\ f.to \in Host /\ f.sha \in Mac /\ ArpTable[f.to] \in Table
  BY HostAssumption DEF IInv, TypeOK, Frame, Table
<1>2. f.spa \in {AnyIp, Vip}
  BY <1>1 DEF IInv, FramesAreSent, Frame
<1>3. Small(ArpTable[f.to])
  BY <1>1 DEF TablesSmall
<1>4. QED
  BY <1>1, <1>2, <1>3, AddKeeps DEF Store, Heard

LEMMA TablesStaySmall ==
  ASSUME ARP_TABLE_NO > 1, IInv, TablesSmall, [Next]_vars
  PROVE  TablesSmall'
<1> SUFFICES ASSUME NEW h \in Host PROVE Small(ArpTable'[h])
  BY DEF TablesSmall, Small, Used
<1>1. Small(EmptyTable)
  BY EmptyIsTable DEF Small
<1>2. QED
  BY <1>1, TableSteps, StoreKeeps DEF TablesSmall

LEMMA CountsStayFit ==
  ASSUME IInv, CountsFit, [Next]_vars
  PROVE  CountsFit'
<1> SUFFICES ASSUME NEW h \in Host
             PROVE  /\ pc'[h] = "off" => count'[h] = 0
                    /\ pc'[h] = "kept" => count'[h] = RETRY_COUNT
  BY DEF CountsFit
<1>1. CASE Start(h) \/ Found(h) \/ Probe(h) \/ WakeUp(h) \/ End(h)
  BY <1>1 DEF Start, Found, Probe, WakeUp, End, IInv, TypeOK
<1>2. CASE pc'[h] = pc[h] /\ count'[h] = count[h]
  BY <1>2 DEF CountsFit
<1>3. QED
  BY <1>1, <1>2, OwnSteps

\* An answer once heard stays until the host stops.
LEMMA HeardStays ==
  ASSUME ARP_TABLE_NO > 1, IInv, TablesSmall, [Next]_vars,
         NEW h \in Host, Heard(h), Up(h)'
  PROVE  Heard(h)'
  BY TableSteps, StoreKeeps DEF Heard, Matching, Used

\* A frame under way between two hosts that run is answered, stored or missed.
LEMMA UnderWayStays ==
  ASSUME ARP_TABLE_NO > 1, IInv, TablesSmall, [Next]_vars,
         NEW h \in Host, NEW g \in Host, Up(h), Up(g), NEW n \in Round,
         UnderWay(h, n, g)
  PROVE  UnderWay(h, n, g)' \/ <<h, n>> \in missed' \/ Heard(h)'
<1>1. PICK f \in net : /\ f.probe = h /\ f.n = n
                       /\ \/ f.op = "request" /\ f.sha = h /\ f.to = g
                          \/ f.op = "reply" /\ f.to = h
  BY DEF UnderWay
<1>2. Up(f.to)
  BY <1>1
<1>3. CASE f \in net'
  BY <1>1, <1>3 DEF UnderWay
<1>4. CASE f \notin net'
  <2>1. ArpRecv(f) \/ Lose(f)
    <3>1. ASSUME NEW x \in Host, Start(x) \/ Found(x) \/ Probe(x) \/ WakeUp(x) \/ End(x)
          PROVE  FALSE
      BY <1>4, <3>1 DEF Start, Found, Probe, WakeUp, End
    <3>2. ASSUME NEW x \in net, ArpRecv(x) \/ Vanish(x) \/ Lose(x)
          PROVE  ArpRecv(f) \/ Lose(f)
      <4>1. x = f
        BY <1>4, <3>2 DEF ArpRecv, Vanish, Lose
      <4>2. QED
        BY <1>2, <3>2, <4>1 DEF Vanish
    <3>3. CASE UNCHANGED vars
      BY <1>4, <3>3 DEF vars
    <3>4. QED
      BY <3>1, <3>2, <3>3 DEF Next
  <2>2. CASE Lose(f)
    BY <1>1, <2>2 DEF Lose
  <2>3. CASE ArpRecv(f) /\ f.op = "request"
    <3>1. Reply(f) \in net'
      BY <2>3 DEF ArpRecv
    <3>2. Reply(f).probe = h /\ Reply(f).n = n /\ Reply(f).op = "reply" /\ Reply(f).to = h
      BY <1>1, <2>3 DEF Reply
    <3>3. QED
      BY <3>1, <3>2 DEF UnderWay
  <2>4. CASE ArpRecv(f) /\ f.op = "reply"
    <3>1. f.to = h /\ f.spa = Vip
      BY <1>1, <2>4 DEF IInv, FramesAreSent
    <3>2. ArpTable'[h] = Store(f)
      BY <2>4, <3>1 DEF ArpRecv, IInv, TypeOK
    <3>3. QED
      BY <3>1, <3>2, StoreKeeps DEF Heard, Matching, Used
  <2>5. QED
    BY <1>1, <2>1, <2>2, <2>3, <2>4
<1>5. QED
  BY <1>3, <1>4

\* A search that finds nothing is a search with no answer in the table.
LEMMA ProbeUnheard ==
  ASSUME IInv, NEW h \in Host, Probe(h)
  PROVE  ~Heard(h)
<1>1. ArpTable[h] \in Table
  BY DEF IInv, TypeOK, Table
<1>2. Matching(ArpTable[h], Vip) # {} => SearchTable(ArpTable[h], Vip) # AllZeroMac
  BY <1>1, MatchingFirst DEF SearchTable, Matching, Used
<1>3. QED
  BY <1>2 DEF Probe, Heard

\* A probe that counts goes on counting.
LEMMA CountsStay ==
  ASSUME ARP_TABLE_NO > 1, IInv, TablesSmall, [Next]_vars,
         NEW h \in Host, NEW g \in Host, Up(h), Up(g), Up(h)', NEW n \in Round,
         Sent(h, n), Counts(h, n, g)
  PROVE  Counts(h, n, g)'
<1>1. count[h] \in Nat /\ n \in Nat
  BY RetryAssumption DEF IInv, TypeOK, Round
<1>2. Probe(h) \/ WakeUp(h) \/ (pc'[h] = pc[h] /\ count'[h] = count[h])
  BY OwnSteps DEF Start, Found, End, Up, IInv, TypeOK
<1>3. ASSUME WakeUp(h)
      PROVE  /\ n < count[h] => Passed(h, n)
             /\ n = count[h] => ~Passed(h, n)'
  <2>1. pc[h] = "wait"
    BY <1>3 DEF WakeUp
  <2>2. \/ count[h] = RETRY_COUNT /\ pc'[h] = "kept"
        \/ count'[h] = count[h] + 1 /\ pc'[h] = "search"
    BY <1>3 DEF WakeUp, IInv, TypeOK
  <2>3. QED
    BY <1>1, <2>1, <2>2 DEF Passed, Done
<1>4. CASE <<h, n>> \in missed
  BY <1>4, MissedGrows DEF Counts
<1>5. CASE ~Passed(h, n) /\ Heard(h)
  <2>1. Heard(h)'
    BY <1>5, HeardStays
  <2>2. ~Probe(h)
    BY <1>5, ProbeUnheard
  <2>3. ~Passed(h, n)'
    BY <1>1, <1>2, <1>3, <1>5, <2>2 DEF Sent, Passed, Done
  <2>4. QED
    BY <2>1, <2>3 DEF Counts
<1>6. CASE ~Done(h, n) /\ UnderWay(h, n, g)
  <2>1. n = count[h] /\ pc[h] = "wait"
    BY <1>1, <1>6 DEF Sent, Done
  <2>2. UnderWay(h, n, g)' \/ <<h, n>> \in missed' \/ Heard(h)'
    BY <1>6, UnderWayStays
  <2>3. ~Passed(h, n)'
    BY <1>2, <1>3, <1>6, <2>1 DEF Probe, Passed, Done
  <2>4. WakeUp(h) => <<h, n>> \in missed'
    BY <1>6, <2>1 DEF WakeUp, UnderWay, Pending
  <2>5. ~WakeUp(h) => ~Done(h, n)'
    BY <1>2, <1>6, <2>1 DEF Probe, Done
  <2>6. QED
    BY <2>2, <2>3, <2>4, <2>5 DEF Counts
<1>7. QED
  BY <1>4, <1>5, <1>6 DEF Counts

\* A probe sent while g is there counts at once.
LEMMA NewProbeCounts ==
  ASSUME IInv, [Next]_vars, NEW h \in Host, NEW g \in Host, h # g, Up(h),
         NEW n \in Round, ~Sent(h, n), Sent(h, n)'
  PROVE  Counts(h, n, g)'
<1>1. count[h] \in Nat /\ n \in Nat
  BY RetryAssumption DEF IInv, TypeOK, Round
<1>2. Probe(h) /\ n = count[h]
  <2>1. CASE Found(h) \/ End(h)
    BY <2>1 DEF Found, End, Sent, IInv, TypeOK
  <2>2. CASE WakeUp(h)
    <3>1. pc[h] = "wait"
      BY <2>2 DEF WakeUp
    <3>2. \/ count'[h] = count[h]
          \/ count'[h] = count[h] + 1 /\ pc'[h] = "search"
      BY <2>2 DEF WakeUp, IInv, TypeOK
    <3>3. QED
      BY <1>1, <3>1, <3>2 DEF Sent
  <2>3. CASE Probe(h)
    BY <1>1, <2>3 DEF Probe, Sent, IInv, TypeOK
  <2>4. QED
    BY <2>1, <2>2, <2>3, OwnSteps DEF Sent, Start, Up
<1> DEFINE f == [op |-> "request", sha |-> h, spa |-> AnyIp, tpa |-> Vip,
                 to |-> g, probe |-> h, n |-> count[h]]
<1>3. f \in net'
  BY <1>2 DEF Probe, Receivers
<1>4. UnderWay(h, n, g)'
  BY <1>2, <1>3 DEF UnderWay
<1>5. ~Done(h, n)'
  BY <1>1, <1>2 DEF Probe, Done, IInv, TypeOK
<1>6. QED
  BY <1>4, <1>5 DEF Counts

LEMMA PairsStayMet ==
  ASSUME ARP_TABLE_NO > 1, JInv, [Next]_vars
  PROVE  PairsMeet'
<1> SUFFICES ASSUME NEW h \in Host, NEW g \in Host, h # g, Up(h)', Up(g)',
                    NEW n \in Round, NEW m \in Round, Sent(h, n)', Sent(g, m)'
             PROVE  Counts(h, n, g)' \/ Counts(g, m, h)'
  BY DEF PairsMeet
<1>1. ASSUME NEW x \in Host, NEW k \in Round, Up(x)', Sent(x, k)'
      PROVE  Up(x)
  <2>1. count[x] \in Nat /\ k \in Nat
    BY RetryAssumption DEF JInv, IInv, TypeOK, Round
  <2>2. ~Start(x)
    BY <1>1, <2>1 DEF Start, Sent, JInv, IInv, TypeOK, CountsFit
  <2>3. QED
    BY <1>1, <2>2, OwnSteps DEF Found, Probe, WakeUp, End, Up, JInv
<1>2. Up(h) /\ Up(g)
  BY <1>1
<1>3. CASE ~Sent(h, n)
  BY <1>2, <1>3, NewProbeCounts DEF JInv
<1>4. CASE ~Sent(g, m)
  BY <1>2, <1>4, NewProbeCounts DEF JInv
<1>5. CASE Sent(h, n) /\ Sent(g, m)
  <2>1. Counts(h, n, g) \/ Counts(g, m, h)
    BY <1>2, <1>5 DEF JInv, PairsMeet
  <2>2. QED
    BY <1>2, <1>5, <2>1, CountsStay DEF JInv
<1>6. QED
  BY <1>3, <1>4, <1>5

LEMMA SpecJInv ==
  ASSUME ARP_TABLE_NO > 1
  PROVE  Spec => []JInv
<1>1. Init => JInv
  BY InitIInv, EmptyIsTable DEF Init, JInv, CountsFit, TablesSmall, Small, PairsMeet, Up
<1>2. JInv /\ [Next]_vars => JInv'
  BY StepIInv, CountsStayFit, TablesStaySmall, PairsStayMet DEF JInv
<1>3. QED
  BY <1>1, <1>2, PTL DEF Spec

\* ArpCheckGArp among any number of hosts with one address: two of them keep it
\* only if the network has spoilt each of the first RETRY_COUNT probes of one of
\* the two.  The table needs two slots, for 0.0.0.0 and the address.
THEOREM KeepersHadMisses ==
  ASSUME ARP_TABLE_NO > 1
  PROVE  Spec => []BothKeepOnlyAfterMisses
<1>1. ASSUME JInv PROVE BothKeepOnlyAfterMisses
  <2> SUFFICES ASSUME NEW h \in Host, NEW g \in Host, h # g,
                      pc[h] = "kept", pc[g] = "kept"
               PROVE  \E x \in {h, g} : \A n \in 0 .. RETRY_COUNT - 1 : <<x, n>> \in missed
    BY DEF BothKeepOnlyAfterMisses
  <2>1. count[h] = RETRY_COUNT /\ count[g] = RETRY_COUNT
    BY <1>1 DEF JInv, CountsFit
  <2>2. \A n \in 0 .. RETRY_COUNT - 1 : n \in Round /\ n < RETRY_COUNT
    BY RetryAssumption DEF Round
  <2>3. ASSUME NEW n \in 0 .. RETRY_COUNT - 1, NEW m \in 0 .. RETRY_COUNT - 1
        PROVE  <<h, n>> \in missed \/ <<g, m>> \in missed
    <3>1. Counts(h, n, g) \/ Counts(g, m, h)
      BY <1>1, <2>1, <2>2 DEF JInv, PairsMeet, Up, Sent
    <3>2. Passed(h, n) /\ Done(h, n) /\ Passed(g, m) /\ Done(g, m)
      BY <2>2, RetryAssumption DEF Passed, Done
    <3>3. QED
      BY <3>1, <3>2 DEF Counts
  <2>4. QED
    BY <2>3
<1>2. QED
  BY SpecJInv, <1>1, PTL
=============================================================================
