------------------------------ MODULE DupAddr -------------------------------
(***************************************************************************)
(* Several machines run the program with the same address Vip on one       *)
(* Ethernet.  The main thread of each runs ArpCheckGArp once its receiver  *)
(* is up: it probes for Vip (an ARP request with sender 0.0.0.0), waits,   *)
(* and looks whether anybody has answered, RETRY_COUNT + 1 times.  The     *)
(* receiver answers the probes of the others from the first moment on,     *)
(* while its own main is still asking.                                     *)
(*                                                                         *)
(* A host is named by its MAC, Param.vmac.  The network may lose a frame   *)
(* or keep it longer than a host waits; missed remembers whose probe that  *)
(* has spoilt.                                                             *)
(***************************************************************************)
EXTENDS ArpTable

CONSTANTS
  Host,         \* the machines, by MAC
  Vip,          \* Param.vip of all of them
  RETRY_COUNT   \* 3 in param.h:16

ASSUME HostAssumption  == Host \subseteq Mac
ASSUME VipAssumption   == Vip \in Ip
ASSUME RetryAssumption == RETRY_COUNT \in Nat

VARIABLES
  ArpTable,   \* per host
  pc,         \* per host: off, main about to search, main asleep, main past
              \* the check, main returned with "GArp check fail", ended by a user
  count,      \* per host: GetTargetMac's local count
  net,        \* frames under way; probe and n name the probe they belong to
  missed      \* history: the probes <<host, count>> the network has spoilt

vars == <<ArpTable, pc, count, net, missed>>

Round == 0 .. RETRY_COUNT
Frame == [op : {"request", "reply"}, sha : Host, spa : Address, tpa : Address,
          to : Host, probe : Host, n : Round]

TypeOK ==
  /\ ArpTable \in [Host -> [Slot -> Entry]]
  /\ pc \in [Host -> {"off", "search", "wait", "kept", "failed", "ended"}]
  /\ count \in [Host -> Round]
  /\ net \subseteq Frame
  /\ missed \subseteq Host \X Round

Init ==
  /\ ArpTable = [h \in Host |-> EmptyTable]
  /\ pc = [h \in Host |-> "off"]
  /\ count = [h \in Host |-> 0]
  /\ net = {}
  /\ missed = {}

\* The threads exist, so frames are read.
Up(h) == pc[h] \in {"search", "wait", "kept"}

-----------------------------------------------------------------------------
(* main: ArpCheckGArp. *)

Start(h) ==
  /\ pc[h] = "off"
  /\ pc' = [pc EXCEPT ![h] = "search"]
  /\ UNCHANGED <<ArpTable, count, net, missed>>

\* "ArpCheckGArp:%s use %s": somebody has answered; main returns and with it the
\* process and its table are gone.
Found(h) ==
  /\ pc[h] = "search"
  /\ SearchTable(ArpTable[h], Vip) # AllZeroMac
  /\ pc' = [pc EXCEPT ![h] = "failed"]
  /\ ArpTable' = [ArpTable EXCEPT ![h] = EmptyTable]
  /\ UNCHANGED <<count, net, missed>>

\* A variant of the medium by which a property is tested: a host hears itself.
BadReceivers(h) == Host

\* A packet socket is not handed the frames it has sent itself.
Receivers(h) == Host \ {h}

\* ArpSendRequestGratuitous, broadcast.
Probe(h) ==
  /\ pc[h] = "search"
  /\ SearchTable(ArpTable[h], Vip) = AllZeroMac
  /\ net' = net \cup
       { [op |-> "request", sha |-> h, spa |-> AnyIp, tpa |-> Vip,
          to |-> g, probe |-> h, n |-> count[h]] : g \in Receivers(h) }
  /\ pc' = [pc EXCEPT ![h] = "wait"]
  /\ UNCHANGED <<ArpTable, count, missed>>

\* A frame of this probe is still to be read by a host that reads.
Pending(h) == \E f \in net : f.probe = h /\ f.n = count[h] /\ Up(f.to)

\* Variants that give up a round early, or do not wait at all.
BadWakeUp(h) ==
  /\ pc[h] = "wait"
  /\ missed' = IF Pending(h) THEN missed \cup {<<h, count[h]>>} ELSE missed
  /\ IF count[h] + 1 >= RETRY_COUNT
     THEN pc' = [pc EXCEPT ![h] = "kept"] /\ UNCHANGED count
     ELSE /\ pc' = [pc EXCEPT ![h] = "search"]
          /\ count' = [count EXCEPT ![h] = @ + 1]
  /\ UNCHANGED <<ArpTable, net>>

BadWakeUpOneMore(h) ==
  /\ pc[h] = "wait"
  /\ missed' = IF Pending(h) THEN missed \cup {<<h, count[h]>>} ELSE missed
  /\ IF count[h] > RETRY_COUNT
     THEN pc' = [pc EXCEPT ![h] = "kept"] /\ UNCHANGED count
     ELSE /\ pc' = [pc EXCEPT ![h] = "search"]
          /\ count' = [count EXCEPT ![h] = @ + 1]
  /\ UNCHANGED <<ArpTable, net>>

\* The end of the sleep, and after the last one of the check: nobody looks for an
\* answer to the last probe.
WakeUp(h) ==
  /\ pc[h] = "wait"
  /\ missed' = IF Pending(h) THEN missed \cup {<<h, count[h]>>} ELSE missed
  /\ IF count[h] = RETRY_COUNT
     THEN pc' = [pc EXCEPT ![h] = "kept"] /\ UNCHANGED count
     ELSE /\ pc' = [pc EXCEPT ![h] = "search"]
          /\ count' = [count EXCEPT ![h] = @ + 1]
  /\ UNCHANGED <<ArpTable, net>>

\* The user ends the program.
End(h) ==
  /\ Up(h)
  /\ pc' = [pc EXCEPT ![h] = "ended"]
  /\ ArpTable' = [ArpTable EXCEPT ![h] = EmptyTable]
  /\ UNCHANGED <<count, net, missed>>

-----------------------------------------------------------------------------
(* MyEthThread: ArpRecv. *)

Reply(f) ==
  [op |-> "reply", sha |-> f.to, spa |-> f.tpa, tpa |-> f.spa,
   to |-> f.sha, probe |-> f.probe, n |-> f.n]

\* A variant that stores the sender of a reply under the address it is for.
BadStore(f) ==
  AddTable(ArpTable[f.to], f.sha, IF f.op = "reply" THEN f.tpa ELSE f.spa, 0)

\* ArpAddTable of the sender, 0.0.0.0 though that is in a probe.
Store(f) == AddTable(ArpTable[f.to], f.sha, f.spa, 0)

\* A request for Vip and a reply to 0.0.0.0 are both taken.
ArpRecv(f) ==
  /\ Up(f.to)
  /\ ArpTable' = [ArpTable EXCEPT ![f.to] = Store(f)]
  /\ net' = (net \ {f}) \cup (IF f.op = "request" THEN {Reply(f)} ELSE {})
  /\ UNCHANGED <<pc, count, missed>>

\* No one reads the frame.
Vanish(f) ==
  /\ ~Up(f.to)
  /\ net' = net \ {f}
  /\ UNCHANGED <<ArpTable, pc, count, missed>>

Lose(f) ==
  /\ Up(f.to)
  /\ net' = net \ {f}
  /\ missed' = missed \cup {<<f.probe, f.n>>}
  /\ UNCHANGED <<ArpTable, pc, count>>

Next ==
  \/ \E h \in Host : Start(h) \/ Found(h) \/ Probe(h) \/ WakeUp(h) \/ End(h)
  \/ \E f \in net : ArpRecv(f) \/ Vanish(f) \/ Lose(f)

Spec == Init /\ [][Next]_vars

-----------------------------------------------------------------------------
\* Two hosts keep the address only if the network has spoilt each of the first
\* RETRY_COUNT probes of one of them: any answer in time is enough to stop a
\* host, whether the other one has finished its own check or not.  (The answer
\* to the last probe is not waited for.)
BothKeepOnlyAfterMisses ==
  \A h, g \in Host : h # g /\ pc[h] = "kept" /\ pc[g] = "kept" =>
    \E x \in {h, g} : \A n \in 0 .. RETRY_COUNT - 1 : <<x, n>> \in missed

\* "GArp check fail" (main.c:322) is never a false alarm: another host has been
\* started with the address.
NoFalseAlarm ==
  \A h \in Host : pc[h] = "failed" => \E g \in Host \ {h} : pc[g] # "off"

\* The answer to a probe leaves a binding of 0.0.0.0, which GetTargetMac finds
\* when it is asked for an unset gateway: datagrams for other networks then go to
\* a host that has probed for our address, and to no one else.  No user deletes an
\* address with "arp -d" meanwhile.
UnsetGatewayIsAProber ==
  \A h \in Host : LET m == SearchTable(ArpTable[h], AnyIp) IN
    m # AllZeroMac => /\ m \in Host \ {h}
                      /\ pc[m] # "off" /\ (pc[m] = "search" => count[m] > 0)
=============================================================================
