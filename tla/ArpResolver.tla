---------------------------- MODULE ArpResolver -----------------------------
(***************************************************************************)
(* The three threads of the program around the ARP table: main, which      *)
(* checks at start-up that nobody else uses our address (ArpCheckGArp);    *)
(* MyEthThread ("eth"), the only reader of the socket and the only caller  *)
(* of ArpAddTable; and StdInThread ("stdin"), which runs the user's        *)
(* commands.  Each of them resolves next hops with GetTargetMac: search    *)
(* the table, on a miss send an ARP request, sleep, try again.             *)
(*                                                                         *)
(* GetTargetMac runs in the thread that calls it, so while eth sleeps in   *)
(* it nobody reads the socket: frames wait in rxq, the kernel's queue.     *)
(*                                                                         *)
(* The table and its operations are those of ArpCache.                     *)
(***************************************************************************)
EXTENDS ArpCache, Sequences

CONSTANTS
  Vip,          \* Param.vip, configured and not changed by DHCP here
  Gateway,      \* Param.gateway; 0.0.0.0 in the MyEth.ini of the repository
  OnLink,       \* the addresses isSameSubnet accepts
  RETRY_COUNT,  \* 3 in param.h:16
  Frame,        \* frames that reach the interface: a subset of AnyFrame
  QueueMax      \* bound on the socket's receive queue; the kernel drops beyond

ASSUME VipAssumption     == Vip \in Ip /\ Vip \in OnLink
ASSUME GatewayAssumption == Gateway \in Address
ASSUME RetryAssumption   == RETRY_COUNT \in Nat

\* "udp" is a datagram for a port nobody has open.
AnyFrame == [kind : {"request", "reply", "echo", "udp"}, ours : BOOLEAN,
             sha : HwAddress, spa : Address, tpa : Address]
ASSUME FrameAssumption == Frame \subseteq AnyFrame

Thread == {"main", "eth", "stdin"}

VARIABLES
  rxq,     \* frames received by the kernel and not read yet
  pc,      \* per thread: outside GetTargetMac, about to search, asleep
  addr,    \* per thread: GetTargetMac's local addr
  count,   \* per thread: GetTargetMac's local count
  alive    \* FALSE once main has returned and the process is gone

cacheVars    == vars   \* of ArpCache
threadVars   == <<pc, addr, count>>
resolverVars == <<cacheVars, rxq, threadVars, alive>>

ResolverTypeOK ==
  /\ TypeOK
  /\ rxq \in Seq(Frame)
  /\ pc \in [Thread -> {"idle", "search", "wait"}]
  /\ addr \in [Thread -> Address]
  /\ count \in [Thread -> 0 .. RETRY_COUNT]
  /\ alive \in BOOLEAN

\* The two threads exist before main starts the check.
ResolverInit ==
  /\ Init
  /\ rxq = <<>>
  /\ pc = [th \in Thread |-> IF th = "main" THEN "search" ELSE "idle"]
  /\ addr = [th \in Thread |-> IF th = "main" THEN Vip ELSE AnyIp]
  /\ count = [th \in Thread |-> 0]
  /\ alive = TRUE

-----------------------------------------------------------------------------
(* GetTargetMac. *)

Bound(ip) == Matching(ArpTable, ip) # {}

NextHop(daddr) == IF daddr \in OnLink THEN daddr ELSE Gateway

StartResolution(th, daddr) ==
  /\ pc' = [pc EXCEPT ![th] = "search"]
  /\ addr' = [addr EXCEPT ![th] = NextHop(daddr)]
  /\ count' = [count EXCEPT ![th] = 0]

\* GetTargetMac returns and its locals are gone.
Return(th) ==
  /\ pc' = [pc EXCEPT ![th] = "idle"]
  /\ addr' = [addr EXCEPT ![th] = AnyIp]
  /\ count' = [count EXCEPT ![th] = 0]

\* A hit in main's check means that another host answers for our address: main
\* returns and the process ends.
Hit(th) ==
  /\ pc[th] = "search"
  /\ Bound(addr[th])
  /\ Return(th)
  /\ alive' = (th # "main")
  /\ UNCHANGED <<cacheVars, rxq>>

\* A miss sends the request, which needs no answer from the table, and sleeps.
Miss(th) ==
  /\ pc[th] = "search"
  /\ ~Bound(addr[th])
  /\ pc' = [pc EXCEPT ![th] = "wait"]
  /\ UNCHANGED <<cacheVars, rxq, addr, count, alive>>

\* Variants by which the properties are tested: one retry too many, and retries
\* that are not counted.
BadWakeUpOneMore(th) ==
  /\ pc[th] = "wait"
  /\ \/ count[th] > RETRY_COUNT /\ Return(th)
     \/ /\ count[th] <= RETRY_COUNT
        /\ pc' = [pc EXCEPT ![th] = "search"]
        /\ count' = [count EXCEPT ![th] = @ + 1]
        /\ UNCHANGED addr
  /\ UNCHANGED <<cacheVars, rxq, alive>>

BadWakeUpUncounted(th) ==
  /\ pc[th] = "wait"
  /\ pc' = [pc EXCEPT ![th] = "search"]
  /\ UNCHANGED <<cacheVars, rxq, addr, count, alive>>

\* The sleep of 100 * (count + 1) ms ends; its length is left open.
WakeUp(th) ==
  /\ pc[th] = "wait"
  /\ \/ count[th] = RETRY_COUNT /\ Return(th)
     \/ /\ count[th] < RETRY_COUNT
        /\ pc' = [pc EXCEPT ![th] = "search"]
        /\ count' = [count EXCEPT ![th] = @ + 1]
        /\ UNCHANGED addr
  /\ UNCHANGED <<cacheVars, rxq, alive>>

-----------------------------------------------------------------------------
(* StdInThread: "ping" and "udp send" resolve, "arp -d" deletes.  It reads   *)
(* the next command when the last one is finished.                         *)

Send(daddr) ==
  /\ pc["stdin"] = "idle"
  /\ StartResolution("stdin", daddr)
  /\ UNCHANGED <<cacheVars, rxq, alive>>

ArpDel(ip) ==
  /\ pc["stdin"] = "idle"
  /\ ArpDelTable(ip)
  /\ UNCHANGED <<rxq, threadVars, alive>>

-----------------------------------------------------------------------------
(* MyEthThread: read one frame, handle it to the end, poll again.          *)

\* ArpRecv stores the sender of a request for our address, and of a reply to
\* our address or to 0.0.0.0 (the sender address of our own probes).
Announces(f) ==
  \/ f.kind = "request" /\ f.tpa = Vip
  \/ f.kind = "reply"   /\ f.tpa \in {AnyIp, Vip}

\* IcmpRecv checks the destination of an echo request, UdpRecv checks none
\* before it sends its port-unreachable.
CallsForAnswer(f) ==
  \/ f.kind = "echo" /\ f.tpa = Vip
  \/ f.kind = "udp"

ArpRecv(f) ==
  /\ ArpAddTable(f.sha, f.spa)
  /\ UNCHANGED threadVars

\* A variant in which another thread could read the socket meanwhile.
BadReaderReady == TRUE

\* MyEthThread reads no frame while it is in GetTargetMac.
ReaderReady == pc["eth"] = "idle"

EtherRecv ==
  /\ ReaderReady
  /\ rxq # <<>>
  /\ LET f == Head(rxq) IN
       \/ f.ours /\ Announces(f) /\ ArpRecv(f)
       \/ /\ f.ours /\ CallsForAnswer(f)
          /\ StartResolution("eth", f.spa)
          /\ UNCHANGED cacheVars
       \/ /\ ~(f.ours /\ (Announces(f) \/ CallsForAnswer(f)))
          /\ UNCHANGED <<cacheVars, threadVars>>
  /\ rxq' = Tail(rxq)
  /\ UNCHANGED alive

-----------------------------------------------------------------------------
Deliver(f) ==
  /\ Len(rxq) < QueueMax
  /\ rxq' = Append(rxq, f)
  /\ UNCHANGED <<cacheVars, threadVars, alive>>

Resolve(th) == Hit(th) \/ Miss(th) \/ WakeUp(th)

ResolverNext ==
  /\ alive
  /\ \/ \E th \in Thread : Resolve(th)
     \/ \E ip \in Address : Send(ip) \/ ArpDel(ip)
     \/ EtherRecv
     \/ \E f \in Frame : Deliver(f)

\* A sleep ends, and a thread that can run is scheduled some day; ArpTableLock
\* is never held across a sleep.  Nothing is assumed of the user or the network.
Fairness ==
  /\ \A th \in Thread : WF_resolverVars(alive /\ Resolve(th))
  /\ WF_resolverVars(alive /\ EtherRecv)

ResolverSpec == ResolverInit /\ [][ResolverNext]_resolverVars
FairSpec     == ResolverSpec /\ Fairness

-----------------------------------------------------------------------------
Asking(th) == pc[th] = "wait" \/ (pc[th] = "search" /\ count[th] > 0)

\* The requests MyEthThread sends from GetTargetMac are in vain: once its first
\* search has missed, the address stays unknown until it has given up, because
\* the answers wait in the queue that only it reads.  (0.0.0.0 is the exception:
\* a half-deleted slot answers for it.)
ReceiverAsksInVain ==
  Asking("eth") /\ addr["eth"] \in Ip => ~Bound(addr["eth"])

\* Every resolution returns, so no thread is lost in GetTargetMac.
ResolutionReturns ==
  \A th \in Thread : pc[th] # "idle" ~> (pc[th] = "idle" \/ ~alive)

\* A full receive queue is read some day, whatever the receiver is doing.
QueueIsServed == Len(rxq) = QueueMax ~> (Len(rxq) < QueueMax \/ ~alive)

\* "Destination Host Unreachable" (ip.c:343) is printed only for a next hop that
\* has not answered: its MAC is not in the table when GetTargetMac gives up.
UnreachableMeansUnknown ==
  [][\A th \in Thread \ {"main"} :
       pc[th] = "wait" /\ pc'[th] = "idle" => ~Bound(addr[th])]_resolverVars
=============================================================================
