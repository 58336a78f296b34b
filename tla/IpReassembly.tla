---------------------------- MODULE IpReassembly ----------------------------
(***************************************************************************)
(* IP datagrams on their way into IcmpRecv and UdpRecv: each is cut into   *)
(* fragments by its sender, this program (IpSendLink) or another host, the *)
(* network carries the fragments, and IpRecv puts them together in the     *)
(* buffers IpRecvBuf, found by the identification field alone.  Only       *)
(* MyEthThread calls IpRecv, so a frame is handled from start to end.      *)
(***************************************************************************)
EXTENDS IpFragment, FiniteSets

CONSTANTS
  Datagram,        \* what is sent: a set of records [id, name, len, own, df]
  Id,              \* identifications; "id" is random() in this program
  NoId,            \* -1, the mark of a free buffer
  IP_RECV_BUF_NO,  \* number of buffers (16 in ip.c:29)
  BufUnits,        \* size of a buffer (64 * 1024 / 8 in ip.c:34)
  OldestInit,      \* what "time_t oldestTime = ULONG_MAX" leaves, as in ArpTable
  MaxClock,        \* bound on time(NULL)
  MaxFaults        \* bound on the fragments lost, repeated or overtaken

\* A datagram may be longer than a buffer: nothing in IpRecv looks at its length.
ASSUME DatagramAssumption ==
  Datagram \subseteq [id : Id, name : STRING, len : Nat \ {0}, own : BOOLEAN, df : BOOLEAN]
ASSUME IdAssumption    == NoId \notin Id
ASSUME SizeAssumption  == IP_RECV_BUF_NO \in Nat \ {0} /\ BufUnits \in Nat
ASSUME BoundAssumption == MaxClock \in Nat /\ MaxFaults \in Nat /\ OldestInit \in Int

VARIABLES
  IpRecvBuf,   \* the buffers; their len is set and used within one IpRecv
  clock,       \* time(NULL)
  wire,        \* per datagram: its fragments still to arrive, in order
  unsent,      \* datagrams no host has sent yet
  faults,      \* how often the network has misbehaved
  hit,         \* the datagrams it has misbehaved on
  delivered,   \* what was handed to IcmpRecv or UdpRecv, and of which datagram
               \* the last fragment was
  wild         \* IpRecv has written outside its buffers, to IpRecvBuf[-1] because
               \* IpRecvBufAdd returned -1 or past the end of one buffer: from
               \* here on the memory is anybody's guess

vars == <<IpRecvBuf, clock, wire, unsent, faults, hit, delivered, wild>>

Buf     == 0 .. IP_RECV_BUF_NO - 1
Unit    == UNION {{<<d.name, k>> : k \in 1 .. d.len} : d \in Datagram}
Zero    == <<"zero", 0>>    \* a unit of the zero-initialised array
Space   == 0 .. BufUnits - 1
Whole(d) == [k \in 1 .. d.len |-> <<d.name, k>>]
Fragments(d) == IF d.own THEN IpSendLink(Whole(d), d.df) ELSE PeerSendLink(Whole(d))

Init ==
  /\ IpRecvBuf = [i \in Buf |-> [timestamp |-> 0, id |-> NoId, data |-> [k \in Space |-> Zero]]]
  /\ clock = 0
  /\ wire = [d \in Datagram |-> <<>>]
  /\ unsent = Datagram
  /\ faults = 0
  /\ hit = {}
  /\ delivered = {}
  /\ wild = FALSE

-----------------------------------------------------------------------------
(* The buffers. *)

Busy == {i \in Buf : IpRecvBuf[i].id # NoId}
Held(id) == {i \in Busy : IpRecvBuf[i].id = id}

OldestNo ==
  LET older  == {i \in Busy : IpRecvBuf[i].timestamp < OldestInit}
      oldest == {i \in older :
                   \A j \in older : IpRecvBuf[i].timestamp <= IpRecvBuf[j].timestamp}
  IN  IF older = {} THEN -1 ELSE CHOOSE i \in oldest : \A j \in oldest : i <= j

\* Variants by which the properties are tested, here a scan that stops at a free
\* buffer.
BadIntoNoFreeFirst(id) ==
  IF Busy # Buf THEN CHOOSE i \in Buf \ Busy : \A j \in Buf \ Busy : j <= i
  ELSE IF Held(id) # {} THEN CHOOSE i \in Held(id) : \A j \in Held(id) : i <= j
  ELSE OldestNo

\* The buffer of the id, else the last free one, else the oldest one.
IntoNo(id) ==
  IF Held(id) # {} THEN CHOOSE i \in Held(id) : \A j \in Held(id) : i <= j
  ELSE IF Busy # Buf THEN CHOOSE i \in Buf \ Busy : \A j \in Buf \ Busy : j <= i
  ELSE OldestNo

\* A buffer taken over keeps its data: only timestamp, id and len are reset.
Reserve(id) ==
  [IpRecvBuf[IntoNo(id)] EXCEPT
     !.id        = id,
     !.timestamp = IF Held(id) # {} THEN @ ELSE clock]

\* Variants that copy one unit too few, and ignore the offset.
BadOverlayShort(data, f) ==
  [k \in Space |-> IF k \in f.off .. f.off + Len(f.data) - 2 THEN f.data[k - f.off + 1]
                   ELSE data[k]]

BadOverlay(data, f) ==
  [k \in Space |-> IF k < Len(f.data) THEN f.data[k + 1] ELSE data[k]]

Overlay(data, f) ==
  [k \in Space |-> IF k \in f.off .. f.off + Len(f.data) - 1 THEN f.data[k - f.off + 1]
                   ELSE data[k]]

\* Whether "memcpy(IpRecvBuf[no].data + off, ptr, plen)" stays in the buffer; the
\* code does not ask.
Fits(f) == f.off + Len(f.data) <= BufUnits

\* A variant without IpRecvBufDel.
BadRelease(slot) == slot

\* IpRecvBufDel.
Release(slot) == [slot EXCEPT !.id = NoId]

-----------------------------------------------------------------------------
(* IpRecv: a fragment without MF completes the datagram, whatever has come   *)
(* before it.                                                              *)

IpRecv(d) ==
  /\ wire[d] # <<>>
  /\ wire' = [wire EXCEPT ![d] = Tail(@)]
  /\ LET f    == Head(wire[d])
         no   == IntoNo(d.id)
         slot == Reserve(d.id)
         data == Overlay(slot.data, f)
     IN \/ /\ no \notin Buf \/ ~Fits(f)
           /\ wild' = TRUE
           /\ UNCHANGED <<IpRecvBuf, delivered>>
        \/ /\ no \in Buf /\ Fits(f) /\ f.mf
           /\ IpRecvBuf' = [IpRecvBuf EXCEPT ![no] = [slot EXCEPT !.data = data]]
           /\ UNCHANGED <<delivered, wild>>
        \/ /\ no \in Buf /\ Fits(f) /\ ~f.mf
           /\ delivered' = delivered \cup
                {[of |-> d, data |-> [k \in 1 .. f.off + Len(f.data) |-> data[k - 1]]]}
           /\ IpRecvBuf' = [IpRecvBuf EXCEPT ![no] = Release([slot EXCEPT !.data = data])]
           /\ UNCHANGED wild
  /\ UNCHANGED <<clock, unsent, faults, hit>>

IpSend(d) ==
  /\ d \in unsent
  /\ unsent' = unsent \ {d}
  /\ wire' = [wire EXCEPT ![d] = Fragments(d)]
  /\ UNCHANGED <<IpRecvBuf, clock, faults, hit, delivered, wild>>

-----------------------------------------------------------------------------
(* The network. *)

Fault(d, w) ==
  /\ faults < MaxFaults
  /\ faults' = faults + 1
  /\ hit' = hit \cup {d}
  /\ wire' = [wire EXCEPT ![d] = w]
  /\ UNCHANGED <<IpRecvBuf, clock, unsent, delivered, wild>>

Lose(d)     == wire[d] # <<>> /\ Fault(d, Tail(wire[d]))
Repeat(d)   == wire[d] # <<>> /\ Fault(d, <<Head(wire[d])>> \o wire[d])
Overtake(d) == Len(wire[d]) >= 2 /\
               Fault(d, <<wire[d][2], wire[d][1]>> \o SubSeq(wire[d], 3, Len(wire[d])))

Tick ==
  /\ clock < MaxClock
  /\ clock' = clock + 1
  /\ UNCHANGED <<IpRecvBuf, wire, unsent, faults, hit, delivered, wild>>

Next ==
  /\ ~wild
  /\ \/ \E d \in Datagram : IpSend(d) \/ IpRecv(d) \/ Lose(d) \/ Repeat(d) \/ Overtake(d)
     \/ Tick

Spec == Init /\ [][Next]_vars

\* MyEthThread goes on reading, so what has arrived is handled.
FairSpec == Spec /\ \A d \in Datagram : WF_vars(~wild /\ IpRecv(d))

-----------------------------------------------------------------------------
TypeOK ==
  /\ IpRecvBuf \in [Buf -> [timestamp : 0 .. MaxClock, id : Id \cup {NoId},
                            data : [Space -> Unit \cup {Zero}]]]
  /\ clock \in 0 .. MaxClock
  /\ \A d \in Datagram : \A k \in 1 .. Len(wire[d]) :
       wire[d][k].off + Len(wire[d][k].data) <= d.len
  /\ unsent \subseteq Datagram
  /\ hit \subseteq Datagram /\ faults \in 0 .. MaxFaults
  /\ delivered \subseteq [of : Datagram, data : Seq(Unit \cup {Zero})]
  /\ wild \in BOOLEAN

\* Two busy buffers never hold the same identification, so the first one the
\* scans meet is the only one.
UniqueIds == \A i, j \in Busy : IpRecvBuf[i].id = IpRecvBuf[j].id => i = j

\* A datagram that fits in one frame is delivered as it was sent even if its
\* frame is repeated, and whatever an earlier datagram left in the buffer.
SingleFrameIntact ==
  \A r \in delivered : r.of.len <= MaxUnits => r.data = Whole(r.of)

\* IpRecv keeps what Delivery promises: whatever happens to fragments of other
\* datagrams, and whatever an earlier datagram has left in a buffer, only the
\* content of a disturbed datagram of several frames can differ from the one sent,
\* and nothing is handed up that was not sent.
Service == INSTANCE Delivery WITH
  Content   <- [d \in Datagram |-> Whole(d)],
  Sturdy    <- {d \in Datagram : d.len <= MaxUnits},
  sent      <- Datagram \ unsent,
  disturbed <- hit,
  received  <- delivered

ImplementsDelivery == Service!Spec

\* A busy buffer belongs to a datagram whose last fragment is still to come, or
\* to one the network has lost or reordered fragments of: only faults cost
\* buffers, and each datagram hit costs one at most.  (Once IpRecv has written
\* outside its buffers nothing is said of them.)
BuffersAreReturned ==
  ~wild => \A i \in Busy : \E d \in Datagram :
             /\ IpRecvBuf[i].id = d.id
             /\ d \in hit \/ \E k \in 1 .. Len(wire[d]) : ~wire[d][k].mf

\* The datagrams that can occupy a buffer: those under way, and those the network
\* has interfered with.
Occupants == hit \cup {d \in Datagram : wire[d] # <<>>}

\* IpRecv writes outside its buffers only on a datagram longer than a buffer, which
\* no check of ip.c:227-230 refuses, or when more datagrams than it has buffers are
\* under way or have been disturbed: traffic that has arrived never costs a buffer.
WildOnlyWhenCrowded ==
  [][~wild /\ wild' =>
       \/ Cardinality(Occupants) > IP_RECV_BUF_NO
       \/ \E d \in Datagram : IpRecv(d) /\ d.len > BufUnits]_vars

\* What is sent is delivered some day, unless the network has interfered with it
\* or IpRecv has run out of buffers.
EventuallyDelivered ==
  \A d \in Datagram :
    d \notin unsent ~> (wild \/ d \in hit \/ \E r \in delivered : r.of = d)

\* "ping addr [size] : send ping": an echo request of any size reaches another
\* host that runs this program as it was sent.
EchoArrivesAsSent == \A r \in delivered : r.of.own => r.data = Whole(r.of)
=============================================================================
