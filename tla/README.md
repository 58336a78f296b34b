# NetworkEdu in TLA+

NetworkEdu is a small network stack in user space: it opens a raw packet socket,
gives itself a MAC and an IP address of its own (`MyEth.ini`), and speaks ARP,
IP, ICMP, UDP and the sending half of DHCP. This directory holds TLA+ models of
it, the TLC configurations that check them, and proofs checked by TLAPS.

File names without a directory are those of `src/NetworkEdu/`.

## 1. Inventory

The program has no documentation beyond the help text (`cmd.c:243-256`), its
messages and a few comments, and no tests. The commit does not compile:
functions are called under misspelt names (`udpRecv`, `UdopSend`, `UpdSend`,
`UpdSocket`, `BcastMac`) or with an argument missing (`udp.c:252`), and the
receiving half of DHCP (`DhcpRecv`, `Dhcpcheck`) is absent. Misspelt names are
read as the functions meant. `cmake-build-debug/` records an x86_64 build, so
`long` and `time_t` are signed 64-bit numbers.

Three threads run: `main` (start-up, then a loop of one-second sleeps),
`MyEthThread` (the only reader of the packet socket, which handles each frame to
the end, replies included) and `StdInThread` (one command line at a time). They
share the ARP table and the UDP table, each under a read-write lock, `PingData`
and `Param` without any, and `EndFlag`.

| Component | State | Operations | Called by |
|---|---|---|---|
| ARP table (`arp.c`) | `ArpTable[16]`, `ArpTableLock` | `ArpAddTable`, `ArpDelTable`, `ArpSearchTable`, `ArpShowTable` | add: MyEthThread; delete and show: StdInThread; search: all |
| Resolution (`arp.c`) | locals of `GetTargetMac` | `GetTargetMac`, `ArpSend*`, `ArpCheckGArp`, `ArpRecv` | `IpSend` in any thread; main; `EtherRecv` |
| Ethernet (`ether.c`) | none | `EtherSend`, `EtherRecv` | everybody; MyEthThread |
| IP (`ip.c`) | `IpRecvBuf[16]` | `IpRecvBuf*`, `IpRecv`, `IpSendLink`, `IpSend` | MyEthThread; ICMP, UDP, DHCP |
| ICMP, ping (`icmp.c`) | `PingData[4]` | `PingSend`, `IcmpSendEcho`, `IcmpRecv`, `PingCheckReply`, `IcmpSendEchoReply`, `IcmpSendDestinationUnreachable` | StdInThread sends, MyEthThread receives |
| UDP (`udp.c`) | `UdpTable[16]`, `UdpTableLock` | `UdpSocket`, `UdpSocketClose`, `UdpAddTable`, `UdpSearchTable`, `UdpSearchFreePort`, `UdpSend*`, `UdpRecv` | StdInThread; `IpRecv` |
| Checksums (`sock.c`) | none | `checksum`, `checksum2` | IP, ICMP, UDP |
| Commands (`cmd.c`) | the line | `DoCmd`, `DoCmd*`, `MakeString` | StdInThread |
| DHCP (`dhcp.c`) | `Param.Dhcp*` | `DhcpSendDiscover`, `MakeDhcpRequest`, `dhcp_set_option`, `dhcp_get_option` (no caller) | main |
| Start-up, shutdown (`main.c`) | `EndFlag`, `DeviceSoc` | `main`, `sig_term`, `ending` | the system |
| Parameters (`param.c`) | `Param` | `SetDefaultParam`, `ReadParam`, `isSameSubnet`, `isTargetIPAddr` | main; all |
| Device set-up (`sock.c`) | none | `init_socket`, `GetMacAddress`, `DummyWait` | main; resolution |

What is hard here, and what makes each component correct:

- **ARP table.** Slots are found by a scan that must prefer a known address to a
  free slot to the oldest one; a delete leaves slots half-cleared. Correct means:
  an address is bound once, a lookup is never outdated, a deleted address is
  unknown, an add is lost only for want of room.
- **Resolution.** The thread that waits for an ARP reply may be the one that has
  to read it. Correct means: each wait ends, the receiver goes on reading, and
  "unreachable" is said of unknown hosts only.
- **IP.** Fragments are lost, repeated and reordered; buffers are few and
  returned only by a last fragment. Correct means: what is delivered is what was
  sent, and buffers are found and returned.
- **Ping.** Replies race the note of the send time and outlive their command.
- **UDP.** A close takes its lock twice while datagrams come in.
- **Checksums.** Carries, lengths, the two zeros of ones' complement.
- **Start-up and shutdown.** A five-second DHCP loop that waits for another
  thread's write, an address check that starts after the threads do, a socket
  closed under its reader, returns that skip `ending`. Correct means: a signal
  ends the process, an answer in time counts, a lease is given back, and two
  hosts do not keep one address.
- **Parameters and commands.** What a file or a line can do to the rest: an MTU
  with no room for data, a ping larger than its buffer, the end of standard
  input. Correct means: senders return, buffers hold, a typed command acts once.

`PROJECT.json` lists the hazards line by line with the properties that cover them.

## 2. Modules

| Module | Models | Uses |
|---|---|---|
| `ArpTable` | the ARP table as a value and its operations as functions of it | |
| `ArpCache` | the table as a component: adds and deletes, in any order | `ArpTable` |
| `ArpResolver` | the three threads around the table, the receive queue | `ArpCache` |
| `DupAddr` | several hosts with one address, their checks and receivers, a network that loses and delays | `ArpTable` |
| `IpFragment` | how a payload becomes fragments | |
| `Delivery` | what IP promises ICMP and UDP here (abstract) | |
| `IpReassembly` | senders, a faulty network, the buffers, `IpRecv` | `IpFragment`, `INSTANCE Delivery` |
| `Checksum` | `checksum` and `checksum2`, step by step | |
| `UdpPorts` | the port table under opens, closes and datagrams | |
| `CmdLine` | what `DoCmd` makes of a line, and of its buffer | |
| `UdpCommand` | the udp command lines on their way to the table | `UdpPorts`, `CmdLine` |
| `Ping` | the notes of the send times, replies, a clock | |
| `ParamFile` | `ReadParam` | |
| `DhcpMessage` | the lengths `MakeDhcpRequest` writes | |
| `Lifecycle` | main, both thread loops, signals, standard input, from start to exit | `ParamFile`, `CmdLine`, `DhcpMessage` |
| `MC...` | instances for TLC | |
| `...Proofs` | theorems | |

**`ArpTable`, `ArpCache`.** Every table operation holds `ArpTableLock` from
start to end, so each is one atomic function (`AddTable`, `DelTable`,
`SearchTable`). A slot is free when its MAC is zero. `DelTable` does what
`arp.c:234` does: it clears the MAC of slot 0 and the address and time of the slot
that matched. `OldestInit` is what `oldsetTime = ULONG_MAX` leaves: -1 in the
recorded build, where no timestamp is below it, no oldest slot is found, and the
write goes to `ArpTable[-1]`. That write is undefined behaviour; what lies before
the array is another object, and the model leaves the table as it was and records
the event in `spilled`. `SpillsOnlyWhenCrowded` says when it can happen. The constant
stays open so that the theorems hold for whatever start value a repaired scan would
have. `time(NULL)` is any value up to `MaxClock`, a wall clock that may be set back.
A frame may claim any hardware address, 0 included, which stores a free slot.
`announced` remembers the latest add per address, `deleted` how many deletions
found their address.

**`ArpResolver`** extends `ArpCache` with the threads; the table and its operations
are those of the cache, called by the threads that call them in the code, and the
run of `ArpResolver` checks the cache's properties too. One control state per thread:
outside `GetTargetMac`, about to search, asleep. `Hit`, `Miss` and `WakeUp` are the three outcomes of one turn of
the loop; sending the request changes nothing here. The length of the sleep
(100 ms, 200 ms, ...) is left open. `EtherRecv` takes one frame from the queue and
handles it as `EtherRecv`, `ArpRecv`, `IcmpRecv` and `UdpRecv` do: store a
binding, start a resolution for the reply, or nothing. `Deliver` is the network
and the kernel, whose queue has a bound and drops what does not fit. A hit in
main's check ends the process. The address `Vip` is configured; `Lifecycle` has
the start without one.

**`DupAddr`.** Each host has a table, the control state of its main thread and
the count of `GetTargetMac`. A probe is one frame per other host; `ArpRecv`
stores the sender of a request or a reply for the address, 0.0.0.0 included, and
answers requests, whatever its own main is doing. A host that returns from its
check, or is ended, no longer reads. A host wakes up at any time after it has
probed, so answers may be late; `missed` remembers the probes whose frames, or
the answers to them, were lost or still under way then. No `arp -d` is typed: a
deletion of the address just learnt would blind the check.

**`IpFragment`, `IpReassembly`.** Payloads are sequences of 8-byte units named
after their datagram, so that a unit out of place or of another datagram shows.
With the MTU of 1500 the frame limit is a multiple of eight; an odd rest at the end
of a payload is not distinguished from a whole unit. `IpSendLink` is the code's,
`PeerSendLink` a host that writes all offsets. The network may lose, repeat or
swap up to `MaxFaults` fragments and records on which datagrams (`hit`). `IpRecv`
is one action: find or reserve a buffer, copy, and without MF deliver and release
it. When no buffer is found the code writes to `IpRecvBuf[-1]`, and `ip.c:230` copies
whatever length to whatever offset, past the end of the buffer if the datagram is
longer than one; on either the model sets `wild` and stops, and
`WildOnlyWhenCrowded` says what it takes. `Datagram` may have datagrams of any
length; an IP header that disagrees with its frame is not modelled.
`OldestInit` is as in `ArpTable`. The checksum test is in `Checksum`; corrupted frames are
lost ones.

**`Delivery`** is the abstract specification: datagrams are sent, the network
may disturb some, and what is received is the content sent, except that nothing
is promised of a disturbed datagram of several frames. It says nothing of buffers,
fragments or order. `IpReassembly` implements it (`ImplementsDelivery`) with
`sent` = the datagrams no longer unsent, `disturbed` = `hit`, `received` =
`delivered`.

**`Checksum`.** One step per word, byte or fold. The loops of `checksum2` read the
words of two buffers one after the other; its callers pass a first buffer of 20 or
12 bytes, so its odd branch (`sock.c:78-89`) is dead code. A byte has
`Byte` values: 256 in the code, 4 for TLC. `exact` is the sum without a width.

**`CmdLine`.** A line is a sequence of words. `Dispatch` compares as `DoCmd` does:
two words by prefix for arp, the first word by prefix for ping, the whole line for
the others. `Left` is what the buffer reads as afterwards: `strtok_r` has put a
NUL behind the first word of an arp or ping line.

**`UdpPorts`, `UdpCommand`.** `CloseSearch` and `CloseClear` are the two halves of
`UdpSocketClose`. `UdpCommand` shows that the commands never get there
(`cmd.c:282`); `UdpPorts` models the functions as they would be called, port 65535
for "any free port" included (`udp.c:172`).

**`Ping`.** `IcmpSendEcho` and `NoteSendTime` are separate steps, because
`gettimeofday` comes after `IpSend` (`icmp.c:152`) and a reply may come in between.
A reply may take any time or be lost. `Elapsed` is the subtraction of the code, with
`Borrow` for the 10000 of `icmp.c:238`; `printed` records what is printed of the last
reply, and beside it the time since the note and the time the reply was under way.
`SlowerOnlyByOldNote` compares those two; `TimeIsMilliseconds` is what the line
says of the first, and does not hold.

**`ParamFile`.** The settings are a recursive function of the number of lines read;
`ReadParam` gets to see all but an unterminated last one. Keys without value and unknown keys change
nothing, a bad address becomes 255.255.255.255, a short MAC overwrites a prefix,
the MTU is bounded above only. `main` reads `argv[1]` once per argument, which
gives the same settings as once.

**`DhcpMessage`.** `dhcp_set_option` steps over the byte of the tag without
writing it; what is left to model is the length, which decides whether a discover
fits in one frame (it must not be fragmented).

**`Lifecycle`.** `pc` is where main is, or how the process has ended. `ReadParams`
to `Return` are main's steps; any system call of `InitSocket` may fail, and a device
name of `LongName` does not fit where `strcpy` puts it (`sock.c:186`; `main` and
`ending` have the same copy, after it). Two returns skip `ending` (`dhcp_fail`,
`garp_fail`). Before the handlers are installed a signal kills, afterwards it sets
`EndFlag`, which the DHCP loop and the address check do not look at. The loops of
both threads test `EndFlag`, poll, and handle one event, so one event is still
handled after the flag is set. `lest` is IpSendLink's count of bytes to send, one
action per fragment, with the unsigned difference of `ip.c:276` (`Wide` is 2^64,
2^30 for TLC). `echo` is the length of the ICMP message `EthEcho` answers: below 8
bytes the length of its data is negative, above 64 K it is too long, and `icmp.c:101`
copies it all the same. Any copy past its buffer sets `wild` and ends the behaviour.
`DhcpSendDiscover` casts the address of its message to a byte (`dhcp.c:319`):
that crashes, unless the conversion is repaired as the rest of the call has to be
to compile, so both outcomes are in. The answer to a discover is external: the
model assumes it sets `Param.vip` and `Param.DhcpServer`, as main and `ending`
expect. Standard input has lines behind the descriptor (`typed`), lines in the
stdio buffer (`stream`) and an end at which poll stays ready; poll looks at the
descriptor only. The assumptions on its constants are what the code's types give:
an MTU and a ping size are ints and so narrower than a `size_t`, a file is a
sequence of lines, a server hands out an address other than 0.0.0.0, no name at all
is not a long one, an IP payload has a length, `Wide` is larger than an Ethernet payload.

Operators named `Bad...` are variants of the code, one per plausible slip; no
specification uses them. Each property is violated when its variant, as listed
under "mutants" in `PROJECT.json`, takes the place of the original.

## 3. Runs

`tlc -config <cfg> <module>` in this directory.

| Run | Module, cfg | States | Shows |
|---|---|---|---|
| `arp_resolver` | `MCArpResolver`, `ArpResolver` | 198,849 | six kinds of frame, two slots for three addresses (0.0.0.0 included), one retry, a queue of one: the table fills up, is half-deleted and overrun. Of the table: `UniqueBinding`, `LookupIsLatest`, `DelForgets`, `DelHarmsOnlySlotZero`, `AddLostOnlyWhenFull`, `SpillsOnlyWhenCrowded`; of the threads: `ResolverTypeOK`, `ReceiverAsksInVain`, `ResolutionReturns`, `QueueIsServed` |
| `ip_reassembly` | `MCIpReassembly`, `IpReassembly` | 103,232 | five datagrams, of 1, 2 and 3 frames and one longer than a buffer, in two buffers, with one fault: `TypeOK`, `UniqueIds`, `SingleFrameIntact`, `BuffersAreReturned`, `WildOnlyWhenCrowded`; `ImplementsDelivery`, the refinement of `Delivery`; `EventuallyDelivered`; identifications are distinct and own datagrams fill two frames at most |
| `dup_addr` | `MCDupAddr`, `DupAddr` | 299,838 | two interchangeable hosts, three probes each: `BothKeepOnlyAfterMisses`, `NoFalseAlarm`, `UnsetGatewayIsAProber` |
| `checksum` | `Checksum`, `Checksum` | 8,690 | 2-bit bytes up to length 45: bit 31 is set, the early fold happens, the last byte is odd; all five invariants and `FoldsEnd` |
| `udp_ports` | `UdpPorts`, `UdpPorts` | 500 | three slots, four ports: a full table, reopened ports, closes under traffic |
| `ping` | `Ping`, `Ping` | 130,016 | two commands of two requests, nine clock ticks of half a second: `TypeOK`, `WrongNoteOnlyWhenLate`, `OldNoteOnlyWhileNoting`, `SlowerOnlyByOldNote` |
| `lifecycle` | `MCLifecycle`, `Lifecycle` | 330,078 | seven parameter files, two lines out of four, two DHCP tries, pings of two requests, echo requests of 4 and 8 bytes: `TypeOK`, `SignalEnds`, `SendersReturn`, `OverrunOnlyWhenAskedFor`, `AnswersCountUnlessLate`, `EachTypedLineActsOnce` |

Five runs look for a violation and find it; they are the findings of
`PROJECT.json`:

| Run | Property | What the code does |
|---|---|---|
| `arp_del` | `DelOnlyTarget` | `arp -d` of one address also deletes the entry in slot 0 (`arp.c:234`) |
| `arp_giveup` | `UnreachableMeansUnknown` | a reply to the last ARP request is ignored, the host is called unreachable (`arp.c:346`) |
| `udp_open` | `OpenCommandOpens` | no command line opens a port (`cmd.c:282`) |
| `ip_big_ping` | `EchoArrivesAsSent` | fragments between the first and the last have offset 0 (`ip.c:297`) |
| `ping_time` | `TimeIsMilliseconds` | seconds are printed as milliseconds (`icmp.c:241`), with a wrong borrow behind the point (`icmp.c:238`) |

**Bounds.** The tables are scanned slot by slot with no arithmetic on the number of
slots; two or three slots and one more address than slots reach every branch of
the scans (known, free before known, known before free, full). `MaxClock` is 0 in `ArpResolver` and
`IpReassembly`: in the recorded build timestamps are compared with -1 only. One fault is enough
for each kind of damage to a datagram; two faults only combine them. `Ping` needs clock
bounds beyond two commands of two seconds each so that a reply of the first command
arrives in the second. `Checksum` needs a length at which words of four bits fill
a sum of eight past bit 7: 45 bytes pass it more than once. In `DupAddr` the two hosts
run the same code and each is stopped by any one answer, so a third adds rivals but no new kind of
race; `RETRY_COUNT` of 2 tells the first, a middle and the last probe apart. The
files of `Lifecycle` are one per outcome of `ReadParam` that matters later:
unreadable, no device, no address (the shipped `MyEth.ini`), an MTU too large,
without room and below the header, a bad address, a lost last line, a device name
that is too long. An echo request of 4 bytes stands for the lengths that overrun, one
of 8 for the others. Two lines
typed are what it takes for one to stay in the stdio buffer; two tries and two
requests tell the last from the others. Deadlock is not
checked where the modelled system may stop: `alive` or `wild` has changed, all
datagrams are through, or a clock bound is reached.

**Fairness.** `ArpResolver`: weak fairness of each thread's turn in `GetTargetMac`
and of `EtherRecv`. The sleep is a `nanosleep` that ends, the scheduler runs a
thread that can run, and no lock is held across a sleep; nothing is assumed of the
user or of the network. `IpReassembly`: `IpRecv` of what has arrived, the same
receiver loop. `Checksum`: a function that runs goes on. `Lifecycle`: each of the
three threads is scheduled and a signal sent is delivered; every wait of a thread
is a poll or a sleep with a timeout. Frames, answers, lines and signals are never
assumed to come.

## 4. Proofs

Checked by `tlapm`, for every value of the constants that meets the named
assumptions.

- `ArpTableProofs`: what the table functions return. `AddTableType`,
  `DelTableType`, `DelTableSlots`, `LookupCases` and `IntoNoCases` are the lemmas
  the others rest on; `FirstIsMin` says that the scans find the lowest slot.
- `ArpProofs`, of the cache: `TypeCorrect`, `BindingsAreUnique`, `LookupsAreLatest`,
  `DeletesForget`, `DeletesHarmOnlySlotZero`, `AddsAreFound`, `SpillsAreCrowded`. The inductive
  invariant joins the type, uniqueness, and that each used slot of an address
  other than 0.0.0.0 holds the MAC last announced for it. Uniqueness alone does
  not say what a lookup returns; the agreement of every slot, not only of the
  first, is what survives a delete that frees slot 0. `SpillsAreCrowded` needs a count
  besides: the used slots for 0.0.0.0 (`LeftoversPaid`) are no more than the
  deletions, and one if it was announced, and the others hold different
  addresses that have been announced.
  Of the threads: `ResolverTypeCorrect`;
  `ThreadsSeeTheLatest`, which carries what holds of the cache over to the threads;
  `ReceiverAlwaysAsksInVain`, whose point is that adds happen only in `EtherRecv`,
  which is disabled while the receiver resolves, and that a delete binds nothing
  new except 0.0.0.0; `TurnsAreBounded`: a thread leaves `GetTargetMac` after at most
  2 * (`RETRY_COUNT` + 1) turns of its own, and no other thread adds to them.
- `IpReassemblyProofs`: `IdsAreUnique`; `SingleFramesArriveIntact`, whose invariant
  says that the fragments of a short datagram on the wire, however often repeated,
  are whole datagrams; `OnlyFaultsCostBuffers`, from the fact that what is on the
  wire of an undisturbed datagram ends with its last fragment;
  `ReassemblyTypeCorrect`, from the offsets that fragments can have and, for the
  buffers, from `IpRecv` having stopped at a copy that does not fit;
  `WildWhenCrowded`, for datagrams of any length: when no buffer is free each of them
  holds another datagram, and one that is neither disturbed nor under way holds none,
  so that with the datagram just read they are more than the buffers;
  `BuffersRefineDelivery`. The invariant of the refinement relates, for every
  datagram that is not in `hit`, the count of fragments already read to the units
  already in its buffer. It has three assumptions: identifications are distinct
  (fragments with the same one are mixed); our own datagrams fill at most two frames
  (the third onwards is misplaced, `ip_big_ping`); `OldestInit <= 0`, as in the
  recorded build (an eviction could give the buffer of an undisturbed datagram away).
  The other theorems need none of them.
  `NothingIsForgotten`: a datagram sent and not disturbed has been handed up, or its
  last fragment is still to be read; it rests on the same fact about the wire as
  `OnlyFaultsCostBuffers`.
- `ChecksumProofs`: `NoCarryIsLost`, `SumStaysCongruent`, `ReceiversDecide`,
  `SendersMakeItAddUp`, for the widths of the code. The invariant: bit 31 is clear
  before each addition, the sum is congruent to the exact one, and the value
  returned is the complement of a 16-bit sum. `SumTypeCorrect`: the sum stays within
  its width at every length. `LoopsAreBounded`: each word read shortens the rest, and
  from any sum `while(sum >> 16)` makes at most two turns.

- `UdpPortsProofs`: `PortsTypeCorrect`, `TableFollowsOpens`,
  `ClosedPortsAreUnreachable`. Between the two halves of a close the table is
  unlocked; the invariant is that the slot about to be cleared still holds the port
  it was found for: the thread that closes is the only one that opens, and a
  datagram changes no slot.
- `DupAddrProofs`: `CheckTypeCorrect`, `AlarmsAreTrue`, `ZeroLeadsToAProber`,
  `KeepersHadMisses`, for any number of hosts. The invariant (`PairsMeet`) follows,
  for each two hosts, a probe from its sender over the frames under way to the table
  it must reach, or to `missed`. It needs two slots: with one, a binding for 0.0.0.0
  leaves no room for the answer.
- `PingProofs`: `PingTypeCorrect`, `WrongNotesAreLate`, `OldNotesOnlyInBetween`,
  `OnlyOldNotesLookSlow`. The invariant counts the sleeps that are over since a request was
  sent (`Slept`): each has taken a second, and a later command's note in the same
  place means that there were `PING_SEND_NO` of them; and a note of the request's own command is
  not older than the request.
- `LifecycleProofs`: `LifecycleTypeCorrect`, `OnlyAskedForOverruns`, `AnswersCount`,
  `LinesActOnce`, for every set of files and lines and any number of tries. The
  invariant has a part per thread and shared object. `Settings`: whatever the file
  says, there is an address and an MTU between what an int can hold and 1500; a
  copy of a fragment fits `sbuf` because of that bound and of the type of `lest`;
  the other three copies fit because of what is asked of them.
  `Queue`: as many acting lines are still unread as are owed, which needs that the
  line left in the buffer never acts, for `DoCmd` meets it again at the end of the
  input; of an arp or ping line `strtok_r` leaves only the first word.
  `Leases`: an answer has set `Param.vip`, and while main is about to send the next
  discover, or has given up, an answer can only have come since its last look.
  That the settings exist for a file of any length is `SettingsExist`: the
  function is defined on every beginning of the lines, by the least one on which
  it would not be (`LeastNumber`).
  `MainIsBounded`: main makes at most 2 * `DHCP_TRIES` + 13 steps, whatever the
  others do, and waits only for `EndFlag`. `SendsAreBounded`: each fragment leaves
  less to send unless the MTU has no room for eight bytes of data.

The parts of the invariants of `IpReassemblyProofs`, `UdpPortsProofs`, `DupAddrProofs`,
`PingProofs` and `LifecycleProofs` hold in all states TLC reaches in the runs of
their modules, and so do `NothingForgotten`, `TurnsRunOut`, `LoopsRunOut`,
`MainRunsOut` and `FragmentsRunOut`, which the theorems on bounds state.

Only model-checked are the six liveness properties, liveness under fairness being
beyond this prover: `ResolutionReturns`, `QueueIsServed`, `EventuallyDelivered`,
`FoldsEnd`, `SignalEnds`, `SendersReturn`. What they need besides fairness is proved
for five of them: `TurnsAreBounded` (`ResolutionReturns`, and with it `QueueIsServed`,
whose receiver is only kept from reading by its own resolutions),
`NothingIsForgotten`, `LoopsAreBounded`, `SendsAreBounded`; `MainIsBounded` is the
part of `SignalEnds` that concerns main. Every safety property of the passing runs is
a theorem. Not proved either is the length of a DHCP message: `DhcpMessage` is a fold
over data, and the theorems about `Lifecycle` hold whatever its value is.

## 5. Not modelled

- The receiving half of DHCP: `DhcpRecv`, `Dhcpcheck` and `DhcpSendRelease` are not
  in the repository and `DhcpSendRequest` is a stub. `Lifecycle` has an external
  answer and a release; `Dhcpcheck` changes nothing there. `dhcp_get_option` has
  no caller and follows a pointer it never sets.
- `MakeString` and the parsing of ports and addresses in `DoCmdUdp`: no line gets
  there (`udp_open`). `inet_aton` of an address that is none leaves the variable
  unset, so `ping` and `arp -d` then act on an arbitrary address.
- `GetMacAddress` and `show_ifreq` (whose `soc == socket(...)` compares where it
  should assign): what they find is only printed.
- The promiscuous flag: `ending` reads the interface flags twice and never writes
  them, so it stays set on every way out; no interleaving is involved.
- Copies whose length comes from an IP header that disagrees with its frame, as in
  `IcmpSendDestinationUnreachable` (`icmp.c:277`): lengths in the models are those
  of frames.
- Printing, header lengths and IP options, the bytes of payloads.
- Fragments of different senders with the same identification: the code mixes them
  and promises nothing.
- The interleavings inside one table operation: the locks exclude them. The
  unguarded `PingData` is read and written in one piece; a torn read of its two
  words is left out.
- Lines that came with others in one write stay in the stdio buffer until more
  input comes, since poll does not see them: `Lifecycle` has the behaviour, and no
  text of the repository says when a line must be done.
- Evictions: with the recorded build none can happen (`AddLostOnlyWhenFull`).

## 6. Plan

What is left:

1. `BuffersRefineDelivery` without `NoEviction`, for a repaired scan: an eviction
   would have to count as a disturbance in `Delivery`.
2. The receiving half of DHCP, when the repository has one.
