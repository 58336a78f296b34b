----------------------------- MODULE Lifecycle ------------------------------
(***************************************************************************)
(* The process from start to exit: main reads the parameters, opens the    *)
(* device, creates MyEthThread ("eth") and StdInThread ("stdin"), asks for *)
(* a lease when no address is configured, checks the address and waits for *)
(* EndFlag, which a signal sets.  What the two threads send goes through   *)
(* the loop of IpSendLink with the MTU of the parameter file.              *)
(*                                                                         *)
(* Address resolution, the ARP table and reassembly are in the modules of  *)
(* their own; here GetTargetMac and ArpCheckGArp have any result.          *)
(***************************************************************************)
EXTENDS ParamFile, CmdLine, DhcpMessage, FiniteSets

CONSTANTS
  File,           \* parameter files: [readable, lines, newline]
  Line,           \* lines a user may type
  MaxLines,       \* bound on the lines typed
  LongName,       \* device names of 16 characters (IFNAMSIZ) and more
  EchoSize,       \* lengths of the echo requests that are answered
  Vip,            \* the address a DHCP server hands out
  DHCP_TRIES,     \* 5 in main.c:322
  PING_SEND_NO,   \* 4 in icmp.c:24
  Wide            \* 2^64: IpSendLink compares lengths as size_t

\* A file is a sequence of lines; atoi returns an int for MTU=, which is narrower
\* than a size_t, and for the size of a ping; a server hands out a real address.
ASSUME FileAssumption ==
  \A file \in File :
    /\ file.lines \in Seq(Range(file.lines))
    /\ \A line \in Range(file.lines) :
      Len(line) = 2 /\ line[1] = "MTU" => line[2] \in -(Wide \div 2) .. Wide \div 2
ASSUME LineAssumption ==
  /\ MaxLines \in Nat
  /\ \A line \in Line : Pings(line) => PingSize(line) \in Int
ASSUME LeaseAssumption == Vip # AnyIp
ASSUME NameAssumption  == NoDevice \notin LongName
ASSUME SizeAssumption  == EchoSize \subseteq Nat
ASSUME CountAssumption == DHCP_TRIES \in Nat /\ PING_SEND_NO \in Nat \ {0}
ASSUME WideAssumption  == Wide \in Nat /\ Wide > ETHERMTU

IpHeader      == 20           \* sizeof(struct ip)
EchoHeader    == 8            \* ECHO_HDR_SIZE
EchoBuffer    == 64 * 1024    \* sbuf in IcmpSendEcho and IcmpSendEchoReply

VARIABLES
  pc,         \* main, and how the process has ended
  Param,
  count,      \* main's count of discovers
  asked,      \* a discover has been put on the wire
  DeviceSoc,  \* none, open, closed
  signal,     \* a signal is on its way
  EndFlag,
  eth,        \* MyEthThread
  echo,       \* length of the echo request it is answering
  stdin,      \* StdInThread
  lest,       \* per sending thread: bytes IpSendLink still has to send
  wild,       \* a buffer has been overrun: the rest is anybody's guess
  typed,      \* lines behind descriptor 0
  eof,        \* the descriptor is at the end of a file and always readable
  stream,     \* lines stdio holds in its buffer
  buf,        \* StdInThread's buffer
  ping,       \* the ping command being done
  lease,      \* history: where main was when an ack came, and its count then
  released,   \* history: DhcpSendRelease has been called on the open socket
  left,       \* how many more lines are typed
  owed        \* history: pings and deletions typed and not yet made

mainVars  == <<Param, count, asked, DeviceSoc, lease, released>>
stdinVars == <<stdin, typed, eof, stream, buf, ping, left, owed>>
ethVars == <<eth, echo>>
vars == <<mainVars, stdinVars, ethVars, pc, signal, EndFlag, lest, wild>>

Sender == {"eth", "stdin"}
Gone   == {"failed", "dhcp_fail", "garp_fail", "ended", "killed", "crashed"}
NoLease == <<>>
NoEcho  == -1
NoPing == [seqNo |-> 0, size |-> 0]

Init ==
  /\ pc = "read"
  /\ Param = Default
  /\ count = 0 /\ asked = FALSE
  /\ DeviceSoc = "none"
  /\ signal = FALSE /\ EndFlag = FALSE
  /\ eth = "off" /\ echo = NoEcho /\ stdin = "off"
  /\ lest = [t \in Sender |-> 0]
  /\ wild = FALSE
  /\ typed = <<>> /\ eof = FALSE /\ stream = <<>>
  /\ buf = <<>>      \* the stack of a new thread is zero
  /\ ping = NoPing
  /\ lease = NoLease /\ released = FALSE
  /\ left = MaxLines /\ owed = 0

-----------------------------------------------------------------------------
(* main up to the threads. *)

ReadParams ==
  /\ pc = "read"
  /\ \E file \in File :
       IF file.readable
       THEN Param' = ReadParam(file) /\ pc' = "init_socket"
       ELSE pc' = "failed" /\ UNCHANGED Param
  /\ UNCHANGED <<count, asked, DeviceSoc, lease, released, stdinVars, signal, EndFlag,
                 ethVars, lest, wild>>

\* Any of the system calls may fail.  strcpy of a missing device name crashes; a long
\* name does not fit into ifr_name, and nothing asks for its length.
InitSocket ==
  /\ pc = "init_socket"
  /\ \/ pc' = "failed" /\ UNCHANGED <<DeviceSoc, wild>>
     \/ /\ Param["device"] = NoDevice
        /\ pc' = "crashed" /\ UNCHANGED <<DeviceSoc, wild>>
     \/ /\ Param["device"] # NoDevice
        /\ pc' = "signals" /\ DeviceSoc' = "open"
        /\ wild' = (Param["device"] \in LongName)
  /\ UNCHANGED <<Param, count, asked, lease, released, stdinVars, ethVars, signal, EndFlag,
                 lest>>

HandlersInstalled == pc \notin {"read", "init_socket", "signals"}

InstallHandlers ==
  /\ pc = "signals"
  /\ pc' = "create_eth"
  /\ UNCHANGED <<mainVars, stdinVars, signal, EndFlag, ethVars, lest, wild>>

\* A thread that cannot be created is reported and done without.
CreateEth ==
  /\ pc = "create_eth"
  /\ pc' = "create_stdin"
  /\ eth' \in {"test", "off"}
  /\ UNCHANGED <<mainVars, stdinVars, signal, EndFlag, echo, lest, wild>>

CreateStdin ==
  /\ pc = "create_stdin"
  /\ pc' = IF Param["vip"] = AnyIp THEN "dhcp" ELSE "garp"
  /\ stdin' \in {"test", "off"}
  /\ UNCHANGED <<mainVars, typed, eof, stream, buf, ping, left, owed, signal, EndFlag,
                 ethVars, lest, wild>>

-----------------------------------------------------------------------------
(* main: the DHCP loop, which does not look at EndFlag. *)

\* What fits behind an IP header: an unsigned difference.
Room == (Param["MTU"] - IpHeader) % Wide

\* The address of the message is cast to a byte, which crashes unless the
\* compiler's build passes it whole; a discover must not be fragmented.
DhcpSendDiscover ==
  /\ pc = "dhcp"
  /\ count < DHCP_TRIES
  /\ count' = count + 1
  /\ \/ pc' = "crashed" /\ UNCHANGED asked
     \/ pc' = "dhcp_wait" /\ asked' = (asked \/ DiscoverSize <= Room)
  /\ UNCHANGED <<Param, DeviceSoc, lease, released, stdinVars, signal, EndFlag, ethVars,
                 lest, wild>>

DhcpFail ==
  /\ pc = "dhcp"
  /\ count = DHCP_TRIES
  /\ pc' = "dhcp_fail"
  /\ UNCHANGED <<mainVars, stdinVars, signal, EndFlag, ethVars, lest, wild>>

\* Variants by which the properties are tested: a look at the count as well as
\* the address, and a count inside the loop.
BadDhcpWait ==
  /\ pc = "dhcp_wait"
  /\ pc' = IF Param["vip"] = AnyIp THEN "dhcp"
           ELSE IF count = DHCP_TRIES THEN "dhcp_fail" ELSE "garp"
  /\ UNCHANGED <<mainVars, stdinVars, signal, EndFlag, ethVars, lest, wild>>

BadDhcpWaitAnew ==
  /\ pc = "dhcp_wait"
  /\ pc' = IF Param["vip"] = AnyIp THEN "dhcp" ELSE "garp"
  /\ count' = IF Param["vip"] = AnyIp THEN 0 ELSE count
  /\ UNCHANGED <<Param, asked, DeviceSoc, lease, released, stdinVars, signal, EndFlag,
                 ethVars, lest, wild>>

\* The end of the sleep.
DhcpWait ==
  /\ pc = "dhcp_wait"
  /\ pc' = IF Param["vip"] = AnyIp THEN "dhcp" ELSE "garp"
  /\ UNCHANGED <<mainVars, stdinVars, signal, EndFlag, ethVars, lest, wild>>

\* main returns, and with it the process, when somebody answers for the address.
ArpCheckGArp ==
  /\ pc = "garp"
  /\ pc' \in {"loop", "garp_fail"}
  /\ UNCHANGED <<mainVars, stdinVars, signal, EndFlag, ethVars, lest, wild>>

LeaveLoop ==
  /\ pc = "loop"
  /\ EndFlag
  /\ pc' = "ending"
  /\ UNCHANGED <<mainVars, stdinVars, signal, EndFlag, ethVars, lest, wild>>

\* ending: DhcpServer is looked at once.
Release ==
  /\ pc = "ending"
  /\ pc' = "close"
  /\ released' = (lease # NoLease)
  /\ UNCHANGED <<Param, count, asked, DeviceSoc, lease, stdinVars, signal, EndFlag, ethVars,
                 lest, wild>>

\* The flags are read twice and never set, so the device stays promiscuous.
Close ==
  /\ pc = "close"
  /\ pc' = "return"
  /\ DeviceSoc' = "closed"
  /\ UNCHANGED <<Param, count, asked, lease, released, stdinVars, signal, EndFlag, ethVars,
                 lest, wild>>

Return ==
  /\ pc = "return"
  /\ pc' = "ended"
  /\ UNCHANGED <<mainVars, stdinVars, signal, EndFlag, ethVars, lest, wild>>

MainStep ==
  \/ ReadParams \/ InitSocket \/ InstallHandlers \/ CreateEth \/ CreateStdin
  \/ DhcpSendDiscover \/ DhcpFail \/ DhcpWait \/ ArpCheckGArp
  \/ LeaveLoop \/ Release \/ Close \/ Return

-----------------------------------------------------------------------------
(* Signals. *)

Kill ==
  /\ ~signal /\ ~EndFlag
  /\ signal' = TRUE
  /\ UNCHANGED <<mainVars, stdinVars, pc, EndFlag, ethVars, lest, wild>>

\* sig_term, or the default action before it is installed.
SigTerm ==
  /\ signal
  /\ signal' = FALSE
  /\ IF HandlersInstalled THEN EndFlag' = TRUE /\ UNCHANGED pc
     ELSE pc' = "killed" /\ UNCHANGED EndFlag
  /\ UNCHANGED <<mainVars, stdinVars, ethVars, lest, wild>>

-----------------------------------------------------------------------------
(* IpSendLink, for the thread t. *)

\* Variants of the length of a fragment.
BadSendLen(n) == IF n > Room THEN (Room \div 2048) * 2048 ELSE n

SendLen(n) == IF n > Room THEN (Room \div 8) * 8 ELSE n

\* sbuf has ETHERMTU bytes.
SendFragment(t) ==
  /\ lest[t] > 0
  /\ LET sendLen == SendLen(lest[t]) IN
       IF IpHeader + sendLen > ETHERMTU
       THEN wild' = TRUE /\ UNCHANGED lest
       ELSE lest' = [lest EXCEPT ![t] = @ - sendLen] /\ UNCHANGED wild
  /\ UNCHANGED <<mainVars, stdinVars, pc, signal, EndFlag, ethVars>>

-----------------------------------------------------------------------------
(* MyEthThread. *)

EthTest ==
  /\ eth = "test"
  /\ eth' = IF EndFlag THEN "off" ELSE "poll"
  /\ UNCHANGED <<mainVars, stdinVars, pc, signal, EndFlag, echo, lest, wild>>

\* A timeout, a closed descriptor, or a frame that asks for nothing.
EthIdle ==
  /\ eth = "poll"
  /\ eth' = "test"
  /\ UNCHANGED <<mainVars, stdinVars, pc, signal, EndFlag, echo, lest, wild>>

\* IcmpSendEchoReply, once the next hop is known.  It copies what follows the header,
\* a negative length if the request is shorter than one.
EthEcho ==
  /\ eth = "poll" /\ DeviceSoc = "open"
  /\ \E n \in EchoSize :
       /\ echo' = n
       /\ IF n \in EchoHeader .. EchoBuffer
          THEN eth' = "echo" /\ lest' = [lest EXCEPT !["eth"] = n] /\ UNCHANGED wild
          ELSE wild' = TRUE /\ UNCHANGED <<eth, lest>>
  /\ UNCHANGED <<mainVars, stdinVars, pc, signal, EndFlag>>

EthEchoDone ==
  /\ eth = "echo" /\ lest["eth"] = 0
  /\ eth' = "test" /\ echo' = NoEcho
  /\ UNCHANGED <<mainVars, stdinVars, pc, signal, EndFlag, lest, wild>>

\* The answer of a server, as the missing DhcpRecv must take it for main's loop
\* and ending to make sense.
DhcpAck ==
  /\ eth = "poll" /\ DeviceSoc = "open"
  /\ asked /\ lease = NoLease
  /\ eth' = "test"
  /\ Param' = [Param EXCEPT !["vip"] = Vip]
  /\ lease' = <<pc, count>>
  /\ UNCHANGED <<count, asked, DeviceSoc, released, stdinVars, pc, signal, EndFlag,
                 echo, lest, wild>>

EthStep == EthTest \/ EthIdle \/ EthEcho \/ EthEchoDone \/ DhcpAck \/ SendFragment("eth")

-----------------------------------------------------------------------------
(* StdInThread. *)

StdinTest ==
  /\ stdin = "test"
  /\ stdin' = IF EndFlag THEN "off" ELSE "poll"
  /\ UNCHANGED <<mainVars, typed, eof, stream, buf, ping, left, owed, pc, signal, EndFlag,
                 ethVars, lest, wild>>

\* The line changes something outside the program or in the ARP table.
Acts(line) == Pings(line) \/ Deletes(line)

\* poll looks at the descriptor and not at the stream.
Readable == typed # <<>> \/ eof

StdinIdle ==
  /\ stdin = "poll" /\ ~Readable
  /\ stdin' = "test"
  /\ UNCHANGED <<mainVars, typed, eof, stream, buf, ping, left, owed, pc, signal, EndFlag,
                 ethVars, lest, wild>>

\* fgets: the lines the stream may hold when it takes the next one from it.  It
\* reads the descriptor, any number of lines, only when it has none.
Filled == IF stream # <<>> THEN {0} ELSE IF typed = <<>> THEN {0} ELSE 1 .. Len(typed)

\* fgets and DoCmd.  At the end of the file the buffer stays as it is.
DoCmd ==
  /\ stdin = "poll" /\ Readable
  /\ \E n \in Filled :
       LET held == stream \o SubSeq(typed, 1, n)
           line == IF held = <<>> THEN buf ELSE Head(held)
       IN  /\ typed' = SubSeq(typed, n + 1, Len(typed))
           /\ stream' = IF held = <<>> THEN held ELSE Tail(held)
           /\ buf' = Left(line)
           /\ signal' = (signal \/ Dispatch(line) = "end")
           /\ stdin' = IF Pings(line) THEN "ping" ELSE "test"
           /\ ping' = IF Pings(line) THEN [seqNo |-> 1, size |-> PingSize(line)] ELSE ping
           /\ owed' = IF Acts(line) THEN owed - 1 ELSE owed
  /\ UNCHANGED <<mainVars, eof, left, pc, EndFlag, ethVars, lest, wild>>

\* IcmpSendEcho: the request is filled byte by byte, a header at least, and sent
\* if GetTargetMac knows the next hop.
IcmpSendEcho ==
  /\ stdin = "ping"
  /\ IF ping.size > EchoBuffer
     THEN wild' = TRUE /\ UNCHANGED <<stdin, lest>>
     ELSE /\ stdin' = "sleep"
          /\ lest' \in {lest, [lest EXCEPT !["stdin"] =
                                  IF ping.size < EchoHeader THEN EchoHeader ELSE ping.size]}
          /\ UNCHANGED wild
  /\ UNCHANGED <<mainVars, typed, eof, stream, buf, ping, left, owed, pc, signal, EndFlag, ethVars>>

PingWakeUp ==
  /\ stdin = "sleep" /\ lest["stdin"] = 0
  /\ IF ping.seqNo < PING_SEND_NO
     THEN stdin' = "ping" /\ ping' = [ping EXCEPT !.seqNo = @ + 1]
     ELSE stdin' = "test" /\ ping' = NoPing
  /\ UNCHANGED <<mainVars, typed, eof, stream, buf, left, owed, pc, signal, EndFlag, ethVars,
                 lest, wild>>

StdinStep ==
  StdinTest \/ StdinIdle \/ DoCmd \/ IcmpSendEcho \/ PingWakeUp \/ SendFragment("stdin")

\* The user, or whoever writes to standard input.
Type(line) ==
  /\ ~eof
  /\ left > 0
  /\ left' = left - 1
  /\ typed' = Append(typed, line)
  /\ owed' = IF Acts(line) THEN owed + 1 ELSE owed
  /\ UNCHANGED <<mainVars, stdin, eof, stream, buf, ping, pc, signal, EndFlag, ethVars,
                 lest, wild>>

EndOfInput ==
  /\ ~eof
  /\ eof' = TRUE
  /\ UNCHANGED <<mainVars, stdin, typed, stream, buf, ping, left, owed, pc, signal, EndFlag,
                 ethVars, lest, wild>>

-----------------------------------------------------------------------------
Running == pc \notin Gone /\ ~wild

Next ==
  /\ Running
  /\ \/ MainStep \/ EthStep \/ StdinStep
     \/ Kill \/ SigTerm \/ EndOfInput
     \/ \E line \in Line : Type(line)

Spec == Init /\ [][Next]_vars

\* The scheduler runs every thread and the kernel delivers signals.
FairSpec ==
  /\ Spec
  /\ WF_vars(Running /\ MainStep)
  /\ WF_vars(Running /\ EthStep)
  /\ WF_vars(Running /\ StdinStep)
  /\ WF_vars(Running /\ SigTerm)

-----------------------------------------------------------------------------
TypeOK ==
  /\ pc \in Gone \cup {"read", "init_socket", "signals", "create_eth", "create_stdin",
                      "dhcp", "dhcp_wait", "garp", "loop", "ending", "close", "return"}
  /\ Param["MTU"] <= ETHERMTU
  /\ count \in 0 .. DHCP_TRIES
  /\ {asked, signal, EndFlag, wild, eof, released} \subseteq BOOLEAN
  /\ DeviceSoc \in {"none", "open", "closed"}
  /\ eth \in {"off", "test", "poll", "echo"} /\ echo \in EchoSize \cup {NoEcho}
  /\ stdin \in {"off", "test", "poll", "ping", "sleep"}
  /\ lest \in [Sender -> Nat]
  /\ typed \in Seq(Line) /\ stream \in Seq(Line)
  /\ ping.seqNo \in 0 .. PING_SEND_NO
  /\ left \in 0 .. MaxLines /\ owed \in 0 .. MaxLines

\* A signal ends the process, wherever main is: the DHCP loop and the address
\* check, which do not look at EndFlag, end by themselves, and main waits for no
\* other thread.
SignalEnds == signal ~> ~Running

\* A ping command comes back to the prompt and an echo reply to poll, as long as
\* a fragment has room for eight bytes: with an MTU of 20 to 27 IpSendLink sends
\* empty fragments for ever.
SendersReturn ==
  LET NoRoom == Param["MTU"] \in IpHeader .. IpHeader + 7 IN
  /\ stdin \in {"ping", "sleep"} ~> (stdin = "test" \/ ~Running \/ NoRoom)
  /\ eth = "echo" ~> (eth = "test" \/ ~Running \/ NoRoom)

\* The four copies nothing checks, of the device's name (init_socket), of a fragment
\* (IpSendLink), of the user's data (IcmpSendEcho) and of the data of an echo request
\* (IcmpSendEchoReply), leave their buffers for one reason each: a name of 16
\* characters or more, an MTU below the IP header's length (the unsigned difference is
\* huge), a ping of more than 64 K, and a request that is shorter than its header or
\* longer than 64 K.
OverrunOnlyWhenAskedFor ==
  wild => \/ Param["device"] \in LongName
          \/ Param["MTU"] < IpHeader
          \/ ping.size > EchoBuffer
          \/ echo # NoEcho /\ echo \notin EchoHeader .. EchoBuffer

\* "DHCP fail" is said only if no answer has been taken by the end of the last
\* sleep; and a lease is given back over the open socket whenever main gets to
\* ending, unless it was granted after ending had looked.
AnswersCountUnlessLate ==
  /\ pc = "dhcp_fail" => lease \in {NoLease, <<"dhcp", DHCP_TRIES>>}
  /\ pc = "ended" /\ lease # NoLease => released \/ lease[1] \in {"close", "return"}

\* Every ping and every deletion typed is made once: at the end of a file the
\* last line is done again and again, but not those, and none is lost on the way
\* through the stream.
EachTypedLineActsOnce ==
  LET waiting == stream \o typed IN
  owed = Cardinality({i \in DOMAIN waiting : Acts(waiting[i])})
=============================================================================
