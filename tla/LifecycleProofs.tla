--------------------------- MODULE LifecycleProofs --------------------------
(***************************************************************************)
(* The invariants of Lifecycle for every set of parameter files and lines, *)
(* every number of tries and every MTU; and why neither main nor a send    *)
(* goes on for ever.                                                       *)
(***************************************************************************)
EXTENDS Lifecycle, FiniteSetTheorems, SequenceTheorems, WellFoundedInduction, TLAPS

USE DEF Sender, ethVars

\* What main's reading of any file leaves as it was or cuts down.
Settings(param) ==
  /\ param = [key \in DOMAIN param |-> param[key]]
  /\ {"vip", "MTU"} \subseteq DOMAIN param
  /\ param["MTU"] \in -(Wide \div 2) .. ETHERMTU

\* TypeOK, but for what is typed.
Types ==
  /\ pc \in Gone \cup {"read", "init_socket", "signals", "create_eth", "create_stdin",
                      "dhcp", "dhcp_wait", "garp", "loop", "ending", "close", "return"}
  /\ count \in 0 .. DHCP_TRIES
  /\ asked \in BOOLEAN /\ released \in BOOLEAN
  /\ signal \in BOOLEAN /\ EndFlag \in BOOLEAN /\ wild \in BOOLEAN
  /\ DeviceSoc \in {"none", "open", "closed"}
  /\ eth \in {"off", "test", "poll", "echo"} /\ echo \in EchoSize \cup {NoEcho}
  /\ lest \in [Sender -> Nat]

StdinTypes ==
  /\ stdin \in {"off", "test", "poll", "ping", "sleep"}
  /\ ping \in [seqNo : 0 .. PING_SEND_NO, size : Int]
  /\ eof \in BOOLEAN

Waiting == stream \o typed
Acting(q) == {i \in DOMAIN q : Acts(q[i])}

\* The lines behind the prompt.  What fgets leaves in the buffer does nothing.
Queue ==
  /\ typed \in Seq(Line) /\ stream \in Seq(Line)
  /\ left \in Nat /\ left + Len(Waiting) <= MaxLines
  /\ ~Acts(buf)
  /\ owed = Cardinality(Acting(Waiting))

Early == {"read", "init_socket", "signals", "create_eth", "create_stdin"}

\* An answer needs a discover; once it is there main does not go back to "dhcp".
Leases ==
  /\ pc \in Early => count = 0 /\ ~asked /\ lease = NoLease
  /\ lease # NoLease => Param["vip"] = Vip
  /\ pc = "dhcp" => lease \in {NoLease, <<"dhcp", count>>}
  /\ pc = "dhcp_fail" => lease \in {NoLease, <<"dhcp", DHCP_TRIES>>}
  /\ pc \in {"close", "return", "ended"} /\ lease # NoLease =>
       released \/ lease[1] \in {"close", "return"}

IInv ==
  /\ Settings(Param) /\ Types /\ StdinTypes /\ Queue /\ Leases
  /\ OverrunOnlyWhenAskedFor

\* How many steps main has left at most, the wait for EndFlag apart: those from
\* its place on, and two for every try.
Ahead(place) ==
  CASE place = "read"                        -> 13
    [] place = "init_socket"                 -> 12
    [] place = "signals"                     -> 11
    [] place = "create_eth"                  -> 10
    [] place \in {"create_stdin", "dhcp_wait"} -> 9
    [] place = "dhcp"                        -> 8
    [] place = "garp"                        -> 6
    [] place = "loop"                        -> 5
    [] place = "ending"                      -> 4
    [] place = "close"                       -> 3
    [] place = "return"                      -> 2
    [] OTHER                                 -> 0

MainTurns == Ahead(pc) + 2 * (DHCP_TRIES - count)

\* Every step of main brings it nearer to its end, and no other step takes it
\* further away.
MainRunsOut ==
  [][ /\ MainTurns \in Nat /\ MainTurns' \in Nat /\ MainTurns' <= MainTurns
      /\ MainStep => MainTurns' < MainTurns ]_vars

\* With room for eight bytes every fragment leaves less to send.
FragmentsRunOut ==
  [][ \A t \in Sender : Running /\ SendFragment(t) =>
        \/ wild'
        \/ lest'[t] \in Nat /\ lest'[t] < lest[t]
        \/ Param["MTU"] \in IpHeader .. IpHeader + 7 ]_vars
-----------------------------------------------------------------------------
(* The parameter file.  The settings after n lines are a recursive function: *)
(* it exists because each of its beginnings does.                          *)

LEMMA DefaultSettings == Settings(Default)
<1>1. DOMAIN Default = Key /\ Default = [key \in Key |-> Default[key]]
  BY DEF Default
<1>2. "vip" \in Key /\ "MTU" \in Key
  BY DEF Key, Address
<1>3. Default["MTU"] = ETHERMTU
  BY <1>2 DEF Default, Address
<1>4. QED
  BY <1>1, <1>2, <1>3, WideAssumption DEF Settings, ETHERMTU

LEMMA AssignKeepsSettings ==
  ASSUME NEW param, Settings(param), NEW line,
         Len(line) = 2 /\ line[1] = "MTU" => line[2] \in -(Wide \div 2) .. Wide \div 2
  PROVE  Settings(Assign(param, line))
<1>1. CASE ~(Len(line) = 2 /\ line[1] \in DOMAIN param)
  BY <1>1 DEF Assign
<1>2. CASE Len(line) = 2 /\ line[1] \in DOMAIN param
  <2> DEFINE key == line[1]
             value == Converted(key, param[key], line[2])
  <2>1. Assign(param, line) = [param EXCEPT ![key] = value]
    BY <1>2 DEF Assign
  <2>2. key = "MTU" => value \in -(Wide \div 2) .. ETHERMTU
    BY <1>2, WideAssumption DEF Converted, Address, Mtu, ETHERMTU
  <2> HIDE DEF key, value
  <2>3. QED
    BY <2>1, <2>2 DEF Settings
<1>3. QED
  BY <1>1, <1>2

\* A set of numbers that is not empty has a least one.
LEMMA LeastNumber ==
  ASSUME NEW S \in SUBSET Nat, S # {}
  PROVE  \E n \in S : \A m \in S : n <= m
<1> DEFINE Less == {ss \in Nat \X Nat : ss[1] < ss[2]}
<1>1. IsWellFoundedOn(Less, Nat)
  BY NatLessThanWellFounded DEF OpToRel
<1>2. PICK x \in S : \A y \in S : ~ (<<y, x>> \in Less)
  <2> HIDE DEF Less
  <2> QED BY <1>1, WFMin
<1>3. ASSUME NEW y \in S PROVE x <= y
  <2>1. ~ (<<y, x>> \in Less)
    BY <1>2
  <2>2. <<y, x>> \in Nat \X Nat
    OBVIOUS
  <2>3. ~ (y < x)
    BY <2>1, <2>2
  <2>4. QED
    BY <2>2, <2>3
<1>4. QED
  BY <1>3

\* The settings after the first lines of a file, up to the n-th.
Reads(f, n, lines) ==
  f = [k \in 0 .. n |-> IF k = 0 THEN Default ELSE Assign(f[k - 1], lines[k])]

LEMMA SettingsExist ==
  ASSUME NEW lines, NEW n \in Nat
  PROVE  \E f : Reads(f, n, lines)
<1> DEFINE missing == {k \in Nat : ~ \E f : Reads(f, k, lines)}
<1>1. SUFFICES ASSUME missing # {} PROVE FALSE
  OBVIOUS
<1>2. PICK k \in missing : \A m \in missing : k <= m
  BY <1>1, LeastNumber
<1>3. CASE k = 0
  <2>1. Reads([j \in 0 .. 0 |-> Default], 0, lines)
    BY DEF Reads
  <2>2. QED
    BY <1>2, <1>3, <2>1
<1>4. CASE k # 0
  <2>1. k - 1 \in Nat /\ k - 1 \notin missing
    BY <1>2, <1>4
  <2>2. PICK f : Reads(f, k - 1, lines)
    BY <2>1
  <2> DEFINE g == [j \in 0 .. k |-> IF j = k THEN Assign(f[k - 1], lines[k]) ELSE f[j]]
  <2>3. ASSUME NEW j \in 0 .. k
        PROVE  g[j] = IF j = 0 THEN Default ELSE Assign(g[j - 1], lines[j])
    <3>1. CASE j = 0
      BY <1>4, <2>1, <2>2, <3>1 DEF Reads
    <3>2. CASE j # 0 /\ j # k
      <4>1. j \in 0 .. k - 1 /\ j - 1 \in 0 .. k /\ j - 1 # k
        BY <2>1, <3>2
      <4>2. f[j] = Assign(f[j - 1], lines[j])
        BY <2>2, <3>2, <4>1 DEF Reads
      <4>3. g[j] = f[j] /\ g[j - 1] = f[j - 1]
        BY <3>2, <4>1
      <4>4. QED
        BY <3>2, <4>2, <4>3
    <3>3. CASE j = k
      <4>1. k - 1 \in 0 .. k /\ k - 1 # k
        BY <2>1
      <4>2. g[k - 1] = f[k - 1] /\ g[k] = Assign(f[k - 1], lines[k])
        BY <4>1
      <4>3. QED
        BY <1>4, <3>3, <4>2
    <3>4. QED
      BY <3>1, <3>2, <3>3
  <2> HIDE DEF g
  <2>4. g = [j \in 0 .. k |-> g[j]]
    BY DEF g
  <2>5. Reads(g, k, lines)
    BY <2>3, <2>4 DEF Reads
  <2>6. QED
    BY <1>2, <2>5
<1>5. QED
  BY <1>3, <1>4

LEMMA ReadParamSettings ==
  ASSUME NEW file \in File
  PROVE  Settings(ReadParam(file))
<1> DEFINE lines == LinesRead(file)
           n == Len(lines)
           f == CHOOSE g : Reads(g, n, lines)
<1>1. /\ n \in Nat
      /\ \A i \in 1 .. n : Len(lines[i]) = 2 /\ lines[i][1] = "MTU" =>
                              lines[i][2] \in -(Wide \div 2) .. Wide \div 2
  <2>1. file.lines \in Seq(Range(file.lines))
    BY FileAssumption
  <2>2. /\ Len(file.lines) - 1 \in Int /\ 1 \in Int
        /\ \A i \in 1 .. Len(file.lines) - 1 : file.lines[i] \in Range(file.lines)
    BY <2>1
  <2>3. SubSeq(file.lines, 1, Len(file.lines) - 1) \in Seq(Range(file.lines))
    BY <2>2, SubSeqProperties
  <2>4. lines \in Seq(Range(file.lines))
    BY <2>1, <2>3 DEF LinesRead, Front
  <2>5. QED
    BY <2>4, FileAssumption
<1>2. ReadParam(file) = f[n]
  BY DEF ReadParam, Reads
<1>3. Reads(f, n, lines)
  BY <1>1, SettingsExist, Zenon
<1> HIDE DEF lines, n, f
<1> DEFINE bad == {k \in 0 .. n : ~Settings(f[k])}
<1>4. SUFFICES ASSUME bad # {} PROVE FALSE
  BY <1>1, <1>2
<1>5. PICK k \in bad : \A m \in bad : k <= m
  <2>1. bad \in SUBSET Nat
    BY <1>1
  <2> HIDE DEF bad
  <2>2. QED
    BY <1>4, <2>1, LeastNumber
<1>6. CASE k = 0
  BY <1>1, <1>3, <1>5, <1>6, DefaultSettings DEF Reads
<1>7. CASE k # 0
  <2>1. k \in 1 .. n /\ k - 1 \in 0 .. n /\ Settings(f[k - 1])
    BY <1>1, <1>5, <1>7
  <2>2. f[k] = Assign(f[k - 1], lines[k])
    BY <1>3, <2>1 DEF Reads
  <2>3. Settings(f[k])
    BY <1>1, <2>1, <2>2, AssignKeepsSettings
  <2>4. QED
    BY <1>5, <2>3
<1>8. QED
  BY <1>6, <1>7

-----------------------------------------------------------------------------
(* The lines behind the prompt. *)

\* What a command leaves in the buffer is no command that acts: DoCmdArp and
\* DoCmdPing have cut it behind its first word.
LEMMA LeftIsSpent ==
  ASSUME NEW line
  PROVE  ~Acts(Left(line))
<1>1. CASE Dispatch(line) \in {"arp", "ping"}
  <2>1. Left(line) = <<line[1]>> /\ Len(<<line[1]>>) = 1
    BY <1>1 DEF Left
  <2> DEFINE cut == <<line[1]>>
  <2>2. ~(Len(cut) >= 2) /\ ~(Len(cut) >= 3)
    BY <2>1
  <2> HIDE DEF cut
  <2>3. QED
    BY <2>1, <2>2 DEF Acts, Pings, Deletes, cut
<1>2. CASE Dispatch(line) \notin {"arp", "ping"}
  BY <1>2 DEF Left, Acts, Pings, Deletes
<1>3. QED
  BY <1>1, <1>2

LEMMA ActingIsFinite ==
  ASSUME NEW q \in Seq(Line)
  PROVE  /\ Acting(q) \subseteq 1 .. Len(q) /\ IsFiniteSet(Acting(q))
         /\ Cardinality(Acting(q)) \in 0 .. Len(q)
<1>1. Len(q) \in Nat /\ Acting(q) \subseteq 1 .. Len(q)
  BY DEF Acting
<1>2. IsFiniteSet(1 .. Len(q)) /\ Cardinality(1 .. Len(q)) = Len(q)
  <2>1. 1 \in Int /\ Len(q) \in Int
    BY <1>1
  <2>2. /\ IsFiniteSet(1 .. Len(q))
        /\ Cardinality(1 .. Len(q)) = IF 1 > Len(q) THEN 0 ELSE Len(q) - 1 + 1
    BY <2>1, FS_Interval
  <2>3. QED
    BY <1>1, <2>2
<1>3. IsFiniteSet(Acting(q)) /\ Cardinality(Acting(q)) <= Len(q)
  BY <1>1, <1>2, FS_Subset
<1>4. Cardinality(Acting(q)) \in Nat
  BY <1>3, FS_CardinalityType
<1>5. QED
  BY <1>1, <1>3, <1>4

LEMMA TypedIsCounted ==
  ASSUME NEW q \in Seq(Line), NEW line \in Line
  PROVE  Cardinality(Acting(Append(q, line))) =
           IF Acts(line) THEN Cardinality(Acting(q)) + 1 ELSE Cardinality(Acting(q))
<1> DEFINE longer == Append(q, line)
           last == Len(q) + 1
<1>1. /\ Len(q) \in Nat /\ DOMAIN q = 1 .. Len(q) /\ DOMAIN longer = 1 .. last
      /\ longer[last] = line /\ \A i \in 1 .. Len(q) : longer[i] = q[i]
  OBVIOUS
<1> HIDE DEF longer
<1>2. last \notin Acting(q)
  BY <1>1 DEF Acting
<1>3. CASE Acts(line)
  <2>1. Acting(longer) = Acting(q) \cup {last}
    BY <1>1, <1>3 DEF Acting
  <2>2. QED
    BY <1>2, <1>3, <2>1, ActingIsFinite, FS_AddElement DEF longer
<1>4. CASE ~Acts(line)
  <2>1. Acting(longer) = Acting(q)
    BY <1>1, <1>4 DEF Acting
  <2>2. QED
    BY <1>4, <2>1 DEF longer
<1>5. QED
  BY <1>3, <1>4

LEMMA TakenIsCounted ==
  ASSUME NEW q \in Seq(Line), q # <<>>
  PROVE  Cardinality(Acting(Tail(q))) =
           IF Acts(Head(q)) THEN Cardinality(Acting(q)) - 1 ELSE Cardinality(Acting(q))
<1> DEFINE rest == Tail(q)
           others == Acting(q) \ {1}
           f == [i \in others |-> i - 1]
<1>1. /\ Len(q) \in Nat \ {0} /\ DOMAIN q = 1 .. Len(q)
      /\ DOMAIN rest = 1 .. Len(q) - 1 /\ Head(q) = q[1]
      /\ \A i \in 1 .. Len(q) - 1 : rest[i] = q[i + 1]
  BY HeadTailProperties
<1> HIDE DEF rest
<1>2. f \in Bijection(others, Acting(rest))
  <2>1. ASSUME NEW i \in others PROVE i - 1 \in Acting(rest)
    BY <1>1 DEF Acting
  <2>2. f \in [others -> Acting(rest)]
    BY <2>1
  <2>3. ASSUME NEW i \in others, NEW j \in others, f[i] = f[j] PROVE i = j
    BY <1>1, <2>3 DEF Acting
  <2>4. ASSUME NEW k \in Acting(rest) PROVE \E i \in others : f[i] = k
    <3>1. k + 1 \in others /\ f[k + 1] = k
      BY <1>1, <2>4 DEF Acting
    <3>2. QED
      BY <3>1
  <2> HIDE DEF f, others
  <2>5. QED
    BY <2>2, <2>3, <2>4 DEF Bijection, Injection, Surjection, IsInjective
<1>3. /\ IsFiniteSet(others)
      /\ Cardinality(others) = IF 1 \in Acting(q) THEN Cardinality(Acting(q)) - 1
                               ELSE Cardinality(Acting(q))
  BY ActingIsFinite, FS_RemoveElement
<1>4. 1 \in Acting(q) <=> Acts(Head(q))
  BY <1>1 DEF Acting
<1> HIDE DEF f, others
<1>5. Cardinality(Acting(rest)) = Cardinality(others)
  BY <1>2, <1>3, FS_Bijection DEF ExistsBijection
<1>6. QED
  BY <1>3, <1>4, <1>5 DEF rest

-----------------------------------------------------------------------------
(* The length of a fragment. *)

\* The difference wraps around only for an MTU below the IP header's length.
LEMMA RoomFits ==
  ASSUME Settings(Param)
  PROVE  /\ Room \in Nat
         /\ Param["MTU"] >= IpHeader => Room = Param["MTU"] - IpHeader
         /\ Param["MTU"] < IpHeader => Room >= 8
<1> DEFINE a == Param["MTU"] - IpHeader
<1>1. a \in Int /\ a < Wide /\ a + Wide >= 8 /\ Wide \in Nat /\ Wide > 0
  BY WideAssumption DEF Settings, IpHeader, ETHERMTU
<1>2. Room = a % Wide
  BY DEF Room
<1>3. Param["MTU"] \in Int /\ (Param["MTU"] >= IpHeader <=> a >= 0)
  BY WideAssumption DEF Settings, IpHeader, ETHERMTU
<1> HIDE DEF a
<1>4. CASE a >= 0
  <2>1. a % Wide = a
    BY <1>1, <1>4
  <2>2. QED
    BY <1>1, <1>2, <1>3, <1>4, <2>1 DEF a, IpHeader
<1>5. CASE a < 0
  <2>1. a % Wide = a + Wide
    BY <1>1, <1>5
  <2>2. QED
    BY <1>1, <1>2, <1>3, <1>5, <2>1 DEF IpHeader
<1>6. QED
  BY <1>1, <1>4, <1>5

\* A fragment is part of the rest; it fits into the frame if the MTU covers the
\* IP header, and is not empty if there is room for eight bytes.
LEMMA SendLenFits ==
  ASSUME Settings(Param), NEW n \in Nat
  PROVE  /\ SendLen(n) \in 0 .. n
         /\ Param["MTU"] >= IpHeader => IpHeader + SendLen(n) <= ETHERMTU
         /\ n > 0 /\ Param["MTU"] \notin IpHeader .. IpHeader + 7 => SendLen(n) > 0
<1>1. Param["MTU"] \in Int /\ Param["MTU"] <= ETHERMTU
  BY WideAssumption DEF Settings, ETHERMTU
<1>2. Room \in Nat /\ (Room \div 8) * 8 \in 0 .. Room /\ (Room >= 8 => (Room \div 8) * 8 > 0)
  BY RoomFits
<1>3. SendLen(n) \in 0 .. n /\ SendLen(n) <= Room
  BY <1>2 DEF SendLen
<1>4. n > 0 /\ Room >= 8 => SendLen(n) > 0
  BY <1>2 DEF SendLen
<1>5. QED
  BY <1>1, <1>2, <1>3, <1>4, RoomFits DEF IpHeader, ETHERMTU

-----------------------------------------------------------------------------
(* The steps. *)

LEMMA Counts ==
  /\ DHCP_TRIES \in Nat /\ PING_SEND_NO \in Nat
  /\ 0 \in 0 .. DHCP_TRIES /\ 0 \in 0 .. PING_SEND_NO /\ 1 \in 0 .. PING_SEND_NO
  BY CountAssumption

LEMMA InitIInv == Init => IInv
<1> SUFFICES ASSUME Init PROVE IInv
  OBVIOUS
<1>1. Settings(Param)
  BY DefaultSettings DEF Init
<1>2. Types
  <2>1. lest \in [Sender -> Nat]
    BY DEF Init
  <2>2. count \in 0 .. DHCP_TRIES
    BY Counts DEF Init
  <2>3. QED
    BY <2>1, <2>2 DEF Init, Types
<1>3. StdinTypes
  <2>1. NoPing \in [seqNo : 0 .. PING_SEND_NO, size : Int]
    BY Counts DEF NoPing
  <2>2. QED
    BY <2>1 DEF Init, StdinTypes
<1>4. Queue
  <2>1. Waiting = <<>> /\ Len(Waiting) = 0 /\ Waiting \in Seq(Line)
    BY DEF Init, Waiting
  <2>2. Cardinality(Acting(Waiting)) \in 0 .. 0
    BY <2>1, ActingIsFinite
  <2>3. Dispatch(<<>>) = "help"
    BY DEF Dispatch
  <2>4. ~Acts(<<>>)
    BY <2>3 DEF Acts, Pings, Deletes
  <2>5. QED
    BY <2>1, <2>2, <2>4, LineAssumption DEF Init, Queue
<1>5. Leases /\ OverrunOnlyWhenAskedFor
  BY DEF Init, Leases, OverrunOnlyWhenAskedFor, NoLease
<1>6. QED
  BY <1>1, <1>2, <1>3, <1>4, <1>5 DEF IInv

LEMMA SettingsStay ==
  ASSUME Settings(Param), Param' = Param
  PROVE  Settings(Param)'
  OBVIOUS

LEMMA StdinStays ==
  ASSUME StdinTypes, UNCHANGED <<stdin, ping, eof>>
  PROVE  StdinTypes'
  BY DEF StdinTypes

LEMMA LeasesStay ==
  ASSUME Leases, UNCHANGED <<pc, Param, count, asked, lease, released>>
  PROVE  Leases'
  BY DEF Leases

LEMMA QueueStays ==
  ASSUME Queue, UNCHANGED <<typed, stream, buf, left, owed>>
  PROVE  Queue'
  BY DEF Queue, Waiting

\* main leaves the prompt and the buffers alone.
LEMMA MainIInv ==
  ASSUME IInv, Running, MainStep
  PROVE  IInv'
<1> USE DEF Gone
<1>1. /\ UNCHANGED <<typed, eof, stream, buf, ping, left, owed, signal, EndFlag, echo, lest>>
      /\ \/ wild' = wild
         \/ wild' \in BOOLEAN /\ (wild' => Param["device"] \in LongName) /\ Param' = Param
  <2>1. CASE InitSocket
    <3>1. UNCHANGED <<stdinVars, ethVars, signal, EndFlag, lest, Param>>
      BY <2>1 DEF InitSocket
    <3>2. wild' = wild \/ wild' = (Param["device"] \in LongName)
      BY <2>1 DEF InitSocket
    <3>3. CASE wild' = wild
      BY <3>1, <3>3 DEF stdinVars
    <3>4. CASE wild' = (Param["device"] \in LongName)
      <4>1. wild' \in BOOLEAN
        <5>1. (Param["device"] \in LongName) \in BOOLEAN
          OBVIOUS
        <5>2. QED
          BY <3>4, <5>1, Zenon
      <4>2. wild' => Param["device"] \in LongName
        BY <3>4, Zenon
      <4>3. QED
        BY <3>1, <4>1, <4>2 DEF stdinVars
    <3>5. QED
      BY <3>2, <3>3, <3>4
  <2>2. CASE ~InitSocket
    BY <2>2 DEF MainStep, ReadParams, InstallHandlers, CreateEth, CreateStdin,
         DhcpSendDiscover, DhcpFail, DhcpWait, ArpCheckGArp, LeaveLoop, Release, Close,
         Return, mainVars, stdinVars
  <2>3. QED
    BY <2>1, <2>2
<1>2. Settings(Param) /\ Types /\ StdinTypes /\ Queue /\ Leases /\ wild = FALSE
  BY DEF IInv, Running, Types
<1>3. Queue' /\ OverrunOnlyWhenAskedFor' /\ wild' \in BOOLEAN
  BY <1>1, <1>2, QueueStays DEF OverrunOnlyWhenAskedFor
<1>4. CASE ReadParams
  <2>1. Settings(Param)'
    BY <1>2, <1>4, ReadParamSettings DEF ReadParams
  <2>2. Types' /\ StdinTypes'
    BY <1>2, <1>3, <1>4 DEF ReadParams, Types, StdinTypes, stdinVars
  <2>3. Leases'
    BY <1>2, <1>4 DEF ReadParams, Leases, Early
  <2>4. QED
    BY <1>3, <2>1, <2>2, <2>3 DEF IInv
<1>5. CASE InitSocket
  <2>1. Types'
    BY <1>1, <1>2, <1>3, <1>5 DEF InitSocket, Types, mainVars
  <2>2. Leases'
    BY <1>2, <1>5 DEF InitSocket, Leases, Early, mainVars
  <2>3. Param' = Param /\ stdin' = stdin
    BY <1>5 DEF InitSocket, mainVars, stdinVars
  <2>4. QED
    BY <1>1, <1>2, <1>3, <2>1, <2>2, <2>3, SettingsStay, StdinStays DEF IInv
<1>6. CASE InstallHandlers
  <2>1. Types'
    BY <1>1, <1>2, <1>3, <1>6 DEF InstallHandlers, Types, mainVars
  <2>2. Leases'
    BY <1>2, <1>6 DEF InstallHandlers, Leases, Early, mainVars
  <2>3. Param' = Param /\ stdin' = stdin
    BY <1>6 DEF InstallHandlers, mainVars, stdinVars
  <2>4. QED
    BY <1>1, <1>2, <1>3, <2>1, <2>2, <2>3, SettingsStay, StdinStays DEF IInv
<1>7. CASE CreateEth
  <2>1. Types'
    BY <1>1, <1>2, <1>3, <1>7 DEF CreateEth, Types, mainVars
  <2>2. Leases'
    BY <1>2, <1>7 DEF CreateEth, Leases, Early, mainVars
  <2>3. Param' = Param /\ stdin' = stdin
    BY <1>7 DEF CreateEth, mainVars, stdinVars
  <2>4. QED
    BY <1>1, <1>2, <1>3, <2>1, <2>2, <2>3, SettingsStay, StdinStays DEF IInv
<1>8. CASE DhcpSendDiscover
  <2>1. Types'
    <3>1. count' \in 0 .. DHCP_TRIES
      <4>1. count \in 0 .. DHCP_TRIES
        BY <1>2 DEF Types
      <4>2. count < DHCP_TRIES /\ count' = count + 1
        BY <1>8 DEF DhcpSendDiscover
      <4>3. QED
        BY <4>1, <4>2, Counts
    <3>2. asked' \in BOOLEAN
      BY <1>2, <1>8 DEF DhcpSendDiscover, Types
    <3>3. QED
      BY <1>1, <1>2, <1>3, <1>8, <3>1, <3>2 DEF DhcpSendDiscover, Types, mainVars
  <2>2. Leases'
    BY <1>2, <1>8 DEF DhcpSendDiscover, Leases, Early, mainVars
  <2>3. Param' = Param /\ stdin' = stdin
    BY <1>8 DEF DhcpSendDiscover, mainVars, stdinVars
  <2>4. QED
    BY <1>1, <1>2, <1>3, <2>1, <2>2, <2>3, SettingsStay, StdinStays DEF IInv
<1>9. CASE DhcpFail
  <2>1. Types'
    BY <1>1, <1>2, <1>3, <1>9 DEF DhcpFail, Types, mainVars
  <2>2. Leases'
    BY <1>2, <1>9 DEF DhcpFail, Leases, Early, mainVars
  <2>3. Param' = Param /\ stdin' = stdin
    BY <1>9 DEF DhcpFail, mainVars, stdinVars
  <2>4. QED
    BY <1>1, <1>2, <1>3, <2>1, <2>2, <2>3, SettingsStay, StdinStays DEF IInv
<1>10. CASE DhcpWait
  <2>1. Types'
    BY <1>1, <1>2, <1>3, <1>10 DEF DhcpWait, Types, mainVars
  <2>2. Leases'
    BY <1>2, <1>10, LeaseAssumption DEF DhcpWait, Leases, Early, mainVars
  <2>3. Param' = Param /\ stdin' = stdin
    BY <1>10 DEF DhcpWait, mainVars, stdinVars
  <2>4. QED
    BY <1>1, <1>2, <1>3, <2>1, <2>2, <2>3, SettingsStay, StdinStays DEF IInv
<1>11. CASE ArpCheckGArp
  <2>1. Types'
    BY <1>1, <1>2, <1>3, <1>11 DEF ArpCheckGArp, Types, mainVars
  <2>2. Leases'
    BY <1>2, <1>11 DEF ArpCheckGArp, Leases, Early, mainVars
  <2>3. Param' = Param /\ stdin' = stdin
    BY <1>11 DEF ArpCheckGArp, mainVars, stdinVars
  <2>4. QED
    BY <1>1, <1>2, <1>3, <2>1, <2>2, <2>3, SettingsStay, StdinStays DEF IInv
<1>12. CASE LeaveLoop
  <2>1. Types'
    BY <1>1, <1>2, <1>3, <1>12 DEF LeaveLoop, Types, mainVars
  <2>2. Leases'
    BY <1>2, <1>12 DEF LeaveLoop, Leases, Early, mainVars
  <2>3. Param' = Param /\ stdin' = stdin
    BY <1>12 DEF LeaveLoop, mainVars, stdinVars
  <2>4. QED
    BY <1>1, <1>2, <1>3, <2>1, <2>2, <2>3, SettingsStay, StdinStays DEF IInv
<1>13. CASE Release
  <2>1. Types'
    BY <1>1, <1>2, <1>3, <1>13 DEF Release, Types, mainVars
  <2>2. Leases'
    BY <1>2, <1>13 DEF Release, Leases, Early, mainVars
  <2>3. Param' = Param /\ stdin' = stdin
    BY <1>13 DEF Release, mainVars, stdinVars
  <2>4. QED
    BY <1>1, <1>2, <1>3, <2>1, <2>2, <2>3, SettingsStay, StdinStays DEF IInv
<1>14. CASE Close
  <2>1. Types'
    BY <1>1, <1>2, <1>3, <1>14 DEF Close, Types, mainVars
  <2>2. Leases'
    BY <1>2, <1>14 DEF Close, Leases, Early, mainVars
  <2>3. Param' = Param /\ stdin' = stdin
    BY <1>14 DEF Close, mainVars, stdinVars
  <2>4. QED
    BY <1>1, <1>2, <1>3, <2>1, <2>2, <2>3, SettingsStay, StdinStays DEF IInv
<1>15. CASE Return
  <2>1. Types'
    BY <1>1, <1>2, <1>3, <1>15 DEF Return, Types, mainVars
  <2>2. Leases'
    BY <1>2, <1>15 DEF Return, Leases, Early, mainVars
  <2>3. Param' = Param /\ stdin' = stdin
    BY <1>15 DEF Return, mainVars, stdinVars
  <2>4. QED
    BY <1>1, <1>2, <1>3, <2>1, <2>2, <2>3, SettingsStay, StdinStays DEF IInv
<1>16. CASE CreateStdin
  <2>1. Types'
    BY <1>1, <1>2, <1>3, <1>16 DEF CreateStdin, Types, mainVars
  <2>2. Leases'
    BY <1>2, <1>16 DEF CreateStdin, Leases, Early, mainVars
  <2>3. StdinTypes'
    BY <1>1, <1>2, <1>16 DEF CreateStdin, StdinTypes
  <2>4. Param' = Param
    BY <1>16 DEF CreateStdin, mainVars
  <2>5. QED
    BY <1>1, <1>2, <1>3, <2>1, <2>2, <2>3, <2>4, SettingsStay DEF IInv
<1>17. QED
  BY <1>4, <1>5, <1>6, <1>7, <1>8, <1>9, <1>10, <1>11, <1>12, <1>13, <1>14, <1>15, <1>16
  DEF MainStep

LEMMA FragmentIInv ==
  ASSUME IInv, Running, NEW t \in Sender, SendFragment(t)
  PROVE  IInv'
<1>1. Settings(Param) /\ Types /\ StdinTypes /\ Queue /\ Leases /\ wild = FALSE
  BY DEF IInv, Running, Types
<1>2. UNCHANGED <<mainVars, stdinVars, pc, signal, EndFlag, ethVars>>
  BY DEF SendFragment
<1> DEFINE sendLen == SendLen(lest[t])
<1>3. lest[t] \in Nat /\ lest \in [Sender -> Nat]
  BY <1>1 DEF Types
<1>4. /\ sendLen \in 0 .. lest[t]
      /\ Param["MTU"] >= IpHeader => IpHeader + sendLen <= ETHERMTU
  BY <1>1, <1>3, SendLenFits
<1>5. /\ IpHeader + sendLen > ETHERMTU => wild' = TRUE /\ lest' = lest
      /\ ~(IpHeader + sendLen > ETHERMTU) =>
           wild' = wild /\ lest' = [lest EXCEPT ![t] = lest[t] - sendLen]
  BY DEF SendFragment
<1> HIDE DEF sendLen
<1>6. lest' \in [Sender -> Nat]
  BY <1>3, <1>4, <1>5
<1>7. Types'
  <2>1. wild' \in BOOLEAN
    BY <1>1, <1>5
  <2>2. QED
    BY <1>1, <1>2, <1>6, <2>1 DEF Types, mainVars
<1>8. OverrunOnlyWhenAskedFor'
  <2>1. Param["MTU"] \in Int /\ Param' = Param
    BY <1>1, <1>2, WideAssumption DEF Settings, mainVars, ETHERMTU
  <2>2. wild' => Param["MTU"] < IpHeader
    <3>1. sendLen \in Int /\ IpHeader \in Int /\ ETHERMTU \in Int
      BY <1>3, <1>4 DEF IpHeader, ETHERMTU
    <3>2. Param["MTU"] >= IpHeader => ~(IpHeader + sendLen > ETHERMTU)
      BY <1>4, <3>1
    <3>3. Param["MTU"] >= IpHeader => ~wild'
      BY <1>1, <1>5, <3>2, Zenon
    <3>4. QED
      BY <2>1, <3>1, <3>3
  <2>3. QED
    BY <2>1, <2>2 DEF OverrunOnlyWhenAskedFor
<1>9. Settings(Param)' /\ StdinTypes' /\ Queue' /\ Leases'
  BY <1>1, <1>2, SettingsStay, StdinStays, QueueStays, LeasesStay DEF mainVars, stdinVars
<1>10. QED
  BY <1>7, <1>8, <1>9 DEF IInv

LEMMA EthIInv ==
  ASSUME IInv, Running, EthStep
  PROVE  IInv'
<1>1. Settings(Param) /\ Types /\ StdinTypes /\ Queue /\ Leases /\ wild = FALSE
  BY DEF IInv, Running, Types
<1>2. CASE EthTest \/ EthIdle \/ EthEcho \/ EthEchoDone
  <2>1. /\ UNCHANGED <<mainVars, stdinVars, pc, signal, EndFlag>>
        /\ eth' \in {"off", "test", "poll", "echo"}
    BY <1>1, <1>2 DEF EthTest, EthIdle, EthEcho, EthEchoDone, Types
  <2>2. /\ lest' = lest \/ \E n \in Nat : lest' = [lest EXCEPT !["eth"] = n]
        /\ echo' \in EchoSize \cup {NoEcho}
        /\ \/ wild' = FALSE
           \/ wild' = TRUE /\ echo' \in EchoSize /\ echo' \notin EchoHeader .. EchoBuffer
    <3>1. CASE EthTest \/ EthIdle \/ EthEchoDone
      BY <1>1, <3>1 DEF EthTest, EthIdle, EthEchoDone, Types
    <3>2. CASE EthEcho
      BY <1>1, <3>2, SizeAssumption DEF EthEcho
    <3>3. QED
      BY <1>2, <3>1, <3>2
  <2>3. lest' \in [Sender -> Nat]
    BY <1>1, <2>2 DEF Types
  <2>4. Types'
    BY <1>1, <2>1, <2>2, <2>3 DEF Types, mainVars
  <2>5. OverrunOnlyWhenAskedFor'
    <3>1. ASSUME wild' PROVE echo' # NoEcho /\ echo' \notin EchoHeader .. EchoBuffer
      BY <2>2, <3>1, SizeAssumption DEF NoEcho
    <3>2. QED
      BY <3>1 DEF OverrunOnlyWhenAskedFor
  <2>6. Settings(Param)' /\ StdinTypes' /\ Queue' /\ Leases'
    BY <1>1, <2>1, SettingsStay, StdinStays, QueueStays, LeasesStay DEF mainVars, stdinVars
  <2>7. QED
    BY <2>4, <2>5, <2>6 DEF IInv
<1>3. CASE DhcpAck
  <2>1. /\ UNCHANGED <<count, asked, DeviceSoc, released, stdinVars, pc, signal, EndFlag,
                       echo, lest, wild>>
        /\ Param' = [Param EXCEPT !["vip"] = Vip] /\ lease' = <<pc, count>>
        /\ asked /\ eth' = "test"
    BY <1>3 DEF DhcpAck
  <2>2. Settings(Param)' /\ Param'["vip"] = Vip
    BY <1>1, <2>1 DEF Settings
  <2>3. Types'
    BY <1>1, <2>1 DEF Types
  <2>4. Leases'
    <3>1. pc \notin Early /\ pc \notin {"dhcp_fail", "ended"} /\ lease'[1] = pc
      BY <1>1, <2>1 DEF Leases, Running, Gone
    <3>2. QED
      BY <2>1, <2>2, <3>1 DEF Leases
  <2>5. StdinTypes' /\ Queue' /\ OverrunOnlyWhenAskedFor'
    BY <1>1, <2>1, StdinStays, QueueStays DEF stdinVars, OverrunOnlyWhenAskedFor
  <2>6. QED
    BY <2>2, <2>3, <2>4, <2>5 DEF IInv
<1>4. CASE SendFragment("eth")
  BY <1>4, FragmentIInv
<1>5. QED
  BY <1>2, <1>3, <1>4 DEF EthStep

\* What fgets takes is the first of the lines that wait, wherever they are.
LEMMA DoCmdTakesFirst ==
  ASSUME Queue, DoCmd
  PROVE  /\ typed' \in Seq(Line) /\ stream' \in Seq(Line)
         /\ \E line :
              /\ IF Waiting = <<>> THEN line = buf /\ Waiting' = <<>>
                 ELSE line = Head(Waiting) /\ Waiting' = Tail(Waiting)
              /\ buf' = Left(line)
              /\ signal' = (signal \/ Dispatch(line) = "end")
              /\ stdin' = IF Pings(line) THEN "ping" ELSE "test"
              /\ ping' = IF Pings(line) THEN [seqNo |-> 1, size |-> PingSize(line)] ELSE ping
              /\ owed' = IF Acts(line) THEN owed - 1 ELSE owed
<1>1. typed \in Seq(Line) /\ stream \in Seq(Line) /\ Len(typed) \in Nat
  BY DEF Queue
<1> DEFINE Held(n) == stream \o SubSeq(typed, 1, n)
           Rest(n) == SubSeq(typed, n + 1, Len(typed))
           Taken(n) == IF Held(n) = <<>> THEN buf ELSE Head(Held(n))
<1>2. PICK n \in Filled :
        /\ typed' = Rest(n)
        /\ stream' = IF Held(n) = <<>> THEN Held(n) ELSE Tail(Held(n))
        /\ buf' = Left(Taken(n))
        /\ signal' = (signal \/ Dispatch(Taken(n)) = "end")
        /\ stdin' = IF Pings(Taken(n)) THEN "ping" ELSE "test"
        /\ ping' = IF Pings(Taken(n)) THEN [seqNo |-> 1, size |-> PingSize(Taken(n))] ELSE ping
        /\ owed' = IF Acts(Taken(n)) THEN owed - 1 ELSE owed
  BY DEF DoCmd
<1>3. n \in 0 .. Len(typed) /\ (n = 0 => stream # <<>> \/ typed = <<>>)
  BY <1>1 DEF Filled
<1>4. /\ SubSeq(typed, 1, n) \in Seq(Line) /\ Rest(n) \in Seq(Line)
      /\ Len(SubSeq(typed, 1, n)) = IF 1 <= n THEN n - 1 + 1 ELSE 0
  <2>1. \A i \in 1 .. Len(typed) : typed[i] \in Line
    BY <1>1
  <2>2. 1 \in Int /\ n \in Int /\ n + 1 \in Int /\ Len(typed) \in Int
    BY <1>1, <1>3
  <2>3. /\ \A i \in 1 .. n : typed[i] \in Line
        /\ \A i \in n + 1 .. Len(typed) : typed[i] \in Line
    BY <1>1, <1>3, <2>1
  <2>4. QED
    BY <2>2, <2>3, SubSeqProperties
<1>5. Held(n) \in Seq(Line) /\ Held(n) \o Rest(n) = Waiting
  <2>1. SubSeq(typed, 1, n) \o Rest(n) = SubSeq(typed, 1, Len(typed))
    <3>1. 1 \in 1 .. Len(typed) + 1 /\ n \in 1 - 1 .. Len(typed) /\ Len(typed) \in n .. Len(typed)
      BY <1>1, <1>3
    <3>2. QED
      BY <1>1, <3>1, ConcatAdjacentSubSeq
  <2>2. SubSeq(typed, 1, Len(typed)) = typed
    BY <1>1, SubSeqFull
  <2>3. Held(n) \o Rest(n) = stream \o (SubSeq(typed, 1, n) \o Rest(n))
    <3> DEFINE first == SubSeq(typed, 1, n)
               rest == Rest(n)
    <3>1. first \in Seq(Line) /\ rest \in Seq(Line)
      BY <1>4
    <3> HIDE DEF first, rest
    <3>2. (stream \o first) \o rest = stream \o (first \o rest)
      BY <1>1, <3>1, ConcatAssociative
    <3>3. QED
      BY <3>2 DEF first, rest
  <2>4. Held(n) \in Seq(Line)
    BY <1>1, <1>4, ConcatProperties
  <2>5. QED
    BY <2>1, <2>2, <2>3, <2>4 DEF Waiting
<1>6. CASE Held(n) = <<>>
  <2>1. n = 0 /\ stream = <<>> /\ typed = <<>>
    <3>1. stream = <<>> /\ SubSeq(typed, 1, n) = <<>>
      BY <1>1, <1>4, <1>6, ConcatEqualIffEmpty
    <3>2. Len(<<>>) = 0 /\ (n > 0 => n - 1 + 1 # 0 /\ 1 <= n)
      BY <1>3
    <3>3. n = 0
      BY <1>3, <1>4, <3>1, <3>2
    <3>4. QED
      BY <1>3, <3>1, <3>3
  <2>2. Rest(n) = <<>> /\ Waiting = <<>>
    BY <2>1 DEF Waiting
  <2>3. Waiting' = <<>>
    BY <1>2, <1>6, <2>2 DEF Waiting
  <2>4. typed' \in Seq(Line) /\ stream' \in Seq(Line)
    BY <1>2, <1>4, <1>5, <1>6
  <2>5. Taken(n) = buf
    BY <1>6
  <2> HIDE DEF Taken
  <2>6. QED
    BY <1>2, <2>2, <2>3, <2>4, <2>5
<1>7. CASE Held(n) # <<>>
  <2> DEFINE held == Held(n)
             rest == Rest(n)
  <2>1. held \in Seq(Line) /\ rest \in Seq(Line) /\ held # <<>> /\ held \o rest = Waiting
    BY <1>4, <1>5, <1>7
  <2>2. stream' = Tail(held) /\ typed' = rest /\ Taken(n) = Head(held)
    BY <1>2, <1>7
  <2> HIDE DEF held, rest, Taken
  <2>3. /\ Waiting # <<>> /\ Head(Waiting) = Head(held)
        /\ Tail(Waiting) = Tail(held) \o rest /\ Tail(held) \in Seq(Line)
    BY <2>1
  <2>4. Waiting' = Tail(Waiting)
    BY <2>2, <2>3 DEF Waiting
  <2>5. typed' \in Seq(Line) /\ stream' \in Seq(Line)
    BY <2>1, <2>2, <2>3
  <2>6. QED
    BY <1>2, <2>2, <2>3, <2>4, <2>5
<1>8. QED
  BY <1>6, <1>7

LEMMA DoCmdQueue ==
  ASSUME Queue, DoCmd
  PROVE  Queue'
<1>1. /\ typed' \in Seq(Line) /\ stream' \in Seq(Line) /\ left' = left
      /\ left \in Nat /\ left + Len(Waiting) <= MaxLines /\ ~Acts(buf)
      /\ owed = Cardinality(Acting(Waiting))
  BY DoCmdTakesFirst DEF Queue, DoCmd
<1>2. PICK line :
        /\ IF Waiting = <<>> THEN line = buf /\ Waiting' = <<>>
           ELSE line = Head(Waiting) /\ Waiting' = Tail(Waiting)
        /\ buf' = Left(line)
        /\ owed' = IF Acts(line) THEN owed - 1 ELSE owed
  BY DoCmdTakesFirst
<1>3. ~Acts(buf')
  BY <1>2, LeftIsSpent
<1>4. Waiting \in Seq(Line) /\ Len(Waiting) \in Nat
  BY ConcatProperties DEF Queue, Waiting
<1>5. Len(Waiting') <= Len(Waiting) /\ Len(Waiting') \in Nat
  <2>1. CASE Waiting = <<>>
    BY <1>2, <1>4, <2>1
  <2>2. CASE Waiting # <<>>
    BY <1>2, <1>4, <2>2, HeadTailProperties
  <2>3. QED
    BY <2>1, <2>2
<1>6. owed' = Cardinality(Acting(Waiting'))
  <2>1. CASE Waiting = <<>>
    BY <1>1, <1>2, <2>1
  <2>2. CASE Waiting # <<>>
    BY <1>1, <1>2, <1>4, <2>2, TakenIsCounted
  <2>3. QED
    BY <2>1, <2>2
<1>7. QED
  BY <1>1, <1>3, <1>4, <1>5, <1>6, LineAssumption DEF Queue

LEMMA StdinIInv ==
  ASSUME IInv, Running, StdinStep
  PROVE  IInv'
<1>1. Settings(Param) /\ Types /\ StdinTypes /\ Queue /\ Leases /\ wild = FALSE
  BY DEF IInv, Running, Types
<1>2. CASE StdinTest \/ StdinIdle
  <2>1. /\ UNCHANGED <<mainVars, typed, eof, stream, buf, ping, left, owed, pc, signal, EndFlag,
                       ethVars, lest, wild>>
        /\ stdin' \in {"off", "test", "poll"}
    BY <1>2 DEF StdinTest, StdinIdle
  <2>2. StdinTypes'
    BY <1>1, <2>1 DEF StdinTypes
  <2>3. Types'
    BY <1>1, <2>1 DEF Types, mainVars
  <2>4. Settings(Param)' /\ Queue' /\ Leases' /\ OverrunOnlyWhenAskedFor'
    BY <1>1, <2>1, SettingsStay, QueueStays, LeasesStay DEF mainVars, OverrunOnlyWhenAskedFor
  <2>5. QED
    BY <2>2, <2>3, <2>4 DEF IInv
<1>3. CASE DoCmd
  <2>1. UNCHANGED <<mainVars, eof, left, pc, EndFlag, ethVars, lest, wild>>
    BY <1>3 DEF DoCmd
  <2>2. PICK line :
          /\ IF Waiting = <<>> THEN line = buf ELSE line = Head(Waiting)
          /\ signal' = (signal \/ Dispatch(line) = "end")
          /\ stdin' = IF Pings(line) THEN "ping" ELSE "test"
          /\ ping' = IF Pings(line) THEN [seqNo |-> 1, size |-> PingSize(line)] ELSE ping
    BY <1>1, <1>3, DoCmdTakesFirst
  <2>3. Pings(line) => PingSize(line) \in Int
    <3>1. Waiting \in Seq(Line)
      BY <1>1, ConcatProperties DEF Queue, Waiting
    <3>2. CASE Waiting = <<>>
      BY <1>1, <2>2, <3>2 DEF Queue, Acts
    <3>3. CASE Waiting # <<>>
      <4>1. line \in Line
        BY <2>2, <3>1, <3>3, HeadTailProperties
      <4>2. QED
        BY <4>1, LineAssumption
    <3>4. QED
      BY <3>2, <3>3
  <2>4. ping' \in [seqNo : 0 .. PING_SEND_NO, size : Int]
    BY <1>1, <2>2, <2>3, Counts DEF StdinTypes
  <2>5. StdinTypes'
    BY <1>1, <2>1, <2>2, <2>4 DEF StdinTypes
  <2>6. signal' \in BOOLEAN
    BY <1>1, <2>2 DEF Types
  <2>7. Types'
    BY <1>1, <2>1, <2>6 DEF Types, mainVars
  <2>8. Settings(Param)' /\ Leases' /\ OverrunOnlyWhenAskedFor'
    BY <1>1, <2>1, SettingsStay, LeasesStay DEF mainVars, OverrunOnlyWhenAskedFor
  <2>9. QED
    BY <1>1, <1>3, <2>5, <2>7, <2>8, DoCmdQueue DEF IInv
<1>4. CASE IcmpSendEcho
  <2>1. /\ UNCHANGED <<mainVars, typed, eof, stream, buf, ping, left, owed, pc, signal, EndFlag, ethVars>>
        /\ stdin' \in {stdin, "sleep"}
    BY <1>4 DEF IcmpSendEcho
  <2>2. ping.size \in Int
    BY <1>1 DEF StdinTypes
  <2>3. /\ lest' \in [Sender -> Nat]
        /\ wild' = FALSE \/ (wild' = TRUE /\ ping.size > EchoBuffer)
    <3> DEFINE size == IF ping.size < EchoHeader THEN EchoHeader ELSE ping.size
    <3>1. size \in Nat
      BY <2>2 DEF EchoHeader
    <3> HIDE DEF size
    <3>2. lest \in [Sender -> Nat]
      BY <1>1 DEF Types
    <3>3. /\ lest' \in {lest, [lest EXCEPT !["stdin"] = size]}
          /\ wild' = FALSE \/ (wild' = TRUE /\ ping.size > EchoBuffer)
      BY <1>1, <1>4 DEF IcmpSendEcho, size
    <3>4. QED
      BY <3>1, <3>2, <3>3
  <2>4. OverrunOnlyWhenAskedFor'
    BY <2>1, <2>3 DEF OverrunOnlyWhenAskedFor
  <2>5. Types'
    <3>1. wild' \in BOOLEAN /\ lest' \in [Sender -> Nat]
      BY <2>3
    <3>2. QED
      BY <1>1, <2>1, <3>1 DEF Types, mainVars
  <2>6. StdinTypes'
    BY <1>1, <2>1 DEF StdinTypes
  <2>7. Settings(Param)' /\ Queue' /\ Leases'
    BY <1>1, <2>1, SettingsStay, QueueStays, LeasesStay DEF mainVars
  <2>8. QED
    BY <2>4, <2>5, <2>6, <2>7 DEF IInv
<1>5. CASE PingWakeUp
  <2>1. /\ UNCHANGED <<mainVars, typed, eof, stream, buf, left, owed, pc, signal, EndFlag, ethVars,
                       lest, wild>>
        /\ stdin' \in {"ping", "test"}
        /\ ping' \in {[ping EXCEPT !.seqNo = @ + 1], NoPing}
        /\ ping.seqNo < PING_SEND_NO \/ ping' = NoPing
    BY <1>5 DEF PingWakeUp
  <2>2. ping' \in [seqNo : 0 .. PING_SEND_NO, size : Int]
    BY <1>1, <2>1, Counts DEF StdinTypes, NoPing
  <2>3. StdinTypes'
    BY <1>1, <2>1, <2>2 DEF StdinTypes
  <2>4. Types'
    BY <1>1, <2>1 DEF Types, mainVars
  <2>5. Settings(Param)' /\ Queue' /\ Leases' /\ OverrunOnlyWhenAskedFor'
    BY <1>1, <2>1, SettingsStay, QueueStays, LeasesStay DEF mainVars, OverrunOnlyWhenAskedFor
  <2>6. QED
    BY <2>3, <2>4, <2>5 DEF IInv
<1>6. CASE SendFragment("stdin")
  BY <1>6, FragmentIInv
<1>7. QED
  BY <1>2, <1>3, <1>4, <1>5, <1>6 DEF StdinStep

LEMMA SignalIInv ==
  ASSUME IInv, Running, Kill \/ SigTerm
  PROVE  IInv'
<1>1. Settings(Param) /\ Types /\ StdinTypes /\ Queue /\ Leases /\ wild = FALSE
  BY DEF IInv, Running, Types
<1>2. /\ UNCHANGED <<mainVars, stdinVars, ethVars, lest, wild>>
      /\ signal' \in BOOLEAN /\ EndFlag' \in {EndFlag, TRUE} /\ pc' \in {pc, "killed"}
  BY DEF Kill, SigTerm
<1>3. Types'
  BY <1>1, <1>2 DEF Types, Gone, mainVars
<1>4. Leases'
  BY <1>1, <1>2 DEF Leases, Early, mainVars
<1>5. Settings(Param)' /\ StdinTypes' /\ Queue' /\ OverrunOnlyWhenAskedFor'
  BY <1>1, <1>2, SettingsStay, StdinStays, QueueStays
  DEF mainVars, stdinVars, OverrunOnlyWhenAskedFor
<1>6. QED
  BY <1>3, <1>4, <1>5 DEF IInv

LEMMA UserIInv ==
  ASSUME IInv, Running, EndOfInput \/ \E line \in Line : Type(line)
  PROVE  IInv'
<1>1. Settings(Param) /\ Types /\ StdinTypes /\ Queue /\ Leases /\ wild = FALSE
  BY DEF IInv, Running, Types
<1>2. /\ UNCHANGED <<mainVars, stdin, stream, buf, ping, pc, signal, EndFlag, ethVars, lest, wild>>
      /\ eof' \in {eof, TRUE}
  BY DEF EndOfInput, Type
<1>3. Queue'
  <2>1. CASE EndOfInput
    BY <1>1, <2>1, QueueStays DEF EndOfInput
  <2>2. ASSUME NEW line \in Line, Type(line)
        PROVE  Queue'
    <3>1. /\ typed \in Seq(Line) /\ stream \in Seq(Line) /\ left \in Nat
          /\ left + Len(Waiting) <= MaxLines /\ ~Acts(buf)
          /\ owed = Cardinality(Acting(Waiting))
      BY <1>1 DEF Queue
    <3>2. /\ left > 0 /\ left' = left - 1 /\ typed' = Append(typed, line)
          /\ owed' = IF Acts(line) THEN owed + 1 ELSE owed
      BY <2>2 DEF Type
    <3>3. Waiting \in Seq(Line) /\ Waiting' = Append(Waiting, line)
      <4>1. stream \o Append(typed, line) = Append(stream \o typed, line)
        BY <3>1
      <4>2. QED
        BY <1>2, <3>1, <3>2, <4>1, ConcatProperties DEF Waiting
    <3>4. Len(Waiting) \in Nat /\ Len(Waiting') = Len(Waiting) + 1
      BY <3>3, AppendProperties
    <3>5. owed' = Cardinality(Acting(Waiting'))
      BY <3>1, <3>2, <3>3, TypedIsCounted
    <3>6. typed' \in Seq(Line)
      BY <3>1, <3>2
    <3>7. QED
      BY <1>2, <3>1, <3>2, <3>4, <3>5, <3>6, LineAssumption DEF Queue
  <2>3. QED
    BY <2>1, <2>2
<1>4. StdinTypes'
  BY <1>1, <1>2 DEF StdinTypes
<1>5. Types'
  BY <1>1, <1>2 DEF Types, mainVars
<1>6. Settings(Param)' /\ Leases' /\ OverrunOnlyWhenAskedFor'
  BY <1>1, <1>2, SettingsStay, LeasesStay DEF mainVars, OverrunOnlyWhenAskedFor
<1>7. QED
  BY <1>3, <1>4, <1>5, <1>6 DEF IInv

LEMMA NextIInv == IInv /\ [Next]_vars => IInv'
<1> SUFFICES ASSUME IInv, [Next]_vars PROVE IInv'
  OBVIOUS
<1>1. CASE Next
  BY <1>1, MainIInv, EthIInv, StdinIInv, SignalIInv, UserIInv DEF Next
<1>2. CASE UNCHANGED vars
  <2>1. UNCHANGED <<mainVars, stdinVars, pc, signal, EndFlag, ethVars, lest, wild>>
    BY <1>2 DEF vars
  <2>2. Settings(Param)' /\ StdinTypes' /\ Queue' /\ Leases' /\ OverrunOnlyWhenAskedFor'
    BY <2>1, SettingsStay, StdinStays, QueueStays, LeasesStay
    DEF IInv, mainVars, stdinVars, OverrunOnlyWhenAskedFor
  <2>3. Types'
    BY <2>1 DEF IInv, Types, mainVars
  <2>4. QED
    BY <2>2, <2>3 DEF IInv
<1>3. QED
  BY <1>1, <1>2

LEMMA SpecIInv == Spec => []IInv
BY InitIInv, NextIInv, PTL DEF Spec

-----------------------------------------------------------------------------
(* The invariants. *)

\* Type correctness, with an MTU the code has cut down and no more lines owed
\* than can be typed.
THEOREM LifecycleTypeCorrect == Spec => []TypeOK
<1>1. IInv => TypeOK
  <2> SUFFICES ASSUME IInv PROVE TypeOK
    OBVIOUS
  <2>1. Types /\ StdinTypes /\ Queue /\ Settings(Param)
    BY DEF IInv
  <2>2. Param["MTU"] <= ETHERMTU
    BY <2>1, WideAssumption DEF Settings, ETHERMTU
  <2>3. left \in 0 .. MaxLines /\ owed \in 0 .. MaxLines
    <3>1. Waiting \in Seq(Line) /\ left \in Nat /\ left + Len(Waiting) <= MaxLines
          /\ owed = Cardinality(Acting(Waiting))
      BY <2>1, ConcatProperties DEF Queue, Waiting
    <3>2. Len(Waiting) \in Nat /\ owed \in 0 .. Len(Waiting)
      BY <3>1, ActingIsFinite
    <3>3. QED
      BY <3>1, <3>2, LineAssumption
  <2>4. ping.seqNo \in 0 .. PING_SEND_NO
    BY <2>1 DEF StdinTypes
  <2>5. typed \in Seq(Line) /\ stream \in Seq(Line)
    BY <2>1 DEF Queue
  <2>6. QED
    BY <2>1, <2>2, <2>3, <2>4, <2>5 DEF TypeOK, Types, StdinTypes
<1>2. QED
  BY <1>1, SpecIInv, PTL

\* init_socket, IpSendLink, IcmpSendEcho and IcmpSendEchoReply each overrun their
\* buffers for one reason only, for every parameter file, line and request: a device
\* name too long, an MTU below 20, a ping of more than 64 K, and an echo request
\* shorter than its header or longer than 64 K.
THEOREM OnlyAskedForOverruns == Spec => []OverrunOnlyWhenAskedFor
<1>1. IInv => OverrunOnlyWhenAskedFor
  BY DEF IInv
<1>2. QED
  BY <1>1, SpecIInv, PTL

\* main's DHCP loop takes every answer that comes before the end of its last
\* sleep, and ending gives back every lease it can still see.
THEOREM AnswersCount == Spec => []AnswersCountUnlessLate
<1>1. IInv => AnswersCountUnlessLate
  BY DEF IInv, Leases, AnswersCountUnlessLate
<1>2. QED
  BY <1>1, SpecIInv, PTL

\* The prompt neither loses nor repeats a ping or a deletion, however the lines
\* come and wherever the input ends.
THEOREM LinesActOnce == Spec => []EachTypedLineActsOnce
<1>1. IInv => EachTypedLineActsOnce
  BY DEF IInv, Queue, Waiting, Acting, EachTypedLineActsOnce
<1>2. QED
  BY <1>1, SpecIInv, PTL

-----------------------------------------------------------------------------
(* Why nothing goes on for ever, as far as it does not need fairness. *)

LEMMA AheadValues ==
  /\ Ahead("read") = 13 /\ Ahead("init_socket") = 12 /\ Ahead("signals") = 11
  /\ Ahead("create_eth") = 10 /\ Ahead("create_stdin") = 9 /\ Ahead("dhcp_wait") = 9
  /\ Ahead("dhcp") = 8 /\ Ahead("garp") = 6 /\ Ahead("loop") = 5 /\ Ahead("ending") = 4
  /\ Ahead("close") = 3 /\ Ahead("return") = 2
  /\ \A place \in Gone : Ahead(place) = 0
BY DEF Ahead, Gone

\* main makes at most 2 * DHCP_TRIES + 13 steps, and waits for nothing but EndFlag.
THEOREM MainIsBounded == Spec => MainRunsOut
<1>1. IInv => MainTurns \in Nat /\ count \in Int /\ Ahead(pc) \in Nat
  <2> SUFFICES ASSUME IInv
               PROVE  MainTurns \in Nat /\ count \in Int /\ Ahead(pc) \in Nat
    OBVIOUS
  <2>1. count \in 0 .. DHCP_TRIES
    BY DEF IInv, Types
  <2>2. Ahead(pc) \in Nat
    BY DEF Ahead
  <2>3. QED
    BY <2>1, <2>2, Counts DEF MainTurns
<1>2. IInv' => (MainTurns \in Nat /\ count \in Int /\ Ahead(pc) \in Nat)'
  BY <1>1, PTL
<1>3. ASSUME IInv, IInv', Next
      PROVE  MainTurns' <= MainTurns /\ (MainStep => MainTurns' < MainTurns)
  <2>1. /\ MainTurns = Ahead(pc) + 2 * (DHCP_TRIES - count)
        /\ MainTurns' = Ahead(pc') + 2 * (DHCP_TRIES - count')
        /\ Ahead(pc) \in Nat /\ Ahead(pc') \in Nat
        /\ count \in Int /\ count' \in Int /\ DHCP_TRIES \in Int
    BY <1>1, <1>2, <1>3, Counts DEF MainTurns
  <2>2. CASE DhcpSendDiscover
    <3>1. count' = count + 1 /\ pc = "dhcp" /\ (pc' = "dhcp_wait" \/ pc' \in Gone)
      BY <2>2 DEF DhcpSendDiscover, Gone
    <3>2. Ahead(pc) = 8 /\ Ahead(pc') <= 9
      BY <3>1, AheadValues
    <3>3. QED
      BY <2>1, <3>1, <3>2
  <2>3. CASE MainStep /\ ~DhcpSendDiscover
    <3>1. count' = count
      BY <2>3 DEF MainStep, ReadParams, InitSocket, InstallHandlers, CreateEth,
         CreateStdin, DhcpFail, DhcpWait, ArpCheckGArp, LeaveLoop, Release, Close, Return,
         mainVars
    <3>2. Ahead(pc') < Ahead(pc)
      <4>1. ReadParams \/ InitSocket => Ahead(pc') < Ahead(pc)
        BY AheadValues DEF ReadParams, InitSocket, Gone
      <4>2. InstallHandlers \/ CreateEth \/ CreateStdin => Ahead(pc') < Ahead(pc)
        BY AheadValues DEF InstallHandlers, CreateEth, CreateStdin
      <4>3. DhcpFail \/ DhcpWait \/ ArpCheckGArp => Ahead(pc') < Ahead(pc)
        BY AheadValues DEF DhcpFail, DhcpWait, ArpCheckGArp, Gone
      <4>4. LeaveLoop \/ Release \/ Close \/ Return => Ahead(pc') < Ahead(pc)
        BY AheadValues DEF LeaveLoop, Release, Close, Return, Gone
      <4>5. QED
        BY <2>3, <4>1, <4>2, <4>3, <4>4 DEF MainStep
    <3>3. QED
      BY <2>1, <3>1, <3>2
  <2>4. CASE ~MainStep
    <3>1. count' = count /\ (pc' = pc \/ pc' = "killed")
      BY <1>3, <2>4 DEF Next, EthStep, StdinStep, EthTest, EthIdle, EthEcho, EthEchoDone,
         DhcpAck, SendFragment, StdinTest, StdinIdle, DoCmd, IcmpSendEcho, PingWakeUp, Kill,
         SigTerm, EndOfInput, Type, mainVars
    <3>2. Ahead(pc') <= Ahead(pc)
      BY <2>1, <3>1, AheadValues DEF Gone
    <3>3. QED
      BY <2>1, <2>4, <3>1, <3>2
  <2>5. QED
    BY <2>2, <2>3, <2>4
<1>4. IInv /\ IInv' /\ [Next]_vars =>
        [ /\ MainTurns \in Nat /\ MainTurns' \in Nat /\ MainTurns' <= MainTurns
          /\ MainStep => MainTurns' < MainTurns ]_vars
  BY <1>1, <1>2, <1>3
<1>5. QED
  BY <1>4, SpecIInv, PTL DEF Spec, MainRunsOut

\* A send ends: with room for eight bytes every fragment leaves less to send.
THEOREM SendsAreBounded == Spec => FragmentsRunOut
<1>1. ASSUME IInv, Next, NEW t \in Sender, SendFragment(t), ~wild',
             Param["MTU"] \notin IpHeader .. IpHeader + 7
      PROVE  lest'[t] \in Nat /\ lest'[t] < lest[t]
  <2> DEFINE sendLen == SendLen(lest[t])
  <2>1. lest \in [Sender -> Nat] /\ lest[t] > 0
    BY <1>1 DEF IInv, Types, SendFragment
  <2>2. sendLen \in 1 .. lest[t]
    BY <1>1, <2>1, SendLenFits DEF IInv
  <2>3. lest' = [lest EXCEPT ![t] = lest[t] - sendLen]
    BY <1>1 DEF SendFragment
  <2> HIDE DEF sendLen
  <2>4. QED
    BY <2>1, <2>2, <2>3
<1>2. IInv /\ [Next]_vars =>
        [ \A t \in Sender : Running /\ SendFragment(t) =>
            \/ wild'
            \/ lest'[t] \in Nat /\ lest'[t] < lest[t]
            \/ Param["MTU"] \in IpHeader .. IpHeader + 7 ]_vars
  BY <1>1
<1>3. QED
  BY <1>2, SpecIInv, PTL DEF Spec, FragmentsRunOut

=============================================================================
