-------------------------------- MODULE Ping --------------------------------
(***************************************************************************)
(* The round-trip times of "ping": StdInThread sends PING_SEND_NO echo     *)
(* requests, one a second, and notes in PingData when it has sent each;    *)
(* MyEthThread subtracts the note from the time a reply comes in.  The     *)
(* note is made after IpSend has returned, nothing guards PingData, and    *)
(* every ping command uses the same sequence numbers.                      *)
(*                                                                         *)
(* Time is in units of which Second make a second: 1000000 microseconds in *)
(* the code.                                                               *)
(***************************************************************************)
EXTENDS Integers

CONSTANTS
  PING_SEND_NO,   \* 4 in icmp.c:24
  Second,
  Borrow,         \* 10000 where the code borrows a second (icmp.c:238)
  Pid,            \* getpid()
  IdRange,        \* values of the 16-bit identifier
  Commands,       \* bound on the ping commands typed
  MaxClock        \* bound on the clock

ASSUME CountAssumption == PING_SEND_NO \in Nat \ {0} /\ Commands \in Nat /\ MaxClock \in Nat
ASSUME TimeAssumption  == Second \in Nat \ {0} /\ Borrow \in 1 .. Second
ASSUME IdAssumption    == Pid \in Nat /\ IdRange \in Nat \ {0}

SeqNo == 1 .. PING_SEND_NO

VARIABLES
  clock,     \* gettimeofday
  pc,        \* StdInThread: at the prompt, before IpSend, before the note,
             \* in sleep(1)
  run,       \* history: number of the ping command
  seqNo,     \* the request being sent
  wake,      \* when the sleep is over
  PingData,  \* per seqNo: the time noted, and history: by which command
  echoes,    \* echo replies under way: [id, seqNo, run, sent]
  printed    \* history: what the last line printed says of which reply

vars == <<clock, pc, run, seqNo, wake, PingData, echoes, printed>>

Nothing == [seqNo |-> 0, run |-> 0, noted |-> 0, sec |-> 0, usec |-> 0,
            since |-> 0, trip |-> 0]

Init ==
  /\ clock = 0
  /\ pc = "prompt"
  /\ run = 0
  /\ seqNo = 0
  /\ wake = 0
  /\ PingData = [s \in SeqNo |-> [time |-> 0, run |-> 0]]
  /\ echoes = {}
  /\ printed = Nothing

-----------------------------------------------------------------------------
(* StdInThread. *)

DoCmdPing ==
  /\ pc = "prompt"
  /\ run < Commands
  /\ run' = run + 1
  /\ seqNo' = 1
  /\ pc' = "send"
  /\ UNCHANGED <<clock, wake, PingData, echoes, printed>>

\* IcmpSendEcho up to IpSend, which fails if the next hop is not resolved.  The
\* request comes back as a reply, unless either is lost.
IcmpSendEcho ==
  /\ pc = "send"
  /\ \/ UNCHANGED echoes
     \/ echoes' = echoes \cup
          {[id |-> Pid % IdRange, seqNo |-> seqNo, run |-> run, sent |-> clock]}
  /\ pc' = "note"
  /\ UNCHANGED <<clock, run, seqNo, wake, PingData, printed>>

\* Variants by which the properties are tested: no sleep, and a note always in the
\* first place.
BadNoteNoSleep ==
  /\ pc = "note"
  /\ PingData' = [PingData EXCEPT ![seqNo] = [time |-> clock, run |-> run]]
  /\ pc' = "sleep"
  /\ wake' = clock
  /\ UNCHANGED <<clock, run, seqNo, echoes, printed>>

BadNoteFirst ==
  /\ pc = "note"
  /\ PingData' = [PingData EXCEPT ![1] = [time |-> clock, run |-> run]]
  /\ pc' = "sleep"
  /\ wake' = clock + Second
  /\ UNCHANGED <<clock, run, seqNo, echoes, printed>>

\* The end of IcmpSendEcho; PingSend sleeps after it.
NoteSendTime ==
  /\ pc = "note"
  /\ PingData' = [PingData EXCEPT ![seqNo] = [time |-> clock, run |-> run]]
  /\ pc' = "sleep"
  /\ wake' = clock + Second
  /\ UNCHANGED <<clock, run, seqNo, echoes, printed>>

\* A variant that sends one request too many.
BadWakeUp ==
  /\ pc = "sleep"
  /\ clock >= wake
  /\ IF seqNo <= PING_SEND_NO
     THEN pc' = "send" /\ seqNo' = seqNo + 1
     ELSE pc' = "prompt" /\ UNCHANGED seqNo
  /\ UNCHANGED <<clock, run, wake, PingData, echoes, printed>>

WakeUp ==
  /\ pc = "sleep"
  /\ clock >= wake
  /\ IF seqNo < PING_SEND_NO
     THEN pc' = "send" /\ seqNo' = seqNo + 1
     ELSE pc' = "prompt" /\ UNCHANGED seqNo
  /\ UNCHANGED <<clock, run, wake, PingData, echoes, printed>>

-----------------------------------------------------------------------------
(* MyEthThread. *)

\* The difference of two times as PingCheckReply takes it.
Elapsed(now, then) ==
  LET sec  == now \div Second - then \div Second
      usec == (now % Second) - (then % Second)
  IN  IF usec < 0 THEN [sec |-> sec - 1, usec |-> Borrow - usec]
      ELSE [sec |-> sec, usec |-> usec]

\* A variant that looks up the note one place too low.
BadPingCheckReply(e) ==
  /\ echoes' = echoes \ {e}
  /\ IF e.id = Pid /\ e.seqNo - 1 \in SeqNo
     THEN LET note == PingData[e.seqNo - 1]
              time == Elapsed(clock, note.time)
          IN  printed' = [seqNo |-> e.seqNo, run |-> e.run, noted |-> note.run,
                          sec |-> time.sec, usec |-> time.usec,
                          since |-> clock - note.time, trip |-> clock - e.sent]
     ELSE UNCHANGED printed
  /\ UNCHANGED <<clock, pc, run, seqNo, wake, PingData>>

PingCheckReply(e) ==
  /\ echoes' = echoes \ {e}
  /\ IF e.id = Pid /\ e.seqNo \in SeqNo
     THEN LET note == PingData[e.seqNo]
              time == Elapsed(clock, note.time)
          IN  printed' = [seqNo |-> e.seqNo, run |-> e.run, noted |-> note.run,
                          sec |-> time.sec, usec |-> time.usec,
                          since |-> clock - note.time, trip |-> clock - e.sent]
     ELSE UNCHANGED printed
  /\ UNCHANGED <<clock, pc, run, seqNo, wake, PingData>>

Lose(e) ==
  /\ echoes' = echoes \ {e}
  /\ UNCHANGED <<clock, pc, run, seqNo, wake, PingData, printed>>

Tick ==
  /\ clock < MaxClock
  /\ clock' = clock + 1
  /\ UNCHANGED <<pc, run, seqNo, wake, PingData, echoes, printed>>

Next ==
  \/ DoCmdPing \/ IcmpSendEcho \/ NoteSendTime \/ WakeUp
  \/ \E e \in echoes : PingCheckReply(e) \/ Lose(e)
  \/ Tick

Spec == Init /\ [][Next]_vars

-----------------------------------------------------------------------------
TypeOK ==
  /\ clock \in 0 .. MaxClock
  /\ pc \in {"prompt", "send", "note", "sleep"}
  /\ run \in 0 .. Commands /\ seqNo \in 0 .. PING_SEND_NO
  /\ wake \in 0 .. MaxClock + Second
  /\ PingData \in [SeqNo -> [time : 0 .. MaxClock, run : 0 .. Commands]]
  /\ \A e \in echoes : e.seqNo \in SeqNo /\ e.run \in 1 .. run /\ e.sent <= clock
  /\ printed.seqNo \in 0 .. PING_SEND_NO

\* A reply is measured against the note of a later ping command only if it has
\* been under way for the PING_SEND_NO seconds one command takes at least.
WrongNoteOnlyWhenLate ==
  printed.noted > printed.run => printed.trip >= PING_SEND_NO * Second

\* A reply is measured against the note of an earlier command, or none, only if
\* it came in before the one for its own request was made.
OldNoteOnlyWhileNoting ==
  [][\A e \in echoes : PingCheckReply(e) /\ e.id = Pid /\ PingData[e.seqNo].run < e.run =>
       pc = "note" /\ seqNo = e.seqNo /\ run = e.run]_vars

\* The time of a reply is taken to be longer than the reply was under way only if
\* it is measured against the note of an earlier command, or none: its own note and
\* later ones are made after its request was sent.
SlowerOnlyByOldNote ==
  printed.since > printed.trip => printed.noted < printed.run

\* "time %d.%03d ms": of a reply measured against its own note, the whole
\* milliseconds since the note stand before the point.
TimeIsMilliseconds ==
  printed.noted = printed.run => printed.sec = (printed.since * 1000) \div Second
=============================================================================
