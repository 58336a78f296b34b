----------------------------- MODULE PingProofs ------------------------------
(***************************************************************************)
(* What a line of "ping" says of a reply, for every number of requests and *)
(* commands, every unit of time and replies that take any time at all.     *)
(***************************************************************************)
EXTENDS Ping, TLAPS

Echo == [id : Int, seqNo : SeqNo, run : Nat \ {0}, sent : Nat]

\* The sleeps of the current command that are over, and those that are over since
\* the request of a reply was sent.
Position == IF pc = "prompt" THEN PING_SEND_NO ELSE seqNo - 1
Slept(e) == (run - e.run) * PING_SEND_NO + (Position - (e.seqNo - 1))

Shapes ==
  /\ clock \in Nat /\ run \in Nat /\ seqNo \in Nat
  /\ pc \in {"prompt", "send", "note", "sleep"}
  /\ pc # "prompt" => seqNo \in SeqNo /\ run > 0
  /\ PingData \in [SeqNo -> [time : Nat, run : Nat]]
  /\ echoes \subseteq Echo

\* A note is not from the future, and the places from the current one on have
\* not been noted by this command yet.
NotesInOrder ==
  \A s \in SeqNo :
    /\ PingData[s].time <= clock
    /\ PingData[s].run <= run
    /\ pc \in {"send", "note"} /\ s >= seqNo => PingData[s].run < run
    /\ pc = "sleep" /\ s > seqNo => PingData[s].run < run

\* The note of its own request is missing only while it is being made; that note
\* and later ones are not earlier than the request.
EchoesNoted ==
  \A e \in echoes :
    /\ e.run <= run /\ e.sent <= clock
    /\ PingData[e.seqNo].run < e.run => pc = "note" /\ seqNo = e.seqNo /\ run = e.run
    /\ PingData[e.seqNo].run >= e.run => e.sent <= PingData[e.seqNo].time

\* Every sleep since has taken a second at least.
EchoesAged ==
  \A e \in echoes : /\ e.sent + Slept(e) * Second <= clock
                    /\ pc = "sleep" => e.sent + (Slept(e) * Second + Second) <= wake

IInv ==
  /\ TypeOK /\ Shapes /\ NotesInOrder /\ EchoesNoted /\ EchoesAged
  /\ WrongNoteOnlyWhenLate /\ SlowerOnlyByOldNote

-----------------------------------------------------------------------------
(* Arithmetic. *)

LEMMA OneMoreSecond ==
  ASSUME NEW c \in Int
  PROVE  c * Second \in Int /\ (c + 1) * Second = c * Second + Second
  BY TimeAssumption

LEMMA OneMoreRun ==
  ASSUME NEW r \in Int
  PROVE  r * PING_SEND_NO \in Int /\ (r + 1) * PING_SEND_NO = r * PING_SEND_NO + PING_SEND_NO
  BY CountAssumption

LEMMA Products ==
  ASSUME NEW a \in Int, NEW b \in Int, a <= b
  PROVE  /\ a * Second \in Int /\ b * Second \in Int /\ a * Second <= b * Second
         /\ a * PING_SEND_NO \in Int /\ b * PING_SEND_NO \in Int
         /\ a * PING_SEND_NO <= b * PING_SEND_NO
  BY TimeAssumption, CountAssumption

-----------------------------------------------------------------------------
(* How the count of the sleeps changes. *)

LEMMA SleptType ==
  ASSUME Shapes, NEW e \in Echo
  PROVE  Slept(e) \in Int /\ Position \in 0 .. PING_SEND_NO
<1>1. Position \in 0 .. PING_SEND_NO
  BY CountAssumption DEF Shapes, Position, SeqNo
<1>2. (run - e.run) * PING_SEND_NO \in Int
  BY CountAssumption DEF Shapes, Echo
<1>3. QED
  BY <1>1, <1>2, CountAssumption DEF Slept, Echo, SeqNo

LEMMA SleptOnStart ==
  ASSUME Shapes, NEW e \in Echo, DoCmdPing
  PROVE  Slept(e)' = Slept(e)
<1>1. run' = (run + 1) /\ Position = PING_SEND_NO /\ Position' = 0
  BY DEF DoCmdPing, Position
<1>2. run \in Int /\ e.run \in Int /\ e.seqNo \in Int /\ PING_SEND_NO \in Int
  BY CountAssumption DEF Shapes, Echo, SeqNo
<1>3. run' - e.run = (run - e.run) + 1
  BY <1>1, <1>2
<1>4. (run' - e.run) * PING_SEND_NO = (run - e.run) * PING_SEND_NO + PING_SEND_NO
  BY <1>2, <1>3, OneMoreRun
<1>5. (run - e.run) * PING_SEND_NO \in Int
  BY <1>2, OneMoreRun
<1> DEFINE before == (run - e.run) * PING_SEND_NO
           after  == (run' - e.run) * PING_SEND_NO
<1>6. Slept(e) = before + (PING_SEND_NO - (e.seqNo - 1))
  BY <1>1 DEF Slept
<1>7. Slept(e)' = after + (0 - (e.seqNo - 1))
  BY <1>1 DEF Slept
<1>8. before \in Int /\ after = before + PING_SEND_NO
  BY <1>4, <1>5
<1> HIDE DEF before, after
<1>9. QED
  BY <1>2, <1>6, <1>7, <1>8

LEMMA SleptOnWakeUp ==
  ASSUME Shapes, NEW e \in Echo, WakeUp
  PROVE  Slept(e)' = Slept(e) + 1
<1>1. Position \in Int /\ Position' = Position + 1 /\ run' = run
  BY CountAssumption DEF WakeUp, Position, Shapes, SeqNo
<1>2. (run - e.run) * PING_SEND_NO \in Int /\ e.seqNo \in Int
  BY CountAssumption DEF Shapes, Echo, SeqNo
<1>3. QED
  BY <1>1, <1>2 DEF Slept

LEMMA SleptOtherwise ==
  ASSUME UNCHANGED <<run, Position>>, NEW e
  PROVE  Slept(e)' = Slept(e)
  BY DEF Slept

\* The place of a reply has been noted by a later command: a whole command's sleeps
\* are over.
LEMMA LaterNoteMeansSlept ==
  ASSUME Shapes, NotesInOrder, NEW e \in echoes, PingData[e.seqNo].run > e.run
  PROVE  Slept(e) >= PING_SEND_NO
<1>1. /\ e \in Echo /\ e.seqNo \in SeqNo /\ e.run \in Nat /\ run \in Nat
      /\ PingData[e.seqNo].run \in Nat
  BY DEF Shapes, Echo
<1>2. PingData[e.seqNo].run <= run
  BY <1>1 DEF NotesInOrder
<1>3. Position \in 0 .. PING_SEND_NO
  BY <1>1, SleptType
<1>4. e.seqNo \in 1 .. PING_SEND_NO /\ PING_SEND_NO \in Nat
  BY <1>1, CountAssumption DEF SeqNo
<1>5. CASE run = e.run + 1
  <2>1. PingData[e.seqNo].run = run
    BY <1>1, <1>2, <1>5
  <2>2. Position >= e.seqNo - 1
    BY <1>1, <1>4, <2>1, CountAssumption DEF NotesInOrder, Position, Shapes, SeqNo
  <2>3. (run - e.run) * PING_SEND_NO = PING_SEND_NO
    <3>1. run - e.run = 1
      BY <1>1, <1>5
    <3>2. QED
      BY <1>4, <3>1
  <2>4. QED
    BY <1>3, <1>4, <2>2, <2>3 DEF Slept
<1>6. CASE run >= e.run + 2
  <2>1. (run - e.run) * PING_SEND_NO >= 2 * PING_SEND_NO /\ (run - e.run) * PING_SEND_NO \in Int
    BY <1>1, <1>6, Products
  <2>2. QED
    BY <1>3, <1>4, <2>1 DEF Slept
<1>7. QED
  BY <1>1, <1>2, <1>5, <1>6

-----------------------------------------------------------------------------
(* The invariant. *)

LEMMA InitIInv == Init => IInv
<1> SUFFICES ASSUME Init PROVE IInv
  OBVIOUS
<1>1. Shapes /\ NotesInOrder /\ EchoesNoted /\ EchoesAged
  BY DEF Init, Shapes, NotesInOrder, EchoesNoted, EchoesAged
<1>2. TypeOK
  BY CountAssumption, TimeAssumption DEF Init, TypeOK, SeqNo, Nothing
<1>3. WrongNoteOnlyWhenLate /\ SlowerOnlyByOldNote
  BY DEF Init, WrongNoteOnlyWhenLate, SlowerOnlyByOldNote, Nothing
<1>4. QED
  BY <1>1, <1>2, <1>3 DEF IInv

\* The parts about what is printed last while nothing is printed.
LEMMA PrintedKept ==
  ASSUME WrongNoteOnlyWhenLate, SlowerOnlyByOldNote, UNCHANGED printed
  PROVE  WrongNoteOnlyWhenLate' /\ SlowerOnlyByOldNote'
  BY DEF WrongNoteOnlyWhenLate, SlowerOnlyByOldNote

LEMMA DoCmdPingKeeps == IInv /\ DoCmdPing => IInv'
<1> SUFFICES ASSUME IInv, DoCmdPing PROVE IInv'
  OBVIOUS
<1> USE DEF IInv
<1>1. TypeOK'
  BY CountAssumption DEF TypeOK, DoCmdPing, SeqNo, Shapes
<1>2. Shapes'
  BY CountAssumption DEF Shapes, DoCmdPing, SeqNo
<1>3. NotesInOrder'
  BY DEF NotesInOrder, DoCmdPing, Shapes
<1>4. EchoesNoted'
  BY DEF EchoesNoted, DoCmdPing, Shapes, Echo
<1>5. EchoesAged'
  <2> SUFFICES ASSUME NEW e \in echoes PROVE e.sent + Slept(e)' * Second <= clock
    BY DEF EchoesAged, DoCmdPing
  <2>1. Slept(e)' = Slept(e)
    BY SleptOnStart DEF Shapes
  <2>2. QED
    BY <2>1 DEF EchoesAged
<1>6. QED
  BY <1>1, <1>2, <1>3, <1>4, <1>5, PrintedKept DEF DoCmdPing

LEMMA IcmpSendEchoKeeps == IInv /\ IcmpSendEcho => IInv'
<1> SUFFICES ASSUME IInv, IcmpSendEcho PROVE IInv'
  OBVIOUS
<1> USE DEF IInv
<1> DEFINE new == [id |-> Pid % IdRange, seqNo |-> seqNo, run |-> run, sent |-> clock]
<1>1. new \in Echo /\ seqNo \in SeqNo /\ run > 0
  BY IdAssumption DEF Shapes, IcmpSendEcho, Echo
<1>2. \A e \in echoes' : e \in echoes \/ e = new
  BY DEF IcmpSendEcho
<1> HIDE DEF new
<1>3. new.seqNo = seqNo /\ new.run = run /\ new.sent = clock
  BY DEF new
<1>4. TypeOK'
  <2>1. \A e \in echoes' : e.seqNo \in SeqNo /\ e.run \in 1 .. run /\ e.sent <= clock
    BY <1>1, <1>2, <1>3 DEF TypeOK, Shapes
  <2>2. QED
    BY <2>1 DEF TypeOK, IcmpSendEcho
<1>5. Shapes'
  BY <1>1, <1>2 DEF Shapes, IcmpSendEcho
<1>6. NotesInOrder'
  BY DEF NotesInOrder, IcmpSendEcho
<1>7. EchoesNoted'
  <2> SUFFICES ASSUME NEW e \in echoes'
               PROVE  /\ e.run <= run /\ e.sent <= clock
                      /\ PingData[e.seqNo].run < e.run => seqNo = e.seqNo /\ run = e.run
                      /\ PingData[e.seqNo].run >= e.run => e.sent <= PingData[e.seqNo].time
    BY DEF EchoesNoted, IcmpSendEcho
  <2>1. CASE e \in echoes
    BY <2>1 DEF EchoesNoted
  <2>2. CASE e = new
    <3>1. PingData[seqNo].run < run
      BY <1>1 DEF NotesInOrder, IcmpSendEcho, Shapes, SeqNo
    <3>2. QED
      BY <1>1, <1>3, <2>2, <3>1 DEF Shapes
  <2>3. QED
    BY <1>2, <2>1, <2>2
<1>8. EchoesAged'
  <2> SUFFICES ASSUME NEW e \in echoes' PROVE e.sent + Slept(e)' * Second <= clock
    BY DEF EchoesAged, IcmpSendEcho
  <2>1. Slept(e)' = Slept(e)
    BY SleptOtherwise DEF Position, IcmpSendEcho
  <2>2. CASE e \in echoes
    BY <2>1, <2>2 DEF EchoesAged
  <2>3. CASE e = new
    <3>1. Slept(new) = 0
      BY <1>1, <1>3, CountAssumption DEF Slept, Position, IcmpSendEcho, Shapes, SeqNo
    <3>2. QED
      BY <1>3, <2>1, <2>3, <3>1, TimeAssumption DEF Shapes
  <2>4. QED
    BY <1>2, <2>2, <2>3
<1>9. QED
  BY <1>4, <1>5, <1>6, <1>7, <1>8, PrintedKept DEF IcmpSendEcho

LEMMA NoteSendTimeKeeps == IInv /\ NoteSendTime => IInv'
<1> SUFFICES ASSUME IInv, NoteSendTime PROVE IInv'
  OBVIOUS
<1> USE DEF IInv
<1>1. /\ seqNo \in SeqNo /\ PingData' = [PingData EXCEPT ![seqNo] = [time |-> clock, run |-> run]]
      /\ pc = "note" /\ pc' = "sleep" /\ wake' = clock + Second
      /\ UNCHANGED <<clock, run, seqNo, echoes, printed>>
  BY DEF NoteSendTime, Shapes
<1>2. /\ PingData'[seqNo].time = clock /\ PingData'[seqNo].run = run
      /\ \A s \in SeqNo : s # seqNo => PingData'[s] = PingData[s]
  BY <1>1 DEF Shapes
<1>3. TypeOK'
  BY <1>1, TimeAssumption, CountAssumption DEF TypeOK
<1>4. Shapes'
  BY <1>1 DEF Shapes
<1>5. NotesInOrder'
  BY <1>1, <1>2 DEF NotesInOrder, Shapes, SeqNo
<1>6. EchoesNoted'
  BY <1>1, <1>2 DEF EchoesNoted, Shapes, Echo
<1>7. EchoesAged'
  <2> SUFFICES ASSUME NEW e \in echoes
               PROVE  /\ e.sent + Slept(e)' * Second <= clock
                      /\ e.sent + (Slept(e)' * Second + Second) <= clock + Second
    BY <1>1 DEF EchoesAged
  <2>1. Slept(e)' = Slept(e)
    BY <1>1, SleptOtherwise DEF Position
  <2>2. Slept(e) * Second \in Int /\ e.sent \in Nat /\ clock \in Nat /\ Second \in Nat
    BY SleptType, OneMoreSecond, TimeAssumption DEF Shapes, Echo
  <2>3. e.sent + Slept(e) * Second <= clock
    BY DEF EchoesAged
  <2>4. QED
    BY <2>1, <2>2, <2>3
<1>8. QED
  BY <1>1, <1>3, <1>4, <1>5, <1>6, <1>7, PrintedKept

LEMMA WakeUpKeeps == IInv /\ WakeUp => IInv'
<1> SUFFICES ASSUME IInv, WakeUp PROVE IInv'
  OBVIOUS
<1> USE DEF IInv
<1>1. /\ pc = "sleep" /\ clock >= wake
      /\ UNCHANGED <<clock, run, wake, PingData, echoes, printed>>
  BY DEF WakeUp
<1>2. pc' \in {"send", "prompt"} /\ seqNo \in SeqNo /\ seqNo' \in SeqNo /\ run > 0
      /\ (pc' = "send" => seqNo' = seqNo + 1)
  BY CountAssumption DEF WakeUp, Shapes, SeqNo
<1>3. TypeOK'
  BY <1>1, <1>2, CountAssumption DEF TypeOK, SeqNo
<1>4. Shapes'
  BY <1>1, <1>2 DEF Shapes, SeqNo
<1>5. NotesInOrder'
  BY <1>1, <1>2 DEF NotesInOrder, SeqNo
<1>6. EchoesNoted'
  BY <1>1, <1>2 DEF EchoesNoted
<1>7. EchoesAged'
  <2> SUFFICES ASSUME NEW e \in echoes PROVE e.sent + Slept(e)' * Second <= clock
    BY <1>1, <1>2 DEF EchoesAged
  <2>1. Slept(e)' = Slept(e) + 1
    BY SleptOnWakeUp DEF Shapes
  <2>2. /\ Slept(e) * Second \in Int /\ (Slept(e) + 1) * Second = Slept(e) * Second + Second
        /\ e.sent \in Nat /\ clock \in Nat /\ wake \in Int
    BY SleptType, OneMoreSecond, TimeAssumption, CountAssumption DEF Shapes, Echo, TypeOK
  <2>3. e.sent + (Slept(e) * Second + Second) <= wake
    BY <1>1 DEF EchoesAged
  <2>4. Slept(e)' * Second = Slept(e) * Second + Second
    BY <2>1, <2>2
  <2> DEFINE p == Slept(e) * Second
  <2>5. p \in Int /\ Slept(e)' * Second = p + Second /\ e.sent + (p + Second) <= wake
    BY <2>2, <2>3, <2>4
  <2>6. QED
    BY <1>1, <2>2, <2>5, TimeAssumption
<1>8. QED
  BY <1>1, <1>3, <1>4, <1>5, <1>6, <1>7, PrintedKept

\* The parts about threads, notes and replies when a reply is taken away.
LEMMA FewerEchoes ==
  ASSUME Shapes, NotesInOrder, EchoesNoted, EchoesAged, echoes' \subseteq echoes,
         UNCHANGED <<clock, pc, run, seqNo, wake, PingData>>
  PROVE  Shapes' /\ NotesInOrder' /\ EchoesNoted' /\ EchoesAged'
<1>1. Shapes' /\ NotesInOrder'
  BY DEF Shapes, NotesInOrder
<1>2. EchoesNoted'
  BY DEF EchoesNoted
<1>3. \A e \in echoes' : Slept(e)' = Slept(e)
  BY SleptOtherwise DEF Position
<1>4. EchoesAged'
  BY <1>3 DEF EchoesAged
<1>5. QED
  BY <1>1, <1>2, <1>4

LEMMA LoseKeeps ==
  ASSUME IInv, NEW e \in echoes, Lose(e)
  PROVE  IInv'
<1> USE DEF IInv
<1>1. echoes' \subseteq echoes /\ UNCHANGED <<clock, pc, run, seqNo, wake, PingData, printed>>
  BY DEF Lose
<1>2. TypeOK'
  BY <1>1 DEF TypeOK
<1>3. QED
  BY <1>1, <1>2, FewerEchoes, PrintedKept

LEMMA PingCheckReplyKeeps ==
  ASSUME IInv, NEW e \in echoes, PingCheckReply(e)
  PROVE  IInv'
<1> USE DEF IInv
<1>1. echoes' \subseteq echoes /\ UNCHANGED <<clock, pc, run, seqNo, wake, PingData>>
  BY DEF PingCheckReply
<1>2. Shapes' /\ NotesInOrder' /\ EchoesNoted' /\ EchoesAged'
  BY <1>1, FewerEchoes
<1>3. CASE UNCHANGED printed
  <2>1. TypeOK'
    BY <1>1, <1>3 DEF TypeOK
  <2>2. QED
    BY <1>2, <1>3, <2>1, PrintedKept
<1>4. CASE e.id = Pid /\ e.seqNo \in SeqNo
  <2> DEFINE note == PingData[e.seqNo]
  <2>1. /\ printed'.seqNo = e.seqNo /\ printed'.run = e.run /\ printed'.noted = note.run
        /\ printed'.since = clock - note.time /\ printed'.trip = clock - e.sent
    BY <1>4 DEF PingCheckReply
  <2>2. /\ note.time \in Nat /\ note.run \in Nat /\ note.time <= clock /\ clock \in Nat
        /\ e.sent \in Nat /\ e.run \in Nat /\ e \in Echo
    BY <1>4 DEF Shapes, NotesInOrder, Echo
  <2>3. note.run > e.run => clock - e.sent >= PING_SEND_NO * Second
    <3> SUFFICES ASSUME note.run > e.run PROVE clock - e.sent >= PING_SEND_NO * Second
      OBVIOUS
    <3>1. Slept(e) \in Int /\ Slept(e) >= PING_SEND_NO
      BY <2>2, SleptType, LaterNoteMeansSlept
    <3>2. /\ PING_SEND_NO * Second \in Int /\ Slept(e) * Second \in Int
          /\ PING_SEND_NO * Second <= Slept(e) * Second
      BY <3>1, Products, CountAssumption
    <3>3. e.sent + Slept(e) * Second <= clock
      BY DEF EchoesAged
    <3>4. QED
      BY <2>2, <3>2, <3>3
  <2>4. clock - note.time > clock - e.sent => note.run < e.run
    BY <2>2 DEF EchoesNoted
  <2> HIDE DEF note
  <2>5. WrongNoteOnlyWhenLate'
    BY <2>1, <2>3 DEF WrongNoteOnlyWhenLate
  <2>6. SlowerOnlyByOldNote'
    BY <2>1, <2>4 DEF SlowerOnlyByOldNote
  <2>7. TypeOK'
    BY <1>1, <1>4, <2>1, CountAssumption DEF TypeOK, SeqNo
  <2>8. QED
    BY <1>2, <2>5, <2>6, <2>7
<1>5. QED
  BY <1>3, <1>4 DEF PingCheckReply

LEMMA TickKeeps == IInv /\ Tick => IInv'
<1> SUFFICES ASSUME IInv, Tick PROVE IInv'
  OBVIOUS
<1> USE DEF IInv
<1>1. clock' = clock + 1 /\ clock < MaxClock /\ clock \in Nat
      /\ UNCHANGED <<pc, run, seqNo, wake, PingData, echoes, printed>>
  BY DEF Tick, Shapes
<1>2. TypeOK'
  <2>1. \A e \in echoes : e.sent \in Nat
    BY DEF Shapes, Echo
  <2>2. QED
    BY <1>1, <2>1, CountAssumption DEF TypeOK
<1>3. Shapes'
  BY <1>1 DEF Shapes
<1>4. NotesInOrder'
  BY <1>1 DEF NotesInOrder, Shapes
<1>5. EchoesNoted'
  BY <1>1 DEF EchoesNoted, Shapes, Echo
<1>6. EchoesAged'
  <2> SUFFICES ASSUME NEW e \in echoes
               PROVE  /\ e.sent + Slept(e)' * Second <= clock + 1
                      /\ pc = "sleep" => e.sent + (Slept(e)' * Second + Second) <= wake
    BY <1>1 DEF EchoesAged
  <2>1. Slept(e)' = Slept(e)
    BY <1>1, SleptOtherwise DEF Position
  <2>2. Slept(e) * Second \in Int /\ e.sent \in Nat
    BY SleptType, OneMoreSecond DEF Shapes, Echo
  <2>3. /\ e.sent + Slept(e) * Second <= clock
        /\ pc = "sleep" => e.sent + (Slept(e) * Second + Second) <= wake
    BY DEF EchoesAged
  <2>4. QED
    BY <1>1, <2>1, <2>2, <2>3
<1>7. QED
  BY <1>1, <1>2, <1>3, <1>4, <1>5, <1>6, PrintedKept

LEMMA StutterKeeps ==
  ASSUME IInv, UNCHANGED vars
  PROVE  IInv'
<1> USE DEF IInv, vars
<1>1. TypeOK'
  BY DEF TypeOK
<1>2. QED
  BY <1>1, FewerEchoes, PrintedKept

LEMMA SpecIInv == Spec => []IInv
<1>1. Init => IInv
  BY InitIInv
<1>2. IInv /\ [Next]_vars => IInv'
  BY DoCmdPingKeeps, IcmpSendEchoKeeps, NoteSendTimeKeeps, WakeUpKeeps,
     PingCheckReplyKeeps, LoseKeeps, TickKeeps, StutterKeeps DEF Next
<1>3. QED
  BY <1>1, <1>2, PTL DEF Spec

-----------------------------------------------------------------------------
\* The threads, the notes and the replies keep their types.
THEOREM PingTypeCorrect == Spec => []TypeOK
<1>1. IInv => TypeOK
  BY DEF IInv
<1>2. QED
  BY <1>1, SpecIInv, PTL

\* A reply is measured against the note of a later command only if it has been
\* under way for as long as a command takes: between its request and that note lie
\* PING_SEND_NO sleeps.
THEOREM WrongNotesAreLate == Spec => []WrongNoteOnlyWhenLate
<1>1. IInv => WrongNoteOnlyWhenLate
  BY DEF IInv
<1>2. QED
  BY <1>1, SpecIInv, PTL

\* Only the note of an earlier command makes a reply look slower than it was: its own
\* note and those of later commands are made after its request has been sent.
THEOREM OnlyOldNotesLookSlow == Spec => []SlowerOnlyByOldNote
<1>1. IInv => SlowerOnlyByOldNote
  BY DEF IInv
<1>2. QED
  BY <1>1, SpecIInv, PTL

\* A reply meets an older note only between the sending of its request and the
\* note of it.
THEOREM OldNotesOnlyInBetween == Spec => OldNoteOnlyWhileNoting
<1> DEFINE A == \A e \in echoes :
                  PingCheckReply(e) /\ e.id = Pid /\ PingData[e.seqNo].run < e.run =>
                    pc = "note" /\ seqNo = e.seqNo /\ run = e.run
<1>1. IInv => A
  BY DEF IInv, EchoesNoted
<1>2. IInv /\ [Next]_vars => [A]_vars
  BY <1>1
<1>3. QED
  BY <1>2, SpecIInv, PTL DEF Spec, OldNoteOnlyWhileNoting
=============================================================================
