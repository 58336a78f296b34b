------------------------- MODULE IpReassemblyProofs -------------------------
(***************************************************************************)
(* Proofs about the reassembly buffers, for every set of datagrams, every  *)
(* number of buffers, of faults and every value of OldestInit; only the    *)
(* refinement at the end assumes more, and says what.                      *)
(***************************************************************************)
EXTENDS IpReassembly, SequenceTheorems, FiniteSetTheorems, WellFoundedInduction, TLAPS

\* The buffers stay an array of records that have an id; what the rest of a
\* record holds plays no part here.
BufferShape ==
  /\ DOMAIN IpRecvBuf = Buf
  /\ \A i \in Buf : "id" \in DOMAIN IpRecvBuf[i]

IInv == BufferShape /\ UniqueIds

LEMMA InitIInv == Init => IInv
  BY DEF Init, IInv, BufferShape, UniqueIds, Busy

\* What one IpRecv does to the identifications: at most one buffer changes, and
\* it comes to hold d.id, which no other buffer holds, or nothing.
LEMMA RecvIds ==
  ASSUME IInv, NEW d \in Datagram, IpRecv(d)
  PROVE  /\ DOMAIN IpRecvBuf' = Buf
         /\ \/ UNCHANGED IpRecvBuf
            \/ \E no \in Buf :
                 /\ "id" \in DOMAIN IpRecvBuf'[no]
                 /\ IpRecvBuf'[no].id \in {d.id, NoId}
                 /\ \A i \in Buf \ {no} : IpRecvBuf'[i] = IpRecvBuf[i]
                 /\ \A i \in Busy : IpRecvBuf[i].id = d.id => i = no
<1> DEFINE no   == IntoNo(d.id)
           f    == Head(wire[d])
           slot == Reserve(d.id)
           data == Overlay(slot.data, f)
<1> SUFFICES ASSUME ~UNCHANGED IpRecvBuf
             PROVE  /\ DOMAIN IpRecvBuf' = Buf
                    /\ no \in Buf
                    /\ "id" \in DOMAIN IpRecvBuf'[no]
                    /\ IpRecvBuf'[no].id \in {d.id, NoId}
                    /\ \A i \in Buf \ {no} : IpRecvBuf'[i] = IpRecvBuf[i]
                    /\ \A i \in Busy : IpRecvBuf[i].id = d.id => i = no
  BY DEF IInv, BufferShape
<1>1. /\ no \in Buf
      /\ \/ IpRecvBuf' = [IpRecvBuf EXCEPT ![no] = [slot EXCEPT !.data = data]]
         \/ IpRecvBuf' = [IpRecvBuf EXCEPT ![no] = [[slot EXCEPT !.data = data] EXCEPT !.id = NoId]]
  BY DEF IpRecv, Release
<1>2. "id" \in DOMAIN slot /\ slot.id = d.id
  BY <1>1 DEF Reserve, IInv, BufferShape
<1>3. \A i \in Busy : IpRecvBuf[i].id = d.id => i = no
  <2> SUFFICES ASSUME NEW i \in Busy, IpRecvBuf[i].id = d.id
               PROVE  i = no
    OBVIOUS
  <2>1. Held(d.id) = {i}
    BY DEF Held, IInv, UniqueIds
  <2>2. no = CHOOSE k \in {i} : \A j \in {i} : k <= j
    BY <2>1 DEF IntoNo
  <2>3. i <= i
    BY DEF Busy, Buf
  <2>4. QED
    BY <2>2, <2>3
<1> HIDE DEF no, slot, data, f
<1>4. QED
  BY <1>1, <1>2, <1>3 DEF IInv, BufferShape

LEMMA NextIInv == IInv /\ [Next]_vars => IInv'
<1> SUFFICES ASSUME IInv, [Next]_vars PROVE IInv'
  OBVIOUS
<1>1. ASSUME NEW d \in Datagram, IpRecv(d) PROVE IInv'
  <2>1. CASE UNCHANGED IpRecvBuf
    BY <2>1 DEF IInv, BufferShape, UniqueIds, Busy
  <2>2. ASSUME NEW no \in Buf,
               "id" \in DOMAIN IpRecvBuf'[no],
               IpRecvBuf'[no].id \in {d.id, NoId},
               \A i \in Buf \ {no} : IpRecvBuf'[i] = IpRecvBuf[i],
               \A i \in Busy : IpRecvBuf[i].id = d.id => i = no
        PROVE  IInv'
    <3>1. BufferShape'
      BY <1>1, <2>2, RecvIds DEF IInv, BufferShape
    <3>2. UniqueIds'
      BY <2>2 DEF IInv, UniqueIds, Busy
    <3>3. QED
      BY <3>1, <3>2 DEF IInv
  <2>3. QED
    BY <1>1, <2>1, <2>2, RecvIds
<1>2. ASSUME NEW d \in Datagram, IpSend(d) \/ Lose(d) \/ Repeat(d) \/ Overtake(d)
      PROVE  UNCHANGED IpRecvBuf
  BY <1>2 DEF IpSend, Lose, Repeat, Overtake, Fault
<1>3. CASE Tick \/ UNCHANGED vars
  BY <1>3 DEF Tick, vars, IInv, BufferShape, UniqueIds, Busy
<1>4. CASE UNCHANGED IpRecvBuf
  BY <1>4 DEF IInv, BufferShape, UniqueIds, Busy
<1>5. QED
  BY <1>1, <1>2, <1>3, <1>4 DEF Next

\* An identification is never in two buffers at once, so that IpRecvBufAdd and
\* IpRecvBufDel, which stop at the first match, always mean the same buffer.
THEOREM IdsAreUnique == Spec => []UniqueIds
<1>1. IInv => UniqueIds
  BY DEF IInv
<1>2. QED
  BY <1>1, InitIInv, NextIInv, PTL DEF Spec

-----------------------------------------------------------------------------
(* Datagrams of one frame. *)

OneFrame(d) == [mf |-> FALSE, off |-> 0, data |-> Whole(d)]

LEMMA WholeIsSeq ==
  ASSUME NEW d \in Datagram
  PROVE  /\ d.len \in Nat /\ d.len >= 1
         /\ Whole(d) \in Seq(Unit) /\ Len(Whole(d)) = d.len
<1>1. d.len \in Nat \ {0}
  BY DatagramAssumption
<1>2. \A k \in 1 .. d.len : <<d.name, k>> \in Unit
  BY DEF Unit
<1>3. QED
  BY <1>1, <1>2 DEF Whole

LEMMA OnePiece ==
  ASSUME NEW d \in Datagram, d.len <= MaxUnits
  PROVE  Fragments(d) \in Seq({OneFrame(d)})
<1> DEFINE w == Whole(d)
           e == [mf |-> FALSE, off |-> 0, data |-> w]
<1>1. d.len \in Nat /\ d.len >= 1 /\ w \in Seq(Unit) /\ Len(w) = d.len
  BY WholeIsSeq
<1> HIDE DEF w
<1>2. Pieces(Len(w)) = 1
  BY <1>1, UnitsAssumption DEF Pieces
<1>3. Piece(w, 1) = w
  BY <1>1, UnitsAssumption DEF Piece
<1>4. [k \in 1 .. 1 |-> e] \in Seq({e}) /\ <<e>> \in Seq({e})
  <2> HIDE DEF e
  <2> QED OBVIOUS
<1>5. PeerSendLink(w) = [k \in 1 .. 1 |-> e]
  <2>1. \A k \in 1 .. 1 : /\ (k < 1) = FALSE /\ (k - 1) * MaxUnits = 0
                          /\ Piece(w, k) = w
    BY <1>3, UnitsAssumption
  <2>2. QED
    BY <1>2, <2>1 DEF PeerSendLink
<1>6. IpSendLink(w, FALSE) = [k \in 1 .. 1 |-> e]
  <2>1. \A k \in 1 .. 1 : /\ (k < 1) = FALSE /\ (k - 1) * MaxUnits = 0
                          /\ Piece(w, k) = w
    BY <1>3, UnitsAssumption
  <2>2. QED
    BY <1>2, <2>1 DEF IpSendLink
<1>7. IpSendLink(w, TRUE) = <<e>>
  <2>1. (Len(w) > MaxUnits) = FALSE
    BY <1>1, UnitsAssumption
  <2>2. QED
    BY <2>1 DEF IpSendLink
<1>8. d.df \in BOOLEAN
  BY DatagramAssumption
<1>9. Fragments(d) \in Seq({e})
  <2>1. Fragments(d) \in {IpSendLink(w, TRUE), IpSendLink(w, FALSE), PeerSendLink(w)}
    BY <1>8 DEF Fragments, w
  <2> HIDE DEF e
  <2>2. QED
    BY <2>1, <1>4, <1>5, <1>6, <1>7
<1>10. QED
  BY <1>9 DEF OneFrame, w

\* Whatever the network repeats, the path of such a datagram carries copies of
\* its one frame only.
OnlyCopies ==
  /\ DOMAIN wire = Datagram
  /\ \A d \in Datagram : d.len <= MaxUnits => wire[d] \in Seq({OneFrame(d)})

SInv == OnlyCopies /\ SingleFrameIntact

LEMMA RecvSingle ==
  ASSUME SInv, NEW d \in Datagram, d.len <= MaxUnits, IpRecv(d),
         NEW r \in delivered' \ delivered
  PROVE  r.of = d /\ r.data = Whole(d)
<1> DEFINE f == Head(wire[d])
<1>1. f = OneFrame(d)
  <2>1. wire[d] \in Seq({OneFrame(d)}) /\ wire[d] # <<>>
    BY DEF SInv, OnlyCopies, IpRecv
  <2>2. QED
    BY <2>1
<1> DEFINE data == Overlay(Reserve(d.id).data, f)
           got  == [of |-> d, data |-> [k \in 1 .. f.off + Len(f.data) |-> data[k - 1]]]
<1>2. r = got /\ Fits(f)
  <2>1. (delivered' = delivered \cup {got} /\ Fits(f)) \/ delivered' = delivered
    BY DEF IpRecv
  <2> HIDE DEF got, f
  <2>2. QED
    BY <2>1
<1>3. d.len \in Nat /\ d.len <= BufUnits /\ Len(Whole(d)) = d.len
  BY <1>1, <1>2, WholeIsSeq DEF OneFrame, Fits
<1>4. \A k \in 1 .. d.len : data[k - 1] = Whole(d)[k]
  <2> SUFFICES ASSUME NEW k \in 1 .. d.len PROVE data[k - 1] = Whole(d)[k]
    OBVIOUS
  <2>1. k \in Nat /\ k - 1 \in Space /\ k - 1 \in 0 .. d.len - 1 /\ (k - 1) - 0 + 1 = k
    BY <1>3, SizeAssumption DEF Space
  <2>2. f.off = 0 /\ f.data = Whole(d) /\ 0 + Len(f.data) - 1 = d.len - 1
    BY <1>1, <1>3 DEF OneFrame
  <2> HIDE DEF f
  <2>3. QED
    BY <2>1, <2>2 DEF Overlay
<1> HIDE DEF data, f
<1>5. f.off + Len(f.data) = d.len
  BY <1>1, <1>3 DEF OneFrame
<1>6. QED
  BY <1>2, <1>4, <1>5 DEF Whole

\* A fault leaves copies of what was on the way.
LEMMA FaultsShuffle ==
  ASSUME NEW S, NEW w \in Seq(S), w # <<>>
  PROVE  /\ Tail(w) \in Seq(S)
         /\ <<Head(w)>> \o w \in Seq(S)
         /\ Len(w) >= 2 => <<w[2], w[1]>> \o SubSeq(w, 3, Len(w)) \in Seq(S)
<1>1. Len(w) \in Nat /\ Len(w) >= 1
  BY EmptySeq
<1>2. Tail(w) \in Seq(S) /\ Head(w) \in S
  BY HeadTailProperties
<1>3. <<Head(w)>> \o w \in Seq(S)
  <2>1. <<Head(w)>> \in Seq(S)
    BY <1>2
  <2>2. QED
    BY <2>1
<1>4. ASSUME Len(w) >= 2 PROVE <<w[2], w[1]>> \o SubSeq(w, 3, Len(w)) \in Seq(S)
  <2>1. w[1] \in S /\ w[2] \in S
    BY <1>4
  <2>2. <<w[2], w[1]>> \in Seq(S)
    BY <2>1
  <2>3. SubSeq(w, 3, Len(w)) \in Seq(S)
    BY <1>4
  <2>4. QED
    BY <2>2, <2>3
<1>5. QED
  BY <1>2, <1>3, <1>4

LEMMA NextSInv == SInv /\ [Next]_vars => SInv'
<1> SUFFICES ASSUME SInv, [Next]_vars PROVE SInv'
  OBVIOUS
<1>1. ASSUME NEW d \in Datagram, IpRecv(d) PROVE SInv'
  <2>1. OnlyCopies'
    <3>1. wire' = [wire EXCEPT ![d] = Tail(wire[d])] /\ wire[d] # <<>>
      BY <1>1 DEF IpRecv
    <3>2. ASSUME d.len <= MaxUnits PROVE Tail(wire[d]) \in Seq({OneFrame(d)})
      <4>1. wire[d] \in Seq({OneFrame(d)})
        BY <3>2 DEF SInv, OnlyCopies
      <4>2. QED
        BY <3>1, <4>1
    <3>3. QED
      BY <3>1, <3>2 DEF SInv, OnlyCopies
  <2>2. \A r \in delivered' \ delivered : r.of = d
    BY <1>1 DEF IpRecv
  <2>3. SingleFrameIntact'
    BY <1>1, <2>2, RecvSingle DEF SInv, SingleFrameIntact
  <2>4. QED
    BY <2>1, <2>3 DEF SInv
<1>2. ASSUME NEW d \in Datagram, IpSend(d) PROVE SInv'
  <2>1. wire' = [wire EXCEPT ![d] = Fragments(d)] /\ UNCHANGED delivered
    BY <1>2 DEF IpSend
  <2>2. QED
    BY <2>1, OnePiece DEF SInv, OnlyCopies, SingleFrameIntact
<1>3. ASSUME NEW d \in Datagram, Lose(d) \/ Repeat(d) \/ Overtake(d) PROVE SInv'
  <2>1. UNCHANGED delivered /\ \E w : wire' = [wire EXCEPT ![d] = w]
    BY <1>3 DEF Lose, Repeat, Overtake, Fault
  <2>2. ASSUME d.len <= MaxUnits PROVE wire'[d] \in Seq({OneFrame(d)})
    <3> DEFINE w == wire[d]
    <3>1. w \in Seq({OneFrame(d)}) /\ w # <<>>
      BY <1>3, <2>2 DEF Lose, Repeat, Overtake, SInv, OnlyCopies
    <3>2. \/ wire'[d] = Tail(w)
          \/ wire'[d] = <<Head(w)>> \o w
          \/ wire'[d] = <<w[2], w[1]>> \o SubSeq(w, 3, Len(w)) /\ Len(w) >= 2
      BY <1>3 DEF Lose, Repeat, Overtake, Fault, SInv, OnlyCopies
    <3> HIDE DEF w
    <3> DEFINE S == {OneFrame(d)}
    <3> HIDE DEF w, S
    <3>3. w \in Seq(S) /\ w # <<>>
      BY <3>1 DEF S
    <3>4. QED
      BY <3>2, <3>3, FaultsShuffle DEF S
  <2>3. QED
    BY <2>1, <2>2 DEF SInv, OnlyCopies, SingleFrameIntact
<1>4. CASE Tick \/ UNCHANGED vars
  BY <1>4 DEF Tick, vars, SInv, OnlyCopies, SingleFrameIntact
<1>5. QED
  BY <1>1, <1>2, <1>3, <1>4 DEF Next

\* A datagram of one frame is delivered as it was sent, whatever the network
\* loses, repeats or reorders and whatever is left in the buffer it is put in.
THEOREM SingleFramesArriveIntact == Spec => []SingleFrameIntact
<1>1. Init => SInv
  BY DEF Init, SInv, OnlyCopies, SingleFrameIntact
<1>2. SInv => SingleFrameIntact
  BY DEF SInv
<1>3. QED
  BY <1>1, <1>2, NextSInv, PTL DEF Spec

-----------------------------------------------------------------------------
(* What a buffer is held for. *)

\* The fragments d can have on its way.
Carried(d) == {Fragments(d)[k] : k \in DOMAIN Fragments(d)}

LEMMA PiecesAreCounted ==
  ASSUME NEW len \in Nat
  PROVE  Pieces(len) \in Nat
<1>1. len + MaxUnits - 1 \in Nat /\ MaxUnits \in Nat /\ MaxUnits > 0
  BY UnitsAssumption
<1>2. QED
  BY <1>1 DEF Pieces

\* Both kinds of senders leave MF out of the last fragment.
LEMMA LastEnds ==
  ASSUME NEW d \in Datagram
  PROVE  /\ Fragments(d) \in Seq(Carried(d))
         /\ Fragments(d) # <<>> => ~Fragments(d)[Len(Fragments(d))].mf
<1> DEFINE w == Whole(d)
           P == Pieces(Len(w))
<1>1. P \in Nat
  BY WholeIsSeq, PiecesAreCounted
<1> HIDE DEF w, P
<1>2. \/ Fragments(d) = <<>>
      \/ Fragments(d) = <<[mf |-> FALSE, off |-> 0, data |-> w]>>
      \/ Fragments(d) = [k \in 1 .. P |->
           [mf |-> k < P, off |-> IF k < P THEN 0 ELSE (k - 1) * MaxUnits, data |-> Piece(w, k)]]
      \/ Fragments(d) = [k \in 1 .. P |->
           [mf |-> k < P, off |-> (k - 1) * MaxUnits, data |-> Piece(w, k)]]
  BY DEF Fragments, IpSendLink, PeerSendLink, w, P
<1>3. CASE Fragments(d) = <<>>
  BY <1>3
<1>4. CASE Fragments(d) = <<[mf |-> FALSE, off |-> 0, data |-> w]>>
  <2> DEFINE e == [mf |-> FALSE, off |-> 0, data |-> w]
  <2>1. Fragments(d) = <<e>> /\ e.mf = FALSE
    BY <1>4
  <2> HIDE DEF e
  <2>2. Len(<<e>>) = 1 /\ <<e>>[1] = e /\ DOMAIN <<e>> = {1}
    OBVIOUS
  <2>3. e \in Carried(d)
    BY <2>1, <2>2 DEF Carried
  <2>4. <<e>> \in Seq(Carried(d))
    BY <2>3
  <2>5. QED
    BY <2>1, <2>2, <2>4
<1>5. ASSUME NEW e, Fragments(d) = [k \in 1 .. P |-> e[k]], \A k \in 1 .. P : e[k].mf = (k < P)
      PROVE  /\ Fragments(d) \in Seq(Carried(d))
             /\ Fragments(d) # <<>> => ~Fragments(d)[Len(Fragments(d))].mf
  <2> DEFINE F == Fragments(d)
  <2>1. DOMAIN F = 1 .. P /\ \A k \in 1 .. P : F[k] \in Carried(d)
    BY <1>5 DEF Carried
  <2>2. F \in Seq(Carried(d)) /\ Len(F) = P
    BY <1>1, <1>5, <2>1
  <2>3. F # <<>> => ~F[P].mf
    <3>1. F # <<>> => P \in 1 .. P
      BY <1>1, <2>2, EmptySeq
    <3>2. ~(P < P)
      BY <1>1
    <3>3. QED
      BY <1>5, <3>1, <3>2
  <2>4. QED
    BY <2>2, <2>3
<1>6. QED
  <2>1. CASE Fragments(d) = [k \in 1 .. P |->
           [mf |-> k < P, off |-> IF k < P THEN 0 ELSE (k - 1) * MaxUnits, data |-> Piece(w, k)]]
    <3> DEFINE e == [k \in 1 .. P |->
           [mf |-> k < P, off |-> IF k < P THEN 0 ELSE (k - 1) * MaxUnits, data |-> Piece(w, k)]]
    <3>1. Fragments(d) = [k \in 1 .. P |-> e[k]] /\ \A k \in 1 .. P : e[k].mf = (k < P)
      BY <2>1
    <3> HIDE DEF e
    <3>2. QED
      BY <3>1, <1>5
  <2>2. CASE Fragments(d) = [k \in 1 .. P |->
           [mf |-> k < P, off |-> (k - 1) * MaxUnits, data |-> Piece(w, k)]]
    <3> DEFINE e == [k \in 1 .. P |->
           [mf |-> k < P, off |-> (k - 1) * MaxUnits, data |-> Piece(w, k)]]
    <3>1. Fragments(d) = [k \in 1 .. P |-> e[k]] /\ \A k \in 1 .. P : e[k].mf = (k < P)
      BY <2>2
    <3> HIDE DEF e
    <3>2. QED
      BY <3>1, <1>5
  <2>3. QED
    BY <1>2, <1>3, <1>4, <2>1, <2>2

\* What is on the way of a datagram the network has not touched ends with its
\* last fragment; nothing is on the way of one not sent yet.
WiresEnd ==
  /\ DOMAIN wire = Datagram
  /\ \A d \in unsent : wire[d] = <<>>
  /\ \A d \in Datagram \ hit : /\ wire[d] \in Seq(Carried(d))
                               /\ wire[d] # <<>> => ~wire[d][Len(wire[d])].mf

RInv == WiresEnd /\ BuffersAreReturned

\* A frame for an identification that is held goes to the buffer that holds it.
LEMMA IntoNoHeld ==
  ASSUME IInv, NEW id, NEW i \in Busy, IpRecvBuf[i].id = id
  PROVE  IntoNo(id) = i
<1>1. Held(id) = {i}
  BY DEF Held, IInv, UniqueIds
<1>2. IntoNo(id) = CHOOSE k \in {i} : \A j \in {i} : k <= j
  BY <1>1 DEF IntoNo
<1>3. i <= i
  BY DEF Busy, Buf
<1>4. QED
  BY <1>2, <1>3

\* The last fragment frees the buffer.
LEMMA LastFrees ==
  ASSUME IInv, NEW d \in Datagram, IpRecv(d), ~wild', ~Head(wire[d]).mf, NEW i \in Busy'
  PROVE  IpRecvBuf'[i].id # d.id
<1> DEFINE no   == IntoNo(d.id)
           slot == Reserve(d.id)
           data == Overlay(slot.data, Head(wire[d]))
<1>1. i \in Busy /\ IpRecvBuf[i].id = d.id => no = i
  BY IntoNoHeld
<1>2. CASE no \in Buf /\ IpRecvBuf' = [IpRecvBuf EXCEPT ![no] = Release([slot EXCEPT !.data = data])]
  <2>1. "id" \in DOMAIN slot
    BY <1>2 DEF Reserve, IInv, BufferShape
  <2> HIDE DEF no, slot, data
  <2>2. IpRecvBuf'[no].id = NoId /\ \A j \in Buf \ {no} : IpRecvBuf'[j] = IpRecvBuf[j]
    BY <1>2, <2>1 DEF Release, IInv, BufferShape
  <2>3. i \in Buf /\ IpRecvBuf'[i].id # NoId
    BY DEF Busy
  <2>4. QED
    BY <1>1, <2>2, <2>3 DEF Busy
<1>3. QED
  BY <1>2 DEF IpRecv

LEMMA RecvRInv ==
  ASSUME IInv, RInv, NEW d \in Datagram, IpRecv(d)
  PROVE  RInv'
<1> DEFINE w == wire[d]
<1>1. w # <<>> /\ wire' = [wire EXCEPT ![d] = Tail(w)] /\ UNCHANGED <<unsent, hit>>
  BY DEF IpRecv
<1>2. wire'[d] = Tail(w) /\ \A e \in Datagram \ {d} : wire'[e] = wire[e]
  BY <1>1 DEF RInv, WiresEnd
<1>3. d \notin hit => w \in Seq(Carried(d)) /\ ~w[Len(w)].mf
  BY <1>1 DEF RInv, WiresEnd
<1> HIDE DEF w
<1>4. d \notin hit => /\ Tail(w) \in Seq(Carried(d))
                      /\ Tail(w) # <<>> => ~Tail(w)[Len(Tail(w))].mf
                      /\ Head(w).mf => Tail(w) # <<>>
  <2> SUFFICES ASSUME d \notin hit
               PROVE  /\ Tail(w) \in Seq(Carried(d))
                      /\ Tail(w) # <<>> => ~Tail(w)[Len(Tail(w))].mf
                      /\ Head(w).mf => Tail(w) # <<>>
    OBVIOUS
  <2> DEFINE S == Carried(d)
  <2> HIDE DEF S
  <2>1. w \in Seq(S) /\ w # <<>> /\ Len(w) \in Nat /\ Len(w) >= 1
    BY <1>1, <1>3 DEF S
  <2>2. /\ Tail(w) \in Seq(S) /\ Len(Tail(w)) = Len(w) - 1
        /\ \A i \in 1 .. Len(Tail(w)) : Tail(w)[i] = w[i + 1]
    BY <2>1, HeadTailProperties
  <2>3. Tail(w) # <<>> => Len(w) > 1
    BY <2>1, <2>2, EmptySeq
  <2>4. Len(w) > 1 => Tail(w)[Len(w) - 1] = w[Len(w)] /\ Tail(w) # <<>>
    <3> DEFINE u == Tail(w)
    <3> SUFFICES ASSUME Len(w) > 1 PROVE u[Len(w) - 1] = w[Len(w)] /\ u # <<>>
      OBVIOUS
    <3>1. Len(u) = Len(w) - 1 /\ \A i \in 1 .. Len(u) : u[i] = w[i + 1]
      BY <2>2
    <3> HIDE DEF u
    <3>2. Len(w) - 1 \in 1 .. Len(u) /\ (Len(w) - 1) + 1 = Len(w)
      BY <2>1, <3>1
    <3>3. u # <<>>
      BY <2>1, <3>1, EmptySeq
    <3>4. QED
      BY <3>1, <3>2, <3>3
  <2>5. Len(w) = 1 => Head(w) = w[Len(w)]
    BY <2>1
  <2>6. QED
    BY <1>3, <2>1, <2>2, <2>3, <2>4, <2>5 DEF S
<1>5. WiresEnd'
  <2>1. DOMAIN wire' = Datagram
    BY <1>1 DEF RInv, WiresEnd
  <2>2. d \notin unsent
    BY <1>1 DEF RInv, WiresEnd, w
  <2>3. \A e \in unsent : wire'[e] = <<>>
    BY <1>1, <2>2 DEF RInv, WiresEnd
  <2>4. QED
    BY <1>1, <1>2, <1>4, <2>1, <2>3 DEF RInv, WiresEnd
<1>6. BuffersAreReturned'
  <2> SUFFICES ASSUME ~wild', NEW i \in Busy'
               PROVE  \E e \in Datagram :
                        /\ IpRecvBuf'[i].id = e.id
                        /\ e \in hit' \/ \E k \in 1 .. Len(wire'[e]) : ~wire'[e][k].mf
    BY DEF BuffersAreReturned
  <2> ~wild
    BY DEF IpRecv
  <2>1. CASE IpRecvBuf'[i].id = d.id
    <3>1. Head(w).mf
      BY <2>1, LastFrees DEF w
    <3>2. d \in hit \/ Len(Tail(w)) \in 1 .. Len(Tail(w))
      <4>1. SUFFICES ASSUME d \notin hit PROVE Len(Tail(w)) \in 1 .. Len(Tail(w))
        OBVIOUS
      <4> DEFINE S == Carried(d)
      <4>2. Tail(w) \in Seq(S) /\ Tail(w) # <<>>
        BY <1>4, <3>1, <4>1
      <4> HIDE DEF S
      <4>3. QED
        BY <4>2
    <3>3. QED
      BY <1>1, <1>2, <1>4, <2>1, <3>1, <3>2
  <2>2. CASE IpRecvBuf'[i].id # d.id
    <3>1. i \in Busy /\ IpRecvBuf'[i].id = IpRecvBuf[i].id
      BY <2>2, RecvIds DEF Busy
    <3>2. PICK e \in Datagram :
            /\ IpRecvBuf[i].id = e.id
            /\ e \in hit \/ \E k \in 1 .. Len(wire[e]) : ~wire[e][k].mf
      BY <3>1 DEF RInv, BuffersAreReturned
    <3>3. QED
      BY <1>1, <1>2, <2>2, <3>1, <3>2
  <2>3. QED
    BY <2>1, <2>2
<1>7. QED
  BY <1>5, <1>6 DEF RInv

LEMMA NextRInv == IInv /\ RInv /\ [Next]_vars => RInv'
<1> SUFFICES ASSUME IInv, RInv, [Next]_vars PROVE RInv'
  OBVIOUS
<1>1. ASSUME NEW d \in Datagram, IpRecv(d) PROVE RInv'
  BY <1>1, RecvRInv
<1>2. ASSUME NEW d \in Datagram, IpSend(d) PROVE RInv'
  <2>1. /\ d \in unsent /\ unsent' = unsent \ {d} /\ wire[d] = <<>>
        /\ wire' = [wire EXCEPT ![d] = Fragments(d)] /\ UNCHANGED <<IpRecvBuf, hit, wild>>
    BY <1>2 DEF IpSend, RInv, WiresEnd
  <2>2. WiresEnd'
    BY <2>1, LastEnds DEF RInv, WiresEnd
  <2>3. \A k \in 1 .. Len(wire[d]) : FALSE
    BY <2>1
  <2>4. BuffersAreReturned'
    BY <2>1, <2>3 DEF RInv, WiresEnd, BuffersAreReturned, Busy
  <2>5. QED
    BY <2>2, <2>4 DEF RInv
<1>3. ASSUME NEW d \in Datagram, Lose(d) \/ Repeat(d) \/ Overtake(d) PROVE RInv'
  <2>1. wire[d] # <<>> /\ \E w : Fault(d, w)
    <3>1. CASE Lose(d)
      BY <3>1 DEF Lose
    <3>2. CASE Repeat(d)
      BY <3>2 DEF Repeat
    <3>3. CASE Overtake(d)
      <4>1. wire[d] # <<>>
        BY <3>3 DEF Overtake
      <4>2. QED
        BY <3>3, <4>1 DEF Overtake
    <3>4. QED
      BY <1>3, <3>1, <3>2, <3>3
  <2>2. /\ hit' = hit \cup {d} /\ UNCHANGED <<IpRecvBuf, unsent, wild>>
        /\ \E w : wire' = [wire EXCEPT ![d] = w]
    BY <2>1 DEF Fault
  <2>3. d \notin unsent
    BY <2>1 DEF RInv, WiresEnd
  <2>4. QED
    BY <2>1, <2>2, <2>3 DEF RInv, WiresEnd, BuffersAreReturned, Busy
<1>4. CASE Tick \/ UNCHANGED vars
  BY <1>4 DEF Tick, vars, RInv, WiresEnd, BuffersAreReturned, Busy
<1>5. QED
  BY <1>1, <1>2, <1>3, <1>4 DEF Next

\* A buffer is held only for a datagram whose last fragment is on its way or that
\* the network has disturbed, whatever the senders and however many buffers.
THEOREM OnlyFaultsCostBuffers == Spec => []BuffersAreReturned
<1>1. Init => RInv
  BY DEF Init, RInv, WiresEnd, BuffersAreReturned, Busy
<1>2. RInv => BuffersAreReturned
  BY DEF RInv
<1>3. QED
  BY <1>1, <1>2, InitIInv, NextIInv, NextRInv, PTL DEF Spec

(* Why nothing is forgotten, as far as it does not need fairness. *)

\* The last fragment of d has yet to be read.
OnItsWay(d) == wire[d] # <<>> /\ ~wire[d][Len(wire[d])].mf

\* Unless the network or a lack of buffers interferes, a datagram that has left in
\* frames is handed up or its last fragment, which IpRecv takes for the whole,
\* is still to come.
NothingForgotten ==
  \A d \in Datagram \ hit :
    Fragments(d) # <<>> =>
      d \in unsent \/ wild \/ OnItsWay(d) \/ \E r \in delivered : r.of = d

NInv == WiresEnd /\ NothingForgotten

LEMMA MoreMeansMore ==
  ASSUME WiresEnd, NEW d \in Datagram \ hit, wire[d] # <<>>, Head(wire[d]).mf
  PROVE  Tail(wire[d]) # <<>>
<1> DEFINE S == Carried(d)
           w == wire[d]
<1>1. w \in Seq(S) /\ w # <<>> /\ ~w[Len(w)].mf /\ Head(w).mf
  BY DEF WiresEnd
<1> HIDE DEF S, w
<1>2. Head(w) = w[1] /\ Len(w) \in Nat /\ Len(w) # 1 /\ Len(w) # 0
  BY <1>1
<1>3. Len(Tail(w)) = Len(w) - 1
  BY <1>1, HeadTailProperties
<1>4. Tail(w) # <<>>
  BY <1>2, <1>3, EmptySeq
<1>5. QED
  BY <1>4 DEF w

LEMMA NextNInv == IInv /\ RInv /\ RInv' /\ NInv /\ [Next]_vars => NInv'
<1> SUFFICES ASSUME IInv, RInv, RInv', NInv, [Next]_vars PROVE NothingForgotten'
  BY DEF RInv, NInv
<1>1. WiresEnd /\ WiresEnd' /\ NothingForgotten
  BY DEF RInv, NInv
<1>2. ASSUME NEW d \in Datagram, IpRecv(d) PROVE NothingForgotten'
  <2>1. /\ wire[d] # <<>> /\ wire' = [wire EXCEPT ![d] = Tail(wire[d])]
        /\ UNCHANGED <<unsent, hit>> /\ delivered \subseteq delivered'
    BY <1>2 DEF IpRecv
  <2>2. wire'[d] = Tail(wire[d]) /\ \A e \in Datagram \ {d} : wire'[e] = wire[e]
    BY <1>1, <2>1 DEF WiresEnd
  <2>3. wild => wild'
    BY <1>2 DEF IpRecv
  <2>4. ASSUME d \notin hit PROVE wild' \/ OnItsWay(d)' \/ \E r \in delivered' : r.of = d
    <3>1. CASE Tail(wire[d]) # <<>>
      BY <1>1, <2>1, <2>2, <2>4, <3>1 DEF WiresEnd, OnItsWay
    <3>2. CASE Tail(wire[d]) = <<>>
      <4>1. ~Head(wire[d]).mf
        BY <1>1, <2>1, <2>4, <3>2, MoreMeansMore
      <4>2. wild' \/ \E data : [of |-> d, data |-> data] \in delivered'
        BY <1>2, <4>1 DEF IpRecv
      <4>3. QED
        BY <4>2
    <3>3. QED
      BY <3>1, <3>2
  <2>5. ASSUME NEW e \in Datagram \ {d} PROVE OnItsWay(e) => OnItsWay(e)'
    BY <2>2 DEF OnItsWay
  <2>6. QED
    BY <1>1, <2>1, <2>3, <2>4, <2>5 DEF NothingForgotten
<1>3. ASSUME NEW d \in Datagram, IpSend(d) PROVE NothingForgotten'
  <2>1. /\ wire'[d] = Fragments(d) /\ \A e \in Datagram \ {d} : wire'[e] = wire[e]
        /\ unsent' = unsent \ {d} /\ UNCHANGED <<hit, delivered, wild>>
    BY <1>1, <1>3 DEF IpSend, WiresEnd
  <2>2. Fragments(d) # <<>> => OnItsWay(d)'
    BY <2>1, LastEnds DEF OnItsWay
  <2>3. ASSUME NEW e \in Datagram \ {d} PROVE OnItsWay(e) => OnItsWay(e)'
    BY <2>1 DEF OnItsWay
  <2>4. QED
    BY <1>1, <2>1, <2>2, <2>3 DEF NothingForgotten
<1>4. ASSUME NEW d \in Datagram, Lose(d) \/ Repeat(d) \/ Overtake(d) PROVE NothingForgotten'
  <2>1. /\ hit' = hit \cup {d} /\ \A e \in Datagram \ {d} : wire'[e] = wire[e]
        /\ UNCHANGED <<unsent, delivered, wild>>
    BY <1>1, <1>4 DEF Lose, Repeat, Overtake, Fault, WiresEnd
  <2>2. ASSUME NEW e \in Datagram \ {d} PROVE OnItsWay(e) => OnItsWay(e)'
    BY <2>1 DEF OnItsWay
  <2>3. QED
    BY <1>1, <2>1, <2>2 DEF NothingForgotten
<1>5. CASE Tick \/ UNCHANGED vars
  BY <1>1, <1>5 DEF Tick, vars, NothingForgotten, OnItsWay
<1>6. QED
  BY <1>2, <1>3, <1>4, <1>5 DEF Next

\* No datagram is forgotten half-way, so with a receiver that goes on reading each
\* is delivered: what EventuallyDelivered adds to this is the fairness.
THEOREM NothingIsForgotten == Spec => []NothingForgotten
<1>1. Init => RInv /\ NInv
  BY DEF Init, RInv, NInv, WiresEnd, BuffersAreReturned, Busy, NothingForgotten
<1>2. NInv => NothingForgotten
  BY DEF NInv
<1>3. QED
  BY <1>1, <1>2, InitIInv, NextIInv, NextRInv, NextNInv, PTL DEF Spec

-----------------------------------------------------------------------------
(* What the fragments of a datagram are. *)

LEMMA PieceArithmetic ==
  ASSUME NEW len \in Nat, NEW k \in 1 .. Pieces(len)
  PROVE  /\ (k - 1) * MaxUnits \in Nat /\ k * MaxUnits \in Nat
         /\ k * MaxUnits = (k - 1) * MaxUnits + MaxUnits
         /\ (k - 1) * MaxUnits < len
         /\ k < Pieces(len) => k * MaxUnits < len
         /\ k = Pieces(len) => k * MaxUnits >= len
<1> DEFINE P == Pieces(len)
           M == MaxUnits
<1>1. M \in Nat /\ M >= 1 /\ P \in Nat /\ k \in Nat /\ k >= 1 /\ k <= P
  BY UnitsAssumption, PiecesAreCounted
<1>2. P * M <= len + M - 1 /\ len + M - 1 < P * M + M
  <2> DEFINE a == len + M - 1
  <2>1. a \in Nat /\ P = a \div M
    BY <1>1 DEF Pieces
  <2> HIDE DEF a, M, P
  <2>2. P * M <= a /\ a < P * M + M
    BY <1>1, <2>1
  <2>3. QED
    BY <2>2 DEF a
<1> HIDE DEF P, M
<1>3. (k - 1) * M \in Nat /\ k * M \in Nat /\ P * M \in Nat
  BY <1>1
<1>4. k * M = (k - 1) * M + M
  BY <1>1
<1>5. k < P => k * M + M <= P * M
  <2> SUFFICES ASSUME k < P PROVE k * M + M <= P * M
    OBVIOUS
  <2>1. k + 1 <= P
    BY <1>1
  <2>2. (k + 1) * M <= P * M
    BY <1>1, <2>1
  <2>3. (k + 1) * M = k * M + M
    BY <1>1
  <2>4. QED
    BY <2>2, <2>3
<1>6. QED
  <2>1. k < P => k * M < len
    BY <1>1, <1>2, <1>3, <1>5
  <2>2. k = P => k * M >= len /\ (k - 1) * M < len
    BY <1>1, <1>2, <1>3, <1>4
  <2>3. k < P => (k - 1) * M < len
    BY <1>1, <1>3, <1>4, <2>1
  <2>4. QED
    BY <1>1, <1>3, <1>4, <2>1, <2>2, <2>3 DEF P, M

LEMMA PieceFacts ==
  ASSUME NEW S, NEW w \in Seq(S), NEW k \in 1 .. Pieces(Len(w))
  PROVE  /\ Piece(w, k) \in Seq(S)
         /\ Len(Piece(w, k)) = IF k < Pieces(Len(w)) THEN MaxUnits
                               ELSE Len(w) - (k - 1) * MaxUnits
         /\ (k - 1) * MaxUnits + Len(Piece(w, k)) <= Len(w)
         /\ \A j \in 1 .. Len(Piece(w, k)) :
              /\ Piece(w, k)[j] = w[(k - 1) * MaxUnits + j]
              /\ (k - 1) * MaxUnits + j \in 1 .. Len(w)
<1> DEFINE L   == Len(w)
           lo  == (k - 1) * MaxUnits
           hi  == k * MaxUnits
           end == IF hi < L THEN hi ELSE L
<1>1. L \in Nat /\ \A i \in 1 .. L : w[i] \in S
  OBVIOUS
<1>2. /\ lo \in Nat /\ hi \in Nat /\ hi = lo + MaxUnits /\ lo < L
      /\ k < Pieces(L) => hi < L
      /\ k = Pieces(L) => hi >= L
  BY <1>1, PieceArithmetic
<1>3. MaxUnits \in Nat /\ MaxUnits >= 1 /\ Pieces(L) \in Nat /\ k \in Nat /\ k <= Pieces(L)
  BY <1>1, UnitsAssumption, PiecesAreCounted
<1>4. Piece(w, k) = SubSeq(w, lo + 1, end)
  BY DEF Piece
<1> HIDE DEF L, lo, hi
<1>5. end \in Nat /\ lo + 1 <= end /\ end <= L
  BY <1>1, <1>2, <1>3
<1>6. end - lo = IF k < Pieces(L) THEN MaxUnits ELSE L - lo
  BY <1>1, <1>2, <1>3
<1> HIDE DEF end
<1>7. /\ SubSeq(w, lo + 1, end) \in Seq(S)
      /\ Len(SubSeq(w, lo + 1, end)) = end - lo
      /\ \A j \in 1 .. end - lo : SubSeq(w, lo + 1, end)[j] = w[lo + j]
  <2>1. lo + 1 \in Int /\ end \in Int /\ \A i \in lo + 1 .. end : w[i] \in S
    BY <1>1, <1>2, <1>5
  <2>2. /\ SubSeq(w, lo + 1, end) \in Seq(S)
        /\ Len(SubSeq(w, lo + 1, end)) = end - (lo + 1) + 1
        /\ \A j \in 1 .. end - (lo + 1) + 1 : SubSeq(w, lo + 1, end)[j] = w[(lo + 1) + j - 1]
    BY <1>5, <2>1, SubSeqProperties
  <2> DEFINE q == SubSeq(w, lo + 1, end)
  <2>3. /\ q \in Seq(S) /\ Len(q) = end - (lo + 1) + 1
        /\ \A j \in 1 .. end - (lo + 1) + 1 : q[j] = w[(lo + 1) + j - 1]
    BY <2>2
  <2> HIDE DEF q
  <2>4. end - (lo + 1) + 1 = end - lo /\ \A j \in Int : (lo + 1) + j - 1 = lo + j
    BY <1>2, <1>5
  <2>5. /\ q \in Seq(S) /\ Len(q) = end - lo
        /\ \A j \in 1 .. end - lo : q[j] = w[lo + j]
    <3>1. \A j \in 1 .. end - lo : (lo + 1) + j - 1 = lo + j
      BY <2>4
    <3>2. 1 .. end - (lo + 1) + 1 = 1 .. end - lo
      BY <2>4
    <3>3. \A j \in 1 .. end - lo : q[j] = w[lo + j]
      BY <2>3, <3>1, <3>2, Zenon
    <3>4. QED
      BY <2>3, <2>4, <3>3, Zenon
  <2>6. QED
    BY <2>5 DEF q
<1>8. lo + (end - lo) <= L /\ \A j \in 1 .. end - lo : lo + j \in 1 .. L
  BY <1>1, <1>2, <1>5
<1>9. QED
  BY <1>4, <1>6, <1>7, <1>8 DEF L, lo

\* A fragment with the data it carries, whichever host sends it.
LEMMA FragmentFacts ==
  ASSUME NEW d \in Datagram, NEW f \in Carried(d)
  PROVE  /\ f.mf \in BOOLEAN /\ f.off \in Nat /\ f.data \in Seq(Unit)
         /\ f.off + Len(f.data) <= d.len
<1> DEFINE w == Whole(d)
           P == Pieces(Len(w))
<1>1. w \in Seq(Unit) /\ Len(w) = d.len /\ d.len \in Nat /\ P \in Nat
  BY WholeIsSeq, PiecesAreCounted
<1>2. \A k \in 1 .. P : /\ (k - 1) * MaxUnits \in Nat /\ Piece(w, k) \in Seq(Unit)
                        /\ (k - 1) * MaxUnits + Len(Piece(w, k)) <= d.len
                        /\ Len(Piece(w, k)) <= d.len
  <2> SUFFICES ASSUME NEW k \in 1 .. P
               PROVE  /\ (k - 1) * MaxUnits \in Nat /\ Piece(w, k) \in Seq(Unit)
                      /\ (k - 1) * MaxUnits + Len(Piece(w, k)) <= d.len
                      /\ Len(Piece(w, k)) <= d.len
    OBVIOUS
  <2> HIDE DEF w
  <2>1. (k - 1) * MaxUnits \in Nat
    BY <1>1, PieceArithmetic
  <2>2. Piece(w, k) \in Seq(Unit) /\ (k - 1) * MaxUnits + Len(Piece(w, k)) <= d.len
    BY <1>1, PieceFacts
  <2>3. QED
    BY <1>1, <2>1, <2>2
<1> HIDE DEF w, P
<1>3. PICK k \in DOMAIN Fragments(d) : f = Fragments(d)[k]
  BY DEF Carried
<1>4. \/ Fragments(d) = <<>>
      \/ Fragments(d) = <<[mf |-> FALSE, off |-> 0, data |-> w]>>
      \/ Fragments(d) = [j \in 1 .. P |->
           [mf |-> j < P, off |-> IF j < P THEN 0 ELSE (j - 1) * MaxUnits, data |-> Piece(w, j)]]
      \/ Fragments(d) = [j \in 1 .. P |->
           [mf |-> j < P, off |-> (j - 1) * MaxUnits, data |-> Piece(w, j)]]
  BY DEF Fragments, IpSendLink, PeerSendLink, w, P
<1>5. CASE Fragments(d) = <<>>
  BY <1>3, <1>5
<1>6. CASE Fragments(d) = <<[mf |-> FALSE, off |-> 0, data |-> w]>>
  <2> DEFINE e == [mf |-> FALSE, off |-> 0, data |-> w]
  <2>1. e.mf \in BOOLEAN /\ e.off = 0 /\ e.data = w
    OBVIOUS
  <2>2. Fragments(d) = <<e>>
    BY <1>6
  <2> HIDE DEF e
  <2>3. f = e
    BY <1>3, <2>2
  <2>4. QED
    BY <1>1, <2>1, <2>3
<1>7. CASE Fragments(d) = [j \in 1 .. P |->
        [mf |-> j < P, off |-> IF j < P THEN 0 ELSE (j - 1) * MaxUnits, data |-> Piece(w, j)]]
  <2>1. k \in 1 .. P /\ f.mf = (k < P) /\ f.data = Piece(w, k)
          /\ f.off = IF k < P THEN 0 ELSE (k - 1) * MaxUnits
    BY <1>3, <1>7
  <2>2. QED
    BY <1>1, <1>2, <2>1
<1>8. CASE Fragments(d) = [j \in 1 .. P |->
        [mf |-> j < P, off |-> (j - 1) * MaxUnits, data |-> Piece(w, j)]]
  <2>1. k \in 1 .. P /\ f.mf = (k < P) /\ f.data = Piece(w, k) /\ f.off = (k - 1) * MaxUnits
    BY <1>3, <1>8
  <2>2. QED
    BY <1>1, <1>2, <2>1
<1>9. QED
  BY <1>4, <1>5, <1>6, <1>7, <1>8

-----------------------------------------------------------------------------
(* Types. *)

Units == Unit \cup {Zero}
Slots == [timestamp : 0 .. MaxClock, id : Id \cup {NoId}, data : [Space -> Units]]

WiresCarry ==
  /\ DOMAIN wire = Datagram
  /\ \A d \in Datagram : wire[d] \in Seq(Carried(d))

TInv == TypeOK /\ WiresCarry

LEMMA CarriedFits ==
  ASSUME NEW d \in Datagram, NEW w \in Seq(Carried(d)), NEW k \in 1 .. Len(w)
  PROVE  w[k].off + Len(w[k].data) <= d.len
<1>1. w[k] \in Carried(d)
  BY ElementOfSeq
<1>2. QED
  BY <1>1, FragmentFacts

LEMMA OverlayType ==
  ASSUME NEW data \in [Space -> Units], NEW d \in Datagram, NEW f \in Carried(d)
  PROVE  Overlay(data, f) \in [Space -> Units]
<1>1. f.off \in Nat /\ f.data \in Seq(Unit)
  BY FragmentFacts
<1>2. ASSUME NEW k \in Space, k \in f.off .. f.off + Len(f.data) - 1
      PROVE  f.data[k - f.off + 1] \in Unit
  <2>1. Len(f.data) \in Nat /\ k \in Int
    BY <1>1 DEF Space
  <2>2. k - f.off + 1 \in 1 .. Len(f.data)
    BY <1>1, <1>2, <2>1
  <2>3. QED
    BY <1>1, <2>2, ElementOfSeq
<1>3. QED
  BY <1>2 DEF Overlay, Units

LEMMA RecvTInv ==
  ASSUME TInv, NEW d \in Datagram, IpRecv(d)
  PROVE  TInv'
<1> DEFINE f    == Head(wire[d])
           no   == IntoNo(d.id)
           slot == Reserve(d.id)
           data == Overlay(slot.data, f)
           got  == [of |-> d, data |-> [k \in 1 .. f.off + Len(f.data) |-> data[k - 1]]]
<1>1. /\ wire[d] \in Seq(Carried(d)) /\ wire[d] # <<>>
      /\ wire' = [wire EXCEPT ![d] = Tail(wire[d])]
      /\ UNCHANGED <<clock, unsent, faults, hit>>
  BY DEF IpRecv, TInv, WiresCarry
<1>2. Tail(wire[d]) \in Seq(Carried(d)) /\ f \in Carried(d)
  BY <1>1, HeadTailProperties
<1>3. WiresCarry'
  BY <1>1, <1>2 DEF TInv, WiresCarry
<1>4. \/ UNCHANGED <<IpRecvBuf, delivered>> /\ wild' = TRUE
      \/ /\ no \in Buf /\ IpRecvBuf' = [IpRecvBuf EXCEPT ![no] = [slot EXCEPT !.data = data]]
         /\ UNCHANGED <<delivered, wild>>
      \/ /\ no \in Buf /\ Fits(f)
         /\ IpRecvBuf' = [IpRecvBuf EXCEPT ![no] = [[slot EXCEPT !.data = data] EXCEPT !.id = NoId]]
         /\ delivered' = delivered \cup {got}
         /\ UNCHANGED wild
  BY DEF IpRecv, Release
<1>5. ASSUME no \in Buf PROVE slot \in Slots
  <2>1. IpRecvBuf[no] \in Slots /\ clock \in 0 .. MaxClock /\ d.id \in Id
    BY <1>5, DatagramAssumption DEF TInv, TypeOK, Slots, Units
  <2>2. slot = [IpRecvBuf[no] EXCEPT !.id = d.id,
                  !.timestamp = IF Held(d.id) # {} THEN IpRecvBuf[no].timestamp ELSE clock]
    BY DEF Reserve
  <2> HIDE DEF no, slot
  <2>3. QED
    BY <2>1, <2>2 DEF Slots
<1>6. ASSUME no \in Buf PROVE data \in [Space -> Units]
  <2>1. slot.data \in [Space -> Units]
    BY <1>5, <1>6 DEF Slots
  <2> HIDE DEF slot, f
  <2>2. QED
    BY <1>2, <2>1, OverlayType
<1>7. ASSUME no \in Buf, Fits(f) PROVE got \in [of : Datagram, data : Seq(Units)]
  <2> DEFINE n == f.off + Len(f.data)
  <2>1. n \in Nat /\ n <= BufUnits
    <3>1. f.off \in Nat /\ f.data \in Seq(Unit)
      BY <1>2, FragmentFacts
    <3>2. QED
      BY <1>7, <3>1 DEF Fits
  <2>2. \A k \in 1 .. n : k - 1 \in Space
    BY <2>1, SizeAssumption DEF Space
  <2> HIDE DEF n, data
  <2>3. [k \in 1 .. n |-> data[k - 1]] \in Seq(Units)
    BY <1>6, <1>7, <2>1, <2>2
  <2>4. QED
    BY <2>3 DEF n
<1> HIDE DEF f, no, slot, data, got
<1>8. IpRecvBuf' \in [Buf -> Slots]
  <2>1. IpRecvBuf \in [Buf -> Slots]
    BY DEF TInv, TypeOK, Slots, Units
  <2>2. no \in Buf => /\ [slot EXCEPT !.data = data] \in Slots
                      /\ [[slot EXCEPT !.data = data] EXCEPT !.id = NoId] \in Slots
    BY <1>5, <1>6 DEF Slots
  <2>3. QED
    BY <1>4, <2>1, <2>2
<1>9. delivered' \subseteq [of : Datagram, data : Seq(Units)]
  BY <1>4, <1>7 DEF TInv, TypeOK, Units
<1>10. \A e \in Datagram : \A k \in 1 .. Len(wire'[e]) :
         wire'[e][k].off + Len(wire'[e][k].data) <= e.len
  BY <1>3, CarriedFits DEF WiresCarry
<1>11. TypeOK'
  BY <1>1, <1>4, <1>8, <1>9, <1>10 DEF TInv, TypeOK, Slots, Units
<1>12. QED
  BY <1>3, <1>11 DEF TInv

LEMMA NextTInv == TInv /\ [Next]_vars => TInv'
<1> SUFFICES ASSUME TInv, [Next]_vars PROVE TInv'
  OBVIOUS
<1>1. ASSUME NEW d \in Datagram, IpRecv(d) PROVE TInv'
  BY <1>1, RecvTInv
<1>2. ASSUME NEW d \in Datagram, IpSend(d) PROVE TInv'
  <2>1. WiresCarry'
    BY <1>2, LastEnds DEF IpSend, TInv, WiresCarry
  <2>2. \A e \in Datagram : \A k \in 1 .. Len(wire'[e]) :
          wire'[e][k].off + Len(wire'[e][k].data) <= e.len
    BY <2>1, CarriedFits DEF WiresCarry
  <2>3. QED
    BY <1>2, <2>1, <2>2 DEF IpSend, TInv, TypeOK
<1>3. ASSUME NEW d \in Datagram, Lose(d) \/ Repeat(d) \/ Overtake(d) PROVE TInv'
  <2>1. PICK w \in Seq(Carried(d)) : Fault(d, w)
    <3>1. wire[d] \in Seq(Carried(d)) /\ (wire[d] = <<>> => Len(wire[d]) = 0)
      BY DEF TInv, WiresCarry
    <3>2. wire[d] # <<>>
      BY <1>3, <3>1 DEF Lose, Repeat, Overtake
    <3>3. QED
      BY <1>3, <3>1, <3>2, FaultsShuffle DEF Lose, Repeat, Overtake
  <2>2. WiresCarry'
    BY <2>1 DEF Fault, TInv, WiresCarry
  <2>3. \A e \in Datagram : \A k \in 1 .. Len(wire'[e]) :
          wire'[e][k].off + Len(wire'[e][k].data) <= e.len
    BY <2>2, CarriedFits DEF WiresCarry
  <2>4. faults' \in 0 .. MaxFaults
    BY <2>1, BoundAssumption DEF Fault, TInv, TypeOK
  <2>5. QED
    BY <2>1, <2>2, <2>3, <2>4 DEF Fault, TInv, TypeOK
<1>4. CASE Tick
  <2>1. clock' \in 0 .. MaxClock
    BY <1>4, BoundAssumption DEF Tick, TInv, TypeOK
  <2>2. QED
    BY <1>4, <2>1 DEF Tick, TInv, TypeOK, WiresCarry
<1>5. CASE UNCHANGED vars
  BY <1>5 DEF vars, TInv, TypeOK, WiresCarry
<1>6. QED
  BY <1>1, <1>2, <1>3, <1>4, <1>5 DEF Next

LEMMA InitTInv == Init => TInv
<1> SUFFICES ASSUME Init PROVE TInv
  OBVIOUS
<1>1. 0 \in 0 .. MaxClock /\ 0 \in 0 .. MaxFaults
  BY BoundAssumption
<1>2. WiresCarry /\ \A d \in Datagram : Len(wire[d]) = 0
  BY EmptySeq DEF Init, WiresCarry
<1>3. IpRecvBuf \in [Buf -> Slots]
  <2>1. [timestamp |-> 0, id |-> NoId, data |-> [k \in Space |-> Zero]] \in Slots
    BY <1>1 DEF Slots, Units
  <2>2. QED
    BY <2>1 DEF Init
<1>4. \A d \in Datagram : \A k \in 1 .. Len(wire[d]) : FALSE
  BY <1>2
<1>5. QED
  BY <1>1, <1>2, <1>3, <1>4 DEF Init, TInv, TypeOK, Slots, Units

\* Whatever the lengths of the datagrams sent, those longer than a buffer among them,
\* the buffers stay arrays of units that some datagram carried, and what is handed up
\* is made of such units and of the zeros the array began with.
THEOREM ReassemblyTypeCorrect == Spec => []TypeOK
<1>1. TInv => TypeOK
  BY DEF TInv
<1>2. QED
  BY <1>1, InitTInv, NextTInv, PTL DEF Spec

-----------------------------------------------------------------------------
(* When IpRecv writes outside its buffers.  Each busy buffer belongs to an   *)
(* occupant of its own, and so does the frame for which there is no buffer.  *)

OccupantsFinite == IsFiniteSet(Occupants)

LEMMA NextFinite == TInv /\ OccupantsFinite /\ [Next]_vars => OccupantsFinite'
<1> SUFFICES ASSUME TInv, OccupantsFinite, [Next]_vars PROVE IsFiniteSet(Occupants')
  BY DEF OccupantsFinite
<1>1. ASSUME NEW d, Occupants' \subseteq Occupants \cup {d} PROVE IsFiniteSet(Occupants')
  BY <1>1, FS_AddElement, FS_Subset DEF OccupantsFinite
<1>2. ASSUME NEW d \in Datagram, hit' \subseteq hit \cup {d},
             \E w : wire' = [wire EXCEPT ![d] = w]
      PROVE  IsFiniteSet(Occupants')
  <2>1. Occupants' \subseteq Occupants \cup {d}
    BY <1>2 DEF TInv, WiresCarry, Occupants
  <2>2. QED
    BY <1>1, <2>1
<1>3. ASSUME NEW d \in Datagram,
             IpSend(d) \/ IpRecv(d) \/ Lose(d) \/ Repeat(d) \/ Overtake(d)
      PROVE  IsFiniteSet(Occupants')
  BY <1>2, <1>3 DEF IpSend, IpRecv, Lose, Repeat, Overtake, Fault
<1>4. CASE Tick \/ UNCHANGED vars
  BY <1>4 DEF Tick, vars, Occupants, OccupantsFinite
<1>5. QED
  BY <1>3, <1>4 DEF Next

\* The last free buffer is one of the free ones.
LEMMA LastFreeIsFree ==
  ASSUME Busy # Buf
  PROVE  (CHOOSE i \in Buf \ Busy : \A j \in Buf \ Busy : j <= i) \in Buf \ Busy
<1> DEFINE Less == {ss \in Nat \X Nat : ss[1] < ss[2]}
           S    == {k \in Nat : IP_RECV_BUF_NO - 1 - k \in Buf \ Busy}
<1>1. IsWellFoundedOn(Less, Nat)
  BY NatLessThanWellFounded DEF OpToRel
<1>2. PICK b \in Buf : b \notin Busy
  BY DEF Busy
<1>3. IP_RECV_BUF_NO \in Nat
  BY SizeAssumption
<1>4. IP_RECV_BUF_NO - 1 - b \in S
  BY <1>2, <1>3 DEF Buf
<1>5. PICK x \in S : \A y \in S : ~ (<<y, x>> \in Less)
  <2> HIDE DEF Less
  <2>1. S \in SUBSET Nat /\ S # {}
    BY <1>4
  <2> HIDE DEF S
  <2>2. QED
    BY <1>1, <2>1, WFMin
<1> DEFINE top == IP_RECV_BUF_NO - 1 - x
<1>6. ASSUME NEW j \in Buf \ Busy PROVE j <= top
  <2>1. IP_RECV_BUF_NO - 1 - j \in S
    BY <1>3, <1>6 DEF Buf
  <2>2. ~ (<<IP_RECV_BUF_NO - 1 - j, x>> \in Less)
    BY <1>5, <2>1
  <2>3. IP_RECV_BUF_NO - 1 - j \in Nat /\ x \in Nat /\ j \in Nat
    BY <2>1 DEF Buf
  <2>4. ~ (IP_RECV_BUF_NO - 1 - j < x)
    BY <2>2, <2>3
  <2>5. QED
    BY <1>3, <2>3, <2>4
<1>7. top \in Buf \ Busy
  BY <1>5
<1>8. QED
  BY <1>6, <1>7

LEMMA WildStep ==
  ASSUME IInv, RInv, TInv, OccupantsFinite, ~wild, NEW d \in Datagram, IpRecv(d), wild'
  PROVE  Cardinality(Occupants) > IP_RECV_BUF_NO \/ d.len > BufUnits
<1>1. /\ wire[d] \in Seq(Carried(d)) /\ wire[d] # <<>>
      /\ IntoNo(d.id) \notin Buf \/ ~Fits(Head(wire[d]))
  BY DEF IpRecv, TInv, WiresCarry
<1>2. CASE ~Fits(Head(wire[d]))
  <2>1. Head(wire[d]) \in Carried(d)
    BY <1>1
  <2>2. /\ Head(wire[d]).off \in Nat /\ Head(wire[d]).data \in Seq(Unit)
        /\ Head(wire[d]).off + Len(Head(wire[d]).data) <= d.len
    BY <2>1, FragmentFacts
  <2>3. d.len \in Nat
    BY WholeIsSeq
  <2> DEFINE n == Head(wire[d]).off + Len(Head(wire[d]).data)
  <2>4. n \in Nat /\ n <= d.len /\ ~(n <= BufUnits)
    BY <1>2, <2>2 DEF Fits
  <2> HIDE DEF n
  <2>5. QED
    BY <2>3, <2>4, SizeAssumption
<1>3. CASE IntoNo(d.id) \notin Buf
  <2>1. Held(d.id) = {}
    <3>1. ASSUME NEW i \in Held(d.id) PROVE FALSE
      BY <1>3, <3>1, IntoNoHeld DEF Held, Busy
    <3>2. QED
      BY <3>1
  <2>2. Busy = Buf
    <3> SUFFICES ASSUME Busy # Buf PROVE FALSE
      OBVIOUS
    <3>1. IntoNo(d.id) \in Buf \ Busy
      BY <2>1, LastFreeIsFree DEF IntoNo
    <3>2. QED
      BY <1>3, <3>1
  <2> DEFINE Owner(i, e) == e \in Occupants /\ IpRecvBuf[i].id = e.id
             owner == [i \in Buf |-> CHOOSE e \in Datagram : Owner(i, e)]
  <2>3. ASSUME NEW i \in Buf PROVE owner[i] \in Occupants \ {d} /\ IpRecvBuf[i].id = owner[i].id
    <3>1. PICK e \in Datagram :
            /\ IpRecvBuf[i].id = e.id
            /\ e \in hit \/ \E k \in 1 .. Len(wire[e]) : ~wire[e][k].mf
      BY <2>2 DEF RInv, BuffersAreReturned
    <3>2. wire[e] = <<>> => \A k \in 1 .. Len(wire[e]) : FALSE
      OBVIOUS
    <3>3. Owner(i, e)
      BY <3>1, <3>2 DEF Occupants
    <3>4. owner[i] \in Datagram /\ Owner(i, owner[i])
      BY <3>3
    <3>5. IpRecvBuf[i].id # d.id
      BY <2>1, <2>2 DEF Held
    <3>6. QED
      BY <3>4, <3>5
  <2>4. owner \in Injection(Buf, Occupants \ {d})
    <3>1. owner \in [Buf -> Occupants \ {d}]
      BY <2>3
    <3>2. ASSUME NEW i \in Buf, NEW j \in Buf, owner[i] = owner[j] PROVE i = j
      <4>1. IpRecvBuf[i].id = IpRecvBuf[j].id
        BY <2>3, <3>2
      <4>2. QED
        BY <2>2, <4>1 DEF IInv, UniqueIds
    <3> HIDE DEF owner
    <3>3. QED
      BY <3>1, <3>2 DEF Injection, IsInjective
  <2> HIDE DEF owner
  <2>5. IsFiniteSet(Buf) /\ Cardinality(Buf) = IP_RECV_BUF_NO
    BY SizeAssumption, FS_Interval DEF Buf
  <2>6. d \in Occupants /\ IsFiniteSet(Occupants) /\ Cardinality(Occupants) \in Nat
    BY <1>1, FS_CardinalityType DEF Occupants, OccupantsFinite
  <2>7. /\ IsFiniteSet(Occupants \ {d})
        /\ Cardinality(Occupants \ {d}) = Cardinality(Occupants) - 1
    BY <2>6, FS_RemoveElement
  <2>8. IP_RECV_BUF_NO <= Cardinality(Occupants) - 1
    BY <2>4, <2>5, <2>7, FS_Injection
  <2>9. QED
    BY <2>6, <2>8, SizeAssumption
<1>4. QED
  BY <1>1, <1>2, <1>3

\* For every traffic: IpRecv writes outside its buffers only on a datagram longer than
\* one of them, or when more datagrams than it has buffers are on their way or have
\* been disturbed.
THEOREM WildWhenCrowded == Spec => WildOnlyWhenCrowded
<1> DEFINE Inv == IInv /\ RInv /\ TInv /\ OccupantsFinite
<1>1. Init => Inv
  <2> SUFFICES ASSUME Init PROVE Inv
    OBVIOUS
  <2>1. RInv
    BY DEF Init, RInv, WiresEnd, BuffersAreReturned, Busy
  <2>2. Occupants = {}
    BY DEF Init, Occupants
  <2>3. OccupantsFinite
    BY <2>2, FS_EmptySet DEF OccupantsFinite
  <2>4. QED
    BY <2>1, <2>3, InitIInv, InitTInv
<1>2. Inv /\ [Next]_vars => Inv'
  BY NextIInv, NextRInv, NextTInv, NextFinite
<1>3. Inv /\ [Next]_vars =>
        [~wild /\ wild' =>
           \/ Cardinality(Occupants) > IP_RECV_BUF_NO
           \/ \E d \in Datagram : IpRecv(d) /\ d.len > BufUnits]_vars
  <2> SUFFICES ASSUME Inv, Next, ~wild, wild'
               PROVE  \/ Cardinality(Occupants) > IP_RECV_BUF_NO
                      \/ \E d \in Datagram : IpRecv(d) /\ d.len > BufUnits
    OBVIOUS
  <2>1. PICK d \in Datagram : IpRecv(d)
    BY DEF Next, IpSend, Lose, Repeat, Overtake, Fault, Tick
  <2>2. QED
    BY <2>1, WildStep
<1>4. QED
  BY <1>1, <1>2, <1>3, PTL DEF Spec, WildOnlyWhenCrowded

-----------------------------------------------------------------------------
(* IpReassembly implements Delivery, as long as datagrams do not share an  *)
(* identification, none is cut by IpSendLink into more than two fragments, *)
(* and the scan for the oldest buffer finds none (the recorded build).     *)

DistinctIds == \A d, e \in Datagram : d.id = e.id => d = e
ShortOwn    == \A d \in Datagram : d.own => d.len <= 2 * MaxUnits
NoEviction  == OldestInit <= 0

\* Each fragment continues the one before it.
LEMMA FragmentsAscend ==
  ASSUME NEW d \in Datagram, d.own => d.len <= 2 * MaxUnits,
         NEW k \in 1 .. Len(Fragments(d))
  PROVE  LET F == Fragments(d) IN
         /\ F[k].mf = (k < Len(F))
         /\ \A j \in 1 .. Len(F[k].data) : F[k].data[j] = <<d.name, F[k].off + j>>
         /\ F[1].off = 0
         /\ k < Len(F) => F[k + 1].off = F[k].off + Len(F[k].data)
         /\ k = Len(F) => F[k].off + Len(F[k].data) = d.len
<1> DEFINE F == Fragments(d)
           w == Whole(d)
           P == Pieces(Len(w))
           e == [mf |-> FALSE, off |-> 0, data |-> w]
<1>1. /\ w \in Seq(Unit) /\ Len(w) = d.len /\ d.len \in Nat /\ P \in Nat
      /\ MaxUnits \in Nat /\ MaxUnits >= 1
  <2>1. w \in Seq(Unit) /\ Len(w) = d.len /\ d.len \in Nat
    BY WholeIsSeq
  <2>2. P \in Nat
    BY <2>1, PiecesAreCounted
  <2>3. QED
    BY <2>1, <2>2, UnitsAssumption
<1>2. \A j \in 1 .. d.len : w[j] = <<d.name, j>>
  BY DEF Whole
<1>3. \A j \in 1 .. P :
        /\ (j - 1) * MaxUnits \in Nat /\ j * MaxUnits = (j - 1) * MaxUnits + MaxUnits
        /\ (j - 1) * MaxUnits < d.len
  <2> HIDE DEF w
  <2> QED BY <1>1, PieceArithmetic
<1>4. \A j \in 1 .. P :
        /\ Len(Piece(w, j)) = IF j < P THEN MaxUnits ELSE d.len - (j - 1) * MaxUnits
        /\ \A i \in 1 .. Len(Piece(w, j)) :
             Piece(w, j)[i] = <<d.name, (j - 1) * MaxUnits + i>>
  <2> SUFFICES ASSUME NEW j \in 1 .. P
               PROVE  /\ Len(Piece(w, j)) = IF j < P THEN MaxUnits
                                            ELSE d.len - (j - 1) * MaxUnits
                      /\ \A i \in 1 .. Len(Piece(w, j)) :
                           Piece(w, j)[i] = <<d.name, (j - 1) * MaxUnits + i>>
    OBVIOUS
  <2> HIDE DEF w
  <2>1. /\ Len(Piece(w, j)) = IF j < P THEN MaxUnits ELSE Len(w) - (j - 1) * MaxUnits
        /\ \A i \in 1 .. Len(Piece(w, j)) :
              /\ Piece(w, j)[i] = w[(j - 1) * MaxUnits + i]
              /\ (j - 1) * MaxUnits + i \in 1 .. Len(w)
    BY <1>1, PieceFacts
  <2>2. QED
    BY <1>1, <1>2, <2>1
<1> HIDE DEF w, P
<1>5. \/ F = <<>> \/ F = <<e>>
      \/ F = [j \in 1 .. P |->
                [mf |-> j < P, off |-> (j - 1) * MaxUnits, data |-> Piece(w, j)]]
  <2>1. CASE d.own /\ ~d.df
    <3>1. F = [j \in 1 .. P |->
                 [mf |-> j < P, off |-> IF j < P THEN 0 ELSE (j - 1) * MaxUnits,
                  data |-> Piece(w, j)]]
      BY <2>1 DEF Fragments, IpSendLink, w, P
    <3>2. \A j \in 1 .. P : (IF j < P THEN 0 ELSE (j - 1) * MaxUnits) = (j - 1) * MaxUnits
      <4> SUFFICES ASSUME NEW j \in 1 .. P, j < P PROVE 0 = (j - 1) * MaxUnits
        OBVIOUS
      <4>1. P >= 3 => 3 \in 1 .. P
        BY <1>1
      <4>2. ~(P >= 3)
        <5>1. P >= 3 => (3 - 1) * MaxUnits < d.len
          BY <1>3, <4>1
        <5>2. (3 - 1) * MaxUnits = 2 * MaxUnits /\ 2 * MaxUnits \in Nat /\ d.len <= 2 * MaxUnits
          BY <1>1, <2>1
        <5> HIDE DEF e
        <5>3. QED
          BY <1>1, <5>1, <5>2
      <4>3. j = 1
        BY <1>1, <4>2
      <4>4. QED
        BY <1>1, <4>3
    <3>3. QED
      BY <3>1, <3>2
  <2>2. CASE d.own /\ d.df
    BY <2>2 DEF Fragments, IpSendLink, w
  <2>3. CASE ~d.own
    BY <2>3 DEF Fragments, PeerSendLink, w, P
  <2>4. QED
    BY <2>1, <2>2, <2>3
<1>6. CASE F = <<>>
  <2>1. Len(F) = 0
    BY <1>6
  <2>2. QED
    BY <2>1
<1>7. CASE F = <<e>>
  <2>1. e.mf = FALSE /\ e.off = 0 /\ e.data = w
    OBVIOUS
  <2> HIDE DEF e
  <2>2. Len(F) = 1 /\ F[1] = e
    BY <1>7
  <2>3. k = 1
    BY <2>2
  <2> HIDE DEF F
  <2>4. \A j \in 1 .. Len(w) : w[j] = <<d.name, 0 + j>>
    BY <1>1, <1>2
  <2>5. F[k] = e /\ ~(k < Len(F)) /\ 0 + Len(e.data) = d.len
    BY <1>1, <2>1, <2>2, <2>3
  <2>6. F[k].mf = (k < Len(F)) /\ F[1].off = 0 /\ F[k].off + Len(F[k].data) = d.len
    <3>1. (k < Len(F)) = FALSE
      BY <2>5
    <3>2. F[k].mf = FALSE /\ F[1].off = 0 /\ F[k].off = 0
      BY <2>1, <2>2, <2>5
    <3>3. F[k].off + Len(F[k].data) = d.len
      BY <2>5, <3>2
    <3>4. QED
      BY <3>1, <3>2, <3>3, Zenon
  <2>7. \A j \in 1 .. Len(F[k].data) : F[k].data[j] = <<d.name, F[k].off + j>>
    BY <2>1, <2>4, <2>5
  <2>8. QED
    BY <2>5, <2>6, <2>7 DEF F
<1>8. CASE F = [j \in 1 .. P |->
                  [mf |-> j < P, off |-> (j - 1) * MaxUnits, data |-> Piece(w, j)]]
  <2>1. Len(F) = P
    BY <1>1, <1>8
  <2>2. \A j \in 1 .. P : /\ F[j].mf = (j < P) /\ F[j].off = (j - 1) * MaxUnits
                          /\ F[j].data = Piece(w, j)
    BY <1>8
  <2>3. k \in 1 .. P /\ 1 \in 1 .. P /\ (1 - 1) * MaxUnits = 0
    <3>1. k \in 1 .. Len(F)
      OBVIOUS
    <3> HIDE DEF F, e
    <3>2. k \in 1 .. P
      BY <2>1, <3>1
    <3>3. QED
      BY <1>1, <3>2
  <2> HIDE DEF F
  <2>4. \A j \in 1 .. Len(F[k].data) : F[k].data[j] = <<d.name, F[k].off + j>>
    BY <1>4, <2>2, <2>3
  <2>5. ASSUME k < P PROVE F[k + 1].off = F[k].off + Len(F[k].data)
    <3>1. k + 1 \in 1 .. P /\ (k + 1) - 1 = k
      BY <1>1, <2>3, <2>5
    <3>2. F[k + 1].off = k * MaxUnits
      BY <2>2, <3>1
    <3>3. Len(F[k].data) = MaxUnits /\ F[k].off = (k - 1) * MaxUnits
      BY <1>4, <2>2, <2>3, <2>5
    <3>4. QED
      BY <1>3, <2>3, <3>2, <3>3
  <2>6. ASSUME k = P PROVE F[k].off + Len(F[k].data) = d.len
    <3>1. Len(F[k].data) = d.len - (k - 1) * MaxUnits /\ F[k].off = (k - 1) * MaxUnits
      BY <1>1, <1>4, <2>2, <2>3, <2>6
    <3>2. QED
      BY <1>1, <1>3, <2>3, <3>1
  <2>7. QED
    BY <2>1, <2>2, <2>3, <2>4, <2>5, <2>6 DEF F
<1>9. QED
  BY <1>5, <1>6, <1>7, <1>8

\* How many fragments of d have arrived.
Arrived(d) == Len(Fragments(d)) - Len(wire[d])

\* A buffer holds the first n units of d.
Gathered(d, n) ==
  \E i \in Busy : /\ IpRecvBuf[i].id = d.id
                  /\ \A k \in 0 .. n - 1 : IpRecvBuf[i].data[k] = <<d.name, k + 1>>

\* The fragments of a datagram the network has not touched arrive in order, and
\* what has arrived is in a buffer.
Undisturbed(d) ==
  /\ Len(wire[d]) <= Len(Fragments(d))
  /\ \A j \in 1 .. Len(wire[d]) : wire[d][j] = Fragments(d)[Arrived(d) + j]
  /\ wire[d] # <<>> /\ Arrived(d) > 0 => Gathered(d, Head(wire[d]).off)

\* After a write through IpRecvBuf[-1] nothing runs any more.
CInv == wild \/ \A d \in Datagram \ hit : Undisturbed(d)

\* Without evictions a frame touches no buffer that is held for another datagram.
LEMMA OthersUntouched ==
  ASSUME NoEviction, IInv, TypeOK, NEW d \in Datagram, IpRecv(d),
         NEW i \in Busy, IpRecvBuf[i].id # d.id
  PROVE  IpRecvBuf'[i] = IpRecvBuf[i]
<1> DEFINE no == IntoNo(d.id)
<1>1. no \in Buf => no # i
  <2>1. CASE Held(d.id) # {}
    BY <2>1, IntoNoHeld DEF Held
  <2>2. CASE Held(d.id) = {} /\ Busy # Buf
    BY <2>2, LastFreeIsFree DEF IntoNo
  <2>3. CASE Held(d.id) = {} /\ Busy = Buf
    <3>1. \A j \in Busy : ~(IpRecvBuf[j].timestamp < OldestInit)
      <4> SUFFICES ASSUME NEW j \in Busy PROVE ~(IpRecvBuf[j].timestamp < OldestInit)
        OBVIOUS
      <4>1. IpRecvBuf[j].timestamp \in Nat
        BY BoundAssumption DEF TypeOK, Busy
      <4>2. QED
        BY <4>1, BoundAssumption DEF NoEviction
    <3>2. no = -1
      BY <2>3, <3>1 DEF IntoNo, OldestNo
    <3>3. QED
      BY <3>2 DEF Buf
  <2>4. QED
    BY <2>1, <2>2, <2>3
<1>2. UNCHANGED IpRecvBuf \/ (no \in Buf /\ \E b : IpRecvBuf' = [IpRecvBuf EXCEPT ![no] = b])
  BY DEF IpRecv
<1> HIDE DEF no
<1>3. QED
  BY <1>1, <1>2 DEF Busy, TypeOK

\* What is in the buffer once the next fragment of d has been copied.
LEMMA NextFragmentFits ==
  ASSUME ShortOwn, IInv, TInv, NEW d \in Datagram, IpRecv(d), Undisturbed(d),
         IntoNo(d.id) \in Buf, Fits(Head(wire[d]))
  PROVE  LET f    == Head(wire[d])
             data == Overlay(Reserve(d.id).data, f)
         IN  \A k \in 0 .. f.off + Len(f.data) - 1 : data[k] = <<d.name, k + 1>>
<1> DEFINE F    == Fragments(d)
           w    == wire[d]
           c    == Arrived(d)
           f    == Head(w)
           old  == Reserve(d.id).data
           data == Overlay(old, f)
<1>1. w \in Seq(Carried(d)) /\ w # <<>> /\ Len(w) \in Nat /\ Len(w) >= 1
  <2>1. w \in Seq(Carried(d)) /\ w # <<>>
    BY DEF IpRecv, TInv, WiresCarry
  <2> HIDE DEF w
  <2>2. QED
    BY <2>1, EmptySeq
<1>2. Len(F) \in Nat /\ c = Len(F) - Len(w) /\ Len(w) <= Len(F)
  <2>1. F \in Seq(Carried(d))
    BY LastEnds
  <2> HIDE DEF F
  <2>2. QED
    BY <2>1 DEF Arrived, Undisturbed, F
<1>3. c + 1 \in 1 .. Len(F) /\ f = F[c + 1]
  <2>1. c + 1 \in 1 .. Len(F)
    BY <1>1, <1>2
  <2>2. w[1] = F[c + 1]
    BY <1>1 DEF Undisturbed
  <2>3. QED
    BY <1>1, <2>1, <2>2
<1>4. f \in Carried(d)
  BY <1>1, HeadTailProperties
<1>5. f.off \in Nat /\ Len(f.data) \in Nat /\ f.off + Len(f.data) <= BufUnits
  <2>1. f.off \in Nat /\ f.data \in Seq(Unit) /\ Fits(f)
    BY <1>4, FragmentFacts
  <2> HIDE DEF f
  <2>2. QED
    BY <2>1 DEF Fits
<1>6. /\ \A j \in 1 .. Len(f.data) : f.data[j] = <<d.name, f.off + j>>
      /\ c = 0 => f.off = 0
  <2>1. d.own => d.len <= 2 * MaxUnits
    BY DEF ShortOwn
  <2>2. /\ \A j \in 1 .. Len(F[c + 1].data) : F[c + 1].data[j] = <<d.name, F[c + 1].off + j>>
        /\ F[1].off = 0
    BY <1>3, <2>1, FragmentsAscend
  <2>3. QED
    BY <1>3, <2>2
<1>7. \A k \in 0 .. f.off - 1 : old[k] = <<d.name, k + 1>>
  <2>1. CASE c = 0
    BY <1>6, <2>1
  <2>2. CASE c > 0
    <3>1. PICK i \in Busy :
            /\ IpRecvBuf[i].id = d.id
            /\ \A k \in 0 .. f.off - 1 : IpRecvBuf[i].data[k] = <<d.name, k + 1>>
      BY <1>1, <2>2 DEF Undisturbed, Gathered
    <3>2. IntoNo(d.id) = i
      BY <3>1, IntoNoHeld
    <3>3. old = IpRecvBuf[i].data
      BY <3>2 DEF Reserve, Busy, TInv, TypeOK
    <3>4. QED
      BY <3>1, <3>3
  <2>3. QED
    BY <1>1, <1>2, <2>1, <2>2
<1> HIDE DEF f, old
<1>8. ASSUME NEW k \in 0 .. f.off + Len(f.data) - 1 PROVE data[k] = <<d.name, k + 1>>
  <2>1. k \in Space /\ k \in Nat
    BY <1>5, SizeAssumption DEF Space
  <2>2. CASE k < f.off
    <3>1. k \notin f.off .. f.off + Len(f.data) - 1 /\ k \in 0 .. f.off - 1
      BY <1>5, <2>1, <2>2
    <3>2. QED
      BY <1>7, <2>1, <3>1 DEF Overlay
  <2>3. CASE k >= f.off
    <3>1. k \in f.off .. f.off + Len(f.data) - 1 /\ k - f.off + 1 \in 1 .. Len(f.data)
      BY <1>5, <2>1, <2>3
    <3>2. data[k] = f.data[k - f.off + 1]
      BY <2>1, <3>1 DEF Overlay
    <3>3. f.off + (k - f.off + 1) = k + 1
      BY <1>5, <2>1
    <3>4. QED
      BY <1>6, <3>1, <3>2, <3>3
  <2>4. QED
    BY <1>5, <2>1, <2>2, <2>3
<1>9. QED
  BY <1>8 DEF f, old

LEMMA RecvCInv ==
  ASSUME NoEviction, ShortOwn, DistinctIds, IInv, TInv, CInv, ~wild,
         NEW d \in Datagram, IpRecv(d)
  PROVE  CInv'
<1> DEFINE F    == Fragments(d)
           w    == wire[d]
           u    == Tail(w)
           f    == Head(w)
           no   == IntoNo(d.id)
           slot == Reserve(d.id)
           data == Overlay(slot.data, f)
<1>1. CASE no \notin Buf \/ ~Fits(f)
  BY <1>1 DEF IpRecv, CInv
<1>2. CASE no \in Buf /\ Fits(f)
  <2> SUFFICES ASSUME NEW e \in Datagram, e \notin hit' PROVE Undisturbed(e)'
    BY DEF CInv
  <2>1. /\ wire' = [wire EXCEPT ![d] = u] /\ hit' = hit /\ w # <<>>
        /\ w \in Seq(Carried(d)) /\ wire'[d] = u
    BY DEF IpRecv, TInv, WiresCarry
  <2>2. Undisturbed(e)
    BY <2>1 DEF CInv
  <2>3. CASE e # d
    <3>1. wire'[e] = wire[e]
      BY <2>1, <2>3 DEF TInv, WiresCarry
    <3>2. \A n : Gathered(e, n) => Gathered(e, n)'
      <4> SUFFICES ASSUME NEW n, NEW i \in Busy, IpRecvBuf[i].id = e.id,
                          \A k \in 0 .. n - 1 : IpRecvBuf[i].data[k] = <<e.name, k + 1>>
                   PROVE  Gathered(e, n)'
        BY DEF Gathered
      <4>1. IpRecvBuf[i].id # d.id
        BY <2>3 DEF DistinctIds
      <4>2. IpRecvBuf'[i] = IpRecvBuf[i]
        BY <4>1, OthersUntouched DEF TInv
      <4>3. QED
        BY <4>2 DEF Gathered, Busy
    <3>3. QED
      BY <2>2, <3>1, <3>2 DEF Undisturbed, Arrived
  <2>4. CASE e = d
    <3> DEFINE c == Arrived(d)
    <3>1. /\ Len(w) \in Nat /\ Len(w) >= 1 /\ Len(F) \in Nat
          /\ c = Len(F) - Len(w) /\ Len(w) <= Len(F)
          /\ \A j \in 1 .. Len(w) : w[j] = F[c + j]
      <4>1. Undisturbed(d)
        BY <2>2, <2>4
      <4>2. F \in Seq(Carried(d))
        BY LastEnds
      <4>3. /\ c = Len(F) - Len(w) /\ Len(w) <= Len(F)
            /\ \A j \in 1 .. Len(w) : w[j] = F[c + j]
        BY <4>1 DEF Undisturbed, Arrived
      <4> HIDE DEF F, w
      <4>4. Len(w) \in Nat /\ Len(w) >= 1 /\ Len(F) \in Nat
        BY <2>1, <4>2, EmptySeq
      <4>5. QED
        BY <4>3, <4>4
    <3>2. /\ u \in Seq(Carried(d)) /\ Len(u) = Len(w) - 1
          /\ \A j \in 1 .. Len(u) : u[j] = w[j + 1]
      BY <2>1, HeadTailProperties
    <3>3. f = w[1]
      BY <2>1, <3>1
    <3>4. Arrived(d)' = c + 1
      <4>1. Arrived(d)' = Len(F) - Len(u)
        BY <2>1 DEF Arrived
      <4> HIDE DEF u, F, w, c
      <4>2. QED
        BY <3>1, <3>2, <4>1
    <3> HIDE DEF u, F, w, c, f
    <3>5. \A j \in 1 .. Len(u) : u[j] = F[(c + 1) + j]
      <4> SUFFICES ASSUME NEW j \in 1 .. Len(u) PROVE u[j] = F[(c + 1) + j]
        OBVIOUS
      <4>1. j + 1 \in 1 .. Len(w) /\ c + (j + 1) = (c + 1) + j
        BY <3>1, <3>2
      <4>2. QED
        BY <3>1, <3>2, <4>1
    <3>6. ASSUME u # <<>>, NEW n, n = Head(u).off PROVE Gathered(d, n)'
      <4>1. Len(u) \in Nat /\ Len(u) >= 1 /\ Head(u) = u[1]
        BY <3>2, <3>6, EmptySeq
      <4>2. c + 1 \in 1 .. Len(F) /\ c + 1 < Len(F) /\ f = F[c + 1] /\ Head(u) = F[(c + 1) + 1]
        BY <3>1, <3>2, <3>3, <3>5, <4>1
      <4>3. f.mf = TRUE /\ Head(u).off = f.off + Len(f.data)
        <5>1. d.own => d.len <= 2 * MaxUnits
          BY DEF ShortOwn
        <5>2. /\ F[c + 1].mf = (c + 1 < Len(F))
              /\ F[(c + 1) + 1].off = F[c + 1].off + Len(F[c + 1].data)
          BY <4>2, <5>1, FragmentsAscend DEF F
        <5>3. (c + 1 < Len(F)) = TRUE
          BY <4>2
        <5>4. QED
          BY <4>2, <5>2, <5>3
      <4>4. IpRecvBuf' = [IpRecvBuf EXCEPT ![no] = [slot EXCEPT !.data = data]]
        BY <1>2, <4>3 DEF IpRecv, f, w
      <4>5. slot \in Slots /\ slot.id = d.id
        <5>1. IpRecvBuf[no] \in Slots /\ clock \in 0 .. MaxClock /\ d.id \in Id
          BY <1>2, DatagramAssumption DEF TInv, TypeOK, Slots, Units
        <5>2. slot = [IpRecvBuf[no] EXCEPT !.id = d.id,
                        !.timestamp = IF Held(d.id) # {} THEN IpRecvBuf[no].timestamp ELSE clock]
          BY DEF Reserve
        <5> HIDE DEF no, slot
        <5>3. QED
          BY <5>1, <5>2 DEF Slots
      <4>6. \A k \in 0 .. f.off + Len(f.data) - 1 : data[k] = <<d.name, k + 1>>
        BY <1>2, <2>2, <2>4, NextFragmentFits DEF f, w
      <4> HIDE DEF no, slot, data
      <4>7. IpRecvBuf'[no].id = d.id /\ IpRecvBuf'[no].data = data
        BY <1>2, <4>4, <4>5 DEF TInv, TypeOK, Slots
      <4>8. no \in Busy'
        <5>1. d.id # NoId
          BY DatagramAssumption, IdAssumption
        <5>2. QED
          BY <1>2, <4>7, <5>1 DEF Busy
      <4>9. \A k \in 0 .. n - 1 : IpRecvBuf'[no].data[k] = <<d.name, k + 1>>
        <5>1. n = f.off + Len(f.data)
          BY <3>6, <4>3
        <5>2. f.off \in Nat /\ Len(f.data) \in Nat
          <6>1. f \in Carried(d)
            BY <2>1, HeadTailProperties DEF f
          <6>2. f.off \in Nat /\ f.data \in Seq(Unit)
            BY <6>1, FragmentFacts
          <6>3. QED
            BY <6>2
        <5>3. n - 1 = f.off + Len(f.data) - 1
          BY <5>1, <5>2
        <5>4. QED
          BY <4>6, <4>7, <5>3
      <4>10. QED
        BY <4>7, <4>8, <4>9 DEF Gathered
    <3>7. Len(u) <= Len(F)
      BY <3>1, <3>2
    <3>8. Undisturbed(d)'
      <4>1. Len(wire'[d]) <= Len(F) /\ \A j \in 1 .. Len(wire'[d]) : wire'[d][j] = F[Arrived(d)' + j]
        BY <2>1, <3>4, <3>5, <3>7
      <4>2. ASSUME wire'[d] # <<>>, NEW n, n = Head(wire'[d]).off PROVE Gathered(d, n)'
        BY <2>1, <3>6, <4>2
      <4>3. QED
        BY <4>1, <4>2 DEF Undisturbed, F
    <3>9. QED
      BY <2>4, <3>8
  <2>5. QED
    BY <2>3, <2>4
<1>3. QED
  BY <1>1, <1>2

LEMMA UndisturbedStays ==
  ASSUME NEW e \in Datagram, wire'[e] = wire[e], UNCHANGED IpRecvBuf, Undisturbed(e)
  PROVE  Undisturbed(e)'
<1>1. Arrived(e)' = Arrived(e)
  BY DEF Arrived
<1>2. \A n : Gathered(e, n) => Gathered(e, n)'
  BY DEF Gathered, Busy
<1>3. QED
  BY <1>1, <1>2 DEF Undisturbed

LEMMA NextCInv ==
  ASSUME NoEviction, ShortOwn, DistinctIds, IInv, TInv, RInv, CInv, [Next]_vars
  PROVE  CInv'
<1>1. ASSUME ~wild, NEW d \in Datagram, IpRecv(d) PROVE CInv'
  BY <1>1, RecvCInv
<1>2. ASSUME ~wild, NEW d \in Datagram, IpSend(d) PROVE CInv'
  <2> SUFFICES ASSUME NEW e \in Datagram, e \notin hit' PROVE Undisturbed(e)'
    BY DEF CInv
  <2>1. wire' = [wire EXCEPT ![d] = Fragments(d)] /\ UNCHANGED <<IpRecvBuf, hit>>
    BY <1>2 DEF IpSend
  <2>2. Undisturbed(e)
    BY <1>2, <2>1 DEF CInv
  <2>3. CASE e # d
    BY <2>1, <2>2, <2>3, UndisturbedStays DEF TInv, WiresCarry
  <2>4. CASE e = d
    <3> DEFINE F == Fragments(d)
    <3>1. F \in Seq(Carried(d))
      BY LastEnds
    <3>2. wire'[d] = F
      BY <2>1 DEF TInv, WiresCarry
    <3> HIDE DEF F
    <3>3. Len(F) \in Nat /\ Len(F) - Len(F) = 0 /\ \A j \in 1 .. Len(F) : 0 + j = j
      BY <3>1
    <3>4. Arrived(d)' = 0
      BY <3>2, <3>3 DEF Arrived, F
    <3>5. QED
      BY <2>4, <3>2, <3>3, <3>4 DEF Undisturbed, F
  <2>5. QED
    BY <2>3, <2>4
<1>3. ASSUME ~wild, NEW d \in Datagram, Lose(d) \/ Repeat(d) \/ Overtake(d) PROVE CInv'
  <2>1. /\ hit' = hit \cup {d} /\ UNCHANGED <<IpRecvBuf, wild>>
        /\ \E x : wire' = [wire EXCEPT ![d] = x]
    BY <1>3 DEF Lose, Repeat, Overtake, Fault
  <2>2. \A e \in Datagram \ hit' : wire'[e] = wire[e]
    BY <2>1 DEF TInv, WiresCarry
  <2>3. QED
    BY <1>3, <2>1, <2>2, UndisturbedStays DEF CInv
<1>4. CASE UNCHANGED <<IpRecvBuf, wire, hit, wild>>
  BY <1>4, UndisturbedStays DEF CInv
<1>5. QED
  BY <1>1, <1>2, <1>3, <1>4 DEF Next, Tick, vars

\* The last fragment of a datagram the network has not touched makes it whole.
LEMMA RecvDelivers ==
  ASSUME NoEviction, ShortOwn, DistinctIds, IInv, TInv, CInv, ~wild,
         NEW d \in Datagram \ hit, IpRecv(d), IntoNo(d.id) \in Buf, Fits(Head(wire[d])),
         ~Head(wire[d]).mf
  PROVE  LET f    == Head(wire[d])
             data == Overlay(Reserve(d.id).data, f)
         IN  [k \in 1 .. f.off + Len(f.data) |-> data[k - 1]] = Whole(d)
<1> DEFINE F    == Fragments(d)
           w    == wire[d]
           c    == Arrived(d)
           f    == Head(w)
           data == Overlay(Reserve(d.id).data, f)
<1>1. Undisturbed(d) /\ w \in Seq(Carried(d)) /\ w # <<>>
  BY DEF CInv, IpRecv, TInv, WiresCarry
<1>2. F \in Seq(Carried(d)) /\ c = Len(F) - Len(w) /\ Len(w) <= Len(F)
        /\ \A j \in 1 .. Len(w) : w[j] = F[c + j]
  BY <1>1, LastEnds DEF Undisturbed, Arrived
<1>3. \A k \in 0 .. f.off + Len(f.data) - 1 : data[k] = <<d.name, k + 1>>
  BY <1>1, NextFragmentFits
<1>4. ~f.mf /\ f \in Carried(d)
  BY <1>1, HeadTailProperties
<1> HIDE DEF F, w, c
<1>5. /\ c + 1 \in 1 .. Len(F) /\ f = F[c + 1]
      /\ f.off \in Nat /\ Len(f.data) \in Nat
  <2>1. c + 1 \in 1 .. Len(F) /\ f = F[c + 1]
    BY <1>1, <1>2, EmptySeq
  <2>2. f.off \in Nat /\ f.data \in Seq(Unit)
    BY <1>4, FragmentFacts
  <2> HIDE DEF f
  <2>3. QED
    BY <2>1, <2>2
<1>6. f.off + Len(f.data) = d.len
  <2>1. d.own => d.len <= 2 * MaxUnits
    BY DEF ShortOwn
  <2>2. /\ F[c + 1].mf = (c + 1 < Len(F))
        /\ c + 1 = Len(F) => F[c + 1].off + Len(F[c + 1].data) = d.len
    BY <1>5, <2>1, FragmentsAscend DEF F
  <2>3. c + 1 = Len(F)
    <3>1. ~(c + 1 < Len(F))
      BY <1>4, <1>5, <2>2
    <3>2. Len(F) \in Nat /\ c + 1 \in Int
      BY <1>2, <1>5
    <3>3. QED
      BY <1>5, <3>1, <3>2
  <2>4. QED
    BY <1>5, <2>2, <2>3
<1> HIDE DEF f, data
<1>7. \A k \in 1 .. d.len : data[k - 1] = <<d.name, k>>
  <2> SUFFICES ASSUME NEW k \in 1 .. d.len PROVE data[k - 1] = <<d.name, k>>
    OBVIOUS
  <2>1. d.len \in Nat
    BY WholeIsSeq
  <2>2. k - 1 \in 0 .. f.off + Len(f.data) - 1 /\ (k - 1) + 1 = k
    <3>1. k - 1 \in 0 .. d.len - 1 /\ (k - 1) + 1 = k
      BY <2>1
    <3>2. f.off + Len(f.data) - 1 = d.len - 1
      BY <1>5, <1>6, <2>1
    <3>3. QED
      BY <3>1, <3>2
  <2>3. data[k - 1] = <<d.name, (k - 1) + 1>>
    BY <1>3, <2>2, Zenon DEF f, data, w
  <2>4. QED
    BY <2>2, <2>3
<1>8. QED
  BY <1>6, <1>7 DEF Whole, f, data, w

LEMMA InitService == Init => Service!Init
  BY DEF Init, Service!Init

LEMMA NextService ==
  ASSUME NoEviction, ShortOwn, DistinctIds, IInv, SInv, SInv', TInv, RInv, CInv,
         [Next]_vars
  PROVE  [Service!Next]_<<Datagram \ unsent, hit, delivered>>
<1>1. ASSUME ~wild, NEW d \in Datagram, IpRecv(d)
      PROVE  Service!Receive(d) \/ UNCHANGED <<Datagram \ unsent, hit, delivered>>
  <2> DEFINE f    == Head(wire[d])
             data == Overlay(Reserve(d.id).data, f)
             got  == [of |-> d, data |-> [k \in 1 .. f.off + Len(f.data) |-> data[k - 1]]]
  <2>1. UNCHANGED <<unsent, hit>>
    BY <1>1 DEF IpRecv
  <2>2. CASE UNCHANGED delivered
    BY <2>1, <2>2
  <2>3. CASE delivered' = delivered \cup {got} /\ IntoNo(d.id) \in Buf /\ Fits(f) /\ ~f.mf
    <3>1. d \in Datagram \ unsent
      BY <1>1 DEF IpRecv, RInv, WiresEnd
    <3>2. d \notin hit => got.data = Whole(d)
      BY <1>1, <2>3, RecvDelivers
    <3>3. got \in delivered' /\ got.of = d
      BY <2>3
    <3> HIDE DEF got
    <3>4. d.len <= MaxUnits => got.data = Whole(d)
      BY <3>3 DEF SInv, SingleFrameIntact
    <3>5. QED
      BY <2>1, <2>3, <3>1, <3>2, <3>3, <3>4 DEF Service!Receive
  <2>4. QED
    BY <1>1, <2>2, <2>3 DEF IpRecv
<1>2. ASSUME NEW d \in Datagram, IpSend(d)
      PROVE  Service!Send(d)
  <2>1. Datagram \ (unsent \ {d}) = (Datagram \ unsent) \cup {d}
    OBVIOUS
  <2>2. QED
    BY <1>2, <2>1 DEF IpSend, Service!Send
<1>3. ASSUME NEW d \in Datagram, Lose(d) \/ Repeat(d) \/ Overtake(d)
      PROVE  Service!Disturb(d)
  <2>1. wire[d] # <<>>
    <3>1. wire[d] = <<>> => Len(wire[d]) = 0
      OBVIOUS
    <3>2. QED
      BY <1>3, <3>1 DEF Lose, Repeat, Overtake
  <2>2. d \notin unsent
    BY <2>1 DEF RInv, WiresEnd
  <2>3. QED
    BY <1>3, <2>2 DEF Lose, Repeat, Overtake, Fault, Service!Disturb
<1>4. CASE Tick \/ UNCHANGED vars
  BY <1>4 DEF Tick, vars
<1>5. QED
  BY <1>1, <1>2, <1>3, <1>4 DEF Next, Service!Next

\* The reassembly buffers of ip.c keep what Delivery promises, for any number of
\* datagrams, buffers and faults: nothing is handed up that was not sent, and only
\* the content of a datagram of several frames that the network has disturbed can
\* differ from the one sent.
THEOREM BuffersRefineDelivery ==
  ASSUME NoEviction, ShortOwn, DistinctIds
  PROVE  Spec => ImplementsDelivery
<1> DEFINE Inv == IInv /\ SInv /\ TInv /\ RInv /\ CInv
<1>1. Init => Inv
  <2> SUFFICES ASSUME Init PROVE Inv
    OBVIOUS
  <2>1. SInv /\ RInv
    BY DEF Init, SInv, OnlyCopies, SingleFrameIntact, RInv, WiresEnd, BuffersAreReturned, Busy
  <2>2. CInv
    <3>1. \A d \in Datagram : wire[d] = <<>> /\ Len(wire[d]) = 0
      BY DEF Init
    <3>2. \A d \in Datagram : Len(Fragments(d)) \in Nat
      BY LastEnds, LenProperties
    <3>3. QED
      BY <3>1, <3>2 DEF CInv, Undisturbed
  <2>3. QED
    BY <2>1, <2>2, InitIInv, InitTInv
<1>2. Inv /\ [Next]_vars => Inv'
  BY NextIInv, NextSInv, NextTInv, NextRInv, NextCInv
<1>3. Inv /\ Inv' /\ [Next]_vars => [Service!Next]_<<Datagram \ unsent, hit, delivered>>
  BY NextService
<1>4. QED
  BY <1>1, <1>2, <1>3, InitService, PTL DEF Spec, ImplementsDelivery, Service!Spec
=============================================================================
