----------------------------- MODULE IpFragment -----------------------------
(***************************************************************************)
(* How IpSendLink of ip.c cuts a payload into IP fragments.  A payload is  *)
(* a sequence of 8-byte units, the grain of the fragment offset; MaxUnits  *)
(* of them fit in one frame.                                               *)
(***************************************************************************)
EXTENDS Integers, Sequences

CONSTANT MaxUnits   \* (MTU - 20) / 8: 185 for the MTU of 1500 of MyEth.ini

ASSUME UnitsAssumption == MaxUnits \in Nat \ {0}

Pieces(len) == (len + MaxUnits - 1) \div MaxUnits

Piece(data, k) ==
  SubSeq(data, (k - 1) * MaxUnits + 1,
         IF k * MaxUnits < Len(data) THEN k * MaxUnits ELSE Len(data))

\* Variants of the code by which the properties are tested: every offset is one
\* fragment too far; every frame has MF.
BadOffset(data, dontFlagment) ==
  [k \in 1 .. Pieces(Len(data)) |->
     [mf |-> k < Pieces(Len(data)), off |-> k * MaxUnits, data |-> Piece(data, k)]]

BadMoreFragments(data, dontFlagment) ==
  [k \in 1 .. Pieces(Len(data)) |-> [mf |-> TRUE, off |-> 0, data |-> Piece(data, k)]]

\* The payload leaves in Pieces(Len(data)) frames; every one but the last has
\* the MF flag and, because ip_off is then set to IP_MF alone, offset 0.
IpSendLink(data, dontFlagment) ==
  IF dontFlagment
  THEN IF Len(data) > MaxUnits THEN <<>> ELSE <<[mf |-> FALSE, off |-> 0, data |-> data]>>
  ELSE [k \in 1 .. Pieces(Len(data)) |->
         LET more == k < Pieces(Len(data))
         IN  [mf   |-> more,
              off  |-> IF more THEN 0 ELSE (k - 1) * MaxUnits,
              data |-> Piece(data, k)]]

\* Fragments of a host that writes the offset into every one of them, as the
\* code of the receiver expects.
PeerSendLink(data) ==
  [k \in 1 .. Pieces(Len(data)) |->
     [mf |-> k < Pieces(Len(data)), off |-> (k - 1) * MaxUnits, data |-> Piece(data, k)]]
=============================================================================
