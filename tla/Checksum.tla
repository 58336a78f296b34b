------------------------------ MODULE Checksum ------------------------------
(***************************************************************************)
(* The Internet checksum as sock.c computes it: 16-bit words are added in  *)
(* a 32-bit sum, the carries are folded back in whenever bit 31 is set and *)
(* once more at the end.  checksum2 does the same over two buffers, of     *)
(* which its callers make the first one even (20 or 12 bytes), so that its *)
(* words are those of the two buffers one after the other.                 *)
(*                                                                         *)
(* The widths are parameters: Byte = 256 is the code, a smaller one keeps  *)
(* every carry of the code within TLC's reach.                             *)
(***************************************************************************)
EXTENDS Integers

CONSTANTS
  Byte,     \* values of a byte
  MaxLen    \* bound on the length of the data

ASSUME WidthAssumption  == Byte \in {2, 4, 256}
ASSUME LengthAssumption == MaxLen \in Nat

Word  == Byte * Byte   \* values of a u_int16_t
Bit31 == Word * (Word \div 2)
Wide  == Word * Word   \* values of the u_int32_t sum

VARIABLES
  pc,     \* in the loop over the words, in the loop of the folds, returned
  c,      \* bytes left
  sum,    \* the 32-bit sum
  ret,    \* the value returned
  exact   \* history: the sum of the words read so far, without a width

vars == <<pc, c, sum, ret, exact>>

Init ==
  /\ pc = "words"
  /\ c \in 0 .. MaxLen
  /\ sum = 0
  /\ ret = 0
  /\ exact = 0

-----------------------------------------------------------------------------
\* Variants by which the properties are tested: carries dropped, not shifted,
\* and folded at the end only.
BadFoldDrops(s)   == s % Word
BadFoldNoShift(s) == (s % Word) + (s \div Word) * Word
BadFoldEarly(s)   == s

Fold(s) == (s % Word) + (s \div Word)

FoldEarly(s) == IF s >= Bit31 THEN Fold(s) ELSE s

AddWord(w) ==
  /\ pc = "words" /\ c > 1
  /\ c' = c - 2
  /\ sum' = FoldEarly((sum + w) % Wide)
  /\ exact' = exact + w
  /\ UNCHANGED <<pc, ret>>

\* A last odd byte is the low half of a word.
AddLastByte(b) ==
  /\ pc = "words" /\ c = 1
  /\ c' = 0
  /\ sum' = (sum + b) % Wide
  /\ exact' = exact + b
  /\ UNCHANGED <<pc, ret>>

EndOfData ==
  /\ pc = "words" /\ c = 0
  /\ pc' = "folds"
  /\ UNCHANGED <<c, sum, ret, exact>>

FoldCarries ==
  /\ pc = "folds" /\ sum >= Word
  /\ sum' = Fold(sum)
  /\ UNCHANGED <<pc, c, ret, exact>>

\* A variant that returns the negative instead of the complement.
BadReturn ==
  /\ pc = "folds" /\ sum < Word
  /\ ret' = Word - sum
  /\ pc' = "done"
  /\ UNCHANGED <<c, sum, exact>>

Return ==
  /\ pc = "folds" /\ sum < Word
  /\ ret' = Word - 1 - sum
  /\ pc' = "done"
  /\ UNCHANGED <<c, sum, exact>>

Next ==
  \/ \E w \in 0 .. Word - 1 : AddWord(w)
  \/ \E b \in 0 .. Byte - 1 : AddLastByte(b)
  \/ EndOfData
  \/ FoldCarries
  \/ Return

Spec     == Init /\ [][Next]_vars
FairSpec == Spec /\ WF_vars(Next)

\* A variant that forgets the other zero of ones' complement.
BadAccepted == ret = 0

\* The test of IpRecv, IcmpRecv and UdpRecv on data that holds its checksum.
Accepted == ret \in {0, Word - 1}

-----------------------------------------------------------------------------
TypeOK ==
  /\ pc \in {"words", "folds", "done"}
  /\ c \in 0 .. MaxLen
  /\ sum \in 0 .. Wide - 1
  /\ ret \in 0 .. Word - 1
  /\ exact \in Nat

\* No addition wraps: a carry out of bit 31 would be lost for good.  The last
\* odd byte is added to a sum that has just been folded or is below bit 31.
NoCarryLost ==
  pc = "words" => (c > 1 => sum + Word - 1 < Wide) /\ (c = 1 => sum + Byte - 1 < Wide)

\* The folds keep the sum modulo 2^16 - 1, the arithmetic of the checksum.
SumIsCongruent == sum % (Word - 1) = exact % (Word - 1)

\* What the receivers accept is exactly the data whose words add up to zero in
\* ones' complement arithmetic.
AcceptsWhatAddsUp == pc = "done" => (Accepted <=> exact % (Word - 1) = 0)

\* A sender that puts the value returned into a field it had left zero makes
\* the receiver's sum add up.
SenderMakesItAddUp == pc = "done" => (exact + ret) % (Word - 1) = 0

\* The loop "while(sum >> 16)" ends.
FoldsEnd == <>(pc = "done")
=============================================================================
