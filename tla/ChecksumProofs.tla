--------------------------- MODULE ChecksumProofs ---------------------------
(***************************************************************************)
(* The arithmetic of the checksum for the widths of the code (Byte = 256)  *)
(* and for those TLC uses, and for data of every length.                   *)
(***************************************************************************)
EXTENDS Checksum, TLAPS

\* Before the loop reads another word or byte, bit 31 is clear.
Folded == pc = "words" /\ c > 0 => sum < Bit31

Returned == pc = "done" => sum < Word /\ ret = Word - 1 - sum

IInv == TypeOK /\ Folded /\ SumIsCongruent /\ Returned

LEMMA Widths ==
  /\ Word \in Nat /\ Word >= 4
  /\ Wide = 2 * Bit31 /\ Bit31 >= 2 * Word
  /\ Bit31 \in Nat
<1>1. CASE Byte = 2
  BY <1>1 DEF Word, Bit31, Wide
<1>2. CASE Byte = 4
  BY <1>2 DEF Word, Bit31, Wide
<1>3. CASE Byte = 256
  BY <1>3 DEF Word, Bit31, Wide
<1>4. QED
  BY <1>1, <1>2, <1>3, WidthAssumption

(* The two halves of a 32-bit value; the facts are stated one by one, for the *)
(* solver finds each of them at once but not all of them together.         *)

LEMMA LowHalf ==
  ASSUME NEW s \in Nat
  PROVE  s % 65536 \in Nat /\ s % 65536 < 65536
  BY SMT

LEMMA HighHalf ==
  ASSUME NEW s \in Nat, s < 4294967296
  PROVE  s \div 65536 \in Nat /\ s \div 65536 < 65536
<1>1. s \div 65536 \in Nat
  BY SMT
<1>2. s \div 65536 < 65536
  BY SMT
<1>3. QED
  BY <1>1, <1>2

LEMMA HalvesKeepResidue ==
  ASSUME NEW s \in Nat
  PROVE  ((s % 65536) + (s \div 65536)) % 65535 = s % 65535
  BY SMT

\* A fold keeps the residue, and brings any 32-bit value below 2 * Word.
LEMMA FoldKeepsResidue ==
  ASSUME NEW s \in Nat, s < Wide
  PROVE  /\ Fold(s) \in Nat /\ Fold(s) < 2 * Word - 1
         /\ Fold(s) % (Word - 1) = s % (Word - 1)
<1>1. CASE Byte = 2
  BY <1>1 DEF Word, Wide, Fold
<1>2. CASE Byte = 4
  BY <1>2 DEF Word, Wide, Fold
<1>3. CASE Byte = 256
  <2>1. Word = 65536 /\ Wide = 4294967296
    BY <1>3, SMT DEF Word, Wide
  <2>2. s < 4294967296
    BY <2>1, SMT
  <2>3. Fold(s) = (s % 65536) + (s \div 65536)
    BY <2>1, SMT DEF Fold
  <2>4. Fold(s) \in Nat /\ Fold(s) < 2 * 65536 - 1
    BY <2>2, <2>3, LowHalf, HighHalf, SMT
  <2>5. Fold(s) % 65535 = s % 65535
    BY <2>2, <2>3, HalvesKeepResidue, SMT
  <2>6. QED
    BY <2>1, <2>4, <2>5, SMT
<1>4. QED
  BY <1>1, <1>2, <1>3, WidthAssumption

LEMMA AddKeepsResidue ==
  ASSUME NEW s \in Nat, NEW e \in Nat, NEW w \in Nat,
         s % (Word - 1) = e % (Word - 1)
  PROVE  (s + w) % (Word - 1) = (e + w) % (Word - 1)
<1>1. CASE Byte = 2
  BY <1>1 DEF Word
<1>2. CASE Byte = 4
  BY <1>2 DEF Word
<1>3. CASE Byte = 256
  BY <1>3 DEF Word
<1>4. QED
  BY <1>1, <1>2, <1>3, WidthAssumption

-----------------------------------------------------------------------------
(* The steps of the two loops. *)

LEMMA InitIInv == Init => IInv
<1> SUFFICES ASSUME Init PROVE IInv
  OBVIOUS
<1>1. TypeOK
  BY Widths DEF Init, TypeOK
<1>2. Folded /\ SumIsCongruent /\ Returned
  BY Widths DEF Init, Folded, SumIsCongruent, Returned
<1>3. QED
  BY <1>1, <1>2 DEF IInv

LEMMA WordIInv ==
  ASSUME IInv, NEW w \in 0 .. Word - 1, AddWord(w)
  PROVE  IInv'
<1> DEFINE s == sum + w
<1>1. /\ sum \in Nat /\ sum < Bit31 /\ exact \in Nat /\ c \in 0 .. MaxLen /\ c > 1
      /\ pc = "words" /\ w \in Nat /\ w < Word
      /\ sum % (Word - 1) = exact % (Word - 1)
  BY Widths, LengthAssumption DEF IInv, TypeOK, Folded, SumIsCongruent, AddWord
<1>2. s \in 0 .. Wide - 1 /\ s % Wide = s
  BY <1>1, Widths
<1>3. s % (Word - 1) = (exact + w) % (Word - 1)
  BY <1>1, AddKeepsResidue
<1>4. /\ sum' = (IF s >= Bit31 THEN Fold(s) ELSE s)
      /\ exact' = exact + w /\ c' = c - 2 /\ pc' = pc /\ ret' = ret
  BY <1>2 DEF AddWord, FoldEarly
<1> HIDE DEF s
<1>5. /\ sum' \in Nat /\ sum' < Bit31
      /\ sum' % (Word - 1) = s % (Word - 1)
  BY <1>2, <1>4, Widths, FoldKeepsResidue
<1>6. TypeOK'
  BY <1>1, <1>4, <1>5, Widths, LengthAssumption DEF IInv, TypeOK
<1>7. SumIsCongruent'
  BY <1>3, <1>4, <1>5, Zenon DEF SumIsCongruent
<1>8. Folded'
  BY <1>5 DEF Folded
<1>9. Returned'
  BY <1>1, <1>4 DEF Returned
<1>10. QED
  BY <1>6, <1>7, <1>8, <1>9 DEF IInv

LEMMA LastByteIInv ==
  ASSUME IInv, NEW b \in 0 .. Byte - 1, AddLastByte(b)
  PROVE  IInv'
<1> DEFINE s == sum + b
<1>1. /\ sum \in Nat /\ sum < Bit31 /\ exact \in Nat /\ c = 1 /\ pc = "words"
      /\ sum % (Word - 1) = exact % (Word - 1)
  BY Widths, LengthAssumption DEF IInv, TypeOK, Folded, SumIsCongruent, AddLastByte
<1>2. b \in Nat /\ b < Word
  BY WidthAssumption DEF Word
<1>3. s \in 0 .. Wide - 1 /\ s % Wide = s
  BY <1>1, <1>2, Widths
<1>4. s % (Word - 1) = (exact + b) % (Word - 1)
  BY <1>1, <1>2, AddKeepsResidue
<1>5. sum' = s /\ exact' = exact + b /\ c' = 0 /\ pc' = pc /\ ret' = ret
  BY <1>3 DEF AddLastByte
<1>6. TypeOK'
  BY <1>1, <1>2, <1>3, <1>5, LengthAssumption DEF IInv, TypeOK
<1>7. SumIsCongruent'
  BY <1>4, <1>5, Zenon DEF SumIsCongruent
<1>8. Folded' /\ Returned'
  BY <1>1, <1>5 DEF Folded, Returned
<1>9. QED
  BY <1>6, <1>7, <1>8 DEF IInv

LEMMA NextIInv == IInv /\ [Next]_vars => IInv'
<1> SUFFICES ASSUME IInv, [Next]_vars PROVE IInv'
  OBVIOUS
<1>1. ASSUME NEW w \in 0 .. Word - 1, AddWord(w) PROVE IInv'
  BY <1>1, WordIInv
<1>2. ASSUME NEW b \in 0 .. Byte - 1, AddLastByte(b) PROVE IInv'
  BY <1>2, LastByteIInv
<1>3. CASE EndOfData
  BY <1>3 DEF EndOfData, IInv, TypeOK, Folded, SumIsCongruent, Returned
<1>4. CASE FoldCarries
  <2>1. Fold(sum) \in 0 .. Wide - 1 /\ Fold(sum) % (Word - 1) = sum % (Word - 1)
    BY FoldKeepsResidue, Widths DEF IInv, TypeOK
  <2>2. QED
    BY <1>4, <2>1 DEF FoldCarries, IInv, TypeOK, Folded, SumIsCongruent, Returned
<1>5. CASE Return
  BY <1>5, Widths DEF Return, IInv, TypeOK, Folded, SumIsCongruent, Returned
<1>6. CASE UNCHANGED vars
  BY <1>6 DEF vars, IInv, TypeOK, Folded, SumIsCongruent, Returned
<1>7. QED
  BY <1>1, <1>2, <1>3, <1>4, <1>5, <1>6 DEF Next

LEMMA SpecIInv == Spec => []IInv
  BY InitIInv, NextIInv, PTL DEF Spec

\* Type correctness: the sum never leaves the 32 bits of the code's unsigned int,
\* and what is returned is a word.
THEOREM SumTypeCorrect == Spec => []TypeOK
<1>1. IInv => TypeOK
  BY DEF IInv
<1>2. QED
  BY <1>1, SpecIInv, PTL

-----------------------------------------------------------------------------
\* The 32-bit sum never wraps, however long the data.
THEOREM NoCarryIsLost == Spec => []NoCarryLost
<1>1. IInv => NoCarryLost
  <2> SUFFICES ASSUME IInv, pc = "words", c > 0
               PROVE  sum + Word - 1 < Wide /\ sum + Byte - 1 < Wide
    BY LengthAssumption DEF NoCarryLost, IInv, TypeOK
  <2>1. sum \in Nat /\ sum < Bit31
    BY Widths DEF IInv, TypeOK, Folded
  <2>2. Byte \in Nat /\ Byte <= Word
    BY WidthAssumption DEF Word
  <2>3. QED
    BY <2>1, <2>2, Widths
<1>2. QED
  BY <1>1, SpecIInv, PTL

\* Folding early and late leaves the residue that ones' complement addition
\* of the words would have.
THEOREM SumStaysCongruent == Spec => []SumIsCongruent
<1>1. IInv => SumIsCongruent
  BY DEF IInv
<1>2. QED
  BY <1>1, SpecIInv, PTL

\* What the value returned says about the words that were added up.
LEMMA ResidueOfSum ==
  ASSUME NEW s \in 0 .. Word - 1
  PROVE  s % (Word - 1) = 0 <=> s \in {0, Word - 1}
<1>1. CASE Byte = 2
  BY <1>1 DEF Word
<1>2. CASE Byte = 4
  BY <1>2 DEF Word
<1>3. CASE Byte = 256
  <2>1. Word = 65536
    BY <1>3, SMT DEF Word
  <2>2. s \in Nat /\ s <= 65535
    BY <2>1, SMT
  <2>3. s % 65535 = 0 <=> s = 0 \/ s = 65535
    BY <2>2, SMT
  <2>4. QED
    BY <2>1, <2>3, SMT
<1>4. QED
  BY <1>1, <1>2, <1>3, WidthAssumption

\* The receivers' test accepts data if and only if its words add up to zero.
THEOREM ReceiversDecide == Spec => []AcceptsWhatAddsUp
<1>1. IInv => AcceptsWhatAddsUp
  <2> SUFFICES ASSUME IInv, pc = "done"
               PROVE  Accepted <=> exact % (Word - 1) = 0
    BY DEF AcceptsWhatAddsUp
  <2>1. /\ sum \in 0 .. Word - 1 /\ ret = Word - 1 - sum
        /\ sum % (Word - 1) = exact % (Word - 1)
    BY Widths DEF IInv, TypeOK, Returned, SumIsCongruent
  <2>2. Accepted <=> sum \in {0, Word - 1}
    BY <2>1, Widths DEF Accepted
  <2>3. QED
    BY <2>1, <2>2, ResidueOfSum
<1>2. QED
  BY <1>1, SpecIInv, PTL

\* A sender that stores the value returned makes the words add up to zero.
THEOREM SendersMakeItAddUp == Spec => []SenderMakesItAddUp
<1>1. IInv => SenderMakesItAddUp
  <2> SUFFICES ASSUME IInv, pc = "done"
               PROVE  (exact + ret) % (Word - 1) = 0
    BY DEF SenderMakesItAddUp
  <2>1. /\ sum \in Nat /\ exact \in Nat /\ ret \in Nat /\ ret = Word - 1 - sum
        /\ sum % (Word - 1) = exact % (Word - 1)
    BY Widths DEF IInv, TypeOK, Returned, SumIsCongruent
  <2>2. (sum + ret) % (Word - 1) = (exact + ret) % (Word - 1)
    BY <2>1, AddKeepsResidue
  <2>3. sum + ret = Word - 1
    BY <2>1, Widths
  <2>4. (Word - 1) % (Word - 1) = 0
    BY ResidueOfSum, Widths
  <2>5. QED
    BY <2>2, <2>3, <2>4
<1>2. QED
  BY <1>1, SpecIInv, PTL

-----------------------------------------------------------------------------
(* Why the loops end, as far as it does not need fairness. *)

\* Each turn of the first loop leaves less to read, and whatever the sum is the
\* second, "while(sum >> 16)", has two turns at most: the first brings the sum
\* below 2 * Word - 1, and below that one turn leaves no carry.
LoopsRunOut ==
  [][ \/ pc' = "words" /\ c' \in Nat /\ c' < c
      \/ EndOfData \/ Return
      \/ /\ FoldCarries /\ sum' < 2 * Word - 1
         /\ sum < 2 * Word - 1 => sum' < Word ]_vars

\* The halves of a sum with a single carry.
LEMMA OneCarry ==
  ASSUME NEW s \in Nat, s >= Word, s < 2 * Word - 1
  PROVE  Fold(s) < Word
<1> DEFINE W == Word
<1>1. W \in Nat /\ W > 0 /\ s - W \in 0 .. W - 2
  BY Widths
<1>2. CASE Byte = 2
  BY <1>2 DEF Word, Fold
<1>3. CASE Byte = 4
  BY <1>3 DEF Word, Fold
<1>4. CASE Byte = 256
  <2>1. Word = 65536
    BY <1>4, SMT DEF Word
  <2>2. s \div 65536 = 1 /\ s % 65536 = s - 65536
    BY <2>1, SMT
  <2>3. QED
    BY <2>1, <2>2, SMT DEF Fold
<1>5. QED
  BY <1>2, <1>3, <1>4, WidthAssumption

\* The loops of checksum and checksum2 end in a bounded number of turns, from any
\* data: each word read shortens the rest, and at most two folds follow.
THEOREM LoopsAreBounded == Spec => LoopsRunOut
<1>1. ASSUME IInv, Next
      PROVE  \/ pc' = "words" /\ c' \in Nat /\ c' < c
             \/ EndOfData \/ Return
             \/ /\ FoldCarries /\ sum' < 2 * Word - 1
                /\ sum < 2 * Word - 1 => sum' < Word
  <2>1. c \in Nat /\ sum \in Nat /\ sum < Wide
    BY <1>1, Widths, LengthAssumption DEF IInv, TypeOK
  <2>2. CASE \/ \E w \in 0 .. Word - 1 : AddWord(w)
             \/ \E b \in 0 .. Byte - 1 : AddLastByte(b)
    BY <2>1, <2>2 DEF AddWord, AddLastByte
  <2>3. CASE FoldCarries
    <3>1. sum >= Word /\ sum' = Fold(sum)
      BY <2>3 DEF FoldCarries
    <3>2. QED
      BY <2>1, <2>3, <3>1, FoldKeepsResidue, OneCarry
  <2>4. QED
    BY <1>1, <2>2, <2>3 DEF Next
<1>2. IInv /\ [Next]_vars =>
        [ \/ pc' = "words" /\ c' \in Nat /\ c' < c
          \/ EndOfData \/ Return
          \/ /\ FoldCarries /\ sum' < 2 * Word - 1
             /\ sum < 2 * Word - 1 => sum' < Word ]_vars
  BY <1>1
<1>3. QED
  BY <1>2, SpecIInv, PTL DEF Spec, LoopsRunOut
=============================================================================
