\* Bytes of two bits, words of four, a sum of eight: every carry occurs.
CONSTANTS
  Byte = 4
  MaxLen = 45
SPECIFICATION FairSpec
INVARIANTS TypeOK NoCarryLost SumIsCongruent AcceptsWhatAddsUp SenderMakesItAddUp
PROPERTIES FoldsEnd
CHECK_DEADLOCK FALSE
