\* Two ping commands of two requests each, and replies that take their time.
CONSTANTS
  PING_SEND_NO = 2
  Second = 2
  Borrow = 1
  Pid = 5
  IdRange = 8
  Commands = 2
  MaxClock = 9
SPECIFICATION Spec
INVARIANTS TypeOK WrongNoteOnlyWhenLate SlowerOnlyByOldNote
PROPERTIES OldNoteOnlyWhileNoting
CHECK_DEADLOCK FALSE
