\* main.c:312: violated by a mail of which the last read leaves the zero.
SPECIFICATION FairSpec
CONSTANTS
  BufferCells = 5
  Names <- MCNames
  Requests <- MCAll
  Texts <- MCLeftover
  LockStep = TRUE
  Fragmenting = FALSE
  HalfCloses = FALSE
  MaxMessages = 3
INVARIANT AcceptedSaved
CHECK_DEADLOCK FALSE
