\* main.c:267: violated by a mail whose end marker lies across two reads.
SPECIFICATION FairSpec
CONSTANTS
  BufferCells = 5
  Names <- MCNames
  Requests <- MCAll
  Texts <- MCStraddle
  LockStep = TRUE
  Fragmenting = FALSE
  HalfCloses = FALSE
  MaxMessages = 3
PROPERTY EndMarkerSeen
CHECK_DEADLOCK FALSE
