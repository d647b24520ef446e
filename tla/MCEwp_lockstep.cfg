\* A client that waits for every answer; the end marker of no mail falls on
\* the boundary of a read.
SPECIFICATION FairSpec
CONSTANTS
  BufferCells = 5
  Names <- MCNames
  Requests <- MCAll
  Texts <- MCFit
  LockStep = TRUE
  Fragmenting = FALSE
  HalfCloses = FALSE
  MaxMessages = 5
INVARIANTS TypeOK AcceptedSaved
PROPERTIES SessionSpec Answered
CHECK_DEADLOCK FALSE
