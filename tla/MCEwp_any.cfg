\* A client that does not wait, over a network that splits and joins.
SPECIFICATION FairSpec
CONSTANTS
  BufferCells = 3
  Names <- MCOne
  Requests <- MCFew
  Texts <- MCOneText
  LockStep = FALSE
  Fragmenting = TRUE
  HalfCloses = TRUE
  MaxMessages = 3
INVARIANTS AcceptedAfterReady NothingAfterBye
PROPERTIES ServerEnds
CHECK_DEADLOCK FALSE
