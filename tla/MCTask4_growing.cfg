\* Another process appends to the file, up to six bytes.
SPECIFICATION FairSpec
CONSTANTS
  BufferSize = 2
  InitialSizes <- MCInitialSizes
  ZeroBytes <- MCZeroBytes
  MaxFileSize = 6
INVARIANTS TypeOK MutualExclusion BytesConserved ContentsReady NoCircularWait OutputsConsistent
PROPERTIES PipeSpec ThreadBEnds Terminates
CHECK_DEADLOCK FALSE
