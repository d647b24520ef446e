\* task4_threads.c:107: violated, though nobody appends to the file.
SPECIFICATION Spec
CONSTANTS
  BufferSize = 2
  InitialSizes <- MCInitialSizes
  ZeroBytes <- MCNoZero
  MaxFileSize = 0
INVARIANT FullSignalsData
CHECK_DEADLOCK FALSE
