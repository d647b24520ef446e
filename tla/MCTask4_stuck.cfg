\* task4_threads.c:263: violated when one and a half buffers are appended in time.
SPECIFICATION FairSpec
CONSTANTS
  BufferSize = 2
  InitialSizes <- MCFewSizes
  ZeroBytes <- MCNoZero
  MaxFileSize = 6
PROPERTY CleansUp
CHECK_DEADLOCK FALSE
