\* Short files with every kind of byte, which may grow while they are read.
SPECIFICATION FairSpec
CONSTANTS
  CharSize = 16
  HashSize = 256
  UpperA = 2
  LowerA = 5
  Letters = 2
  Contents <- MCContents
  Added = {0, 5, 15}
  MaxSize = 4
INVARIANTS TypeOK SumOfSize PassesAgree SameHash OutputOfThisRun
PROPERTY Ends
CHECK_DEADLOCK FALSE
