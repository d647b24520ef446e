\* Transfers of any length, whole or cut short, with and without a header.
SPECIFICATION FairSpec
CONSTANTS
  ByteSize = 8
  BlockSize = 4
  WordSize = 64
  Rounds = 3
  Delta = 29
  StartSum = 23
  LeftFactor = 2
  RightFactor = 4
  Exclusive <- BitXor
  Pack <- LittleEndian
  Unpack <- BytesOfWord
  Printable = {5, 6}
  Texts <- MCTexts
  Keys = {0, 6}
  Headers <- MCHeaders
  Http <- MCHttp
  Terminator <- MCTerminator
  BufferSize = 9
  KeyLimit = 8
INVARIANTS TypeOK NoPartialText BodyOnly RightKeyFound ShortRejected
PROPERTY ClientEnds
CHECK_DEADLOCK FALSE
