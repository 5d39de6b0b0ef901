SPECIFICATION FairSpec
CONSTANTS
  MaxPairs = 3
  MaxSize = 40
  BufferSizes = {0, 1, 2, 3, 5, 6, 8, 40}
  Failures = {"open", "close", "name", "value"}
  PairArrays <- MCPairArrays
INVARIANTS
  TypeOK
  BytesAccounted
  EveryPairOnce
  LineTerminated
PROPERTIES
  Terminates
  ImplementsBoundedWriter
