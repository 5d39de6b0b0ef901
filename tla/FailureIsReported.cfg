SPECIFICATION Spec
CONSTANTS
  MaxPairs = 2
  MaxSize = 40
  BufferSizes = {0, 1, 3, 6, 40}
  Failures = {"open", "close", "name", "value"}
  PairArrays <- MCPairArrays
INVARIANT FailureIsReported
