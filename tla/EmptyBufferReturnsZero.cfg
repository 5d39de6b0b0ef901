SPECIFICATION Spec
CONSTANTS
  MaxPairs = 1
  MaxSize = 6
  BufferSizes = {0, 6}
  Failures = {}
  PairArrays <- MCPairArrays
INVARIANT EmptyBufferReturnsZero
