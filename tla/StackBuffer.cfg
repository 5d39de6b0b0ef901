SPECIFICATION Spec
CONSTANTS
  Sizes = {0, 1, 2, 3, 4, 5, 6, 9}
  LineLengths = {0, 2, 5}
  FallbackSize = 4
  MaxLines = 3
INVARIANTS
  StaysInBuffer
  ReturnsString
