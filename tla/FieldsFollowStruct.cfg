SPECIFICATION Spec
CONSTANTS
  Handles = {a, b}
  NULL = NULL
  MaxPairCount = 5
  MaxDataSize = 12
  MaxPairs = 7
  WCharSize = 2
  MaxWideLength = 3
  LengthModulus = 64
  PropertyLists <- MCPropertyLists
INVARIANT FieldsFollowStruct
