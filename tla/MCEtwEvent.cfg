SPECIFICATION Spec
CONSTANTS
  Levels <- MCLevels
  PairLists <- MCPairLists
  MessageLengths = {0, 1, 4, 8, 9, 12}
  MaxMetadataSize = 12
  MaxPropertyCount = 3
  CountModulus = 8
  MaxTraceLevel = 2
INVARIANTS
  StaysInMetadata
  RegisteredOnce
  EventDescribesItself
  ContentIsMessage
  PropertiesWhenTheyFit
