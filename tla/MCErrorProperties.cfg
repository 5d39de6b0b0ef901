SPECIFICATION FairSpec
CONSTANTS
  Codes = {1, 2}
  Lists <- MCLists
  Messages <- MCMessages
  Loaded = {0, 2, 3}
  Size = 5
  FailureLength = 4
  MaxModules = 2
  MaxPairCount = 4
  MaxDataSize = 14
INVARIANTS
  ValuesInSlots
  FirstMessageShown
  CallersErrorLogged
PROPERTIES
  CallLogs
