SPECIFICATION FairSpec
CONSTANTS
  Threads = {a, b}
  Callers = {a, b}
  Observed = {a, b}
  MaxCalls = 1
  NoThread = NoThread
  Directories <- MCDirectories
  LengthOf <- MCLengthOf
  Inside <- MCInside
  Snapshots <- MCOneSnapshot
  NoBackslash = NoBackslash
  Separator = ";"
  PathSize = 8
  MaxPath = 9
  MaxAddress <- MCMaxAddress
PROPERTY ContextIsWalked
CHECK_DEADLOCK FALSE
