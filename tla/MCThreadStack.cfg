SPECIFICATION FairSpec
CONSTANTS
  Threads = {a, b, w}
  Callers = {a, b}
  Observed = {w}
  MaxCalls = 2
  NoThread = NoThread
  Directories <- MCDirectories
  LengthOf <- MCLengthOf
  Inside <- MCInside
  Snapshots <- MCSnapshots
  NoBackslash = NoBackslash
  Separator = ";"
  PathSize = 8
  MaxPath = 9
  MaxAddress <- MCMaxAddress
INVARIANTS
  SymCallsSerialized
  SuspensionsUndone
  HandlesReturned
  WalkHasHandler
  PathLists
  MaskStripsSignature
PROPERTIES
  CallsReturn
