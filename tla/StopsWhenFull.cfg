SPECIFICATION Spec
CONSTANTS
  Threads = {a, w}
  Callers = {a}
  Observed = {w}
  MaxCalls = 1
  NoThread = NoThread
  Directories <- MCDirectories
  LengthOf <- MCLengthOf
  Inside <- MCInside
  Snapshots <- MCSnapshots
  NoBackslash = NoBackslash
  Separator = ";"
  PathSize = 8
  MaxPath = 9
  MaxAddress <- MCMaxAddress
INVARIANT StopsWhenFull
