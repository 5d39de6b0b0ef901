SPECIFICATION Spec
CONSTANTS
  Threads = {t1}
  Requests <- MCRequests
  MaxLevels = {0, 2, 4}
  Callbacks = {"f"}
  CallbackContexts = {"x", "y"}
  MaxLength = 8
  Failures = {"header", "name", "context", "message"}
INVARIANTS
  BufferAccounted
  EmitsOnce
  LineTerminated
  LineComplete
  ErrorExplained
  FilterFollowsMaxLevel
