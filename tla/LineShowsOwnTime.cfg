SPECIFICATION Spec
CONSTANTS
  Threads = {t1, t2}
  Requests <- SharedRequests
  MaxLevels = {4}
  Callbacks = {"f"}
  CallbackContexts = {"x", "y"}
  MaxLength = 8
  Failures = {}
INVARIANT LineShowsOwnTime
