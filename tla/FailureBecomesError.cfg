SPECIFICATION Spec
CONSTANTS
  Threads = {t1}
  Requests <- SharedRequests
  MaxLevels = {4}
  Callbacks = {"f"}
  CallbackContexts = {"x", "y"}
  MaxLength = 8
  Failures = {"name"}
INVARIANT FailureBecomesError
