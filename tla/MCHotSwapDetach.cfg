SPECIFICATION Spec
CONSTANTS
  Adapters = {a, b}
  Requests = {r1}
  Budget = 2
  Backend = "metal"
  WorkerMutex = TRUE
  WorkerTask = TRUE
  Rollbacks = FALSE
  Pressure = FALSE
  MaxRetries = 1
  MaxCmds = 4
  NoStack = NoStack
PROPERTIES PinnedAttached
CHECK_DEADLOCK FALSE
