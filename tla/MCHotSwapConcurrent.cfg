SPECIFICATION Spec
CONSTANTS
  Adapters = {a, b}
  Requests = {r1, r2}
  Budget = 2
  Backend = "coreml"
  WorkerMutex = FALSE
  WorkerTask = FALSE
  Rollbacks = FALSE
  Pressure = TRUE
  MaxRetries = 1
  MaxCmds = 4
  NoStack = NoStack
SYMMETRY Symmetry
INVARIANTS PinsMatchStack RefcountShared
CHECK_DEADLOCK FALSE
