SPECIFICATION Spec
CONSTANTS
  Adapters = {a, b}
  Requests = {r1}
  Budget = 1
  Backend = "mlx"
  WorkerMutex = TRUE
  WorkerTask = TRUE
  Rollbacks = TRUE
  Pressure = FALSE
  MaxRetries = 1
  MaxCmds = 5
  NoStack = NoStack
SYMMETRY Symmetry
INVARIANTS TypeOK StoreMatchesTable PinnedStackMatches StagedCounted
PROPERTIES PreloadWithinBudget
CHECK_DEADLOCK FALSE
