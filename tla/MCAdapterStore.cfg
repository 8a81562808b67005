SPECIFICATION Spec
CONSTANTS
  Cells = {a, b}
  Requests = {r1, r2}
  MaxGen = 2
  MaxCalls = 2
  MaxAttempts = 2
  MaxRetired = 1
  MaxAudit = 4
  NoSnapshot = NoSnapshot
SYMMETRY Symmetry
INVARIANTS TypeOK RefcountExact RetentionCap AuditChain
PROPERTIES PinnedRetained
CHECK_DEADLOCK FALSE
