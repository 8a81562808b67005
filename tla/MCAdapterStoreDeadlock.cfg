SPECIFICATION FairSpec
CONSTANTS
  Cells = {a}
  Requests = {r1}
  MaxGen = 2
  MaxCalls = 2
  MaxAttempts = 1
  MaxRetired = 1
  MaxAudit = 4
  NoSnapshot = NoSnapshot
PROPERTIES DrainReturns
CHECK_DEADLOCK FALSE
