SPECIFICATION FairSpec
CONSTANTS
  Reviewers = {r1, r2}
  NoReview = NoReview
  MaxPauses = 2
  MaxTokens = 1
  MaxSubmits = 1
  EventCapacity = 1
  TokenCapacity = 1
  PauseCapacity = 1
  ReadTimeout = 1
  Heartbeat = 1
  IdleTimeout = 1
  MaxPause = 2
  Loading = FALSE
  Honest = FALSE
INVARIANTS TypeOK AcceptedIsApplied ReviewableWhileWaiting
PROPERTIES GateHolds 
CHECK_DEADLOCK FALSE
