SPECIFICATION FairSpec
CONSTANTS
  Agents = {a1, a2}
  MaxTick = 3
  Timeouts = TRUE
INVARIANTS TypeOK NoOvertaking
PROPERTIES AllPass WaitReturns
CHECK_DEADLOCK FALSE
