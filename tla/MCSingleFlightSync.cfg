SPECIFICATION FairSpec
CONSTANTS
  Keys = {k1}
  Callers = {c1, c2, c3}
  MaxCalls = 4
  LoadPanics = TRUE
INVARIANTS EntryOwned
PROPERTIES KeepsPromise CallsAnswered
CHECK_DEADLOCK FALSE
