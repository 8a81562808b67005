SPECIFICATION Spec
CONSTANTS
  Keys = {k1}
  Callers = {c1, c2, c3}
  MaxCalls = 5
  Failures = TRUE
SYMMETRY Symmetry
INVARIANTS TypeOK OneLoadPerKey EntryOwned
PROPERTIES KeepsPromise
CHECK_DEADLOCK FALSE
