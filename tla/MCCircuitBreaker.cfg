SPECIFICATION Spec
CONSTANTS
  Callers = {c1, c2, c3}
  FailureThreshold = 2
  SuccessThreshold = 2
  HalfOpenMax = 2
  MaxFaults = 4
  Cancels = TRUE
SYMMETRY Symmetry
INVARIANTS TypeOK ThresholdsActedOn
