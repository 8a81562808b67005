SPECIFICATION FairSpec
CONSTANTS
  Requests = {c1, c2}
  Kinds = {"work", "stream", "drain", "immediate", "maintenance", "restart", "spoke"}
  Targets = 2
  DrainTimeout = 2
  Transport = "uds"
INVARIANTS TypeOK CountCovers NoLateAdmission FullyReadyWarm
PROPERTIES ShutdownAbsorbs SignalExits
CHECK_DEADLOCK FALSE
