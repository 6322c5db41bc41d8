SPECIFICATION FairSpec
CONSTANTS
  c1 = c1
  c2 = c2
  w1 = w1
  w2 = w2
  w3 = w3
  Nobody = Nobody
  Caller = {c1}
  Watcher = {w1, w2, w3}
  Engines <- LiveEngines
  MaxConcurrent = 1
  ProcessTimeout = 2
  ReadinessCache = 3
  ShutdownTimeout = 1
INVARIANTS EnginesBounded NoEngineForgotten
PROPERTIES EveryRequestEnds ShutdownEnds ReadinessRecovers
CHECK_DEADLOCK FALSE
