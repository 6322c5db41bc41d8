SPECIFICATION Spec
CONSTANTS
  c1 = c1
  c2 = c2
  w1 = w1
  w2 = w2
  w3 = w3
  Nobody = Nobody
  Caller = {c1, c2}
  Watcher = {w1, w2}
  Engines <- MCEngines
  MaxConcurrent = 1
  ProcessTimeout = 1
  ReadinessCache = 3
  ShutdownTimeout = 2
INVARIANTS CompanionTypeOK SlotsExact AnswersAreFresh
SYMMETRY Alike
CHECK_DEADLOCK FALSE
