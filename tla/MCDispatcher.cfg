SPECIFICATION DispatchSpec
CONSTANTS
  Lead = {l1}
  Day = {}
  Worker = {w1, w2}
  Route <- MCRoutes
  Drafted = {FALSE}
  MaxAttempts = 2
  BatchLimit = 2
  FollowupLimit = 1
  Nobody = Nobody
  LeaseTicks = 2
  TimeoutTicks = 1
  Faults = {"crash", "lost"}
INVARIANTS DispatchTypeOK LeaseOutlivesExecution OneHolder DeliveredWasReceived
PROPERTIES AlertQuietAfterContact
SYMMETRY Workers
