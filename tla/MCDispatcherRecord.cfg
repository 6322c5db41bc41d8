SPECIFICATION DispatchSpec
CONSTANTS
  Lead = {l1}
  Day = {}
  Worker = {w1, w2}
  Route <- MCRoutes
  Drafted = {TRUE}
  MaxAttempts = 2
  BatchLimit = 3
  FollowupLimit = 1
  Nobody = Nobody
  LeaseTicks = 2
  TimeoutTicks = 1
  Faults = {}
PROPERTY SentIsRecorded
