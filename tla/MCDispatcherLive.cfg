SPECIFICATION DispatchFairSpec
CONSTANTS
  Lead = {l1}
  Day = {d1}
  Worker = {w1}
  Route <- MCRoutes
  Drafted = {FALSE}
  MaxAttempts = 2
  BatchLimit = 1
  FollowupLimit = 1
  Nobody = Nobody
  LeaseTicks = 1
  TimeoutTicks = 0
  Faults = {"crash"}
PROPERTY EveryJobSettles
