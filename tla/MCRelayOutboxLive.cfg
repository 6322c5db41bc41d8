SPECIFICATION FairSpec
CONSTANTS
  Lead = {l1}
  Day = {d1}
  Worker = {w1}
  Route <- MCRoutes
  Drafted = {FALSE}
  MaxAttempts = 1
  BatchLimit = 1
  FollowupLimit = 1
  Nobody = Nobody
PROPERTIES OverdueIsEscalated AgedRowsArePurged
