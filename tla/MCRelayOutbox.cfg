SPECIFICATION Spec
CONSTANTS
  Lead = {l1}
  Day = {}
  Worker = {w1}
  Route <- MCRoutes
  Drafted = {TRUE}
  MaxAttempts = 2
  BatchLimit = 2
  FollowupLimit = 1
  Nobody = Nobody
INVARIANTS TypeOK LeaseDiscipline ContactSilencesAlert OneOutcomePerRow ActivityTellsHistory
PROPERTIES StaleLeaseIsInert LiveLeaseIsSafe KeepsPromise NoKeyReturns
