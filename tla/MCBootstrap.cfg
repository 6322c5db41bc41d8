SPECIFICATION FairSpec
CONSTANTS
  w1 = w1
  w2 = w2
  c1 = c1
  Workflow = {w1, w2}
  Credential = {c1}
  MaxEdits = 3
  MaxStops = 2
INVARIANTS BootstrapTypeOK SuccessMeansInstalled
PROPERTIES OperatorWorkIsKept SavedBeforeReplaced UpgradeCompletes
