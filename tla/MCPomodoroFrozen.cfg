SPECIFICATION FairSpec
CONSTANTS
  Members = {1, 2, 3}
  MaxPhases = 1
  MaxLeaves = 1
  Orderly = FALSE
  SlowNetwork = FALSE
CHECK_DEADLOCK FALSE
PROPERTY CountdownNeverFrozen
