SPECIFICATION MCSpec
CONSTANTS
  Members = {1, 2, 3}
  MaxPhases = 2
  MaxLeaves = 2
  Orderly = TRUE
  SlowNetwork = FALSE
  MaxLoops = 1
  Attempts = {p1, p2}
  MaxSidecarPorts = 2
  Copies = 2
  MaxPresses = 2
  MaxLost = 1
  MaxRepeats = 2
  MaxUpsets = 1
  MaxInFlight = 2
CHECK_DEADLOCK FALSE
INVARIANTS
  NobodyStranded
  StopIsFinal
PROPERTIES
  KeyIsFollowed
  TimersSettle
  LoopAnswers
