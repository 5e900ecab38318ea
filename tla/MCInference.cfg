SPECIFICATION MCSpec
CONSTANTS
  Starts = {c1, c2}
  Stops = {s1}
  Removes = {r1}
  Downloads = {d1}
  Installs = {i1}
  Models = {1}
  None = None
  RestartBudget = 1
  TotalBudget = 2
  MaxProcs = 2
  MaxCalls = 3
  MaxCrashes = 2
  MaxEngineFaults = 2
  Files = {"model", "mmproj"}
  First = "model"
  Editions = {1, 2}
  Length <- Lengths
  Mixed = 0
  MaxCancels = 2
  MaxFaults = 2
  MaxPorts = 2
  MaxUses = 4
  MaxSlow = 1
CHECK_DEADLOCK FALSE
INVARIANTS
  
  EngineNeverLost
  InstalledIsVerified
PROPERTIES
  OneServer
  CallsReturn
  ModelComes
  ClientFollowsServer
