SPECIFICATION FairSpec
CONSTANTS
  Host = host
  a = a
  b = b
  c = c
  Peers <- MCPair
  Settled <- MCOne
  MaxRemote = 2
  MaxRejoins = 1
  MaxDrops = 0
  MaxQueue = 3
  Reachable <- PairAB
  SlowRosters = TRUE
CHECK_DEADLOCK FALSE
PROPERTIES
 MeshForms
