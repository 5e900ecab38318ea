SPECIFICATION MeshSpec
CONSTANTS
  Host = host
  a = a
  b = b
  c = c
  Peers <- MCPeers
  Settled <- MCSettled
  MaxRemote = 2
  MaxRejoins = 0
  MaxDrops = 1
  MaxQueue = 3
  Reachable <- AllButBC
  SlowRosters = TRUE
CHECK_DEADLOCK FALSE
INVARIANTS
  NoStrangers
PROPERTIES
  EdgesStay
