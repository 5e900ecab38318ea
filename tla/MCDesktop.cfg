SPECIFICATION MCSpec
CONSTANTS
  a = a
  b = b
  c = c
  Ann = Ann
  Bob = Bob
  Peers <- MCPeers
  Identities <- MCIdentities
  IdentityOf <- MCIdentityOf
  MaxRemote = 2
  MaxRejoins = 1
  MaxOpens = 2
  MaxSessions = 2
  MaxRequests = 2
  MaxUpsets = 1
  MaxSockets = 3
CHECK_DEADLOCK FALSE
INVARIANTS
  RosterSound
  StoreFollowsMesh
  MirrorIsSound
PROPERTIES
  IncumbentsKeepPlaces
  HostSpec
  BrowserReturns
