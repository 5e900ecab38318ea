SPECIFICATION MCSpec
CONSTANTS
  Host = host
  me = me
  x = x
  y = y
  Guests <- MCGuests
  Self <- me
  MaxRemote = 2
  MaxRev = 2
  MaxStints = 2
  MaxSittings = 2
  MaxAlerts = 1
  MaxFailures = 1
  Beat = 2
  Window = 4
  Sweep = 1
  Settled = 5
  Unsettled = 8
  MaxDelay = 1
  MaxClock = 12
  MaxEvents = 2
SYMMETRY MCSymmetry
CHECK_DEADLOCK FALSE
INVARIANTS
  MeshIsTheRoster
  AuditIsSound
  PresenceIsSound
PROPERTIES
  HostDecides
