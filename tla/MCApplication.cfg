INIT MCInit
NEXT MCNext
CONSTANTS
  s1 = s1
  s2 = s2
  me = me
  other = other
  i1 = i1
  i2 = i2
  i3 = i3
  p1 = p1
  p2 = p2
  kf = kf
  ka = ka
  km = km
  k4 = k4
  k5 = k5
  Sessions = {s1, s2}
  None = None
  MaxInvites = 3
  Identities = {me, other}
  Invites = {i1, i2, i3}
  To <- Addressee
  Topic <- Session
  Rosters <- Friends
  Nobody = Nobody
  MaxSwitches = 2
  MaxPosts = 2
  MaxFaults = 1
  MaxStints = 3
  MaxChanges = 1
  MaxChecks = 4
  MaxToggles = 2
  MaxLoops = 2
  Attempts = {p1, p2}
  MaxSidecarPorts = 2
  InitialScore = 10
  MaxSamples = 5
  MaxMoves = 1
  Judgments <- Answers
  Sliders <- Presets
  MaxBreakStints = 2
  MaxRequests = 3
  MaxTime = 6
  MinInterval = 2
  MaxDuration = 1
  MaxBreaks = 2
  Wishes = {2}
  MaxShares = 3
  MaxWires = 2
  MaxAnnounces = 2
  Keys <- Accelerators
  Shipped <- ShippedKeys
  Spare <- SpareKeys
  Stored <- StoredKeys
  MaxRebinds = 2
  MaxMishaps = 1
  MaxEdges = 2
  MaxLaunches = 1
CHECK_DEADLOCK FALSE
INVARIANTS
  RetriesAreSound
  NeverCountedTwice
  NothingForgotten
  RecoveryIsOwn
  InboxIsSound
  UpdatesAreSound
  SamplingIsSound
  ReportIsExplained
  BreaksAreSound
  SharingIsSound
  ShortcutsAreSound
