\* One SOS in a triangle while a fourth node joins and is cut off; a caller and its
\* provider; four addresses; eight publications; two nodes and labels; two commands.
CONSTANTS
  na = na  nb = nb  nc = nc  nd = nd  s1 = s1
  Node = {na, nb, nc, nd}
  Edge <- Kite
  Beacon = {s1}
  Origin <- FromA
  Blind = {nb}
  Listener = {nd}
  Ttl = 2
  MaxFetches = 1
  MaxEvents = 3
  InitLinks <- Start
  Direct = Direct
  CommandRows = {"c1", "c2"}
  MaxPerTick = 1
  MaxLives = 2
  MaxSwaps = 1
  NoCommand = "none"
  Addrs <- Addresses
  Local = {"own"}
  Prefix <- AddressPrefix
  MaxFailures = 2
  PrefixFactor = 2
  Window = 2
  MaxTracked = 3
  Options = {"calls", "relays"}
  Posts <- PostKinds
  Reqs = {1}
  MaxMinutes = 2
  Caller = "c"
  Remotes = {"p"}
  Calls = {1}
  Shares = {2, 3}
  MaxReadings = 2
  MaxAnnounced = 2
  MaxLost = 1
  Registrants = {"x", "y"}
  Labels = {"l1", "l2"}
  NoLabel = ""
  MaxRegistrations = 1
  MaxRenewals = 2
  Contents <- Published
  Publishers = {"s1", "s2", "box", "me"}
  Me = "me"
  Chunks = {1, 2}
  MaxStore = 3
  MaxDrops = 1
  MaxBoxes = 1
  MaxFetching = 1
  MaxElevated = 1
  GroupMessages = {"g1"}
  MaxPublished = 4
SPECIFICATION MCSpec
INVARIANTS ReachesConnectedMesh Reconciled AcceptedIsShown CommandsSettled
PROPERTIES SightingSticks DirectoriesHold LockHolds TrustedOutlastsFlood
CHECK_DEADLOCK FALSE
