\* An EMERGENCY packet and a routine one compete for one place, between two
\* neighbours that come and go.
CONSTANTS
  a = a  b = b  sos = sos  text = text  forged = forged
  p1 = p1  p2 = p2  p3 = p3  c1 = c1  c2 = c2
  Chosen = {"hold"}
  OnAir = {p1, p2, p3}  MaxConnections = 1  MaxPending = 2  MaxConns = 3  MaxStops = 1
  Users = {"a", "b", "c"}  Admins <- MsgAdmins  Links <- MsgLinks  Writes <- MsgWrites
  Waiter = "a"  MaxPeers = 1  MaxLinks = 2  MaxMsgs = 2  MaxFaults = 1
  Devices = {a, b}  MaxOut = 1  MaxIn = 1  MaxSessions = 3  MaxEntries = 3
  Sizes = {1, 2, 3}
  IdSpace = 3
  MaxReassemblies = 2
  MaxInFlight = 2
  MaxLag = 2
  MaxMessages = 5
  MaxFailures = 1
  Provider = {p1, p2, p3}
  Call = {c1, c2}
  Total = 3
  Estimates = {1, 2, 3, 4}
  MaxFetches = 2
  MaxCandidates = 1
  MaxMishaps = 2
  Peer = {a, b}
  Packet = {sos, text}
  RawPriority <- HeldPriority
  MaxSize = 1
  Ttl = 1
  MaxTime = 0
  NoPeer = NoPeer
SPECIFICATION MCFairSpec
INVARIANTS NeverSentBack
PROPERTIES GateHonoured EmergencyEventuallyLeaves
CHECK_DEADLOCK FALSE
