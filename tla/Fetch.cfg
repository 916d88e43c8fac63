\* Three chunks and three providers, sizes claimed too small, right and too large; three
\* nodes on the air with one connection each.
CONSTANTS
  a = a  b = b  sos = sos  text = text  forged = forged
  p1 = p1  p2 = p2  p3 = p3  c1 = c1  c2 = c2
  Chosen = {"fetch", "link"}
  OnAir = {p1, p2, p3}  MaxConnections = 1  MaxPending = 2  MaxConns = 3  MaxStops = 1
  Users = {"a", "b", "c"}  Admins <- MsgAdmins  Links <- MsgLinks  Writes <- MsgWrites
  Waiter = "a"  MaxPeers = 1  MaxLinks = 2  MaxMsgs = 2  MaxFaults = 1
  Devices = {a, b}  MaxOut = 1  MaxIn = 1  MaxSessions = 3  MaxEntries = 3
  Sizes = {1, 2, 3}
  IdSpace = 3
  MaxReassemblies = 2
  MaxInFlight = 2
  MaxLag = 2
  MaxMessages = 5
  MaxFailures = 1
  Provider = {p1, p2, p3}
  Call = {c1, c2}
  Total = 3
  Estimates = {1, 2, 3, 4}
  MaxFetches = 2
  MaxCandidates = 1
  MaxMishaps = 2
  Peer = {a}
  Packet = {sos, text, forged}
  RawPriority <- HeldPriority
  MaxSize = 2
  Ttl = 2
  MaxTime = 2
  NoPeer = NoPeer
SYMMETRY Symmetry
SPECIFICATION MCSpec
INVARIANTS FetchForgetsNothing LinkEndsAgree
CHECK_DEADLOCK FALSE
