\* Two browsers and organisations of the portal; two boxes on the map; every record,
\* QR length and feed of five tokens after four beginnings; five places; three browsers;
\* two callers of tiles.
CONSTANTS
  b1 = b1  b2 = b2  o1 = o1  o2 = o2
  Browsers = {b1, b2}
  Orgs = {o1, o2}
  Emails = {"root"}
  Root = "root"
  Boxes = {"u1"}
  Ids = {"i1"}
  FixedRelays = {"i1"}
  None = None
  MaxAudit = 3
  MaxCommands = 2
  MaxFailures = 1
SYMMETRY Symmetry
SPECIFICATION MCSpec
INVARIANTS PortalTellsTruth ConversionsAgree ResilienceReport
PROPERTIES LimitsHold
CHECK_DEADLOCK FALSE
