\* Two tabs, drops and one box; two SOS; two gateways; two devices on a plan; two hosts;
\* two phones that set up one node's Wi-Fi.
CONSTANTS
  t1 = t1  t2 = t2
  SosIds = {"s1", "s2"}  MaxDoubt = 1
  Tabs <- TwoTabs
  Drops = {"d1", "d2"}
  Boxes = {"b1"}
  Elevated = {"d1"}
  Refused = {"d2"}
  MaxPendingDrops = 1
  MaxElevatedDrops = 1
  Scenarios <- DropScenarios
  None = None
SYMMETRY Symmetry
SPECIFICATION MCSpec
INVARIANTS PhonePublishesOnce
PROPERTIES KeepsCustody PagesAreCurrent DesignSound
CHECK_DEADLOCK FALSE
