SPECIFICATION Spec
CONSTANTS
  Tiles = {"t1", "t2"}
  Callers = {"c1", "c2"}
  Concurrency = 1
  MaxQueue = 1
  MaxNewPerHour = 2
  MaxFailures = 2
  Cap = 1
  Hour = 3
  Protect = 2
  EnforceEvery = 1
  MaxNow = 3
PROPERTY SlotIsFreed
CHECK_DEADLOCK FALSE
