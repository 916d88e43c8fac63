\* Two LoRa sends through each of the two drivers; two processes of one install.
CONSTANTS
  s1 = s1  s2 = s2  s3 = s3  s4 = s4  s5 = s5
  na = na  nb = nb  nc = nc  nd = nd  m1 = m1  m2 = m2
  Send = {s1, s2, s3, s4, s5}
  priority <- Burst
  Levels = 3
  MaxQueued = 2
  None = None
  Chosen = {"serial", "chip", "launch"}
SPECIFICATION MCSpec
PROPERTIES LoraDelivers InstallAndShutdown
CHECK_DEADLOCK FALSE
