\* Five sends of one burst through a queue of two; two nodes that dial each other;
\* four nodes whose links break; a phone's role cycle.
CONSTANTS
  s1 = s1  s2 = s2  s3 = s3  s4 = s4  s5 = s5
  na = na  nb = nb  nc = nc  nd = nd  m1 = m1  m2 = m2
  Send = {s1, s2, s3, s4, s5}
  priority <- Burst
  Levels = 3
  MaxQueued = 2
  None = None

  Chosen = {"send", "conn", "route", "role"}
SPECIFICATION MCSpec
INVARIANTS NoStrandedSend
PROPERTIES MostUrgentFirst SendSettles ConnectionsAgree RoutesSound RoleCycleEnds
CHECK_DEADLOCK FALSE
