SPECIFICATION FairSpec
CONSTANTS
  c1 = c1
  k1 = k1
  k2 = k2
  k3 = k3
  Nil = Nil
  Promises = {p1}
  Channels = {c1, c2}
  Size <- Mixed
  Calls = {k1, k2, k3, k4, k5}
  Methods <- Overfilled
  Deadlines = TRUE
  ContextEnds = TRUE
CHECK_DEADLOCK FALSE
PROPERTIES
  CallsReturn
  AcceptedArrives
  Releases
