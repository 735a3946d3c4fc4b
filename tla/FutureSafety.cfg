SPECIFICATION Spec
CONSTANTS
  c1 = c1
  k1 = k1
  k2 = k2
  k3 = k3
  Nil = Nil
  Promises = {p1, p2}
  Channels = {c1, c2}
  Size <- Mixed
  Calls = {k1, k2, k3, k4}
  Methods <- AnyMethod
  Deadlines = TRUE
  ContextEnds = TRUE
CHECK_DEADLOCK FALSE
SYMMETRY Interchangeable
INVARIANTS
  TypeOK
  Conserved
  PoolClean
  CompletedOnce
