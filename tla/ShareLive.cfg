SPECIFICATION FairSpec
CONSTANTS
  t1 = t1
  t2 = t2
  Nil = Nil
  Tasks = {t1, t2, t3}
  Submitters = {s1}
  Closers = {c1}
  MaxGoroutines = 1
  CloseTimeout = FALSE
  Outer <- NestedCall
PROPERTIES
  AcceptedFinishes
  ExecuteReturns
  Drains
  CloseFreesCalls
