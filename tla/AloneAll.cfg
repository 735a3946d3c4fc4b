SPECIFICATION FairSpec
CONSTANTS
  t1 = t1
  t2 = t2
  t3 = t3
  t4 = t4
  Nil = Nil
  Tasks = {t1, t2, t3, t4}
  Closers = {c1, c2}
  MaxGoroutines = 2
  Outer <- NestedCalls
INVARIANTS
  TypeOK
  ClosedForGood
PROPERTIES
  ImplementsExecutors
  CallsReturn
