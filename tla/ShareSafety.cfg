SPECIFICATION Spec
CONSTANTS
  t1 = t1
  t2 = t2
  Nil = Nil
  Tasks = {t1, t2, t3}
  Submitters = {s1, s2}
  Closers = {c1, c2}
  MaxGoroutines = 2
  CloseTimeout = TRUE
  Outer <- FreeCalls
SYMMETRY Interchangeable
INVARIANTS
  TypeOK
  SoleOwner
  CountExact
  LimitRespected
  NoneStranded
  RunAtMostOnce
PROPERTY ImplementsExecutors
