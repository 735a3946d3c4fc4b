SPECIFICATION FairSpec
CONSTANTS
  Nil = Nil
  Calls = {k1, k2, k3}
  Forgetters = {f1}
  Keys = {x}
  MaxGoroutines = 3
  Waits = FALSE
CHECK_DEADLOCK FALSE
INVARIANTS
  TypeOK
  OneOutcome
  SingleFlight
PROPERTIES
  SharersAnswered
  OriginsLeave
