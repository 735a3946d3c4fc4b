SPECIFICATION FairSpec
CONSTANTS
  Nil = Nil
  Calls = {k1, k2}
  Forgetters = {}
  Keys = {x, y}
  MaxGoroutines = 2
  Waits = TRUE
CHECK_DEADLOCK FALSE
PROPERTY CompletionForgets
