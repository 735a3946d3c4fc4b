CONSTANTS
  Patience = 3
  MaxTime = 7
  Width = 30
  Calls <- MCCalls
SPECIFICATION FairSpec
INVARIANT SizeFits
PROPERTY LimitedReturns
CHECK_DEADLOCK FALSE
