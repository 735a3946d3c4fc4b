CONSTANTS
  MaxSources = 3
  MaxLength = 4
  Cap = 2
  Inputs <- FullInputs
SPECIFICATION FairSpec
PROPERTY OnCompleteReturns
CHECK_DEADLOCK FALSE
