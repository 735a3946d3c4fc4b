CONSTANTS
  MaxSources = 3
  MaxLength = 4
  Cap = 2
  Inputs <- MCInputs
SPECIFICATION FairSpec
INVARIANTS InOrder Whole Mapped
PROPERTY Answered
CHECK_DEADLOCK FALSE
