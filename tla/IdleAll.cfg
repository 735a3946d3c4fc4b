SPECIFICATION FairSpec
CONSTANTS
  Workers = {w1, w2, w3}
  Duration = 1
  MaxTime = 5
CHECK_DEADLOCK FALSE
PROPERTIES
  OnlyOvertaken
  IdleGoes
