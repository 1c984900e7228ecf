SPECIFICATION FairSpec
CONSTANTS
  N = 3
  M = 2
  Records = 3
  Variants <- AllThree
INVARIANTS
  
  AnswerIsFound
PROPERTIES
  MainReturnsOrOrphans
CHECK_DEADLOCK FALSE
