SPECIFICATION FairSpec
CONSTANTS
  Window = 1
  Records = {"D"}
  Sizes = {0, 2}
  MaxCalls = 4
  MaxCancels = 1
  Refuses = TRUE

  
  
PROPERTY
  CallReturns
CHECK_DEADLOCK FALSE
