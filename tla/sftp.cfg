SPECIFICATION FairSpec
CONSTANTS
  Window = 1
  IdSpace = 2
  Extensions = {{"limits"}}
  Odd = {"ok", "unfit", "unparsable", "huge"}
  MaxCalls = 3
  MaxCancels = 1
INVARIANTS
  AnswerIsOwn
  CursorRight

  
CHECK_DEADLOCK FALSE
