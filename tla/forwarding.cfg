SPECIFICATION FairSpec
CONSTANTS
  Listeners = {1, 2}
  Ports = {1}
  Asked = {0, 9}
  Local = 9
  Conns = {1, 2}
  EventCap = 2
  ListenCap = 1
  MaxCleans = 1
INVARIANTS
  ReplyIsOurs
  ForwardsAgree
CHECK_DEADLOCK FALSE
PROPERTIES
  ForwardEnds
  CancelReturns
  SessionEnds
