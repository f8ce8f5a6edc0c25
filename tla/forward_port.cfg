SPECIFICATION Spec
CONSTANTS
  Listeners = {1, 2}
  Ports = {1, 2}
  Asked = {0, 1}
  Local = 9
  Conns = {1}
  EventCap = 1
  ListenCap = 1
  MaxCleans = 0
INVARIANT
  ForwardsAgree
CHECK_DEADLOCK FALSE
