SPECIFICATION Spec
CONSTANTS
  ServerIds = {1, 2}
  MaxChannels = 3
  EventCap = 2
  MaxCleans = 0
  MaxChats = 1
  Plans = {{"open", "eof", "drop", "serverClose", "serverData"},
           {"forward", "listen", "deaf", "drop", "serverClose", "serverData"}}
INVARIANTS
  
  NoneAstray
  HandleBacked
  CloseReported
  TablesAgree
CHECK_DEADLOCK FALSE
