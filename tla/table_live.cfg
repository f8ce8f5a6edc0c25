SPECIFICATION FairSpec
CONSTANTS
  ServerIds = {1, 2}
  MaxChannels = 2
  EventCap = 1
  MaxCleans = 1
  MaxChats = 1
  Plans = {{"open", "request", "drop"},
           {"open", "drop", "clean", "serverClose", "serverAsk"}}
PROPERTIES
  CallsReturn
  CleanReclaims
CHECK_DEADLOCK FALSE
