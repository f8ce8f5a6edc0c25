SPECIFICATION FairSpec
CONSTANTS
  MaxRequests = 1
  MaxCalls = 0
  MaxExchanges = 1
  MaxPings = 0
  Verdicts = {TRUE}
PROPERTIES
  DeferredIsHandled
CHECK_DEADLOCK FALSE
