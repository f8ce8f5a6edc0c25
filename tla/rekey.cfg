SPECIFICATION FairSpec
CONSTANTS
  MaxRequests = 2
  MaxCalls = 2
  MaxExchanges = 2
  MaxPings = 2
  Verdicts = {TRUE, FALSE}
INVARIANTS
  KeysMatch
  KexInitUsed
  OnlyTrustedKeys
PROPERTIES
  RekeyCompletes
CHECK_DEADLOCK FALSE
