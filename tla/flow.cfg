SPECIFICATION FairSpec
CONSTANTS
  ClientWindow = 3
  ClientPacket = 2
  ServerWindow = 1
  ServerPacket = 2
  ServerPayload = 3
  ServerSlack = 1
  MaxPayload = 3
  MinWindow = 2
  QueueCap = 1
  WireCap = 2
  MaxDown = 5
  MaxUp = 3
  MaxGrant = 2
INVARIANTS
  WindowConservation
  LeftAssertion
  ServerNeverOverrun
  AcceptedIsSent
PROPERTIES
  Implements
  CreditReturns
  SendReturnsUnlessFull
CHECK_DEADLOCK FALSE
