SPECIFICATION FairSpec
CONSTANTS
  Suites <- MCSuites
  Size <- MCSize
  ReadSizes = {13, 60}
  SeqLimit = 2
  MaxPackets = 3
  MaxPayloads = 3
  MaxKeys = 2
INVARIANTS AlwaysOpens NonceFresh NamesRejected
PROPERTY Delivered
CHECK_DEADLOCK FALSE
