SPECIFICATION FairSpec
CONSTANTS
  Preferred <- MCPreferred
  Offers <- MCOffers
  Software = {"any", "Cisco-1."}
  BannerMax = 20
  LineSizes = {8, 12}
  Needs = {128, 256}
  Primes = {1024, 2048, 8192}
  MaxNoise = 2
INVARIANTS
  NegotiationRight
  KeysAgree
PROPERTY
  HandshakeEnds
CHECK_DEADLOCK FALSE
