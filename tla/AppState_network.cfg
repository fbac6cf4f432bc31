SPECIFICATION FairSpec
CONSTANTS
  MaxEvents = 3
  MaxReboots = 2
INVARIANTS
  TypeOK
  NetworkBitIsTrue
  NobodyIsStranded
PROPERTIES
  AlwaysRejoins
  IpEndsTheWait
  LedSteadyWithoutServer
  LedBlinksWithServer
