\* Liveness: no request fails and no resync happens.
CONSTANTS
  MaxHeight = 3
  ReingestCap = 1
  QueueBound = 2
  WireBound = 2
  DisturbBound = 2
  Disturbances = {"disconnect", "ingest", "restart"}
  Encrypted = {2}
  KeyHeight = 1
  Invalid = {1}
  Fatal = {}
  SelfShare = {}
SPECIFICATION FairSpec
PROPERTY CatchesUp
CHECK_DEADLOCK FALSE
