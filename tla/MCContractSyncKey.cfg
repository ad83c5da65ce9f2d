\* Event 2 of the contract shares the key that event 1 needed.
CONSTANTS
  MaxHeight = 2
  ReingestCap = 1
  QueueBound = 2
  WireBound = 2
  DisturbBound = 0
  Disturbances = {}
  Encrypted = {1}
  KeyHeight = 0
  Invalid = {}
  Fatal = {}
  SelfShare = {2}
SPECIFICATION Spec
INVARIANT KeyNotForgotten
CHECK_DEADLOCK FALSE
