\* One slot, written by this client and by others.
CONSTANTS
  Shapes = {"v", "w"}
  MaxSlot = 1
  Accepts <- AcceptsMC
  EchoMax = 1
  MaxAttempts = 2
  CommitBound = 2
  CallBound = 2
  DisturbBound = 1
  Disturbances = {"nocid", "height", "http", "abort", "release", "disconnect",
                  "restart", "ttl"}
SPECIFICATION Spec
INVARIANTS NoLostUpdate OthersSeen
CHECK_DEADLOCK FALSE
