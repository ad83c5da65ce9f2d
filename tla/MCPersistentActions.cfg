\* Three attempts for each load, with every legal use of the queue.
CONSTANTS
  MaxAttempts = 3
  GenBound = 3
  DisturbBound = 8
  Disturbances = {"fail", "skip", "force", "cancel", "unload", "save", "crash"}
SPECIFICATION FairSpec
INVARIANTS OneRun GoneForGood InHand
PROPERTIES StartsLoaded Ends
CHECK_DEADLOCK FALSE
