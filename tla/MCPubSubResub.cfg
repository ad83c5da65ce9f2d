\* A contract is removed and wanted again before its UNSUB is answered.
CONSTANTS
  Filters = {}
  MaxRetries = 1
  MaxOpRetries = 1
  WireBound = 2
  DisturbBound = 3
  Disturbances = {"want", "leave", "resub"}
SPECIFICATION Spec
INVARIANT RoomKept
CHECK_DEADLOCK FALSE
