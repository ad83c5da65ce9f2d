\* Every disturbance but subscribing again while the UNSUB is pending.
CONSTANTS
  Filters = {"a", "b"}
  MaxRetries = 1
  MaxOpRetries = 1
  WireBound = 2
  DisturbBound = 5
  Disturbances = {"want", "leave", "update", "filter", "drop", "timeout",
                  "flap", "refuse", "silent"}
SPECIFICATION FairSpec
INVARIANTS ViewsAgree RoomKept TimerAlone
PROPERTY SettlesDown
CHECK_DEADLOCK FALSE
