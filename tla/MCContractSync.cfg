\* Safety under every disturbance but a key that lands in the middle of an event.
CONSTANTS
  MaxHeight = 4
  ReingestCap = 1
  QueueBound = 2
  WireBound = 2
  DisturbBound = 3
  Disturbances = {"disconnect", "http", "db", "ingest", "appsync", "restart",
                  "update", "key"}
  Encrypted = {2}
  KeyHeight = 1
  Invalid = {3}
  Fatal = {4}
  SelfShare = {}
SPECIFICATION Spec
INVARIANTS StateFaithful TrackerAhead NextOnly KeyNotForgotten
PROPERTIES ImplementsReplica
CHECK_DEADLOCK FALSE
