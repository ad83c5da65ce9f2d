\* Four events: pages, crashes and failures between the writes, and a
\* journal that is trimmed, switched and cleared.
CONSTANTS
  MaxHeight = 3
  PageMax = 2
  MAX_EVENTS_AFTER = 3
  RequestLimits = {1, 3}
  DisturbBound = 2
  Disturbances = {"http", "cut", "app", "db", "crash", "resync", "outside",
                  "journal", "clear"}
  KeyOps = {0, 2}
  Invalid = {1}
  DEFAULT_SNAPSHOT_INTERVAL = 2
  Intervals <- MCIntervals
  States <- MCStates
  Patches <- MCPatches
  Corrupt <- MCCorrupt
  EmptyPatch <- MCEmptyPatch
  EmptyState <- MCEmptyState
  diff <- MCDiff
  applyPatch <- MCApplyPatch
  redact <- MCRedact
  mutated <- MCMutated
  written <- MCWritten
SPECIFICATION Spec
INVARIANTS LogIsChain NextAccepted WindowUnbroken HeadRebuilt NothingSkipped SyncFindsHead
CHECK_DEADLOCK FALSE
