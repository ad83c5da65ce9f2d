\* A contract that is watched is removed while its watcher comes back.
CONSTANTS
  Contracts = {"group", "identity"}
  Foreign <- KeysOfOne
  Users = {u1}
  Nobody = Nobody
  CallBound = 2
  DisturbBound = 1
  Disturbances = {"trusted"}
SPECIFICATION Spec
INVARIANT ForeignKeysFollowed
CHECK_DEADLOCK FALSE
