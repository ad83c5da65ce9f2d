\* Any legal use of references, with faults; README section 3 lists the kinds left out.
CONSTANTS
  Contracts = {"group", "identity"}
  Foreign <- KeysOfOne
  Users = {u1, u2}
  Nobody = Nobody
  CallBound = 3
  DisturbBound = 2
  Disturbances = {"fail", "failScope", "early", "resync", "force", "delete", "keyDel", "reload"}
SPECIFICATION Spec
INVARIANTS CountsAgree NeededIsFollowed UnneededIsRemoved ForeignKeysFollowed
PROPERTIES KeptWhileNeeded
SYMMETRY UserSymmetry
CHECK_DEADLOCK FALSE
