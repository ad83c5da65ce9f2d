\* Both clients rotate a key, and one is asked for keys: do they get through?
CONSTANTS
  a = a  b = b  group = group  identity = identity  k1 = k1  k2 = k2  k3 = k3
  both = both  say = say  rotate = rotate  reply = reply  register = register
  Nobody = Nobody
  Clients = {a, b}
  Contracts = {group, identity}
  Keys = {k1, k2, k3}
  Msgs = {both, rotate, reply}
  Owner <- OwnerDef
  Target <- TargetDef
  First = {}
  Atomic = {both}
  Asked <- AskedDef
  Before <- BeforeDef
  FirstKeys = {k1}
  MaxAttempts = 3
  DisturbBound = 2
  Disturbances = {"refuse", "remove", "error", "lost", "fail"}
SPECIFICATION FairSpec
PROPERTY Ends
CHECK_DEADLOCK FALSE
