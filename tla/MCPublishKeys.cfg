\* Two keys to delete, of which another client deletes one.
CONSTANTS
  a = a  b = b  group = group  identity = identity  k1 = k1  k2 = k2  k3 = k3
  both = both  say = say  rotate = rotate  reply = reply  register = register
  Nobody = Nobody
  Clients = {a, b}
  Contracts = {group, identity}
  Keys = {k1, k2, k3}
  Msgs = {both, rotate}
  Owner <- OwnerDef
  Target <- TargetDef
  First = {}
  Atomic = {}
  Asked <- AskedTwo
  Before <- NoneBefore
  FirstKeys = {k1, k2}
  MaxAttempts = 3
  DisturbBound = 0
  Disturbances = {"refuse", "remove", "error", "lost", "fail"}
SPECIFICATION Spec
INVARIANTS DoneAsAsked
CHECK_DEADLOCK FALSE
