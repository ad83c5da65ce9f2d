\* Two contracts of one client that ask each other for keys.
CONSTANTS
  a = a  b = b  group = group  identity = identity  k1 = k1  k2 = k2  k3 = k3
  both = both  say = say  rotate = rotate  reply = reply  register = register
  Nobody = Nobody
  Clients = {a, b}
  Contracts = {group, identity}
  Keys = {k1, k2, k3}
  Msgs = {say, rotate, reply, register}
  Owner <- OwnerCrossed
  Target <- TargetCrossed
  First = {}
  Atomic = {}
  Asked <- AskedCrossed
  Before <- BeforeCrossed
  FirstKeys = {k1}
  MaxAttempts = 3
  DisturbBound = 0
  Disturbances = {"refuse", "remove", "error", "lost", "fail"}
SPECIFICATION Spec
INVARIANT NeverStuck
CHECK_DEADLOCK FALSE
