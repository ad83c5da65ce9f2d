\* Two clients that rotate one key of a group, and write to another contract: one that is
\* asked for keys when the rotation's turn comes.
CONSTANTS
  a = a  b = b  group = group  identity = identity  k1 = k1  k2 = k2  k3 = k3
  both = both  say = say  rotate = rotate  reply = reply  register = register
  Nobody = Nobody
  Clients = {a, b}
  Contracts = {group, identity}
  Keys = {k1, k2, k3}
  Msgs = {both, say, rotate, reply, register}
  Owner <- OwnerDef
  Target <- TargetDef
  First = {register}
  Atomic = {both}
  Asked <- AskedDef
  Before <- BeforeDef
  FirstKeys = {k1}
  MaxAttempts = 3
  DisturbBound = 1
  Disturbances = {"refuse", "remove", "error", "lost", "fail"}
SPECIFICATION Spec
INVARIANTS OnceInLog InCallOrder FitsItsPlace TwiceAtMost HookCalled DoneAsAsked NeverStuck
PROPERTY GetsOn
CHECK_DEADLOCK FALSE
