------------------------------ MODULE MCPublish ------------------------------
(***************************************************************************)
(* Instances of Publish for TLC: two clients that write to one contract, and *)
(* one of them to another.                                                 *)
(***************************************************************************)
EXTENDS Publish

CONSTANTS a, b, group, identity, k1, k2, k3,
          both, say, rotate, reply, register

Action == [t |-> "action", olds |-> {}, news |-> {}]
Add(k) == [t |-> "add", olds |-> {}, news |-> {k}]
Del(ks) == [t |-> "del", olds |-> ks, news |-> {}]
Update(o, n) == [t |-> "update", olds |-> {o}, news |-> {n}]

OwnerDef == [m \in Msgs |-> IF m \in {both, register} THEN a ELSE b]
TargetDef == [m \in Msgs |-> IF m = reply THEN identity ELSE group]
AskedDef == [m \in Msgs |->
  CASE m = both -> <<Update(k1, k2), Action>>
    [] m = rotate -> <<Update(k1, k3)>>
    [] m = reply -> <<Add(k2)>>
    [] m = say -> <<Add(k3)>>
    [] OTHER -> <<Action>>]
BeforeDef == [m \in Msgs |-> IF m = rotate THEN reply ELSE Nobody]

\* Two contracts of one client that ask each other for keys.
OwnerCrossed == [m \in Msgs |-> b]
TargetCrossed == [m \in Msgs |-> IF m \in {reply, register} THEN identity ELSE group]
AskedCrossed == [m \in Msgs |->
  CASE m = reply -> <<Add(k2)>>
    [] m = say -> <<Add(k3)>>
    [] OTHER -> <<Action>>]
BeforeCrossed == [m \in Msgs |->
  CASE m = rotate -> reply
    [] m = register -> say
    [] OTHER -> Nobody]

NoneBefore == [m \in Msgs |-> Nobody]

\* Both want to delete k1, and one of them k2 as well.
AskedTwo == [m \in Msgs |-> IF m = both THEN <<Del({k1, k2})>> ELSE <<Del({k1})>>]

=============================================================================
