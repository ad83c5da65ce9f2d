----------------------------- MODULE MCKeyRing -----------------------------
(***************************************************************************)
(* Instances of KeyRing for TLC: one client can decrypt private items, one *)
(* cannot; the contract has a root key, a public key and a private one.    *)
(***************************************************************************)
EXTENDS KeyRing

MCNames == {"csk", "a", "p"}

NoKey == [name |-> "a", ring |-> 0, perms |-> {}, private |-> FALSE,
          since |-> None, until |-> None]
First(name, ring, perms, private) ==
  [name |-> name, ring |-> ring, perms |-> perms, private |-> private,
   since |-> 0, until |-> None]

MCGenesis ==
  [keys |-> [k \in KeyIds |->
     CASE k = "root" -> First("csk", 0, OpTypes \cup {"atomic"}, FALSE)
       [] k = "a1" -> First("a", 1, {"add", "update"}, FALSE)
       [] k = "p1" -> First("p", 1, {"add", "update"}, TRUE)
       [] OTHER -> NoKey],
   pending |-> [k \in KeyIds |-> "no"]]

MCHolds(c) == IF c = "reader" THEN KeyIds ELSE {"root", "a1", "a2"}

Add(id, name, perms, private) ==
  [t |-> "add", items |-> {[id |-> id, name |-> name, ring |-> 1, perms |-> perms,
                            private |-> private]}]
Del(id, private) == [t |-> "del", items |-> {[id |-> id, private |-> private]}]
Update(old, id, perms) ==
  [t |-> "update",
   items |-> {[oldKeyId |-> old, id |-> id, perms |-> perms, private |-> FALSE]}]

Single(signer, op) == [signer |-> signer, atomic |-> FALSE, ops |-> <<op>>]
Both(signer, op1, op2) == [signer |-> signer, atomic |-> TRUE, ops |-> <<op1, op2>>]
Once(events) == [raw : {FALSE}, e : events]
AsItIs(events) == [raw : {TRUE}, e : events]

MCWishes(c) ==
  IF c = "reader"
  THEN Once({ Single("root", Update("a1", "a2", {})),
              Single("root", Update("a2", "a1", {})),
              Single("root", Del("p1", FALSE)),
              Single("root", Del("a1", TRUE)),
              Single("p1", Add("p2", "p", {"update"}, TRUE)),
              Both("root", Update("a2", "a2", {"del"}), Add("p2", "p", {"add"}, TRUE)) })
       \cup AsItIs({ Single("p1", Update("a1", "a2", {})) })
  ELSE Once({ Single("root", Update("a1", "a1", {"del"})),
              Single("root", Add("a1", "a", {"update"}, FALSE)),
              Single("a1", Add("a2", "a", {"*"}, FALSE)),
              Both("root", Del("root", FALSE), Update("a1", "a2", {"add", "atomic"})) })
       \cup AsItIs({ Single("root", Del("a1", FALSE)),
                     Both("root", Add("a2", "a", {"add"}, FALSE), Del("a1", FALSE)) })
=============================================================================
