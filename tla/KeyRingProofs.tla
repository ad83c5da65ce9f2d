--------------------------- MODULE KeyRingProofs ---------------------------
(***************************************************************************)
(* Proofs for KeyRing, for any clients, keys and wishes and a log of any   *)
(* events.  Nothing is assumed of the payloads: what matters is checked    *)
(* when an event is processed.                                             *)
(*                                                                         *)
(* The first part is about what one ring may become.  The second relates   *)
(* the rings of different clients: the public part of each is the ring of  *)
(* a client that has nothing but public keys (Bare), and that client's     *)
(* course through an event is a sequence (Trace) whose existence is an     *)
(* induction over the operations, by the least number that has none.       *)
(***************************************************************************)
EXTENDS KeyRing, WellFoundedInduction, TLAPS

KeyShape(r) ==
  r = [name |-> r.name, ring |-> r.ring, perms |-> r.perms, private |-> r.private,
       since |-> r.since, until |-> r.until]

RingShape(v) ==
  /\ v = [keys |-> v.keys, pending |-> v.pending]
  /\ v.keys = [k \in KeyIds |-> v.keys[k]]
  /\ v.pending = [k \in KeyIds |-> v.pending[k]]
  /\ \A k \in KeyIds : KeyShape(v.keys[k]) /\ v.keys[k].ring \in RingLevels

Granted(p) == \E o \in KeyIds : In(Genesis.keys, o) /\ p \in Genesis.keys[o].perms
Reached(n) == \E o \in KeyIds : In(Genesis.keys, o) /\ Genesis.keys[o].ring <= n

Flagged(v) == \A k \in KeyIds : v.pending[k] # "no" => Active(v.keys, k)

Sound(v) == RingShape(v) /\ Founded(v.keys) /\ Flagged(v)

Revoked(keys, k) == In(keys, k) /\ keys[k].until # None

\* What an operation may do to the keys of a ring: none goes, and of those that were
\* deleted only the keys of back return.
Follows(old, new, back) ==
  /\ \A k \in KeyIds : In(old, k) => In(new, k)
  /\ \A k \in KeyIds : Revoked(old, k) /\ Active(new, k) => k \in back

Ids(items) == {i.id : i \in items}

Allowed(signer) == \A p \in signer.perms : Granted(p)

LEMMA FoundedMeans ==
  ASSUME NEW keys
  PROVE  Founded(keys) <=> \A k \in KeyIds : In(keys, k) =>
           (\A p \in keys[k].perms : Granted(p)) /\ Reached(keys[k].ring)
  BY DEF Founded, Granted, Reached

LEMMA ReachedUp ==
  ASSUME NEW m \in RingLevels, NEW n \in RingLevels, n >= m, Reached(m)
  PROVE  Reached(n)
<1>1. PICK o \in KeyIds : In(Genesis.keys, o) /\ Genesis.keys[o].ring <= m
  BY DEF Reached
<1>2. Genesis.keys[o].ring \in Nat
  BY GenesisAssumption, RingAssumption DEF Rings, Keys
<1>3. Genesis.keys[o].ring <= n
  BY <1>1, <1>2, RingAssumption
<1>4. QED
  BY <1>1, <1>3 DEF Reached

LEMMA WithKeys ==
  ASSUME NEW v, RingShape(v), NEW n
  PROVE  [v EXCEPT !.keys = n] = [keys |-> n, pending |-> v.pending]
<1>1. v = [keys |-> v.keys, pending |-> v.pending]
  BY DEF RingShape
<1>2. \A a, b : v = [keys |-> a, pending |-> b]
               => [v EXCEPT !.keys = n] = [keys |-> n, pending |-> b]
  OBVIOUS
<1>3. QED
  BY <1>1, <1>2

LEMMA OtherPerms ==
  ASSUME NEW q, KeyShape(q), NEW x, NEW n, n = [q EXCEPT !.perms = x]
  PROVE  /\ KeyShape(n) /\ n.ring = q.ring /\ n.perms = x
         /\ n.since = q.since /\ n.until = q.until
  BY DEF KeyShape

LEMMA GenesisSound == Sound(Genesis)
<1>1. RingShape(Genesis)
  BY GenesisAssumption DEF RingShape, Rings, Keys, KeyShape
<1>2. \A k \in KeyIds : Genesis.keys[k].ring \in Nat
  BY GenesisAssumption, RingAssumption DEF Rings, Keys
<1>3. Founded(Genesis.keys)
  BY <1>2 DEF Founded
<1>4. Flagged(Genesis)
  BY GenesisAssumption DEF Flagged
<1>5. QED
  BY <1>1, <1>3, <1>4 DEF Sound

(***************************************************************************)
(* The operations, one by one.                                             *)
(***************************************************************************)
LEMMA AddIsSound ==
  ASSUME NEW vmx, Sound(vmx), NEW id, In(vmx.keys, id), NEW signer, Allowed(signer),
         NEW items, NEW h \in Nat
  PROVE  LET r == KeyAdd(vmx, id, signer, items, h) IN
           Sound(r.vm) /\ Follows(vmx.keys, r.vm.keys, Ids(items))
<1> DEFINE keys == [k \in KeyIds |->
             IF \E i \in items : i.id = k
             THEN Added(vmx.keys, CHOOSE i \in items : i.id = k, h)
             ELSE vmx.keys[k]]
           new == [keys |-> keys, pending |-> vmx.pending]
<1>s. RingShape(vmx) /\ Founded(vmx.keys) /\ Flagged(vmx)
  BY DEF Sound
<1>d. DOMAIN vmx.keys = KeyIds
  BY <1>s DEF RingShape
<1>0. Follows(vmx.keys, vmx.keys, Ids(items))
  BY DEF Follows, Revoked, Active
<1>1. CASE \/ \E i \in items : Active(vmx.keys, i.id)
           \/ ~validateKeyAddPermissions(vmx.keys, id, signer, items, FALSE)
  BY <1>1, <1>0 DEF KeyAdd, Fails
<1>2. CASE ~(\/ \E i \in items : Active(vmx.keys, i.id)
             \/ ~validateKeyAddPermissions(vmx.keys, id, signer, items, FALSE))
  <2>1. [vmx EXCEPT !.keys = keys] = new
    BY <1>s, WithKeys
  <2>2. KeyAdd(vmx, id, signer, items, h).vm = new
    BY <1>2, <2>1 DEF KeyAdd, Done
  <2>3. ASSUME NEW k \in KeyIds, \E i \in items : i.id = k
        PROVE  \E i \in items :
                 /\ i.id = k /\ ~Active(vmx.keys, k)
                 /\ keys[k] = Added(vmx.keys, i, h)
                 /\ i.ring \in RingLevels /\ i.ring >= vmx.keys[id].ring
                 /\ i.perms \subseteq signer.perms
    BY <2>3, <1>2 DEF validateKeyAddPermissions
  <2>4. ASSUME NEW k \in KeyIds, ~\E i \in items : i.id = k
        PROVE  keys[k] = vmx.keys[k]
    BY <2>4
  <2>5. id \in KeyIds /\ vmx.keys[id].ring \in RingLevels /\ Reached(vmx.keys[id].ring)
    BY <1>s, <1>d, FoundedMeans DEF In, RingShape
  <2>6. RingShape(new)
    <3>1. ASSUME NEW k \in KeyIds
          PROVE  KeyShape(keys[k]) /\ keys[k].ring \in RingLevels
      BY <2>3, <2>4, <1>s DEF RingShape, KeyShape, Added, From
    <3>2. QED
      BY <3>1, <1>s DEF RingShape
  <2>7. Founded(keys)
    <3>1. ASSUME NEW k \in KeyIds, In(keys, k)
          PROVE  (\A p \in keys[k].perms : Granted(p)) /\ Reached(keys[k].ring)
      <4>1. CASE \E i \in items : i.id = k
        <5>1. PICK i \in items : /\ keys[k] = Added(vmx.keys, i, h)
                                 /\ i.ring \in RingLevels
                                 /\ i.ring >= vmx.keys[id].ring
                                 /\ i.perms \subseteq signer.perms
          BY <4>1, <2>3
        <5>2. keys[k].perms = i.perms /\ keys[k].ring = i.ring
          BY <5>1 DEF Added, From
        <5>3. Reached(i.ring)
          BY <5>1, <2>5, ReachedUp
        <5>4. QED
          BY <5>1, <5>2, <5>3 DEF Allowed
      <4>2. CASE ~\E i \in items : i.id = k
        <5>1. In(vmx.keys, k)
          BY <3>1, <4>2, <2>4, <1>d DEF In
        <5>2. QED
          BY <5>1, <4>2, <2>4, <1>s, FoundedMeans
      <4>3. QED
        BY <4>1, <4>2
    <3>2. QED
      BY <3>1, FoundedMeans
  <2>8. Flagged(new)
    <3>1. ASSUME NEW k \in KeyIds, vmx.pending[k] # "no" PROVE Active(keys, k)
      <4>1. Active(vmx.keys, k)
        BY <3>1, <1>s DEF Flagged
      <4>2. ~\E i \in items : i.id = k
        BY <4>1, <1>2
      <4>3. QED
        BY <4>1, <4>2, <2>4, <1>d DEF Active, In
    <3>2. QED
      BY <3>1 DEF Flagged
  <2>9. Follows(vmx.keys, keys, Ids(items))
    <3>1. ASSUME NEW k \in KeyIds, In(vmx.keys, k) PROVE In(keys, k)
      <4>1. CASE \E i \in items : i.id = k
        <5>1. PICK i \in items : i.id = k /\ keys[k] = Added(vmx.keys, i, h)
          BY <4>1, <2>3
        <5>2. keys[k].since \in {h, vmx.keys[k].since}
          BY <5>1, <3>1 DEF Added, From, Smaller
        <5>3. QED
          BY <5>2, <3>1 DEF In, None
      <4>2. CASE ~\E i \in items : i.id = k
        BY <3>1, <4>2, <2>4 DEF In
      <4>3. QED
        BY <4>1, <4>2
    <3>2. ASSUME NEW k \in KeyIds, Revoked(vmx.keys, k), Active(keys, k)
          PROVE  k \in Ids(items)
      BY <3>2, <2>4 DEF Revoked, Active, Ids
    <3>3. QED
      BY <3>1, <3>2 DEF Follows
  <2>10. QED
    BY <2>2, <2>6, <2>7, <2>8, <2>9 DEF Sound
<1>3. QED
  BY <1>1, <1>2

LEMMA DeleteIsSound ==
  ASSUME NEW vmx, Sound(vmx), NEW h \in Nat, NEW ids, \A k \in ids : In(vmx.keys, k),
         NEW back
  PROVE  LET r == deleteKeyHelper(vmx, h, ids) IN
           /\ Sound(r) /\ Follows(vmx.keys, r.keys, back)
           /\ \A k \in KeyIds : Active(r.keys, k) => r.keys[k] = vmx.keys[k]
           /\ \A k \in KeyIds : Revoked(vmx.keys, k) => Revoked(r.keys, k)
<1> DEFINE r == deleteKeyHelper(vmx, h, ids)
<1>s. RingShape(vmx) /\ Founded(vmx.keys) /\ Flagged(vmx)
  BY DEF Sound
<1>d. DOMAIN vmx.keys = KeyIds /\ DOMAIN r.keys = KeyIds
  BY <1>s DEF RingShape, deleteKeyHelper
<1>1. ASSUME NEW k \in KeyIds
      PROVE  /\ KeyShape(r.keys[k])
             /\ r.keys[k].ring = vmx.keys[k].ring /\ r.keys[k].perms = vmx.keys[k].perms
             /\ r.keys[k].since = vmx.keys[k].since
             /\ k \in ids => r.keys[k].until = h
             /\ k \notin ids => r.keys[k] = vmx.keys[k]
  <2>1. KeyShape(vmx.keys[k])
    BY <1>s DEF RingShape
  <2>2. \A q : KeyShape(q) =>
          LET n == [q EXCEPT !.until = h] IN
            /\ KeyShape(n) /\ n.ring = q.ring /\ n.perms = q.perms
            /\ n.since = q.since /\ n.until = h
    BY DEF KeyShape
  <2>3. r.keys[k] = IF k \in ids THEN [vmx.keys[k] EXCEPT !.until = h] ELSE vmx.keys[k]
    BY DEF deleteKeyHelper
  <2>4. QED
    BY <2>1, <2>2, <2>3
<1>2. \A k \in KeyIds : In(r.keys, k) <=> In(vmx.keys, k)
  BY <1>1, <1>d DEF In
<1>h. h # None
  BY DEF None
<1>3. RingShape(r)
  BY <1>1, <1>s DEF RingShape, deleteKeyHelper
<1>4. Founded(r.keys)
  BY <1>1, <1>2, <1>s, FoundedMeans
<1>5. Flagged(r)
  <2>1. ASSUME NEW k \in KeyIds, r.pending[k] # "no" PROVE Active(r.keys, k)
    <3>1. ~SameName(vmx.keys, k, ids) /\ vmx.pending[k] # "no"
      BY <2>1 DEF deleteKeyHelper
    <3>2. Active(vmx.keys, k)
      BY <3>1, <1>s DEF Flagged
    <3>3. k \notin ids
      BY <3>1, <3>2 DEF SameName, Active
    <3>4. QED
      BY <3>2, <3>3, <1>1, <1>2 DEF Active
  <2>2. QED
    BY <2>1 DEF Flagged
<1>6. \A k \in KeyIds : Active(r.keys, k) => r.keys[k] = vmx.keys[k]
  BY <1>1, <1>h DEF Active
<1>7. \A k \in KeyIds : Revoked(vmx.keys, k) => Revoked(r.keys, k)
  BY <1>1, <1>2, <1>h DEF Revoked
<1>8. Follows(vmx.keys, r.keys, back)
  BY <1>2, <1>7 DEF Follows, Revoked, Active
<1>9. QED
  BY <1>3, <1>4, <1>5, <1>6, <1>7, <1>8 DEF Sound

LEMMA DelIsSound ==
  ASSUME NEW vmx, Sound(vmx), NEW id, NEW signer, NEW items, NEW h \in Nat
  PROVE  LET r == KeyDel(vmx, id, signer, items, h) IN
           Sound(r.vm) /\ Follows(vmx.keys, r.vm.keys, {})
<1> DEFINE ids == {k \in {i.id : i \in items} : Active(vmx.keys, k)}
<1>1. \A k \in ids : In(vmx.keys, k)
  BY DEF Active
<1>2. LET r == deleteKeyHelper(vmx, h, ids) IN Sound(r) /\ Follows(vmx.keys, r.keys, {})
  BY <1>1, DeleteIsSound
<1>3. Follows(vmx.keys, vmx.keys, {})
  BY DEF Follows, Revoked, Active
<1>4. QED
  BY <1>2, <1>3 DEF KeyDel, Fails, Done

LEMMA UpdateIsSound ==
  ASSUME NEW vmx, Sound(vmx), NEW id, In(vmx.keys, id), NEW signer, Allowed(signer),
         NEW items, NEW h \in Nat
  PROVE  LET r == KeyUpdate(vmx, id, signer, items, h) IN
           Sound(r.vm) /\ Follows(vmx.keys, r.vm.keys, {})
<1> DEFINE gone == deleteKeyHelper(vmx, h, Replaced(items))
           missing == \E i \in items : ~In(vmx.keys, i.oldKeyId)
           refused == \/ \E i \in items : ~(vmx.keys[i.oldKeyId].private <=> i.private)
                      \/ ~validateKeyAddPermissions(vmx.keys, id, signer,
                            {Updated(vmx.keys, i) : i \in items}, TRUE)
                      \/ \E i \in items : UpdatesDeleted(gone.keys, i)
           keys == [k \in KeyIds |->
             IF \E i \in items : i.id = k
             THEN UpdatedKey(vmx, gone.keys, CHOOSE i \in items : i.id = k, h)
             ELSE gone.keys[k]]
           new == [keys |-> keys, pending |-> gone.pending]
<1>s. RingShape(vmx) /\ Founded(vmx.keys) /\ Flagged(vmx)
  BY DEF Sound
<1>d. DOMAIN vmx.keys = KeyIds
  BY <1>s DEF RingShape
<1>0. Follows(vmx.keys, vmx.keys, {})
  BY DEF Follows, Revoked, Active
<1>1. CASE missing \/ refused
  <2>1. KeyUpdate(vmx, id, signer, items, h).vm = vmx
    BY <1>1 DEF KeyUpdate, Fails, Warns
  <2>2. QED
    BY <2>1, <1>0
<1>2. CASE ~missing /\ ~refused
  <2>g. /\ Sound(gone) /\ Follows(vmx.keys, gone.keys, {})
        /\ \A k \in KeyIds : Active(gone.keys, k) => gone.keys[k] = vmx.keys[k]
        /\ \A k \in KeyIds : Revoked(vmx.keys, k) => Revoked(gone.keys, k)
    <3>1. \A k \in Replaced(items) : In(vmx.keys, k)
      BY <1>2 DEF Replaced
    <3>2. QED
      BY <3>1, DeleteIsSound
  <2>e. RingShape(gone) /\ Founded(gone.keys) /\ Flagged(gone) /\ DOMAIN gone.keys = KeyIds
    BY <2>g DEF Sound, RingShape
  <2>1. [gone EXCEPT !.keys = keys] = new
    BY <2>e, WithKeys
  <2>2. KeyUpdate(vmx, id, signer, items, h).vm = new
    BY <1>2, <2>1 DEF KeyUpdate, Done
  <2>3. ASSUME NEW k \in KeyIds, \E i \in items : i.id = k
        PROVE  \E i \in items :
                 /\ i.id = k /\ keys[k] = UpdatedKey(vmx, gone.keys, i, h)
                 /\ In(vmx.keys, i.oldKeyId) /\ ~UpdatesDeleted(gone.keys, i)
                 /\ Updated(vmx.keys, i).ring >= vmx.keys[id].ring
                 /\ Updated(vmx.keys, i).perms \subseteq signer.perms
    BY <2>3, <1>2 DEF validateKeyAddPermissions
  <2>4. ASSUME NEW k \in KeyIds, ~\E i \in items : i.id = k
        PROVE  keys[k] = gone.keys[k]
    BY <2>4
  <2>5. id \in KeyIds /\ vmx.keys[id].ring \in RingLevels /\ Reached(vmx.keys[id].ring)
    BY <1>s, <1>d, FoundedMeans DEF In, RingShape
  <2>6. ASSUME NEW k \in KeyIds, \E i \in items : i.id = k
        PROVE  /\ KeyShape(keys[k]) /\ keys[k].ring \in RingLevels
               /\ In(keys, k) /\ keys[k].until = None /\ ~Revoked(gone.keys, k)
               /\ \A p \in keys[k].perms : Granted(p)
               /\ Reached(keys[k].ring)
    <3>1. PICK i \in items : /\ i.id = k /\ keys[k] = UpdatedKey(vmx, gone.keys, i, h)
                             /\ In(vmx.keys, i.oldKeyId) /\ ~UpdatesDeleted(gone.keys, i)
                             /\ Updated(vmx.keys, i).ring >= vmx.keys[id].ring
                             /\ Updated(vmx.keys, i).perms \subseteq signer.perms
      BY <2>6, <2>3
    <3> DEFINE u == Updated(vmx.keys, i)
    <3>2. i.oldKeyId \in KeyIds
      BY <3>1, <1>d DEF In
    <3>3. \A q, x : KeyShape(q) =>
            LET n == [q EXCEPT !.perms = x] IN
              /\ KeyShape(n) /\ n.ring = q.ring /\ n.perms = x
              /\ n.since = q.since /\ n.until = q.until
      BY DEF KeyShape
    <3>4. KeyShape(u) /\ u.ring = vmx.keys[i.oldKeyId].ring
      <4>1. KeyShape(vmx.keys[i.oldKeyId])
        BY <3>2, <1>s DEF RingShape
      <4>2. u = [vmx.keys[i.oldKeyId] EXCEPT !.perms =
                   IF i.perms = {} THEN vmx.keys[i.oldKeyId].perms ELSE i.perms]
        BY <4>1 DEF Updated, KeyShape
      <4>3. QED
        BY <4>1, <4>2, <3>3
    <3>5. u.ring \in RingLevels /\ Reached(u.ring)
      BY <3>1, <3>2, <3>4, <1>s, FoundedMeans DEF RingShape
    <3>6. \A p \in u.perms : Granted(p)
      BY <3>1 DEF Allowed
    <3>7. ~Revoked(gone.keys, k)
      BY <3>1 DEF UpdatesDeleted, Revoked, Active
    <3>8. CASE Active(gone.keys, k)
      <4> DEFINE g == gone.keys[k]
      <4>1. KeyShape(g) /\ g.ring \in RingLevels
        BY <2>e DEF RingShape
      <4>2. keys[k] = [g EXCEPT !.perms = g.perms \cup u.perms]
        BY <3>1, <3>8, <4>1 DEF UpdatedKey, KeyShape
      <4>3. /\ KeyShape(keys[k]) /\ keys[k].ring = g.ring
            /\ keys[k].perms = g.perms \cup u.perms
            /\ keys[k].since = g.since /\ keys[k].until = g.until
        <5> HIDE DEF keys, g, u
        <5>1. QED
          BY <4>1, <4>2, OtherPerms
      <4>4. (\A p \in g.perms : Granted(p)) /\ Reached(g.ring)
        BY <3>8, <2>e, FoundedMeans DEF Active
      <4>5. In(keys, k) /\ keys[k].until = None
        BY <4>3, <3>8 DEF Active, In
      <4>6. QED
        BY <4>1, <4>3, <4>4, <4>5, <3>6, <3>7
    <3>9. CASE ~Active(gone.keys, k)
      <4>1. keys[k] = From(u, h)
        BY <3>1, <3>9 DEF UpdatedKey
      <4>2. \A q : LET n == From(q, h) IN
              /\ KeyShape(n) /\ n.ring = q.ring /\ n.perms = q.perms
              /\ n.since = h /\ n.until = None
        BY DEF KeyShape, From
      <4>3. /\ KeyShape(keys[k]) /\ keys[k].ring = u.ring /\ keys[k].perms = u.perms
            /\ keys[k].since = h /\ keys[k].until = None
        <5> HIDE DEF u, keys
        <5>1. QED
          BY <4>1, <4>2
      <4>4. In(keys, k)
        BY <4>3 DEF In, None
      <4>5. QED
        BY <4>3, <4>4, <3>5, <3>6, <3>7
    <3>10. QED
      BY <3>8, <3>9
  <2>7. RingShape(new)
    BY <2>4, <2>6, <2>e DEF RingShape
  <2>8. Founded(keys)
    <3>1. ASSUME NEW k \in KeyIds, In(keys, k)
          PROVE  (\A p \in keys[k].perms : Granted(p)) /\ Reached(keys[k].ring)
      <4>1. CASE \E i \in items : i.id = k
        BY <4>1, <2>6
      <4>2. CASE ~\E i \in items : i.id = k
        <5>1. In(gone.keys, k)
          BY <3>1, <4>2, <2>4, <2>e DEF In
        <5>2. QED
          BY <5>1, <4>2, <2>4, <2>e, FoundedMeans
      <4>3. QED
        BY <4>1, <4>2
    <3>2. QED
      BY <3>1, FoundedMeans
  <2>9. Flagged(new)
    <3>1. ASSUME NEW k \in KeyIds, gone.pending[k] # "no" PROVE Active(keys, k)
      <4>1. Active(gone.keys, k)
        BY <3>1, <2>e DEF Flagged
      <4>2. QED
        BY <4>1, <2>4, <2>6, <2>e DEF Active, In
    <3>2. QED
      BY <3>1 DEF Flagged
  <2>10. Follows(vmx.keys, keys, {})
    <3>1. ASSUME NEW k \in KeyIds, In(vmx.keys, k) PROVE In(keys, k)
      <4>1. In(gone.keys, k)
        BY <3>1, <2>g DEF Follows
      <4>2. QED
        BY <4>1, <2>4, <2>6 DEF In
    <3>2. ASSUME NEW k \in KeyIds, Revoked(vmx.keys, k), Active(keys, k) PROVE FALSE
      <4>1. Revoked(gone.keys, k)
        BY <3>2, <2>g
      <4>2. QED
        BY <4>1, <3>2, <2>4, <2>6 DEF Revoked, Active
    <3>3. QED
      BY <3>1, <3>2 DEF Follows
  <2>11. QED
    BY <2>2, <2>7, <2>8, <2>9, <2>10 DEF Sound
<1>3. QED
  BY <1>1, <1>2

\* Whichever operation it is.
LEMMA OperationIsSound ==
  ASSUME NEW vmx, Sound(vmx), NEW id, In(vmx.keys, id), NEW signer, Allowed(signer),
         NEW op, NEW items, NEW h \in Nat
  PROVE  LET r == Operation(vmx, id, signer, op, items, h) IN
           /\ Sound(r.vm)
           /\ Follows(vmx.keys, r.vm.keys, IF op = "add" THEN Ids(items) ELSE {})
<1>1. CASE op = "add"
  BY <1>1, AddIsSound DEF Operation
<1>2. CASE op = "del"
  BY <1>2, DelIsSound DEF Operation
<1>3. CASE op \notin {"add", "del"}
  BY <1>3, UpdateIsSound DEF Operation
<1>4. QED
  BY <1>1, <1>2, <1>3

(***************************************************************************)
(* The inductive invariant.  A ring is sound whatever is done to it; the   *)
(* copy an event is processed on is also a continuation of the state it    *)
(* will replace, and the key that signed the event is allowed no more than *)
(* what OP_CONTRACT gave out.                                              *)
(***************************************************************************)
TaskShape(t) ==
  /\ t = [on |-> t.on, e |-> t.e, i |-> t.i, st |-> t.st, signer |-> t.signer,
          copy |-> t.copy]
  /\ t.st \in {"ok", "error"}

Adds(e) == {k \in KeyIds : AddedNow(e, k)}

Continues(old, t) ==
  t.on /\ t.st = "ok" => Allowed(t.signer) /\ Follows(old, t.copy.keys, Adds(t.e))

IInv ==
  /\ vm = [c \in Clients |-> vm[c]]
  /\ task = [c \in Clients |-> task[c]]
  /\ at \in [Clients -> Nat]
  /\ \A c \in Clients : /\ Sound(vm[c])
                        /\ TaskShape(task[c]) /\ Sound(task[c].copy)
                        /\ Continues(vm[c].keys, task[c])

LEMMA FollowsOn ==
  ASSUME NEW a, NEW b, NEW d, NEW S, NEW T, T \cap KeyIds \subseteq S,
         Follows(a, b, S), Follows(b, d, T)
  PROVE  Follows(a, d, S)
<1>1. \A k \in KeyIds : In(a, k) => In(d, k)
  BY DEF Follows
<1>2. ASSUME NEW k \in KeyIds, Revoked(a, k), Active(d, k) PROVE k \in S
  <2>1. In(b, k)
    BY <1>2 DEF Follows, Revoked
  <2>2. CASE Active(b, k)
    BY <2>2, <1>2 DEF Follows
  <2>3. CASE Revoked(b, k)
    BY <2>3, <1>2 DEF Follows
  <2>4. QED
    BY <2>1, <2>2, <2>3 DEF Revoked, Active
<1>3. QED
  BY <1>1, <1>2 DEF Follows

LEMMA FollowsSame == \A keys, S : Follows(keys, keys, S)
  BY DEF Follows, Revoked, Active

LEMMA InitIInv == Init => IInv
<1> SUFFICES ASSUME Init PROVE IInv
  OBVIOUS
<1>1. TaskShape(NoTask) /\ NoTask.copy = Genesis /\ ~NoTask.on
  BY DEF NoTask, TaskShape
<1>2. QED
  BY <1>1, GenesisSound DEF Init, IInv, Continues

LEMMA BeginIInv == ASSUME IInv, NEW c \in Clients, Begin(c) PROVE IInv'
<1> DEFINE e == log[at[c] + 1]
           t == task'[c]
<1>1. /\ t.on /\ t.e = e /\ t.signer = vm[c].keys[e.signer] /\ t.copy = vm[c]
      /\ TaskShape(t)
      /\ t.st = "ok" => verifySignature(vm[c].keys, e.signer, at[c] + 1)
      /\ task' = [task EXCEPT ![c] = t]
  <2>1. \A n1, n2, n3, n4, n5, n6 :
          LET q == [on |-> n1, e |-> n2, i |-> n3, st |-> n4, signer |-> n5, copy |-> n6]
          IN  /\ n4 \in {"ok", "error"} => TaskShape(q)
              /\ q.on = n1 /\ q.e = n2 /\ q.st = n4 /\ q.signer = n5
              /\ q.copy = n6
    BY DEF TaskShape
  <2>2. t = [on |-> TRUE, e |-> e, i |-> 1, signer |-> vm[c].keys[e.signer], copy |-> vm[c],
             st |-> IF /\ verifySignature(vm[c].keys, e.signer, at[c] + 1)
                       /\ e.atomic => validateKeyPermissions(vm[c].keys, e.signer, "atomic")
                    THEN "ok" ELSE "error"]
    BY DEF Begin, IInv
  <2>3. task' = [task EXCEPT ![c] = t]
    BY <2>2 DEF Begin
  <2> HIDE DEF e
  <2>4. QED
    BY <2>1, <2>2, <2>3
<1>2. Sound(vm[c]) /\ DOMAIN vm[c].keys = KeyIds
  BY DEF IInv, Sound, RingShape
<1>3. Continues(vm[c].keys, t)
  <2>1. ASSUME t.st = "ok" PROVE Allowed(t.signer)
    <3>1. In(vm[c].keys, e.signer)
      BY <2>1, <1>1 DEF verifySignature
    <3>2. e.signer \in KeyIds
      BY <3>1, <1>2 DEF In
    <3>3. QED
      BY <3>1, <3>2, <1>1, <1>2, FoundedMeans DEF Sound, Allowed
  <2>2. QED
    BY <2>1, <1>1, FollowsSame DEF Continues
<1>4. vm' = vm /\ at' = at
  BY DEF Begin
<1>5. QED
  BY <1>1, <1>2, <1>3, <1>4 DEF IInv

LEMMA StepIInv == ASSUME IInv, NEW c \in Clients, Step(c) PROVE IInv'
<1> DEFINE t == task[c]
           op == t.e.ops[t.i]
           allowed == validateKeyPermissions(t.copy.keys, t.e.signer, op.t)
           items == Readable(c, op.items)
           o == Operation(t.copy, t.e.signer, t.signer, op.t, items, at[c] + 1)
           r == IF allowed THEN o ELSE Fails(t.copy)
           n == task'[c]
<1>1. t.on /\ t.st = "ok" /\ t.i \in DOMAIN t.e.ops
  BY DEF Step
<1>2. Sound(t.copy) /\ TaskShape(t) /\ Allowed(t.signer)
      /\ Follows(vm[c].keys, t.copy.keys, Adds(t.e))
  BY <1>1 DEF IInv, Continues
<1>3. TaskShape(n) /\ n.on = t.on /\ n.e = t.e /\ n.signer = t.signer /\ n.copy = r.vm
      /\ task' = [task EXCEPT ![c] = n]
  <2>1. \A n1, n2, n3, n4, n5, n6 :
          LET q == [on |-> n1, e |-> n2, i |-> n3, st |-> n4, signer |-> n5, copy |-> n6]
          IN  /\ n4 \in {"ok", "error"} => TaskShape(q)
              /\ q.on = n1 /\ q.e = n2 /\ q.signer = n5 /\ q.copy = n6
    BY DEF TaskShape
  <2>2. n = [on |-> TRUE, e |-> t.e, i |-> t.i + 1,
             st |-> IF r.st = "error" THEN "error" ELSE "ok",
             signer |-> t.signer, copy |-> r.vm]
    BY DEF Step, IInv
  <2>3. task' = [task EXCEPT ![c] = n]
    BY <2>2 DEF Step
  <2> HIDE DEF r, n, t
  <2>4. QED
    BY <2>1, <2>2, <2>3, <1>1
<1>4. Sound(r.vm) /\ Follows(vm[c].keys, r.vm.keys, Adds(t.e))
  <2>1. CASE ~allowed
    BY <2>1, <1>2 DEF Fails
  <2>2. CASE allowed
    <3> DEFINE back == IF op.t = "add" THEN Ids(items) ELSE {}
    <3>1. In(t.copy.keys, t.e.signer)
      BY <2>2 DEF validateKeyPermissions
    <3>2. at[c] + 1 \in Nat
      BY DEF IInv
    <3>3. Sound(o.vm) /\ Follows(t.copy.keys, o.vm.keys, back)
      BY <3>1, <3>2, <1>2, OperationIsSound
    <3>4. back \cap KeyIds \subseteq Adds(t.e)
      <4> SUFFICES ASSUME NEW k \in KeyIds, k \in back PROVE AddedNow(t.e, k)
        BY DEF Adds
      <4>1. op.t = "add" /\ k \in Ids(items)
        <5> HIDE DEF items, op
        <5>1. QED
          OBVIOUS
      <4>2. PICK i \in op.items : i.id = k
        <5> HIDE DEF op
        <5>1. QED
          BY <4>1 DEF Ids, Readable
      <4>3. QED
        BY <4>1, <4>2, <1>1 DEF AddedNow
    <3>5. r.vm = o.vm
      BY <2>2
    <3> HIDE DEF o, r, back, t
    <3>6. QED
      BY <3>3, <3>4, <3>5, <1>2, FollowsOn
  <2>3. QED
    BY <2>1, <2>2
<1>5. Continues(vm[c].keys, n)
  BY <1>2, <1>3, <1>4 DEF Continues
<1>6. vm' = vm /\ at' = at
  BY DEF Step
<1>7. QED
  BY <1>3, <1>4, <1>5, <1>6 DEF IInv

LEMMA FinishIInv == ASSUME IInv, NEW c \in Clients, Finish(c) PROVE IInv'
<1>1. TaskShape(NoTask) /\ NoTask.copy = Genesis /\ ~NoTask.on
  BY DEF NoTask, TaskShape
<1>2. Sound(vm'[c]) /\ vm' = [vm EXCEPT ![c] = vm'[c]]
  BY DEF IInv, Finish
<1>3. task' = [task EXCEPT ![c] = NoTask] /\ at' = [at EXCEPT ![c] = @ + 1]
  BY DEF Finish
<1>4. QED
  BY <1>1, <1>2, <1>3, GenesisSound DEF IInv, Continues

LEMMA FlagIInv == ASSUME IInv, NEW c \in Clients, SetPendingKeyRevocation(c) PROVE IInv'
<1>1. PICK k \in KeyIds : /\ Active(vm[c].keys, k)
                         /\ vm' = [vm EXCEPT ![c].pending[k] = "rotate"]
  BY DEF SetPendingKeyRevocation
<1> DEFINE v == vm[c]
           w == [keys |-> v.keys, pending |-> [v.pending EXCEPT ![k] = "rotate"]]
<1>2. Sound(v) /\ RingShape(v)
  BY DEF IInv, Sound
<1>3. vm'[c] = w /\ vm' = [vm EXCEPT ![c] = w]
  <2>1. \A a, b, x : x = [keys |-> a, pending |-> b]
          => [x EXCEPT !.pending[k] = "rotate"]
             = [keys |-> a, pending |-> [b EXCEPT ![k] = "rotate"]]
    OBVIOUS
  <2>2. [v EXCEPT !.pending[k] = "rotate"] = w
    BY <2>1, <1>2 DEF RingShape
  <2>3. vm' = [vm EXCEPT ![c] = [v EXCEPT !.pending[k] = "rotate"]]
    BY <1>1
  <2>4. QED
    BY <2>2, <2>3 DEF IInv
<1>4. Sound(w)
  <2>1. RingShape(w)
    BY <1>2 DEF RingShape
  <2>2. Founded(w.keys)
    BY <1>2 DEF Sound
  <2>3. Flagged(w)
    BY <1>1, <1>2 DEF Sound, Flagged, RingShape
  <2>4. QED
    BY <2>1, <2>2, <2>3 DEF Sound
<1>5. w.keys = v.keys
  OBVIOUS
<1>6. task' = task /\ at' = at
  BY DEF SetPendingKeyRevocation
<1> HIDE DEF w
<1>7. QED
  BY <1>3, <1>4, <1>5, <1>6 DEF IInv

LEMMA NextIInv == IInv /\ [Next]_vars => IInv'
<1> SUFFICES ASSUME IInv, [Next]_vars PROVE IInv'
  OBVIOUS
<1>1. CASE UNCHANGED vars
  BY <1>1 DEF vars, IInv
<1>2. CASE Next
  <2>1. PICK c \in Clients : \/ Compose(c) \/ Publish(c) \/ Begin(c) \/ Step(c)
                            \/ Finish(c) \/ SetPendingKeyRevocation(c)
    BY <1>2 DEF Next
  <2>2. CASE Compose(c) \/ Publish(c)
    BY <2>2 DEF Compose, Publish, IInv
  <2>3. QED
    BY <2>1, <2>2, BeginIInv, StepIInv, FinishIInv, FlagIInv
<1>3. QED
  BY <1>1, <1>2

LEMMA IInvAlways == Spec => []IInv
  BY InitIInv, NextIInv, PTL DEF Spec

\* No key is ever allowed what no key of OP_CONTRACT was, or reaches a ring level below
\* all of theirs: the checks of processMessage pass on, and never widen.
THEOREM GrantsKept == Spec => []GrantsFounded
<1>1. IInv => GrantsFounded
  BY DEF IInv, Sound, GrantsFounded
<1>2. QED
  BY <1>1, IInvAlways, PTL

\* deleteKeyHelper leaves no flag behind on a key that is gone, also when the flag is set
\* while an event is processed on a copy of the state.
THEOREM PendingKept == Spec => []PendingIsActive
<1>1. IInv => PendingIsActive
  BY DEF IInv, Sound, Flagged, PendingIsActive
<1>2. QED
  BY <1>1, IInvAlways, PTL

\* Only an OP_KEY_ADD that names a deleted key brings it back.
THEOREM RevokedKept == Spec => RevokedStays
<1> DEFINE A == \A c \in Clients, k \in KeyIds :
             In(vm[c].keys, k) /\ vm[c].keys[k].until # None /\ Active(vm'[c].keys, k)
               => AddedNow(task[c].e, k)
<1>1. IInv /\ [Next]_vars => [A]_vars
  <2> SUFFICES ASSUME IInv, Next, NEW c \in Clients, NEW k \in KeyIds,
                      Revoked(vm[c].keys, k), Active(vm'[c].keys, k)
               PROVE  AddedNow(task[c].e, k)
    BY DEF Revoked
  <2>1. vm'[c].keys # vm[c].keys
    BY DEF Revoked, Active
  <2>2. CASE Finish(c)
    <3>1. task[c].on /\ task[c].st # "error" /\ vm'[c] = task[c].copy
      BY <2>1, <2>2 DEF Finish, IInv
    <3>2. task[c].st = "ok"
      BY <3>1 DEF IInv, TaskShape
    <3>3. QED
      BY <3>1, <3>2 DEF IInv, Continues, Follows, Adds
  <2>3. ASSUME NEW d \in Clients, Finish(d), d # c PROVE FALSE
    BY <2>1, <2>3 DEF Finish, IInv
  <2>4. ASSUME NEW d \in Clients, SetPendingKeyRevocation(d) PROVE FALSE
    BY <2>1, <2>4 DEF SetPendingKeyRevocation, IInv, Sound, RingShape
  <2>5. QED
    BY <2>1, <2>2, <2>3, <2>4 DEF Next, Compose, Publish, Begin, Step
<1>2. QED
  BY <1>1, IInvAlways, PTL DEF Spec, RevokedStays

(***************************************************************************)
(* What every client can see of a ring, and what an operation does to it.  *)
(***************************************************************************)
Shown(keys, k) == In(keys, k) /\ ~keys[k].private
Secret(keys, k) == In(keys, k) /\ keys[k].private

Absent == [since |-> None]

Hidden(keys) == [k \in KeyIds |-> IF Shown(keys, k) THEN keys[k] ELSE Absent]

Quiet == [k \in KeyIds |-> "no"]

\* The ring of a client that sees what all see.
Bare(keys) == [keys |-> Hidden(keys), pending |-> Quiet]

NamesNoSecret(keys, op, items) ==
  op # "del" => \A i \in items : /\ ~Secret(keys, i.id)
                                 /\ op # "add" => ~Secret(keys, i.oldKeyId)

NamesNoShown(keys, op, items) ==
  op # "del" => \A i \in items : /\ ~Shown(keys, i.id)
                                 /\ op # "add" => ~Shown(keys, i.oldKeyId)

LEMMA BareMeans ==
  ASSUME NEW keys, DOMAIN keys = KeyIds
  PROVE  /\ DOMAIN Bare(keys).keys = KeyIds
         /\ Bare(keys) = [keys |-> Bare(keys).keys, pending |-> Quiet]
         /\ \A k : In(Bare(keys).keys, k) <=> Shown(keys, k)
         /\ \A k : Shown(keys, k) => Bare(keys).keys[k] = keys[k]
         /\ \A k : Shown(keys, k) \/ Secret(keys, k) \/ ~In(keys, k)
         /\ \A k \in KeyIds : ~Shown(keys, k) => Bare(keys).keys[k] = Absent
         /\ Bare(keys).pending = Quiet
  BY DEF Bare, Hidden, Shown, Secret, In, Absent

\* Rings that show the same.
LEMMA BareSame ==
  ASSUME NEW a, NEW b, DOMAIN a = KeyIds, DOMAIN b = KeyIds,
         \A k \in KeyIds : \/ a[k] = b[k]
                           \/ ~Shown(a, k) /\ ~Shown(b, k)
  PROVE  Bare(a) = Bare(b)
<1>1. \A k \in KeyIds : Hidden(a)[k] = Hidden(b)[k]
  BY DEF Hidden, Shown, In
<1>2. QED
  BY <1>1 DEF Bare, Hidden

(***************************************************************************)
(* Public items that name no secret key do to what is shown what they do   *)
(* to a ring that has nothing else.                                        *)
(***************************************************************************)
SameShown(v, r, q, id) ==
  /\ q.st = r.st
  /\ DOMAIN r.vm.keys = KeyIds
  /\ q.vm = Bare(r.vm.keys)
  /\ \A k : Secret(r.vm.keys, k) => Secret(v.keys, k)
  /\ Shown(r.vm.keys, id)

LEMMA OpenFails ==
  ASSUME NEW v, DOMAIN v.keys = KeyIds, NEW id, Shown(v.keys, id)
  PROVE  /\ SameShown(v, Fails(v), Fails(Bare(v.keys)), id)
         /\ SameShown(v, Warns(v), Warns(Bare(v.keys)), id)
  BY DEF SameShown, Fails, Warns

LEMMA OpenAdd ==
  ASSUME NEW v, RingShape(v), NEW id, Shown(v.keys, id), NEW s, NEW items,
         \A i \in items : ~i.private, NamesNoSecret(v.keys, "add", items), NEW h \in Nat
  PROVE  SameShown(v, KeyAdd(v, id, s, items, h), KeyAdd(Bare(v.keys), id, s, items, h), id)
<1> DEFINE w == Bare(v.keys)
           refused(x) == \/ \E i \in items : Active(x.keys, i.id)
                         \/ ~validateKeyAddPermissions(x.keys, id, s, items, FALSE)
           keys(x) == [k \in KeyIds |->
             IF \E i \in items : i.id = k
             THEN Added(x.keys, CHOOSE i \in items : i.id = k, h)
             ELSE x.keys[k]]
<1>d. DOMAIN v.keys = KeyIds
  BY DEF RingShape
<1>w. /\ w = [keys |-> w.keys, pending |-> Quiet] /\ DOMAIN w.keys = KeyIds
      /\ \A k : In(w.keys, k) <=> Shown(v.keys, k)
      /\ \A k : Shown(v.keys, k) => w.keys[k] = v.keys[k]
      /\ \A k : Shown(v.keys, k) \/ Secret(v.keys, k) \/ ~In(v.keys, k)
      /\ \A k \in KeyIds : ~Shown(v.keys, k) => w.keys[k] = Absent
  BY <1>d, BareMeans
<1>n. \A i \in items : ~Secret(v.keys, i.id)
  BY DEF NamesNoSecret
<1> HIDE DEF w
<1>1. \A i \in items : In(w.keys, i.id) <=> In(v.keys, i.id)
  BY <1>w, <1>n DEF Shown
<1>2. \A i \in items : In(v.keys, i.id) => w.keys[i.id] = v.keys[i.id]
  BY <1>w, <1>n
<1>3. \A i \in items : Active(w.keys, i.id) <=> Active(v.keys, i.id)
  BY <1>1, <1>2 DEF Active
<1>4. w.keys[id] = v.keys[id]
  BY <1>w
<1>5. refused(w) <=> refused(v)
  BY <1>3, <1>4 DEF validateKeyAddPermissions
<1>6. CASE refused(v)
  <2>1. KeyAdd(v, id, s, items, h) = Fails(v) /\ KeyAdd(w, id, s, items, h) = Fails(w)
    BY <1>5, <1>6 DEF KeyAdd
  <2>2. QED
    BY <2>1, <1>d, OpenFails DEF w
<1>7. CASE ~refused(v)
  <2>1. /\ KeyAdd(v, id, s, items, h) = Done([v EXCEPT !.keys = keys(v)])
        /\ KeyAdd(w, id, s, items, h) = Done([w EXCEPT !.keys = keys(w)])
    BY <1>5, <1>7 DEF KeyAdd
  <2>2. [v EXCEPT !.keys = keys(v)] = [keys |-> keys(v), pending |-> v.pending]
    BY WithKeys
  <2>3. [w EXCEPT !.keys = keys(w)] = [keys |-> keys(w), pending |-> Quiet]
    <3>1. \A a, b, x, y : x = [keys |-> a, pending |-> b]
             => [x EXCEPT !.keys = y] = [keys |-> y, pending |-> b]
      OBVIOUS
    <3>2. QED
      BY <3>1, <1>w
  <2>4. ASSUME NEW k \in KeyIds, \E i \in items : i.id = k
        PROVE  /\ keys(w)[k] = keys(v)[k] /\ Shown(keys(v), k)
    <3> DEFINE i == CHOOSE j \in items : j.id = k
    <3>1. i \in items /\ i.id = k
      BY <2>4
    <3>2. keys(w)[k] = Added(w.keys, i, h) /\ keys(v)[k] = Added(v.keys, i, h)
      BY <2>4
    <3> HIDE DEF i
    <3>3. Added(w.keys, i, h) = Added(v.keys, i, h)
      BY <3>1, <1>1, <1>2 DEF Added
    <3>4. /\ Added(v.keys, i, h).private = i.private
          /\ Added(v.keys, i, h).since \in {h, v.keys[k].since}
          /\ In(v.keys, k) \/ Added(v.keys, i, h).since = h
      BY <3>1 DEF Added, From, Smaller
    <3>5. Added(v.keys, i, h).since # None
      BY <3>4 DEF In, None
    <3>6. QED
      BY <3>1, <3>2, <3>3, <3>4, <3>5 DEF Shown, In
  <2>5. ASSUME NEW k \in KeyIds, ~\E i \in items : i.id = k
        PROVE  keys(w)[k] = w.keys[k] /\ keys(v)[k] = v.keys[k]
    BY <2>5
  <2>6. \A k \in KeyIds : keys(w)[k] = Hidden(keys(v))[k]
    <3> SUFFICES ASSUME NEW k \in KeyIds PROVE keys(w)[k] = Hidden(keys(v))[k]
      OBVIOUS
    <3>1. CASE \E i \in items : i.id = k
      BY <3>1, <2>4 DEF Hidden
    <3>2. CASE ~\E i \in items : i.id = k
      <4>1. Shown(keys(v), k) <=> Shown(v.keys, k)
        BY <3>2, <2>5, <1>d DEF Shown, In
      <4>2. QED
        BY <4>1, <3>2, <2>5, <1>w DEF Hidden
    <3>3. QED
      BY <3>1, <3>2
  <2>7. \A k : Secret(keys(v), k) => Secret(v.keys, k)
    BY <2>4, <2>5, <1>d DEF Secret, Shown, In
  <2>8. Shown(keys(v), id)
    BY <2>4, <2>5, <1>d DEF Shown, In
  <2>9. keys(w) = Hidden(keys(v)) /\ DOMAIN keys(v) = KeyIds
    BY <2>6 DEF Hidden
  <2> HIDE DEF keys
  <2>10. QED
    BY <2>1, <2>2, <2>3, <2>7, <2>8, <2>9 DEF SameShown, Bare, Done, w
<1>8. QED
  BY <1>6, <1>7 DEF w

LEMMA OpenDelete ==
  ASSUME NEW v, RingShape(v), NEW ids, \A k \in ids : Shown(v.keys, k), NEW h
  PROVE  LET g == deleteKeyHelper(v, h, ids) IN
           /\ deleteKeyHelper(Bare(v.keys), h, ids) = Bare(g.keys)
           /\ DOMAIN g.keys = KeyIds
           /\ \A k : Shown(g.keys, k) <=> Shown(v.keys, k)
           /\ \A k : Secret(g.keys, k) <=> Secret(v.keys, k)
<1> DEFINE w == Bare(v.keys)
           g == deleteKeyHelper(v, h, ids)
           u == deleteKeyHelper(w, h, ids)
<1>d. DOMAIN v.keys = KeyIds /\ \A k \in KeyIds : KeyShape(v.keys[k])
  BY DEF RingShape
<1>w. /\ w.pending = Quiet
      /\ \A k : Shown(v.keys, k) => w.keys[k] = v.keys[k]
      /\ \A k \in KeyIds : ~Shown(v.keys, k) => w.keys[k] = Absent
  BY <1>d, BareMeans
<1> HIDE DEF w
<1>1. \A k \in KeyIds :
        /\ g.keys[k] = IF k \in ids THEN [v.keys[k] EXCEPT !.until = h] ELSE v.keys[k]
        /\ u.keys[k] = IF k \in ids THEN [w.keys[k] EXCEPT !.until = h] ELSE w.keys[k]
        /\ u.pending[k] = "no"
  BY <1>w DEF deleteKeyHelper, Quiet
<1>2. /\ u = [keys |-> u.keys, pending |-> u.pending]
      /\ u.keys = [k \in KeyIds |-> u.keys[k]] /\ DOMAIN u.keys = KeyIds
      /\ u.pending = [k \in KeyIds |-> u.pending[k]] /\ DOMAIN g.keys = KeyIds
  BY DEF deleteKeyHelper
<1>3. ASSUME NEW k \in KeyIds
      PROVE  g.keys[k].since = v.keys[k].since /\ g.keys[k].private = v.keys[k].private
  <2>1. \A q : KeyShape(q) => LET n == [q EXCEPT !.until = h] IN
          n.since = q.since /\ n.private = q.private
    BY DEF KeyShape
  <2>2. QED
    BY <2>1, <1>1, <1>d
<1> HIDE DEF g, u
<1>4. /\ \A k : Shown(g.keys, k) <=> Shown(v.keys, k)
      /\ \A k : Secret(g.keys, k) <=> Secret(v.keys, k)
  BY <1>2, <1>3, <1>d DEF Shown, Secret, In
<1>5. \A k \in KeyIds : u.keys[k] = Hidden(g.keys)[k]
  <2> SUFFICES ASSUME NEW k \in KeyIds PROVE u.keys[k] = Hidden(g.keys)[k]
    OBVIOUS
  <2>1. CASE Shown(v.keys, k)
    <3>1. u.keys[k] = g.keys[k]
      <4>1. \A a, b : a = b => [a EXCEPT !.until = h] = [b EXCEPT !.until = h]
        OBVIOUS
      <4>2. w.keys[k] = v.keys[k]
        BY <2>1, <1>w
      <4>3. [w.keys[k] EXCEPT !.until = h] = [v.keys[k] EXCEPT !.until = h]
        BY <4>1, <4>2
      <4>4. CASE k \in ids
        <5>1. /\ g.keys[k] = [v.keys[k] EXCEPT !.until = h]
              /\ u.keys[k] = [w.keys[k] EXCEPT !.until = h]
          BY <4>4, <1>1
        <5>2. QED
          BY <5>1, <4>3
      <4>5. CASE k \notin ids
        <5>1. g.keys[k] = v.keys[k] /\ u.keys[k] = w.keys[k]
          BY <4>5, <1>1
        <5>2. QED
          BY <5>1, <4>2
      <4>6. QED
        BY <4>4, <4>5
    <3>2. QED
      BY <2>1, <3>1, <1>4 DEF Hidden
  <2>2. CASE ~Shown(v.keys, k)
    BY <2>2, <1>1, <1>w, <1>4 DEF Hidden
  <2>3. QED
    BY <2>1, <2>2
<1>6. u.keys = Hidden(g.keys)
  BY <1>2, <1>5 DEF Hidden
<1>7. u.pending = Quiet
  BY <1>1, <1>2 DEF Quiet
<1>8. QED
  BY <1>2, <1>4, <1>6, <1>7 DEF Bare, g, u, w

LEMMA OpenDel ==
  ASSUME NEW v, RingShape(v), NEW id, Shown(v.keys, id), NEW s, NEW items,
         \A i \in items : ~i.private, NEW h \in Nat
  PROVE  SameShown(v, KeyDel(v, id, s, items, h), KeyDel(Bare(v.keys), id, s, items, h), id)
<1> DEFINE w == Bare(v.keys)
           fine(x) == validateKeyDelPermissions(x.keys, id, s, items)
           ids(x) == {k \in {i.id : i \in items} : Active(x.keys, k)}
<1>d. DOMAIN v.keys = KeyIds
  BY DEF RingShape
<1>w. /\ \A k : In(w.keys, k) <=> Shown(v.keys, k)
      /\ \A k : Shown(v.keys, k) => w.keys[k] = v.keys[k]
      /\ \A k : Shown(v.keys, k) \/ Secret(v.keys, k) \/ ~In(v.keys, k)
  BY <1>d, BareMeans
<1> HIDE DEF w
<1>1. w.keys[id] = v.keys[id]
  BY <1>w
<1>2. fine(v) => \A i \in items : Shown(v.keys, i.id)
  BY DEF validateKeyDelPermissions, Shown
<1>3. fine(w) => \A i \in items : Shown(v.keys, i.id)
  BY <1>w DEF validateKeyDelPermissions
<1>4. fine(v) <=> fine(w)
  <2>1. ASSUME \A i \in items : Shown(v.keys, i.id) PROVE fine(v) <=> fine(w)
    <3>1. \A i \in items : /\ In(w.keys, i.id) /\ In(v.keys, i.id)
                           /\ w.keys[i.id] = v.keys[i.id]
      BY <2>1, <1>w DEF Shown
    <3>2. QED
      BY <3>1, <1>1 DEF validateKeyDelPermissions
  <2>2. QED
    BY <2>1, <1>2, <1>3
<1>5. CASE ~fine(v)
  <2>1. KeyDel(v, id, s, items, h) = Fails(v) /\ KeyDel(w, id, s, items, h) = Fails(w)
    BY <1>4, <1>5 DEF KeyDel
  <2>2. QED
    BY <2>1, <1>d, OpenFails DEF w
<1>6. CASE fine(v)
  <2>1. \A i \in items : /\ Shown(v.keys, i.id)
                         /\ Active(w.keys, i.id) <=> Active(v.keys, i.id)
    BY <1>2, <1>6, <1>w DEF Active, Shown
  <2>2. ids(w) = ids(v) /\ \A k \in ids(v) : Shown(v.keys, k)
    BY <2>1
  <2> DEFINE g == deleteKeyHelper(v, h, ids(v))
  <2>3. /\ KeyDel(v, id, s, items, h) = Done(g)
        /\ KeyDel(w, id, s, items, h) = Done(deleteKeyHelper(w, h, ids(v)))
    BY <1>4, <1>6, <2>2 DEF KeyDel
  <2>4. /\ deleteKeyHelper(w, h, ids(v)) = Bare(g.keys)
        /\ DOMAIN g.keys = KeyIds
        /\ \A k : Shown(g.keys, k) <=> Shown(v.keys, k)
        /\ \A k : Secret(g.keys, k) <=> Secret(v.keys, k)
    <3> HIDE DEF ids
    <3>1. QED
      BY <2>2, OpenDelete DEF w
  <2> HIDE DEF g, ids
  <2>5. QED
    BY <2>3, <2>4 DEF SameShown, Done, w
<1>7. QED
  BY <1>5, <1>6 DEF w

LEMMA OpenUpdate ==
  ASSUME NEW v, Sound(v), NEW id, Shown(v.keys, id), NEW s, NEW items,
         \A i \in items : ~i.private, NamesNoSecret(v.keys, "update", items), NEW h \in Nat
  PROVE  SameShown(v, KeyUpdate(v, id, s, items, h),
                   KeyUpdate(Bare(v.keys), id, s, items, h), id)
<1> DEFINE w == Bare(v.keys)
           missing(x) == \E i \in items : ~In(x.keys, i.oldKeyId)
           gone(x) == deleteKeyHelper(x, h, Replaced(items))
           refused(x) ==
             \/ \E i \in items : ~(x.keys[i.oldKeyId].private <=> i.private)
             \/ ~validateKeyAddPermissions(x.keys, id, s,
                   {Updated(x.keys, i) : i \in items}, TRUE)
             \/ \E i \in items : UpdatesDeleted(gone(x).keys, i)
           keys(x) == [k \in KeyIds |->
             IF \E i \in items : i.id = k
             THEN UpdatedKey(x, gone(x).keys, CHOOSE i \in items : i.id = k, h)
             ELSE gone(x).keys[k]]
<1>s. RingShape(v)
  BY DEF Sound
<1>d. DOMAIN v.keys = KeyIds /\ \A k \in KeyIds : KeyShape(v.keys[k])
  BY <1>s DEF RingShape
<1>w. /\ w = [keys |-> w.keys, pending |-> Quiet] /\ DOMAIN w.keys = KeyIds
      /\ \A k : In(w.keys, k) <=> Shown(v.keys, k)
      /\ \A k : Shown(v.keys, k) => w.keys[k] = v.keys[k]
      /\ \A k : Shown(v.keys, k) \/ Secret(v.keys, k) \/ ~In(v.keys, k)
  BY <1>d, BareMeans
<1>n. \A i \in items : ~Secret(v.keys, i.id) /\ ~Secret(v.keys, i.oldKeyId)
  BY DEF NamesNoSecret
<1> HIDE DEF w
<1>1. \A i \in items : In(w.keys, i.oldKeyId) <=> In(v.keys, i.oldKeyId)
  BY <1>w, <1>n DEF Shown
<1>2. w.keys[id] = v.keys[id]
  BY <1>w
<1>3. CASE missing(v)
  <2>1. KeyUpdate(v, id, s, items, h) = Warns(v) /\ KeyUpdate(w, id, s, items, h) = Warns(w)
    BY <1>1, <1>3 DEF KeyUpdate
  <2>2. QED
    BY <2>1, <1>d, OpenFails DEF w
<1>4. CASE ~missing(v)
  <2>1. \A i \in items : /\ Shown(v.keys, i.oldKeyId)
                         /\ w.keys[i.oldKeyId] = v.keys[i.oldKeyId]
    BY <1>4, <1>w, <1>n
  <2>2. \A i \in items : Updated(w.keys, i) = Updated(v.keys, i)
    BY <2>1 DEF Updated
  <2>3. {Updated(w.keys, i) : i \in items} = {Updated(v.keys, i) : i \in items}
    BY <2>2
  <2>4. \A k \in Replaced(items) : Shown(v.keys, k)
    BY <2>1 DEF Replaced
  <2> DEFINE g == gone(v)
             u == gone(w)
  <2>5. /\ u = Bare(g.keys)
        /\ DOMAIN g.keys = KeyIds
        /\ \A k : Shown(g.keys, k) <=> Shown(v.keys, k)
        /\ \A k : Secret(g.keys, k) <=> Secret(v.keys, k)
    BY <2>4, <1>s, OpenDelete DEF w
  <2>6. RingShape(g)
    <3>1. \A k \in Replaced(items) : In(v.keys, k)
      BY <2>4 DEF Shown
    <3>2. QED
      BY <3>1, DeleteIsSound DEF Sound
  <2>7. /\ u = [keys |-> u.keys, pending |-> Quiet] /\ DOMAIN u.keys = KeyIds
        /\ \A k : In(u.keys, k) <=> Shown(g.keys, k)
        /\ \A k : Shown(g.keys, k) => u.keys[k] = g.keys[k]
        /\ \A k : Shown(g.keys, k) \/ Secret(g.keys, k) \/ ~In(g.keys, k)
        /\ \A k \in KeyIds : ~Shown(g.keys, k) => u.keys[k] = Absent
    <3> HIDE DEF g, u
    <3>1. QED
      BY <2>5, BareMeans
  <2> HIDE DEF g, u
  <2>8. \A i \in items : /\ In(u.keys, i.id) <=> In(g.keys, i.id)
                         /\ In(g.keys, i.id) => u.keys[i.id] = g.keys[i.id]
    BY <2>5, <2>7, <1>n DEF Shown
  <2>9. \A i \in items : /\ UpdatesDeleted(u.keys, i) <=> UpdatesDeleted(g.keys, i)
                         /\ Active(u.keys, i.id) <=> Active(g.keys, i.id)
    BY <2>8 DEF UpdatesDeleted, Active
  <2>10. refused(w) <=> refused(v)
    BY <1>2, <2>1, <2>3, <2>9 DEF validateKeyAddPermissions, g, u
  <2>11. CASE refused(v)
    <3>1. KeyUpdate(v, id, s, items, h) = Fails(v) /\ KeyUpdate(w, id, s, items, h) = Fails(w)
      BY <1>1, <1>4, <2>10, <2>11 DEF KeyUpdate
    <3>2. QED
      BY <3>1, <1>d, OpenFails DEF w
  <2>12. CASE ~refused(v)
    <3>1. /\ KeyUpdate(v, id, s, items, h) = Done([g EXCEPT !.keys = keys(v)])
          /\ KeyUpdate(w, id, s, items, h) = Done([u EXCEPT !.keys = keys(w)])
      BY <1>1, <1>4, <2>10, <2>12 DEF KeyUpdate, g, u
    <3>2. [g EXCEPT !.keys = keys(v)] = [keys |-> keys(v), pending |-> g.pending]
      BY <2>6, WithKeys
    <3>3. [u EXCEPT !.keys = keys(w)] = [keys |-> keys(w), pending |-> Quiet]
      <4>1. \A a, b, x, y : x = [keys |-> a, pending |-> b]
               => [x EXCEPT !.keys = y] = [keys |-> y, pending |-> b]
        OBVIOUS
      <4>2. QED
        BY <4>1, <2>7
    <3>4. ASSUME NEW k \in KeyIds, \E i \in items : i.id = k
          PROVE  keys(w)[k] = keys(v)[k] /\ Shown(keys(v), k)
      <4> DEFINE i == CHOOSE j \in items : j.id = k
                 n == Updated(v.keys, i)
      <4>1. i \in items /\ i.id = k
        BY <3>4
      <4>2. keys(w)[k] = UpdatedKey(w, u.keys, i, h) /\ keys(v)[k] = UpdatedKey(v, g.keys, i, h)
        BY <3>4 DEF g, u
      <4> HIDE DEF i
      <4>3. n.private = v.keys[i.oldKeyId].private /\ ~n.private
        <5>1. KeyShape(v.keys[i.oldKeyId])
          BY <4>1, <2>1, <1>d DEF Shown, In
        <5>2. \A q, x : KeyShape(q) => [q EXCEPT !.perms = x].private = q.private
          BY DEF KeyShape
        <5>3. n.private = v.keys[i.oldKeyId].private
          BY <5>1, <5>2 DEF Updated
        <5>4. QED
          BY <5>3, <4>1, <2>1 DEF Shown
      <4>4. CASE Active(g.keys, k)
        <5> DEFINE q == g.keys[k]
        <5>1. Shown(g.keys, k) /\ u.keys[k] = q
          BY <4>1, <4>4, <2>5, <2>7, <1>n DEF Active
        <5>2. /\ keys(w)[k] = [q EXCEPT !.perms = @ \cup n.perms]
              /\ keys(v)[k] = [q EXCEPT !.perms = @ \cup n.perms]
          BY <4>1, <4>2, <4>4, <5>1, <2>2, <2>9 DEF UpdatedKey
        <5>3. KeyShape(q)
          BY <2>6 DEF RingShape
        <5>4. \A z : LET m == [q EXCEPT !.perms = z]
                     IN  m.since = q.since /\ m.private = q.private
          BY <5>3 DEF KeyShape
        <5>5. keys(v)[k].since = q.since /\ keys(v)[k].private = q.private
          <6> HIDE DEF keys, q, n
          <6>1. QED
            BY <5>2, <5>4
        <5> HIDE DEF keys
        <5>6. QED
          BY <5>1, <5>2, <5>5, <3>4 DEF Shown, In, keys
      <4>5. CASE ~Active(g.keys, k)
        <5>1. keys(w)[k] = From(n, h) /\ keys(v)[k] = From(n, h)
          BY <4>1, <4>2, <4>5, <2>2, <2>9 DEF UpdatedKey
        <5>2. From(n, h).since = h /\ From(n, h).private = n.private
          BY DEF From
        <5> HIDE DEF n
        <5>3. QED
          BY <5>1, <5>2, <4>3 DEF Shown, In, None
      <4>6. QED
        BY <4>4, <4>5
    <3>5. ASSUME NEW k \in KeyIds, ~\E i \in items : i.id = k
          PROVE  keys(w)[k] = u.keys[k] /\ keys(v)[k] = g.keys[k]
      BY <3>5 DEF g, u
    <3>d. DOMAIN keys(v) = KeyIds /\ keys(w) = [k \in KeyIds |-> keys(w)[k]]
      OBVIOUS
    <3> HIDE DEF keys
    <3>6. \A k \in KeyIds : keys(w)[k] = Hidden(keys(v))[k]
      <4> SUFFICES ASSUME NEW k \in KeyIds PROVE keys(w)[k] = Hidden(keys(v))[k]
        OBVIOUS
      <4>1. CASE \E i \in items : i.id = k
        BY <4>1, <3>4 DEF Hidden
      <4>2. CASE ~\E i \in items : i.id = k
        <5>1. Shown(keys(v), k) <=> Shown(g.keys, k)
          BY <4>2, <3>5, <3>d, <2>5 DEF Shown, In
        <5>2. QED
          BY <5>1, <4>2, <3>5, <2>7 DEF Hidden
      <4>3. QED
        BY <4>1, <4>2
    <3>7. \A k : Secret(keys(v), k) => Secret(v.keys, k)
      <4> SUFFICES ASSUME NEW k, Secret(keys(v), k) PROVE Secret(v.keys, k)
        OBVIOUS
      <4>1. k \in KeyIds
        BY <3>d DEF Secret, In
      <4>2. ~\E i \in items : i.id = k
        BY <4>1, <3>4 DEF Secret, Shown
      <4>3. Secret(g.keys, k)
        BY <4>1, <4>2, <3>5, <2>5 DEF Secret, In
      <4>4. QED
        BY <4>3, <2>5
    <3>8. Shown(keys(v), id)
      <4>1. Shown(g.keys, id) /\ id \in KeyIds
        BY <2>5, <1>d DEF Shown, In
      <4>2. QED
        BY <4>1, <3>4, <3>5, <3>d DEF Shown, In
    <3>9. keys(w) = Hidden(keys(v))
      BY <3>6, <3>d DEF Hidden
    <3>10. LET r == KeyUpdate(v, id, s, items, h)
               q == KeyUpdate(w, id, s, items, h)
           IN  /\ q.st = r.st /\ r.vm.keys = keys(v)
               /\ q.vm = [keys |-> Hidden(keys(v)), pending |-> Quiet]
      BY <3>1, <3>2, <3>3, <3>9 DEF Done
    <3>11. QED
      BY <3>7, <3>8, <3>10, <3>d DEF SameShown, Bare, w
  <2>13. QED
    BY <2>11, <2>12 DEF w
<1>5. QED
  BY <1>3, <1>4 DEF w

LEMMA OpenOperation ==
  ASSUME NEW v, Sound(v), NEW id, Shown(v.keys, id), NEW s, NEW op, NEW items,
         \A i \in items : ~i.private, NamesNoSecret(v.keys, op, items), NEW h \in Nat
  PROVE  SameShown(v, Operation(v, id, s, op, items, h),
                   Operation(Bare(v.keys), id, s, op, items, h), id)
<1>s. RingShape(v)
  BY DEF Sound
<1>1. CASE op = "add"
  BY <1>1, <1>s, OpenAdd DEF Operation
<1>2. CASE op = "del"
  BY <1>2, <1>s, OpenDel DEF Operation
<1>3. CASE op \notin {"add", "del"}
  <2>1. NamesNoSecret(v.keys, "update", items)
    BY <1>3 DEF NamesNoSecret
  <2>2. QED
    BY <1>3, <2>1, OpenUpdate DEF Operation
<1>4. QED
  BY <1>1, <1>2, <1>3

(***************************************************************************)
(* Private items that name no key that is shown leave what is shown alone, *)
(* whichever of them a client could read.                                  *)
(***************************************************************************)
Leaves(old, new) ==
  /\ DOMAIN new = KeyIds
  /\ \A k \in KeyIds : \/ old[k] = new[k]
                       \/ ~Shown(old, k) /\ ~Shown(new, k)

LEMMA SecretAdd ==
  ASSUME NEW v, RingShape(v), NEW id, NEW s, NEW items, \A i \in items : i.private,
         NamesNoShown(v.keys, "add", items), NEW h
  PROVE  Leaves(v.keys, KeyAdd(v, id, s, items, h).vm.keys)
<1> DEFINE keys == [k \in KeyIds |->
             IF \E i \in items : i.id = k
             THEN Added(v.keys, CHOOSE i \in items : i.id = k, h)
             ELSE v.keys[k]]
           r == KeyAdd(v, id, s, items, h)
<1>d. DOMAIN v.keys = KeyIds
  BY DEF RingShape
<1>1. r = Fails(v) \/ r = Done([v EXCEPT !.keys = keys])
  BY DEF KeyAdd
<1>2. [v EXCEPT !.keys = keys] = [keys |-> keys, pending |-> v.pending]
  BY WithKeys
<1>3. r.vm.keys = v.keys \/ r.vm.keys = keys
  <2> HIDE DEF r, keys
  <2>1. CASE r = Fails(v)
    BY <2>1 DEF Fails
  <2>2. CASE r = Done([v EXCEPT !.keys = keys])
    BY <2>2, <1>2 DEF Done
  <2>3. QED
    BY <1>1, <2>1, <2>2
<1>4. ASSUME NEW k \in KeyIds, \E i \in items : i.id = k
      PROVE  ~Shown(v.keys, k) /\ ~Shown(keys, k)
  <2> DEFINE i == CHOOSE j \in items : j.id = k
  <2>1. i \in items /\ i.id = k
    BY <1>4
  <2>2. keys[k] = Added(v.keys, i, h)
    BY <1>4
  <2> HIDE DEF i
  <2>3. Added(v.keys, i, h).private = i.private
    BY DEF Added, From
  <2>4. ~Shown(v.keys, k)
    BY <2>1 DEF NamesNoShown
  <2> HIDE DEF keys
  <2>5. QED
    BY <2>1, <2>2, <2>3, <2>4 DEF Shown
<1>5. Leaves(v.keys, keys)
  BY <1>4 DEF Leaves
<1>6. Leaves(v.keys, v.keys)
  BY <1>d DEF Leaves
<1>7. QED
  <2> HIDE DEF keys, r
  <2>1. QED
    BY <1>3, <1>5, <1>6 DEF r

LEMMA SecretDelete ==
  ASSUME NEW v, RingShape(v), NEW ids, \A k \in ids : ~Shown(v.keys, k), NEW h
  PROVE  LET g == deleteKeyHelper(v, h, ids) IN
           /\ Leaves(v.keys, g.keys)
           /\ \A k : Shown(g.keys, k) <=> Shown(v.keys, k)
<1> DEFINE g == deleteKeyHelper(v, h, ids)
<1>1. DOMAIN v.keys = KeyIds /\ \A k \in KeyIds : KeyShape(v.keys[k])
  BY DEF RingShape
<1>2. /\ DOMAIN g.keys = KeyIds
      /\ \A k \in KeyIds : g.keys[k] =
           IF k \in ids THEN [v.keys[k] EXCEPT !.until = h] ELSE v.keys[k]
  BY DEF deleteKeyHelper
<1>3. ASSUME NEW k \in KeyIds
      PROVE  g.keys[k].since = v.keys[k].since /\ g.keys[k].private = v.keys[k].private
  <2>1. \A q : KeyShape(q) => LET n == [q EXCEPT !.until = h] IN
          n.since = q.since /\ n.private = q.private
    BY DEF KeyShape
  <2>2. QED
    BY <2>1, <1>1, <1>2
<1> HIDE DEF g
<1>4. \A k : Shown(g.keys, k) <=> Shown(v.keys, k)
  BY <1>1, <1>2, <1>3 DEF Shown, In
<1>5. QED
  BY <1>2, <1>4 DEF Leaves, g

LEMMA SecretDel ==
  ASSUME NEW v, RingShape(v), NEW id, NEW s, NEW items, \A i \in items : i.private, NEW h
  PROVE  Leaves(v.keys, KeyDel(v, id, s, items, h).vm.keys)
<1> DEFINE ids == {k \in {i.id : i \in items} : Active(v.keys, k)}
           r == KeyDel(v, id, s, items, h)
<1>1. CASE ~validateKeyDelPermissions(v.keys, id, s, items)
  <2>1. r.vm = v
    BY <1>1 DEF KeyDel, Fails
  <2>2. QED
    BY <2>1 DEF Leaves, RingShape
<1>2. CASE validateKeyDelPermissions(v.keys, id, s, items)
  <2>1. \A k \in ids : ~Shown(v.keys, k)
    BY <1>2 DEF validateKeyDelPermissions, Shown
  <2>2. r.vm = deleteKeyHelper(v, h, ids)
    BY <1>2 DEF KeyDel, Done
  <2> HIDE DEF ids
  <2>3. QED
    BY <2>1, <2>2, SecretDelete
<1>3. QED
  BY <1>1, <1>2

LEMMA SecretUpdate ==
  ASSUME NEW v, Sound(v), NEW id, NEW s, NEW items, \A i \in items : i.private,
         NamesNoShown(v.keys, "update", items), NEW h \in Nat
  PROVE  Leaves(v.keys, KeyUpdate(v, id, s, items, h).vm.keys)
<1> DEFINE gone == deleteKeyHelper(v, h, Replaced(items))
           keys == [k \in KeyIds |->
             IF \E i \in items : i.id = k
             THEN UpdatedKey(v, gone.keys, CHOOSE i \in items : i.id = k, h)
             ELSE gone.keys[k]]
           r == KeyUpdate(v, id, s, items, h)
           refused == \/ \E i \in items : ~(v.keys[i.oldKeyId].private <=> i.private)
                      \/ ~validateKeyAddPermissions(v.keys, id, s,
                            {Updated(v.keys, i) : i \in items}, TRUE)
                      \/ \E i \in items : UpdatesDeleted(gone.keys, i)
           missing == \E i \in items : ~In(v.keys, i.oldKeyId)
<1>s. RingShape(v)
  BY DEF Sound
<1>d. DOMAIN v.keys = KeyIds /\ \A k \in KeyIds : KeyShape(v.keys[k])
  BY <1>s DEF RingShape
<1>1. CASE missing \/ refused
  <2>1. r.vm = v
    BY <1>1 DEF KeyUpdate, Fails, Warns
  <2>2. QED
    BY <2>1, <1>d DEF Leaves
<1>2. CASE ~missing /\ ~refused
  <2>1. \A i \in items : In(v.keys, i.oldKeyId) /\ v.keys[i.oldKeyId].private
    BY <1>2
  <2>2. \A k \in Replaced(items) : In(v.keys, k) /\ ~Shown(v.keys, k)
    BY <2>1 DEF Replaced, Shown
  <2>3. RingShape(gone)
    BY <2>2, DeleteIsSound DEF Sound
  <2>4. /\ Leaves(v.keys, gone.keys)
        /\ \A k : Shown(gone.keys, k) <=> Shown(v.keys, k)
    BY <2>2, <1>s, SecretDelete
  <2>5. r = Done([gone EXCEPT !.keys = keys])
    BY <1>2 DEF KeyUpdate
  <2>6. [gone EXCEPT !.keys = keys] = [keys |-> keys, pending |-> gone.pending]
    BY <2>3, WithKeys
  <2>7. r.vm.keys = keys
    <3> HIDE DEF r, keys, gone
    <3>1. QED
      BY <2>5, <2>6 DEF Done
  <2>8. ASSUME NEW k \in KeyIds, \E i \in items : i.id = k
        PROVE  ~Shown(v.keys, k) /\ ~Shown(keys, k)
    <3> DEFINE i == CHOOSE j \in items : j.id = k
               n == Updated(v.keys, i)
    <3>1. i \in items /\ i.id = k
      BY <2>8
    <3>2. keys[k] = UpdatedKey(v, gone.keys, i, h)
      BY <2>8
    <3> HIDE DEF i, gone
    <3>3. ~Shown(v.keys, k) /\ ~Shown(gone.keys, k)
      BY <3>1, <2>4 DEF NamesNoShown
    <3>4. n.private
      <4>1. KeyShape(v.keys[i.oldKeyId])
        BY <3>1, <2>1, <1>d DEF In
      <4>2. \A q, x : KeyShape(q) => [q EXCEPT !.perms = x].private = q.private
        BY DEF KeyShape
      <4>3. n.private = v.keys[i.oldKeyId].private
        BY <4>1, <4>2 DEF Updated
      <4>4. QED
        BY <4>3, <3>1, <2>1
    <3>5. keys[k].private
      <4>1. CASE Active(gone.keys, k)
        <5> DEFINE q == gone.keys[k]
        <5>1. keys[k] = [q EXCEPT !.perms = @ \cup n.perms]
          BY <3>1, <3>2, <4>1 DEF UpdatedKey
        <5>2. KeyShape(q)
          BY <2>3 DEF RingShape
        <5>3. \A z : [q EXCEPT !.perms = z].private = q.private
          BY <5>2 DEF KeyShape
        <5>4. q.private
          BY <3>3, <4>1 DEF Active, Shown
        <5> HIDE DEF keys, q, n
        <5>5. QED
          BY <5>1, <5>3, <5>4
      <4>2. CASE ~Active(gone.keys, k)
        <5>1. keys[k] = From(n, h)
          BY <3>1, <3>2, <4>2 DEF UpdatedKey
        <5>2. From(n, h).private = n.private
          BY DEF From
        <5> HIDE DEF keys, n
        <5>3. QED
          BY <5>1, <5>2, <3>4
      <4>3. QED
        BY <4>1, <4>2
    <3>6. QED
      BY <3>3, <3>5 DEF Shown
  <2>9. \A k \in KeyIds : ~(\E i \in items : i.id = k) => keys[k] = gone.keys[k]
    OBVIOUS
  <2>10. DOMAIN keys = KeyIds
    OBVIOUS
  <2> HIDE DEF keys, gone
  <2>11. Leaves(v.keys, keys)
    BY <2>4, <2>8, <2>9, <2>10 DEF Leaves, Shown, In
  <2>12. QED
    BY <2>7, <2>11
<1>3. QED
  BY <1>1, <1>2

LEMMA SecretOperation ==
  ASSUME NEW v, Sound(v), NEW id, NEW s, NEW op, NEW items, \A i \in items : i.private,
         NamesNoShown(v.keys, op, items), NEW h \in Nat
  PROVE  Bare(Operation(v, id, s, op, items, h).vm.keys) = Bare(v.keys)
<1> DEFINE r == Operation(v, id, s, op, items, h)
<1>s. RingShape(v) /\ DOMAIN v.keys = KeyIds
  BY DEF Sound, RingShape
<1>1. Leaves(v.keys, r.vm.keys)
  <2>1. CASE op = "add"
    BY <2>1, <1>s, SecretAdd DEF Operation
  <2>2. CASE op = "del"
    BY <2>2, <1>s, SecretDel DEF Operation
  <2>3. CASE op \notin {"add", "del"}
    <3>1. NamesNoShown(v.keys, "update", items)
      BY <2>3 DEF NamesNoShown
    <3>2. QED
      BY <2>3, <3>1, SecretUpdate DEF Operation
  <2>4. QED
    BY <2>1, <2>2, <2>3
<1> HIDE DEF r
<1>2. QED
  BY <1>s, <1>1, BareSame DEF Leaves, r

(***************************************************************************)
(* The events as a client processes them that has public keys alone.       *)
(***************************************************************************)
Open(e) == \E i \in Items(e) : ~i.private

First(b, e, h) ==
  [st |-> IF /\ verifySignature(b.keys, e.signer, h)
             /\ e.atomic => validateKeyPermissions(b.keys, e.signer, "atomic")
          THEN "ok" ELSE "error",
   vm |-> b]

Result(x, e, s, n, h) ==
  IF validateKeyPermissions(x.vm.keys, e.signer, e.ops[n].t)
  THEN Operation(x.vm, e.signer, s, e.ops[n].t, e.ops[n].items, h)
  ELSE Fails(x.vm)

NextOp(x, e, s, n, h) ==
  IF x.st = "ok" /\ n \in DOMAIN e.ops
  THEN [st |-> IF Result(x, e, s, n, h).st = "error" THEN "error" ELSE "ok",
        vm |-> Result(x, e, s, n, h).vm]
  ELSE x

IsTrace(r, b, e, h) ==
  /\ r[0] = First(b, e, h)
  /\ \A n \in Nat : r[n + 1] = NextOp(r[n], e, b.keys[e.signer], n + 1, h)

Trace(b, e, h) == CHOOSE r : IsTrace(r, b, e, h)

UpTo(e, n) == \A m \in 1 .. n : m \in DOMAIN e.ops

\* The number of an event's operations.
Ops(e) == CHOOSE n \in Nat : UpTo(e, n) /\ n + 1 \notin DOMAIN e.ops

After(b, e, h) ==
  IF Open(e) /\ ~\E n \in Nat : UpTo(e, n) /\ Trace(b, e, h)[n].st = "error"
  THEN Trace(b, e, h)[Ops(e)].vm
  ELSE b

LEMMA LeastNat == ASSUME NEW S \in SUBSET Nat, S # {} PROVE \E x \in S : \A y \in S : x <= y
<1> DEFINE R == {ss \in Nat \X Nat : ss[1] < ss[2]}
<1>0. OpToRel(<, Nat) = R
  BY DEF OpToRel
<1>1. PICK x \in S : \A y \in S : ~ (<<y, x>> \in R)
  BY <1>0, NatLessThanWellFounded, WFMin
<1>2. ASSUME NEW y \in S PROVE x <= y
  <2>1. x \in Nat /\ y \in Nat /\ <<y, x>> \notin R
    BY <1>1
  <2>2. <<y, x>>[1] = y /\ <<y, x>>[2] = x /\ <<y, x>> \in Nat \X Nat
    BY <2>1
  <2>3. ~(y < x)
    BY <2>1, <2>2
  <2> QED
    BY <2>1, <2>3
<1> QED
  BY <1>2

LEMMA TraceIsOne == \A b, e, h : IsTrace(Trace(b, e, h), b, e, h)
<1> SUFFICES ASSUME NEW b, NEW e, NEW h PROVE \E r : IsTrace(r, b, e, h)
  BY DEF Trace
<1> DEFINE F == First(b, e, h)
           N(x, n) == NextOp(x, e, b.keys[e.signer], n, h)
           Begins(q, n) == q[0] = F /\ \A j \in Nat : j < n => q[j + 1] = N(q[j], j + 1)
<1> HIDE DEF F, N
<1>1. \A n \in Nat : \E q : Begins(q, n)
  <2> DEFINE S == {n \in Nat : ~\E q : Begins(q, n)}
  <2> SUFFICES ASSUME S # {} PROVE FALSE
    OBVIOUS
  <2>1. PICK n \in S : \A m \in S : n <= m
    BY LeastNat
  <2>2. CASE n = 0
    <3> DEFINE q == [j \in Nat |-> F]
    <3>1. Begins(q, 0)
      OBVIOUS
    <3>2. QED
      BY <2>1, <2>2, <3>1
  <2>3. CASE n # 0
    <3>1. n \in Nat /\ n - 1 \in Nat /\ n - 1 \notin S
      BY <2>1, <2>3
    <3>2. PICK q : Begins(q, n - 1)
      BY <3>1
    <3> DEFINE p == [j \in Nat |-> IF j = n THEN N(q[n - 1], n) ELSE q[j]]
    <3>3. p[0] = F
      BY <2>3, <3>2
    <3>4. ASSUME NEW j \in Nat, j < n PROVE p[j + 1] = N(p[j], j + 1)
      <4>1. p[j] = q[j]
        BY <3>1, <3>4
      <4>2. CASE j = n - 1
        <5>1. j + 1 = n
          BY <4>2, <3>1
        <5>2. p[n] = N(q[n - 1], n)
          BY <3>1
        <5>3. QED
          BY <4>1, <4>2, <5>1, <5>2
      <4>3. CASE j # n - 1
        <5>1. j < n - 1 /\ j + 1 # n /\ j + 1 \in Nat
          BY <4>3, <3>1, <3>4
        <5>2. p[j + 1] = q[j + 1] /\ q[j + 1] = N(q[j], j + 1)
          BY <5>1, <3>2
        <5>3. QED
          BY <4>1, <5>2
      <4>4. QED
        BY <4>2, <4>3
    <3>5. Begins(p, n)
      <4> HIDE DEF p
      <4>1. QED
        BY <3>3, <3>4
    <3>6. QED
      BY <3>5, <2>1
  <2>4. QED
    BY <2>2, <2>3
<1>2. ASSUME NEW p, NEW q, NEW m \in Nat, NEW n \in Nat, Begins(p, m), Begins(q, n),
             m <= n
      PROVE  p[m] = q[m]
  <2> DEFINE S == {j \in Nat : j <= m /\ p[j] # q[j]}
  <2> SUFFICES ASSUME S # {} PROVE FALSE
    OBVIOUS
  <2>1. PICK j \in S : \A k \in S : j <= k
    BY LeastNat
  <2>2. j # 0
    BY <2>1, <1>2
  <2>3. j \in Nat /\ j - 1 \in Nat /\ j - 1 \notin S /\ j <= m
    BY <2>1, <2>2
  <2>4. p[j - 1] = q[j - 1]
    BY <2>3
  <2>5. p[(j - 1) + 1] = N(p[j - 1], (j - 1) + 1) /\ q[(j - 1) + 1] = N(q[j - 1], (j - 1) + 1)
    BY <2>3, <1>2
  <2>6. p[j] = q[j]
    <3>1. (j - 1) + 1 = j
      BY <2>3
    <3>2. QED
      BY <2>4, <2>5, <3>1
  <2>7. QED
    BY <2>1, <2>6
<1> DEFINE G(n) == CHOOSE q : Begins(q, n)
           r == [n \in Nat |-> G(n)[n]]
<1>3. \A n \in Nat : Begins(G(n), n)
  BY <1>1
<1> HIDE DEF G
<1>4. r[0] = F
  BY <1>3
<1>5. ASSUME NEW n \in Nat PROVE r[n + 1] = N(r[n], n + 1)
  <2>1. r[n + 1] = G(n + 1)[n + 1] /\ r[n] = G(n)[n]
    OBVIOUS
  <2>2. G(n + 1)[n + 1] = N(G(n + 1)[n], n + 1)
    BY <1>3
  <2>3. G(n)[n] = G(n + 1)[n]
    <3>1. n + 1 \in Nat /\ n <= n + 1
      OBVIOUS
    <3>2. QED
      BY <3>1, <1>2, <1>3
  <2>4. QED
    BY <2>1, <2>2, <2>3
<1> HIDE DEF r
<1>6. IsTrace(r, b, e, h)
  BY <1>4, <1>5 DEF IsTrace, F, N
<1>7. QED
  BY <1>6

\* Where the trace stands when the operations have all been gone through, or one failed.
LEMMA FailedStays ==
  ASSUME NEW b, NEW e, NEW h, NEW m \in Nat, NEW n \in Nat, m <= n,
         Trace(b, e, h)[m].st = "error"
  PROVE  Trace(b, e, h)[n].st = "error"
<1> DEFINE r == Trace(b, e, h)
           S == {j \in Nat : m <= j /\ r[j].st # "error"}
<1>0. IsTrace(r, b, e, h)
  BY TraceIsOne
<1> HIDE DEF r
<1> SUFFICES ASSUME S # {} PROVE FALSE
  BY DEF r
<1>1. PICK j \in S : \A k \in S : j <= k
  BY LeastNat
<1>2. j # m
  BY <1>1 DEF r
<1>3. j \in Nat /\ j - 1 \in Nat /\ m <= j - 1 /\ j - 1 \notin S
  BY <1>1, <1>2
<1>4. r[j - 1].st = "error"
  BY <1>3
<1>5. r[(j - 1) + 1] = r[j - 1]
  BY <1>0, <1>3, <1>4 DEF IsTrace, NextOp
<1>6. (j - 1) + 1 = j
  BY <1>3
<1>7. QED
  BY <1>1, <1>4, <1>5, <1>6

LEMMA AfterFailed ==
  ASSUME NEW b, NEW e, NEW h, NEW n \in Nat, UpTo(e, n), Trace(b, e, h)[n].st = "error"
  PROVE  After(b, e, h) = b
  BY DEF After

LEMMA AfterAll ==
  ASSUME NEW b, NEW e, NEW h, NEW n \in Nat, UpTo(e, n), n + 1 \notin DOMAIN e.ops,
         Open(e), Trace(b, e, h)[n].st # "error"
  PROVE  After(b, e, h) = Trace(b, e, h)[n].vm
<1>1. ASSUME NEW m \in Nat, UpTo(e, m), m > n PROVE FALSE
  BY <1>1 DEF UpTo
<1>2. Ops(e) = n
  <2>1. ASSUME NEW m \in Nat, UpTo(e, m), m + 1 \notin DOMAIN e.ops PROVE m = n
    <3>1. ~(m < n)
      BY <2>1 DEF UpTo
    <3>2. QED
      BY <3>1, <2>1, <1>1
  <2>2. QED
    BY <2>1 DEF Ops
<1>3. ASSUME NEW m \in Nat, UpTo(e, m), Trace(b, e, h)[m].st = "error" PROVE FALSE
  <2>1. m <= n
    BY <1>1, <1>3
  <2>2. QED
    BY <2>1, <1>3, FailedStays
<1>4. QED
  BY <1>2, <1>3 DEF After

(***************************************************************************)
(* The second inductive invariant.  P gives the public keys after each     *)
(* event; pt is parted, a the height a client is at, keys the ring it has  *)
(* and t its task.                                                         *)
(***************************************************************************)
Together(pt, n) == pt = None \/ n < pt

\* The client is where the trace is, with the signer and the secret keys it began with.
InStep(x, t, b, keys) ==
  /\ t.st = x.st
  /\ t.st = "ok" => /\ x.vm = Bare(t.copy.keys)
                    /\ Shown(t.copy.keys, t.e.signer)
                    /\ t.signer = b.keys[t.e.signer]
                    /\ \A k : Secret(t.copy.keys, k) => Secret(keys, k)

Processes(P, pt, a, keys, t) ==
  Together(pt, a + 1) =>
    /\ ~Parts(t.e, keys)
    /\ Open(t.e) => InStep(Trace(P[a], t.e, a + 1)[t.i - 1], t, P[a], keys)
    /\ ~Open(t.e) => Bare(t.copy.keys) = P[a]

Fine(P, lg, pt, a, keys, t) ==
  /\ a \in Nat /\ a <= Len(lg)
  /\ Together(pt, a) => Bare(keys) = P[a]
  /\ t.on => /\ a < Len(lg) /\ t.e = lg[a + 1]
             /\ t.i \in Nat \ {0} /\ UpTo(t.e, t.i - 1)
             /\ Processes(P, pt, a, keys, t)

History(P, lg) ==
  /\ P[0] = Bare(Genesis.keys)
  /\ \A n \in Nat : n < Len(lg) => P[n + 1] = After(P[n], lg[n + 1], n + 1)

AInv ==
  /\ \E S : log \in Seq(S)
  /\ parted \in Nat \cup {None}
  /\ \E P : /\ History(P, log)
            /\ \A c \in Clients : Fine(P, log, parted, at[c], vm[c].keys, task[c])

LEMMA NotParted ==
  ASSUME NEW e, NEW keys, ~Parts(e, keys), NEW j \in DOMAIN e.ops
  PROVE  /\ Open(e) => /\ ~Secret(keys, e.signer)
                       /\ \A i \in e.ops[j].items : ~i.private
         /\ ~Open(e) => \A i \in e.ops[j].items : i.private
         /\ e.ops[j].t # "del" => \A i \in e.ops[j].items :
              /\ Secret(keys, i.id) => i.private
              /\ Shown(keys, i.id) => ~i.private
              /\ e.ops[j].t # "add" => /\ Secret(keys, i.oldKeyId) => i.private
                                       /\ Shown(keys, i.oldKeyId) => ~i.private
<1>1. \A i \in e.ops[j].items : i \in Items(e)
  BY DEF Items
<1>2. Open(e) => /\ ~Secret(keys, e.signer)
                 /\ \A i \in Items(e) : ~i.private
  BY DEF Parts, Open, Secret
<1>3. ~Open(e) => \A i \in Items(e) : i.private
  BY DEF Open
<1>4. ASSUME e.ops[j].t # "del", NEW i \in e.ops[j].items, NEW k \in Named(e.ops[j], i)
      PROVE  (Secret(keys, k) => i.private) /\ (Shown(keys, k) => ~i.private)
  BY <1>4 DEF Parts, Secret, Shown
<1>5. ASSUME NEW i \in e.ops[j].items
      PROVE  /\ i.id \in Named(e.ops[j], i)
             /\ e.ops[j].t # "add" => i.oldKeyId \in Named(e.ops[j], i)
  BY DEF Named
<1>6. QED
  BY <1>1, <1>2, <1>3, <1>4, <1>5

LEMMA NotPartedSigner ==
  ASSUME NEW e, NEW keys, ~Parts(e, keys), Open(e)
  PROVE  ~Secret(keys, e.signer)
  BY DEF Parts, Open, Secret

\* One operation, of an event that parts nobody.
LEMMA OpenInStep ==
  ASSUME NEW b, NEW e, NEW h \in Nat, NEW keys, NEW t, NEW c, NEW n \in Nat \ {0},
         t.e = e, t.i = n, t.st = "ok", n \in DOMAIN e.ops, ~Parts(e, keys), Open(e),
         Sound(t.copy), InStep(Trace(b, e, h)[n - 1], t, b, keys),
         NEW r, r = IF validateKeyPermissions(t.copy.keys, e.signer, e.ops[n].t)
                    THEN Operation(t.copy, e.signer, t.signer, e.ops[n].t,
                                   Readable(c, e.ops[n].items), h)
                    ELSE Fails(t.copy),
         NEW u, u.e = e, u.signer = t.signer, u.copy = r.vm,
         u.st = IF r.st = "error" THEN "error" ELSE "ok"
  PROVE  InStep(Trace(b, e, h)[n], u, b, keys)
<1> DEFINE x == Trace(b, e, h)[n - 1]
           y == Trace(b, e, h)[n]
           op == e.ops[n].t
           items == e.ops[n].items
           s == b.keys[e.signer]
           q == Result(x, e, s, n, h)
           v == t.copy
           id == e.signer
<1>1. y = NextOp(x, e, s, n, h)
  <2>1. IsTrace(Trace(b, e, h), b, e, h)
    BY TraceIsOne
  <2>2. n - 1 \in Nat /\ (n - 1) + 1 = n
    OBVIOUS
  <2>3. QED
    BY <2>1, <2>2 DEF IsTrace
<1>2. /\ x.st = "ok" /\ x.vm = Bare(v.keys) /\ Shown(v.keys, id) /\ t.signer = s
      /\ \A k : Secret(v.keys, k) => Secret(keys, k)
  BY DEF InStep
<1>3. DOMAIN v.keys = KeyIds
  BY DEF Sound, RingShape
<1>4. \A i \in items : ~i.private
  BY NotParted
<1>5. NamesNoSecret(v.keys, op, items)
  <2>1. op # "del" => \A i \in items :
          /\ Secret(keys, i.id) => i.private
          /\ op # "add" => (Secret(keys, i.oldKeyId) => i.private)
    BY NotParted
  <2>2. QED
    BY <1>2, <1>4, <2>1 DEF NamesNoSecret
<1>6. Readable(c, items) = items
  BY <1>4 DEF Readable
<1>7. validateKeyPermissions(x.vm.keys, id, op) <=> validateKeyPermissions(v.keys, id, op)
  <2>1. In(Bare(v.keys).keys, id) /\ Bare(v.keys).keys[id] = v.keys[id] /\ In(v.keys, id)
    BY <1>2, <1>3, BareMeans DEF Shown
  <2>2. QED
    BY <1>2, <2>1 DEF validateKeyPermissions
<1>8. SameShown(v, r, q, id)
  <2>1. CASE validateKeyPermissions(v.keys, id, op)
    <3>1. r = Operation(v, id, s, op, items, h)
      BY <2>1, <1>2, <1>6
    <3>2. q = Operation(Bare(v.keys), id, s, op, items, h)
      BY <2>1, <1>2, <1>7 DEF Result
    <3> HIDE DEF op, items, s, id, q, v
    <3>3. Sound(v)
      BY DEF v
    <3>4. SameShown(v, Operation(v, id, s, op, items, h),
                    Operation(Bare(v.keys), id, s, op, items, h), id)
      BY <1>2, <1>4, <1>5, <3>3, OpenOperation
    <3>5. QED
      BY <3>1, <3>2, <3>4
  <2>2. CASE ~validateKeyPermissions(v.keys, id, op)
    <3>1. r = Fails(v) /\ q = Fails(Bare(v.keys))
      BY <2>2, <1>2, <1>7 DEF Result
    <3>2. QED
      BY <3>1, <1>2, <1>3, OpenFails
  <2>3. QED
    BY <2>1, <2>2
<1>9. y.st = (IF q.st = "error" THEN "error" ELSE "ok") /\ y.vm = q.vm
  BY <1>1, <1>2 DEF NextOp
<1> HIDE DEF q, x, y
<1>10. QED
  BY <1>2, <1>8, <1>9 DEF InStep, SameShown, y

LEMMA ClosedInStep ==
  ASSUME NEW e, NEW h \in Nat, NEW keys, NEW v, NEW c, NEW s, NEW n \in DOMAIN e.ops,
         ~Parts(e, keys), ~Open(e), Sound(v), DOMAIN keys = KeyIds,
         Bare(v.keys) = Bare(keys)
  PROVE  LET r == IF validateKeyPermissions(v.keys, e.signer, e.ops[n].t)
                  THEN Operation(v, e.signer, s, e.ops[n].t,
                                 Readable(c, e.ops[n].items), h)
                  ELSE Fails(v)
         IN  Bare(r.vm.keys) = Bare(keys)
<1> DEFINE op == e.ops[n].t
           items == Readable(c, e.ops[n].items)
           id == e.signer
<1>1. \A i \in items : i \in e.ops[n].items
  BY DEF Readable
<1>2. \A i \in items : i.private
  BY <1>1, NotParted
<1>3. \A k : Shown(v.keys, k) => Shown(keys, k)
  <2>1. DOMAIN v.keys = KeyIds
    BY DEF Sound, RingShape
  <2>2. \A k : Shown(v.keys, k) => In(Bare(v.keys).keys, k)
    BY <2>1, BareMeans
  <2>3. \A k : In(Bare(keys).keys, k) => Shown(keys, k)
    BY BareMeans
  <2>4. QED
    BY <2>2, <2>3
<1>4. NamesNoShown(v.keys, op, items)
  <2>1. op # "del" => \A i \in items :
          /\ Shown(keys, i.id) => ~i.private
          /\ op # "add" => (Shown(keys, i.oldKeyId) => ~i.private)
    BY <1>1, NotParted
  <2>2. QED
    BY <1>2, <1>3, <2>1 DEF NamesNoShown
<1> HIDE DEF op, items, id
<1>5. Bare(Operation(v, id, s, op, items, h).vm.keys) = Bare(v.keys)
  BY <1>2, <1>4, SecretOperation
<1>6. QED
  BY <1>5 DEF Fails, op, items, id

LEMMA AInit == Init => AInv
<1> SUFFICES ASSUME Init PROVE AInv
  OBVIOUS
<1> DEFINE P == [n \in Nat |-> Bare(Genesis.keys)]
<1>1. ~NoTask.on
  BY DEF NoTask
<1>2. log = <<>> /\ Len(log) = 0 /\ log \in Seq({})
  BY DEF Init
<1>3. History(P, log)
  BY <1>2 DEF History
<1>4. \A c \in Clients : Fine(P, log, parted, at[c], vm[c].keys, task[c])
  <2> SUFFICES ASSUME NEW c \in Clients
               PROVE  Fine(P, log, parted, at[c], vm[c].keys, task[c])
    OBVIOUS
  <2>1. at[c] = 0 /\ vm[c] = Genesis /\ task[c] = NoTask
    BY DEF Init
  <2>2. P[0] = Bare(Genesis.keys)
    OBVIOUS
  <2> HIDE DEF P
  <2>3. QED
    BY <2>1, <2>2, <1>1, <1>2 DEF Fine
<1>5. parted = None
  BY DEF Init
<1>6. QED
  BY <1>2, <1>3, <1>4, <1>5 DEF AInv

LEMMA FineLater ==
  ASSUME NEW P, NEW lg, NEW pt, NEW q, NEW a, NEW keys, NEW t, Fine(P, lg, pt, a, keys, t),
         \A n \in Nat : Together(q, n) => Together(pt, n)
  PROVE  Fine(P, lg, q, a, keys, t)
<1>1. a \in Nat /\ a + 1 \in Nat
  BY DEF Fine
<1>2. QED
  BY <1>1 DEF Fine, Processes

LEMMA FineLonger ==
  ASSUME NEW P, NEW Q, NEW lg, NEW S, lg \in Seq(S), NEW e, NEW pt, NEW a, NEW keys, NEW t,
         Fine(P, lg, pt, a, keys, t), \A n \in Nat : n <= Len(lg) => Q[n] = P[n]
  PROVE  Fine(Q, Append(lg, e), pt, a, keys, t)
<1>1. /\ Len(Append(lg, e)) = Len(lg) + 1
      /\ \A n \in 1 .. Len(lg) : Append(lg, e)[n] = lg[n]
      /\ Len(lg) \in Nat
  OBVIOUS
<1>2. Q[a] = P[a]
  BY DEF Fine
<1>3. QED
  BY <1>1, <1>2 DEF Fine, Processes

LEMMA HistoryLonger ==
  ASSUME NEW P, NEW lg, NEW S, lg \in Seq(S), NEW e, History(P, lg)
  PROVE  \E Q : /\ History(Q, Append(lg, e))
                /\ \A n \in Nat : n <= Len(lg) => Q[n] = P[n]
<1> DEFINE l == Len(lg)
           Q == [n \in Nat |-> IF n = l + 1 THEN After(P[l], e, l + 1) ELSE P[n]]
<1>1. /\ Len(Append(lg, e)) = l + 1 /\ Append(lg, e)[l + 1] = e
      /\ \A n \in 1 .. l : Append(lg, e)[n] = lg[n]
      /\ l \in Nat
  OBVIOUS
<1>2. \A n \in Nat : n <= l => Q[n] = P[n]
  BY <1>1
<1>3. Q[l + 1] = After(P[l], e, l + 1)
  BY <1>1
<1> HIDE DEF l, Q
<1>4. ASSUME NEW n \in Nat, n < l + 1
      PROVE  Q[n + 1] = After(Q[n], Append(lg, e)[n + 1], n + 1)
  <2>1. Q[n] = P[n]
    BY <1>1, <1>2, <1>4
  <2>2. CASE n = l
    BY <2>1, <2>2, <1>1, <1>3
  <2>3. CASE n # l
    <3>1. n < l /\ n + 1 <= l /\ n + 1 \in 1 .. l
      BY <2>3, <1>1, <1>4
    <3>2. P[n + 1] = After(P[n], lg[n + 1], n + 1)
      BY <3>1 DEF History, l
    <3>3. Q[n + 1] = P[n + 1]
      BY <3>1, <1>2
    <3>4. QED
      BY <3>1, <3>2, <3>3, <2>1, <1>1
  <2>4. QED
    BY <2>2, <2>3
<1>5. Q[0] = Bare(Genesis.keys)
  BY <1>1, <1>2 DEF History
<1>6. QED
  BY <1>1, <1>2, <1>4, <1>5 DEF History, l

LEMMA APublish == ASSUME AInv, NEW c \in Clients, Publish(c) PROVE AInv'
<1>1. vm' = vm /\ at' = at /\ task' = task /\ parted' = parted
  BY DEF Publish
<1>2. CASE log' = log
  BY <1>1, <1>2 DEF AInv
<1>3. ASSUME NEW e, log' = Append(log, e) PROVE AInv'
  <2>1. PICK S : log \in Seq(S)
    BY DEF AInv
  <2>2. log' \in Seq(S \cup {e})
    <3>1. log \in Seq(S \cup {e})
      BY <2>1
    <3>2. QED
      BY <3>1, <1>3
  <2>3. PICK P : /\ History(P, log)
                 /\ \A d \in Clients : Fine(P, log, parted, at[d], vm[d].keys, task[d])
    BY DEF AInv
  <2>4. PICK Q : /\ History(Q, Append(log, e))
                 /\ \A n \in Nat : n <= Len(log) => Q[n] = P[n]
    BY <2>1, <2>3, HistoryLonger
  <2>5. \A d \in Clients : Fine(Q, Append(log, e), parted, at[d], vm[d].keys, task[d])
    BY <2>1, <2>3, <2>4, FineLonger
  <2>6. QED
    BY <1>1, <1>3, <2>2, <2>4, <2>5 DEF AInv
<1>4. QED
  BY <1>2, <1>3 DEF Publish

LEMMA ABegin == ASSUME AInv, IInv, NEW c \in Clients, Begin(c) PROVE AInv'
<1> DEFINE e == log[at[c] + 1]
           keys == vm[c].keys
           h == at[c] + 1
           t == task'[c]
<1>1. PICK P : /\ History(P, log)
               /\ \A d \in Clients : Fine(P, log, parted, at[d], vm[d].keys, task[d])
  BY DEF AInv
<1>2. vm' = vm /\ at' = at /\ log' = log
  BY DEF Begin
<1>3. parted' = IF Parts(e, keys) /\ (parted = None \/ at[c] < parted) THEN h ELSE parted
  BY DEF Begin
<1>4. at[c] \in Nat /\ at[c] < Len(log) /\ parted \in Nat \cup {None}
  BY <1>1 DEF Begin, Fine, AInv
<1>5. parted' \in Nat \cup {None} /\ \A n \in Nat : Together(parted', n) => Together(parted, n)
  <2> HIDE DEF e, keys
  <2>1. QED
    BY <1>3, <1>4 DEF Together, None
<1>6. Together(parted', h) => ~Parts(e, keys)
  <2> HIDE DEF e, keys
  <2>1. QED
    BY <1>3, <1>4 DEF Together, None
<1>7. /\ t.e = e /\ t.i = 1 /\ t.signer = keys[e.signer] /\ t.copy = vm[c]
      /\ t.st = IF /\ verifySignature(keys, e.signer, h)
                   /\ e.atomic => validateKeyPermissions(keys, e.signer, "atomic")
                THEN "ok" ELSE "error"
  BY DEF Begin, IInv
<1>8. \A d \in Clients : d # c => task'[d] = task[d]
  BY DEF Begin, IInv
<1> HIDE DEF e, t
<1>9. Processes(P, parted', at[c], keys, t)
  <2> SUFFICES ASSUME Together(parted', h)
               PROVE  /\ ~Parts(e, keys)
                      /\ Open(e) => InStep(Trace(P[at[c]], e, h)[0], t, P[at[c]], keys)
                      /\ ~Open(e) => Bare(keys) = P[at[c]]
    BY <1>7 DEF Processes
  <2>1. ~Parts(e, keys)
    BY <1>6
  <2>2. Bare(keys) = P[at[c]]
    <3>1. h \in Nat /\ Together(parted, h)
      BY <1>4, <1>5
    <3>2. Together(parted, at[c])
      BY <3>1, <1>4 DEF Together, None
    <3>3. QED
      BY <3>2, <1>1 DEF Fine
  <2>3. ASSUME Open(e) PROVE InStep(Trace(P[at[c]], e, h)[0], t, P[at[c]], keys)
    <3> DEFINE b == P[at[c]]
               x == Trace(b, e, h)[0]
               id == e.signer
    <3>1. x = First(b, e, h)
      BY TraceIsOne DEF IsTrace
    <3>2. ~Secret(keys, id)
      BY <2>1, <2>3, NotPartedSigner
    <3>3. DOMAIN keys = KeyIds
      BY DEF IInv, Sound, RingShape
    <3>4. /\ In(b.keys, id) <=> In(keys, id)
          /\ In(keys, id) => Shown(keys, id) /\ b.keys[id] = keys[id]
      <4> HIDE DEF keys
      <4>1. /\ In(Bare(keys).keys, id) <=> Shown(keys, id)
            /\ Shown(keys, id) => Bare(keys).keys[id] = keys[id]
            /\ Shown(keys, id) \/ Secret(keys, id) \/ ~In(keys, id)
        BY <3>3, BareMeans
      <4>2. QED
        BY <4>1, <3>2, <2>2 DEF Shown
    <3> HIDE DEF b, keys, id
    <3>5. verifySignature(b.keys, id, h) <=> verifySignature(keys, id, h)
      BY <3>4 DEF verifySignature
    <3>6. verifySignature(keys, id, h) =>
            (validateKeyPermissions(b.keys, id, "atomic")
               <=> validateKeyPermissions(keys, id, "atomic"))
      BY <3>4 DEF verifySignature, validateKeyPermissions
    <3>7. x.st = t.st /\ x.vm = b
      BY <3>1, <3>5, <3>6, <1>7 DEF First, id
    <3>8. t.st = "ok" => Shown(keys, id) /\ t.signer = b.keys[id]
      BY <3>4, <1>7 DEF verifySignature, id
    <3>9. QED
      BY <3>7, <3>8, <2>2, <1>7 DEF InStep, id, b, keys
  <2>4. QED
    BY <2>1, <2>2, <2>3
<1>10. Fine(P, log, parted', at[c], keys, t)
  <2>1. Fine(P, log, parted', at[c], keys, task[c])
    BY <1>1, <1>5, FineLater
  <2>2. UpTo(e, 0)
    BY DEF UpTo
  <2>3. QED
    BY <2>1, <2>2, <1>4, <1>7, <1>9 DEF Fine, e
<1>11. \A d \in Clients : Fine(P, log, parted', at[d], vm[d].keys, task'[d])
  <2>1. \A d \in Clients : Fine(P, log, parted', at[d], vm[d].keys, task[d])
    BY <1>1, <1>5, FineLater
  <2>2. QED
    BY <2>1, <1>8, <1>10 DEF t
<1>12. \E S : log \in Seq(S)
  BY DEF AInv
<1>13. QED
  BY <1>1, <1>2, <1>5, <1>11, <1>12 DEF AInv

LEMMA AStep == ASSUME AInv, IInv, NEW c \in Clients, Step(c) PROVE AInv'
<1> DEFINE t == task[c]
           e == t.e
           n == t.i
           h == at[c] + 1
           keys == vm[c].keys
           r == IF validateKeyPermissions(t.copy.keys, e.signer, e.ops[n].t)
                THEN Operation(t.copy, e.signer, t.signer, e.ops[n].t,
                               Readable(c, e.ops[n].items), h)
                ELSE Fails(t.copy)
           u == task'[c]
<1>1. PICK P : /\ History(P, log)
               /\ \A d \in Clients : Fine(P, log, parted, at[d], vm[d].keys, task[d])
  BY DEF AInv
<1>2. vm' = vm /\ at' = at /\ log' = log /\ parted' = parted
  BY DEF Step
<1>3. t.on /\ t.st = "ok" /\ n \in DOMAIN e.ops
  BY DEF Step
<1>4. /\ u.on /\ u.e = e /\ u.i = n + 1 /\ u.signer = t.signer /\ u.copy = r.vm
      /\ u.st = IF r.st = "error" THEN "error" ELSE "ok"
  BY DEF Step, IInv
<1>5. \A d \in Clients : d # c => task'[d] = task[d]
  BY DEF Step, IInv
<1>6. /\ at[c] \in Nat /\ at[c] < Len(log) /\ e = log[h] /\ n \in Nat \ {0}
      /\ UpTo(e, n - 1) /\ Processes(P, parted, at[c], keys, t)
  BY <1>1, <1>3 DEF Fine
<1>7. Sound(t.copy) /\ DOMAIN keys = KeyIds
  BY DEF IInv, Sound, RingShape
<1>8. Processes(P, parted, at[c], keys, u)
  <2> DEFINE b == P[at[c]]
  <2> SUFFICES ASSUME Together(parted, h)
               PROVE  /\ ~Parts(e, keys)
                      /\ Open(e) => InStep(Trace(b, e, h)[n], u, b, keys)
                      /\ ~Open(e) => Bare(r.vm.keys) = b
    <3> HIDE DEF e, n, keys, u, r
    <3>1. (n + 1) - 1 = n
      BY <1>6
    <3>2. QED
      BY <3>1, <1>4 DEF Processes
  <2>1. /\ ~Parts(e, keys)
        /\ Open(e) => InStep(Trace(b, e, h)[n - 1], t, b, keys)
        /\ ~Open(e) => Bare(t.copy.keys) = b
    BY <1>6 DEF Processes
  <2>2. h \in Nat
    BY <1>6
  <2>3. ASSUME Open(e) PROVE InStep(Trace(b, e, h)[n], u, b, keys)
    <3> HIDE DEF b, h, keys, u
    <3>1. QED
      BY <2>1, <2>2, <2>3, <1>3, <1>4, <1>6, <1>7, OpenInStep
  <2>4. ASSUME ~Open(e) PROVE Bare(r.vm.keys) = b
    <3>1. Bare(keys) = b
      <4>1. Together(parted, at[c])
        BY <1>6 DEF Together, None, AInv
      <4>2. QED
        BY <4>1, <1>1 DEF Fine
    <3> HIDE DEF b, h, keys
    <3>2. Bare(r.vm.keys) = Bare(keys)
      <4>1. Sound(t.copy) /\ Bare(t.copy.keys) = Bare(keys)
        BY <2>1, <2>4, <3>1, <1>7
      <4>2. n \in DOMAIN e.ops /\ ~Parts(e, keys)
        BY <2>1, <1>3
      <4> HIDE DEF e, n, t
      <4>3. QED
        BY <4>1, <4>2, <2>2, <2>4, <1>7, ClosedInStep
    <3>3. QED
      BY <3>1, <3>2
  <2>5. QED
    BY <2>1, <2>3, <2>4
<1>9. Fine(P, log, parted, at[c], keys, u)
  <2>1. Fine(P, log, parted, at[c], keys, t)
    BY <1>1
  <2>2. n + 1 \in Nat \ {0} /\ UpTo(e, (n + 1) - 1)
    <3> HIDE DEF e, n
    <3>1. \A m \in 1 .. (n + 1) - 1 : m \in 1 .. n - 1 \/ m = n
      BY <1>6
    <3>2. QED
      BY <3>1, <1>3, <1>6 DEF UpTo
  <2> HIDE DEF u, e, n, t
  <2>3. QED
    BY <2>1, <2>2, <1>4, <1>6, <1>8 DEF Fine
<1>10. \A d \in Clients : Fine(P, log, parted, at[d], vm[d].keys, task'[d])
  BY <1>1, <1>5, <1>9
<1>11. (\E S : log \in Seq(S)) /\ parted \in Nat \cup {None}
  BY DEF AInv
<1>12. QED
  BY <1>1, <1>2, <1>10, <1>11 DEF AInv

LEMMA AFinish == ASSUME AInv, IInv, NEW c \in Clients, Finish(c) PROVE AInv'
<1> DEFINE t == task[c]
           e == t.e
           h == at[c] + 1
           keys == vm[c].keys
           new == IF t.st = "error" THEN keys ELSE t.copy.keys
<1>1. PICK P : /\ History(P, log)
               /\ \A d \in Clients : Fine(P, log, parted, at[d], vm[d].keys, task[d])
  BY DEF AInv
<1>2. log' = log /\ parted' = parted
  BY DEF Finish
<1>3. t.on /\ (t.st = "error" \/ t.i \notin DOMAIN e.ops) /\ t.st \in {"ok", "error"}
  BY DEF Finish, IInv, TaskShape
<1>4. vm'[c].keys = new /\ at'[c] = h /\ ~task'[c].on
  BY DEF Finish, IInv, NoTask
<1>5. \A d \in Clients : d # c => task'[d] = task[d] /\ vm'[d] = vm[d] /\ at'[d] = at[d]
  BY DEF Finish, IInv
<1>6. /\ at[c] \in Nat /\ at[c] < Len(log) /\ e = log[h] /\ t.i \in Nat \ {0}
      /\ UpTo(e, t.i - 1) /\ Processes(P, parted, at[c], keys, t)
      /\ Together(parted, at[c]) => Bare(keys) = P[at[c]]
  BY <1>1, <1>3 DEF Fine
<1>7. (\E S : log \in Seq(S)) /\ parted \in Nat \cup {None} /\ Len(log) \in Nat
  BY DEF AInv
<1>8. Together(parted, h) => Bare(new) = P[h]
  <2> SUFFICES ASSUME Together(parted, h) PROVE Bare(new) = P[h]
    OBVIOUS
  <2> DEFINE b == P[at[c]]
             n == t.i - 1
  <2>1. /\ Open(e) => InStep(Trace(b, e, h)[n], t, b, keys)
        /\ ~Open(e) => Bare(t.copy.keys) = b
    BY <1>6 DEF Processes
  <2>2. Bare(keys) = b
    BY <1>6, <1>7 DEF Together, None
  <2>3. P[h] = After(b, e, h)
    BY <1>1, <1>6 DEF History
  <2>4. n \in Nat /\ n + 1 = t.i
    BY <1>6
  <2> HIDE DEF b, h, n, keys
  <2>5. CASE ~Open(e)
    <3>1. P[h] = b
      BY <2>3, <2>5 DEF After
    <3>2. Bare(new) = b
      BY <2>1, <2>2, <2>5
    <3>3. QED
      BY <3>1, <3>2
  <2>6. CASE Open(e) /\ t.st = "error"
    <3>1. Trace(b, e, h)[n].st = "error"
      BY <2>1, <2>6 DEF InStep
    <3>2. UpTo(e, n)
      BY <1>6 DEF n
    <3>3. P[h] = b
      BY <3>1, <3>2, <2>3, <2>4, AfterFailed
    <3>4. QED
      BY <3>3, <2>2, <2>6
  <2>7. CASE Open(e) /\ t.st = "ok"
    <3>1. Trace(b, e, h)[n].st = "ok" /\ Trace(b, e, h)[n].vm = Bare(t.copy.keys)
      BY <2>1, <2>7 DEF InStep
    <3>2. UpTo(e, n)
      BY <1>6 DEF n
    <3>3. n + 1 \notin DOMAIN e.ops
      BY <1>3, <2>4, <2>7
    <3>4. P[h] = Trace(b, e, h)[n].vm
      BY <3>1, <3>2, <3>3, <2>3, <2>4, <2>7, AfterAll
    <3>5. QED
      BY <3>1, <3>4, <2>7
  <2>8. QED
    BY <1>3, <2>5, <2>6, <2>7
<1>9. Fine(P, log, parted, at'[c], vm'[c].keys, task'[c])
  <2> HIDE DEF new, t
  <2>1. h \in Nat /\ h <= Len(log)
    BY <1>6, <1>7
  <2>2. QED
    BY <2>1, <1>4, <1>8 DEF Fine
<1>10. \A d \in Clients : Fine(P, log, parted, at'[d], vm'[d].keys, task'[d])
  BY <1>1, <1>5, <1>9
<1>11. QED
  BY <1>1, <1>2, <1>7, <1>10 DEF AInv

LEMMA ANext == AInv /\ IInv /\ [Next]_vars => AInv'
<1> SUFFICES ASSUME AInv, IInv, [Next]_vars PROVE AInv'
  OBVIOUS
<1>1. ASSUME log' = log, at' = at, task' = task, parted' = parted,
             \A d \in Clients : vm'[d].keys = vm[d].keys
      PROVE  AInv'
  BY <1>1 DEF AInv
<1>2. CASE UNCHANGED vars
  BY <1>1, <1>2 DEF vars
<1>3. CASE Next
  <2>1. PICK c \in Clients : \/ Compose(c) \/ Publish(c) \/ Begin(c) \/ Step(c)
                            \/ Finish(c) \/ SetPendingKeyRevocation(c)
    BY <1>3 DEF Next
  <2>2. CASE Compose(c)
    BY <1>1, <2>2 DEF Compose
  <2>3. CASE SetPendingKeyRevocation(c)
    <3>1. \A d \in Clients : vm'[d].keys = vm[d].keys
      BY <2>3 DEF SetPendingKeyRevocation, IInv, Sound, RingShape
    <3>2. QED
      BY <3>1, <1>1, <2>3 DEF SetPendingKeyRevocation
  <2>4. QED
    BY <2>1, <2>2, <2>3, APublish, ABegin, AStep, AFinish
<1>4. QED
  BY <1>2, <1>3

\* Two clients at the same height of the log take the same keys for public, with the same
\* permissions, ring levels and lifetimes, though one decrypts what the other passes over
\* and each began from another draft: as long as no event of the log is one that parts
\* them, what OP_KEY_ADD, OP_KEY_DEL and OP_KEY_UPDATE decide never depends on a secret.
THEOREM PublicAlways == Spec => []PublicAgree
<1>1. AInv /\ IInv => PublicAgree
  <2> SUFFICES ASSUME AInv, IInv, NEW c \in Clients, NEW d \in Clients, at[c] = at[d],
                      parted = None \/ at[c] < parted
               PROVE  Public(vm[c].keys) = Public(vm[d].keys)
    BY DEF PublicAgree
  <2>1. PICK P : \A x \in Clients : Fine(P, log, parted, at[x], vm[x].keys, task[x])
    BY DEF AInv
  <2>2. Bare(vm[c].keys) = P[at[c]] /\ Bare(vm[d].keys) = P[at[c]]
    BY <2>1 DEF Fine, Together
  <2>3. DOMAIN vm[c].keys = KeyIds /\ DOMAIN vm[d].keys = KeyIds
    BY DEF IInv, Sound, RingShape
  <2>4. \A k : /\ Shown(vm[c].keys, k) <=> Shown(vm[d].keys, k)
               /\ Shown(vm[c].keys, k) => vm[c].keys[k] = vm[d].keys[k]
    <3>1. \A v \in {vm[c].keys, vm[d].keys} : \A k :
            /\ In(Bare(v).keys, k) <=> Shown(v, k)
            /\ Shown(v, k) => Bare(v).keys[k] = v[k]
      BY <2>3, BareMeans
    <3>2. Bare(vm[c].keys) = Bare(vm[d].keys)
      BY <2>2
    <3>3. QED
      BY <3>1, <3>2
  <2>5. QED
    BY <2>4 DEF Public, Shown
<1>2. Spec => []AInv
  BY AInit, ANext, IInvAlways, PTL DEF Spec
<1>3. QED
  BY <1>1, <1>2, IInvAlways, PTL

=============================================================================
