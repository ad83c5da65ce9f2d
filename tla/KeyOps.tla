------------------------------- MODULE KeyOps -------------------------------
(***************************************************************************)
(* What one operation on the keys of a contract does to its key ring:      *)
(* OP_KEY_ADD, OP_KEY_DEL and OP_KEY_UPDATE of processMessage              *)
(* (src/src/internals.ts) with the permission checks and helpers they call *)
(* (src/src/utils.ts).                                                     *)
(*                                                                         *)
(* A payload is a set of items that name different keys.  An item is       *)
(* private when it is encrypted; who cannot decrypt it passes over it.     *)
(* Permissions and allowed actions obey the same rules, so that the latter *)
(* are left out, and so is the purpose: every key here can sign.           *)
(***************************************************************************)
EXTENDS Integers

CONSTANTS
  KeyIds,      \* the identifiers of keys
  Names,       \* the names of keys
  RingLevels,  \* the ring levels of keys
  MaxHeight    \* bound: height of the last event

None == -1

ASSUME HeightAssumption == MaxHeight \in Nat
ASSUME RingAssumption == RingLevels \subseteq Nat

Heights == 0 .. MaxHeight
OpTypes == {"add", "del", "update"}

\* The permission '*' grants everything, and nothing less grants '*'.
Star == OpTypes \cup {"atomic", "*"}

\* authorizedKeys: since and until are _notBeforeHeight and _notAfterHeight, and a
\* key without a since is not in the ring.
Keys == [name : Names, ring : RingLevels, perms : SUBSET Star, private : BOOLEAN,
         since : Heights \cup {None}, until : Heights \cup {None}]

In(keys, id) == id \in DOMAIN keys /\ keys[id].since # None
Active(keys, id) == In(keys, id) /\ keys[id].until = None

\* _vm.authorizedKeys and _volatile.pendingKeyRevocations.
Flags == {"no", "rotate", "del"}
Rings == [keys : [KeyIds -> Keys], pending : [KeyIds -> Flags]]

Done(vm) == [st |-> "ok", vm |-> vm]
Fails(vm) == [st |-> "error", vm |-> vm]
\* ChelErrorWarning: inside OP_ATOMIC the operation alone is given up.
Warns(vm) == [st |-> "warn", vm |-> vm]

(***************************************************************************)
(* Who may sign.  The signature is verified when the message is read, the  *)
(* permission for each operation.                                          *)
(***************************************************************************)
verifySignature(keys, id, h) ==
  /\ In(keys, id)
  /\ keys[id].since <= h
  /\ keys[id].until # None => h <= keys[id].until

validateKeyPermissions(keys, id, opT) == In(keys, id) /\ opT \in keys[id].perms

(***************************************************************************)
(* The checks on the payload.  signer is the signing key as it was when    *)
(* the event began; its ring level is read again.  A ring level is a safe  *)
(* integer.                                                                *)
(***************************************************************************)
\* The mutant does not look at the permissions that are passed on.
AddByRingOnly(keys, id, signer, items, skipPrivateCheck) ==
  \A i \in items :
    /\ ~skipPrivateCheck /\ signer.private => i.private
    /\ i.ring \in RingLevels /\ i.ring >= keys[id].ring

validateKeyAddPermissions(keys, id, signer, items, skipPrivateCheck) ==
  \A i \in items :
    /\ ~skipPrivateCheck /\ signer.private => i.private
    /\ i.ring \in RingLevels /\ i.ring >= keys[id].ring
    /\ i.perms \subseteq signer.perms

\* The mutant deletes a public key for those who can read the item.
DelUnseen(keys, id, signer, items) ==
  \A i \in items :
    /\ In(keys, i.id)
    /\ ~signer.private
    /\ keys[i.id].ring >= keys[id].ring

validateKeyDelPermissions(keys, id, signer, items) ==
  \A i \in items :
    /\ In(keys, i.id)
    /\ ~signer.private
    /\ keys[i.id].private <=> i.private
    /\ keys[i.id].ring >= keys[id].ring

(***************************************************************************)
(* deleteKeyHelper: the keys end at this height, and no key of the same    *)
(* name is flagged any more.                                               *)
(***************************************************************************)
SameName(keys, k, ids) ==
  In(keys, k) /\ \E j \in ids : In(keys, j) /\ keys[j].name = keys[k].name

\* The mutant clears no flag.
FlagsStay(vm, h, ids) ==
  [vm EXCEPT !.keys = [k \in KeyIds |->
     IF k \in ids THEN [vm.keys[k] EXCEPT !.until = h] ELSE vm.keys[k]]]

deleteKeyHelper(vm, h, ids) ==
  [keys |-> [k \in KeyIds |->
     IF k \in ids THEN [vm.keys[k] EXCEPT !.until = h] ELSE vm.keys[k]],
   pending |-> [k \in KeyIds |->
     IF SameName(vm.keys, k, ids) THEN "no" ELSE vm.pending[k]]]

(***************************************************************************)
(* The operations, given the items that could be read.                     *)
(***************************************************************************)
\* keysToMap refuses a key that is there, with an error that OP_ATOMIC does not pass
\* over; a key that comes back keeps its first height.
Smaller(a, b) == IF a < b THEN a ELSE b

From(key, h) ==
  [name |-> key.name, ring |-> key.ring, perms |-> key.perms, private |-> key.private,
   since |-> h, until |-> None]

Added(keys, i, h) ==
  From(i, IF In(keys, i.id) THEN Smaller(h, keys[i.id].since) ELSE h)

KeyAdd(vm, id, signer, items, h) ==
  IF \/ \E i \in items : Active(vm.keys, i.id)
     \/ ~validateKeyAddPermissions(vm.keys, id, signer, items, FALSE)
  THEN Fails(vm)
  ELSE Done([vm EXCEPT !.keys = [k \in KeyIds |->
         IF \E i \in items : i.id = k
         THEN Added(vm.keys, CHOOSE i \in items : i.id = k, h)
         ELSE vm.keys[k]]])

KeyDel(vm, id, signer, items, h) ==
  IF ~validateKeyDelPermissions(vm.keys, id, signer, items)
  THEN Fails(vm)
  ELSE Done(deleteKeyHelper(vm, h, {k \in {i.id : i \in items} : Active(vm.keys, k)}))

\* An update names the key it is about and the key that takes its place (the same one
\* when the update names no id) and may name the permissions it has then.
Updated(keys, i) ==
  [keys[i.oldKeyId] EXCEPT !.perms = IF i.perms = {} THEN @ ELSE i.perms]

Replaced(items) == {i.oldKeyId : i \in {j \in items : j.id # j.oldKeyId}}

\* The mutant takes a deleted key for one that is there.
NeverRefused(keys, i) == FALSE

UpdatesDeleted(keys, i) == In(keys, i.id) /\ ~Active(keys, i.id)

\* updateKey: a key that is there keeps its permissions and gains others.
UpdatedKey(vm, keys, i, h) ==
  IF Active(keys, i.id)
  THEN [keys[i.id] EXCEPT !.perms = @ \cup Updated(vm.keys, i).perms]
  ELSE From(Updated(vm.keys, i), h)

KeyUpdate(vm, id, signer, items, h) ==
  LET gone == deleteKeyHelper(vm, h, Replaced(items)) IN
    CASE \E i \in items : ~In(vm.keys, i.oldKeyId) -> Warns(vm)
      [] /\ \A i \in items : In(vm.keys, i.oldKeyId)
         /\ \/ \E i \in items : ~(vm.keys[i.oldKeyId].private <=> i.private)
            \/ ~validateKeyAddPermissions(vm.keys, id, signer,
                  {Updated(vm.keys, i) : i \in items}, TRUE)
            \/ \E i \in items : UpdatesDeleted(gone.keys, i)
         -> Fails(vm)
      [] OTHER ->
         Done([gone EXCEPT !.keys = [k \in KeyIds |->
           IF \E i \in items : i.id = k
           THEN UpdatedKey(vm, gone.keys, CHOOSE i \in items : i.id = k, h)
           ELSE gone.keys[k]]])

Operation(vm, id, signer, op, items, h) ==
  CASE op = "add" -> KeyAdd(vm, id, signer, items, h)
    [] op = "del" -> KeyDel(vm, id, signer, items, h)
    [] OTHER -> KeyUpdate(vm, id, signer, items, h)
=============================================================================
