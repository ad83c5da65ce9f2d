------------------------------ MODULE KeyRing ------------------------------
(***************************************************************************)
(* The key ring of one contract, as several clients make it from the same  *)
(* log: each composes key operations from the state it has                 *)
(* (src/src/chelonia.ts), has them sent or rewritten and sent again when   *)
(* the log moved on (src/src/utils.ts recreateEvent), and processes the    *)
(* log (src/src/internals.ts processMessage) on a copy of its state, one   *)
(* operation of an OP_ATOMIC after the other.  Not every client can        *)
(* decrypt private items.                                                  *)
(*                                                                         *)
(* Event h of the log is the operation at height h; the event at height 0  *)
(* is OP_CONTRACT.                                                         *)
(***************************************************************************)
EXTENDS KeyOps, Sequences

CONSTANTS
  Clients,
  Readers,    \* the clients that can decrypt private items
  Holds(_),   \* the keys whose secrets a client has
  Genesis,    \* the key ring that OP_CONTRACT makes
  Wishes(_),  \* bound: what a client's application asks for, and with disableAutoDedup
  FlagBound   \* bound: how often a client flags a key

AddItems == [id : KeyIds, name : Names, ring : RingLevels, perms : SUBSET Star,
             private : BOOLEAN]
DelItems == [id : KeyIds, private : BOOLEAN]
UpdateItems == [oldKeyId : KeyIds, id : KeyIds, perms : SUBSET Star, private : BOOLEAN]

\* No two items of a payload are about the same key.
OneEach(items) == \A i, j \in items : i.id = j.id => i = j

Operations ==
  [t : {"add"}, items : {s \in SUBSET AddItems : OneEach(s)}]
  \cup [t : {"del"}, items : {s \in SUBSET DelItems : OneEach(s)}]
  \cup [t : {"update"}, items : {s \in SUBSET UpdateItems : OneEach(s)}]

Events == [signer : KeyIds, atomic : BOOLEAN, ops : Seq(Operations)]

ASSUME ClientAssumption ==
  /\ Readers \subseteq Clients
  /\ \A c \in Clients : Holds(c) \subseteq KeyIds
  /\ \A c \in Clients : Wishes(c) \subseteq [raw : BOOLEAN, e : Events]
ASSUME GenesisAssumption ==
  /\ Genesis \in Rings
  /\ \A k \in KeyIds : /\ Genesis.keys[k].since \in {0, None}
                       /\ Genesis.keys[k].until = None
                       /\ Genesis.pending[k] = "no"
ASSUME FlagAssumption == FlagBound \in Nat

VARIABLES
  log,    \* the contract's events after OP_CONTRACT
  vm,     \* each client's key ring, in the root state
  at,     \* the height of the last event each client has processed
  task,   \* the event a client processes: contractStateCopy, and how far it is
  draft,  \* the message a client is about to publish, and the height it is made at
  flags,  \* how often a key was flagged
  parted  \* history: height of the first event seen not to be processed alike by all

vars == <<log, vm, at, task, draft, flags, parted>>

Somebody == CHOOSE k \in KeyIds : TRUE
NoEvent == [signer |-> Somebody, atomic |-> FALSE, ops |-> <<>>]
NoTask == [on |-> FALSE, e |-> NoEvent, i |-> 1, st |-> "ok",
           signer |-> Genesis.keys[Somebody], copy |-> Genesis]
NoDraft == [on |-> FALSE, raw |-> FALSE, base |-> 0, e |-> NoEvent]

Init ==
  /\ log = <<>>
  /\ vm = [c \in Clients |-> Genesis]
  /\ at = [c \in Clients |-> 0]
  /\ task = [c \in Clients |-> NoTask]
  /\ draft = [c \in Clients |-> NoDraft]
  /\ flags = 0
  /\ parted = None

(***************************************************************************)
(* Composing: chelonia/out/keyAdd, keyDel, keyUpdate and atomic.  A key    *)
(* that is there is not added, one that is not is not deleted, and an item *)
(* about a private key is encrypted.                                       *)
(***************************************************************************)
Prepared(keys, op) ==
  [op EXCEPT !.items =
    CASE op.t = "add" -> {i \in op.items : ~Active(keys, i.id)}
      [] op.t = "del" ->
           {[i EXCEPT !.private = @ \/ keys[i.id].private] :
              i \in {j \in op.items : j.private \/ Active(keys, j.id)}}
      [] op.t = "update" ->
           {[i EXCEPT !.private = @ \/ keys[i.oldKeyId].private] : i \in op.items}]

\* keyUpdate looks into the old key, and keyAdd sends nothing that is empty.
Composes(keys, op) ==
  op.t = "update" => \A i \in op.items : In(keys, i.oldKeyId)

NotEmpty(op) == ~(op.t = "add" /\ op.items = {})

\* signData: a key that was deleted is replaced by an active one of its name.
Signers(c, keys, id) ==
  {k \in Holds(c) :
     /\ In(keys, id)
     /\ IF Active(keys, id) THEN k = id
        ELSE Active(keys, k) /\ keys[k].name = keys[id].name}

Compose(c) ==
  /\ ~draft[c].on
  /\ Len(log) < MaxHeight
  /\ \E w \in Wishes(c) : \E k \in Signers(c, vm[c].keys, w.e.signer) :
       LET ops == SelectSeq(
             [j \in DOMAIN w.e.ops |-> Prepared(vm[c].keys, w.e.ops[j])], NotEmpty)
       IN  /\ \A j \in DOMAIN w.e.ops : Composes(vm[c].keys, w.e.ops[j])
           /\ w.e.atomic \/ ops # <<>>
           /\ draft' = [draft EXCEPT ![c] =
                [on |-> TRUE, raw |-> w.raw, base |-> at[c],
                 e |-> [w.e EXCEPT !.signer = k, !.ops = ops]]]
  /\ UNCHANGED <<log, vm, at, task, flags, parted>>

(***************************************************************************)
(* Publishing.  The server takes a message made at the head of the log;    *)
(* one that is not is made again by recreateEvent once the client has the  *)
(* head, without the operations that no longer concern every key they      *)
(* name (disableAutoDedup: as it is), or dropped.                          *)
(***************************************************************************)
StillConcerns(keys, op) ==
  \A i \in op.items :
    CASE op.t = "add" -> ~Active(keys, i.id)
      [] op.t = "del" -> Active(keys, i.id)
      [] op.t = "update" -> i.id = i.oldKeyId \/ Active(keys, i.oldKeyId)

Recreated(keys, d) ==
  LET Kept(op) == StillConcerns(keys, op) IN
    IF d.raw THEN d.e.ops ELSE SelectSeq(d.e.ops, Kept)

Publish(c) ==
  /\ draft[c].on /\ ~task[c].on
  /\ at[c] = Len(log) /\ Len(log) < MaxHeight
  /\ \/ /\ draft[c].base = at[c]
        /\ log' = Append(log, draft[c].e)
     \/ /\ draft[c].base # at[c]
        /\ Recreated(vm[c].keys, draft[c]) # <<>>
        /\ \E k \in Signers(c, vm[c].keys, draft[c].e.signer) :
             log' = Append(log, [draft[c].e EXCEPT
               !.signer = k, !.ops = Recreated(vm[c].keys, draft[c])])
     \/ /\ draft[c].base # at[c]
        /\ \/ Recreated(vm[c].keys, draft[c]) = <<>>
           \/ Signers(c, vm[c].keys, draft[c].e.signer) = {}
        /\ UNCHANGED log
  /\ draft' = [draft EXCEPT ![c] = NoDraft]
  /\ UNCHANGED <<vm, at, task, flags, parted>>

(***************************************************************************)
(* Processing the next event, on a copy of the state.                      *)
(***************************************************************************)
\* Clients that can and cannot decrypt may process an event differently if it has
\* private and public items, or a private key signs it for public ones, or an item
\* adds or updates a key that is public where it is private, or the reverse.
Items(e) == UNION {e.ops[j].items : j \in DOMAIN e.ops}

Named(op, i) == IF op.t = "add" THEN {i.id} ELSE {i.oldKeyId, i.id}

Parts(e, keys) ==
  \/ /\ \E i \in Items(e) : ~i.private
     /\ \/ In(keys, e.signer) /\ keys[e.signer].private
        \/ \E i \in Items(e) : i.private
  \/ \E j \in DOMAIN e.ops : \E i \in e.ops[j].items :
       /\ e.ops[j].t # "del"
       /\ \E k \in Named(e.ops[j], i) : In(keys, k) /\ ~(keys[k].private <=> i.private)

Begin(c) ==
  /\ ~task[c].on
  /\ at[c] < Len(log)
  /\ LET e == log[at[c] + 1]
         keys == vm[c].keys
     IN  task' = [task EXCEPT ![c] =
           [on |-> TRUE, e |-> e, i |-> 1, signer |-> keys[e.signer], copy |-> vm[c],
            st |-> IF /\ verifySignature(keys, e.signer, at[c] + 1)
                      /\ e.atomic => validateKeyPermissions(keys, e.signer, "atomic")
                   THEN "ok" ELSE "error"]]
         /\ parted' = IF Parts(e, keys) /\ (parted = None \/ at[c] < parted)
                      THEN at[c] + 1 ELSE parted
  /\ UNCHANGED <<log, vm, at, draft, flags>>

Readable(c, items) == {i \in items : i.private => c \in Readers}

\* One operation.  A warning is passed over, an error ends the event.
Step(c) ==
  LET t == task[c]
      op == t.e.ops[t.i]
      r == IF validateKeyPermissions(t.copy.keys, t.e.signer, op.t)
           THEN Operation(t.copy, t.e.signer, t.signer, op.t,
                          Readable(c, op.items), at[c] + 1)
           ELSE Fails(t.copy)
  IN
  /\ t.on /\ t.st = "ok" /\ t.i \in DOMAIN t.e.ops
  /\ task' = [task EXCEPT ![c] =
       [on |-> TRUE, e |-> t.e, i |-> t.i + 1, signer |-> t.signer, copy |-> r.vm,
        st |-> IF r.st = "error" THEN "error" ELSE "ok"]]
  /\ UNCHANGED <<log, vm, at, draft, flags, parted>>

\* applyProcessResult: the copy becomes the state unless the event failed.
Finish(c) ==
  LET t == task[c] IN
  /\ t.on
  /\ t.st = "error" \/ t.i \notin DOMAIN t.e.ops
  /\ vm' = [vm EXCEPT ![c] = IF t.st = "error" THEN @ ELSE t.copy]
  /\ at' = [at EXCEPT ![c] = @ + 1]
  /\ task' = [task EXCEPT ![c] = NoTask]
  /\ UNCHANGED <<log, draft, flags, parted>>

\* chelonia/contract/setPendingKeyRevocation, on the state in place.
SetPendingKeyRevocation(c) ==
  /\ flags < FlagBound
  /\ flags' = flags + 1
  /\ \E k \in KeyIds :
       /\ Active(vm[c].keys, k)
       /\ vm' = [vm EXCEPT ![c].pending[k] = "rotate"]
  /\ UNCHANGED <<log, at, task, draft, parted>>

Next ==
  \E c \in Clients :
    \/ Compose(c) \/ Publish(c)
    \/ Begin(c) \/ Step(c) \/ Finish(c)
    \/ SetPendingKeyRevocation(c)

Spec == Init /\ [][Next]_vars

(***************************************************************************)
(* Properties.                                                             *)
(***************************************************************************)
Tasks == [on : BOOLEAN, e : Events, i : Nat, st : {"ok", "error"}, signer : Keys,
          copy : Rings]
Drafts == [on : BOOLEAN, raw : BOOLEAN, base : Heights, e : Events]

\* Every variable keeps its type.
TypeOK ==
  /\ log \in Seq(Events) /\ Len(log) <= MaxHeight
  /\ vm \in [Clients -> Rings]
  /\ at \in [Clients -> Heights]
  /\ task \in [Clients -> Tasks]
  /\ draft \in [Clients -> Drafts]
  /\ flags \in 0 .. FlagBound

\* Clients that have processed the log to the same height have the same public keys,
\* whichever of its private items each could read and however far each is with what
\* it composes, up to the first event that parts them.
Public(keys) ==
  {[id |-> k, key |-> keys[k]] : k \in {j \in KeyIds : In(keys, j) /\ ~keys[j].private}}

PublicAgree ==
  \A c, d \in Clients :
    at[c] = at[d] /\ (parted = None \/ at[c] < parted)
      => Public(vm[c].keys) = Public(vm[d].keys)

\* Permissions are only passed on: whatever any client takes a key to be allowed, some
\* key of OP_CONTRACT was allowed, and one of those is at its ring level or a lower one.
Founded(keys) ==
  \A k \in KeyIds : In(keys, k) =>
    /\ \A p \in keys[k].perms :
         \E o \in KeyIds : In(Genesis.keys, o) /\ p \in Genesis.keys[o].perms
    /\ \E o \in KeyIds : In(Genesis.keys, o) /\ Genesis.keys[o].ring <= keys[k].ring

GrantsFounded == \A c \in Clients : Founded(vm[c].keys) /\ Founded(task[c].copy.keys)

\* A flag for a pending revocation is always about a key that can still be revoked,
\* although it is set while an event may be processed on a copy.
PendingIsActive ==
  \A c \in Clients, k \in KeyIds : vm[c].pending[k] # "no" => Active(vm[c].keys, k)

\* A deleted key comes back only in an event whose OP_KEY_ADD names it: no update, and
\* no composition of operations in an OP_ATOMIC, brings it back.
AddedNow(e, k) ==
  \E j \in DOMAIN e.ops : e.ops[j].t = "add" /\ \E i \in e.ops[j].items : i.id = k

RevokedStays ==
  [][\A c \in Clients, k \in KeyIds :
       In(vm[c].keys, k) /\ vm[c].keys[k].until # None /\ Active(vm'[c].keys, k)
         => AddedNow(task[c].e, k)]_vars
=============================================================================
