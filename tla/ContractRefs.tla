---------------------------- MODULE ContractRefs ----------------------------
(***************************************************************************)
(* Which contracts the library keeps, and for how long: the references of  *)
(* 'chelonia/contract/retain' and 'release', the scopes of 'withRetained', *)
(* the watches of contracts that use another contract's keys, and the      *)
(* removal of what nobody needs.  Each contract has a queue whose tasks    *)
(* run one after the other; the calls of the application, and the tasks of *)
(* other contracts, come in between.                                       *)
(*                                                                         *)
(* ContractSync models what a sync does with the log.  Here it is only     *)
(* what it means for references: it starts, it has read the events, it has *)
(* applied them (and the contract is subscribed), it is over.              *)
(***************************************************************************)
EXTENDS Integers, Sequences, FiniteSets

CONSTANTS
  Contracts,
  Foreign,       \* Foreign[c]: the contracts c has keys of
  Users,         \* bound: the calls of withRetained that may go on at once
  Nobody,        \* no user
  CallBound,     \* bound: how many calls the application makes
  DisturbBound,  \* bound: how many faults and rarer calls happen
  Disturbances   \* the kinds of them this instance allows

\* "failWatch" is a sync that fails with foreign keys to watch, "failScope" one
\* that fails a withRetained, "early" a withRetained left before its first sync,
\* "earlyNew" one of a contract with no row, "resyncWatcher" a resync of a
\* contract with foreign keys, "forceLate" a forced sync behind a removal,
\* "reloadWatch" a reload with foreign keys yet to watch, and "trusted" the removal
\* of a contract while another takes its watch for set.
Kinds == {"fail", "failWatch", "failScope", "early", "earlyNew", "resync",
          "resyncWatcher", "force", "forceLate", "delete", "keyDel", "reload",
          "reloadWatch", "trusted"}

ASSUME ForeignAssumption ==
  Foreign \in [Contracts -> SUBSET Contracts] /\ \A c \in Contracts : c \notin Foreign[c]
ASSUME UserAssumption == IsFiniteSet(Users) /\ Nobody \notin Users
ASSUME BoundAssumption == CallBound \in Nat /\ DisturbBound \in Nat
ASSUME DisturbAssumption == Disturbances \subseteq Kinds

VARIABLES
  row,          \* rootState.contracts[c]: "none", "bare" (no type), "synced", "gone"
  refs,         \* its references, or 0
  eph,          \* ephemeralReferenceCount, or 0
  sub,          \* subscriptionSet has it
  watch,        \* _volatile.watch: the contracts whose keys come from this one
  live,         \* the foreign contracts whose keys have not been deleted
  pendingWatch, \* _vm.pendingWatch: the foreign contracts to watch
  postOp,       \* postSyncOperations has watchForeignKeys
  queue,        \* the contract's tasks; the first is running unless at is "idle"
  at,           \* how far it is: "idle", "head" or "apply"
  found,        \* the pendingWatch of the state being made
  held,         \* ghost: references the application has to release
  scope,        \* a withRetained: "out", "waiting" for its sync, "inside" the
                \* callback, or "leaked": it failed before
  on,           \* its contract, or Nobody
  failed,       \* ghost: the last sync failed
  orphan,       \* ghost: it got a watch for a contract that had gone
  calls, budget,
  sameNames     \* the contracts that give the keys of others the names they have there

refVars == <<refs, eph, held, scope, on>>
watchVars == <<watch, live, pendingWatch, postOp>>
taskVars == <<at, found, failed, orphan>>
vars == <<row, sub, queue, refVars, watchVars, taskVars, calls, budget, sameNames>>

Disturb(kind) ==
  /\ kind \in Disturbances
  /\ budget < DisturbBound
  /\ budget' = budget + 1

Call == calls < CallBound /\ calls' = calls + 1

Ops == {"sync", "resync", "noop", "remove", "delete", "post", "watch", "unwatch"}
\* A task: by is the other contract of a watch, user the withRetained that awaits it.
Task(op, by, user) == [op |-> op, by |-> by, user |-> user]
Plain(c, op) == Task(op, c, Nobody)

Zero == [c \in Contracts |-> 0]
Nothing == [c \in Contracts |-> {}]
None == [c \in Contracts |-> FALSE]

Init ==
  /\ row = [c \in Contracts |-> "none"] /\ sub = None
  /\ refs = Zero /\ eph = Zero
  /\ watch = Nothing /\ live = Foreign /\ pendingWatch = Nothing /\ postOp = None
  /\ queue = [c \in Contracts |-> <<>>]
  /\ at = [c \in Contracts |-> "idle"] /\ found = Nothing
  /\ held = Zero /\ scope = [u \in Users |-> "out"] /\ on = [u \in Users |-> Nobody]
  /\ failed = None /\ orphan = None
  /\ calls = 0 /\ budget = 0
  /\ sameNames \in SUBSET {c \in Contracts : Foreign[c] # {}}

HasRow(c) == row[c] \in {"bare", "synced"}
Add(f, c, n) == [f EXCEPT ![c] = @ + n]

\* checkCanBeGarbageCollected
Collectible(c, r, e, w, s) == r[c] = 0 /\ e[c] = 0 /\ ~\E x \in w[c] : s[x]

\* The task of 'in/sync' without force.
SyncOrNoop(c, user) ==
  Append(queue[c], Task(IF sub[c] THEN "noop" ELSE "sync", c, user))

-----------------------------------------------------------------------------
(* The application's calls. *)

\* retain; of a permanently deleted contract it throws.
Retain(c) ==
  /\ Call
  /\ row[c] # "gone"
  /\ row' = IF row[c] = "none" THEN [row EXCEPT ![c] = "bare"] ELSE row
  /\ refs' = Add(refs, c, 1) /\ held' = Add(held, c, 1)
  /\ queue' = [queue EXCEPT ![c] = SyncOrNoop(c, Nobody)]
  /\ UNCHANGED <<sub, eph, scope, on, watchVars, taskVars, budget>>

\* The end of release: contract/remove, if there is a row.
Released(c, r, e) ==
  IF Collectible(c, r, e, watch, sub) /\ HasRow(c)
  THEN [queue EXCEPT ![c] = Append(@, Plain(c, "remove"))]
  ELSE queue

\* release, of a reference the application has.
Release(c) ==
  /\ held[c] > 0
  /\ held' = Add(held, c, -1)
  /\ refs' = IF row[c] = "gone" THEN refs ELSE Add(refs, c, -1)
  /\ queue' = Released(c, refs', eph)
  /\ UNCHANGED <<row, sub, eph, scope, on, watchVars, taskVars, calls, budget>>

\* withRetained, up to the sync it awaits.
WithRetained(c, u) ==
  /\ Call
  /\ row[c] # "gone"
  /\ scope[u] = "out"
  /\ eph' = Add(eph, c, 1)
  /\ scope' = [scope EXCEPT ![u] = "waiting"] /\ on' = [on EXCEPT ![u] = c]
  /\ queue' = [queue EXCEPT ![c] = SyncOrNoop(c, u)]
  /\ UNCHANGED <<row, sub, refs, held, watchVars, taskVars, budget>>

\* The ephemeral release throws at a missing count, and ignores a deleted contract.
Dropped(c) == IF row[c] = "gone" \/ eph[c] = 0 THEN eph ELSE Add(eph, c, -1)

\* withRetained, after the callback.
CallbackEnds(u) ==
  /\ scope[u] = "inside"
  /\ scope' = [scope EXCEPT ![u] = "out"] /\ on' = [on EXCEPT ![u] = Nobody]
  /\ eph' = Dropped(on[u])
  /\ queue' = Released(on[u], refs, eph')
  /\ UNCHANGED <<row, sub, refs, held, watchVars, taskVars, calls, budget>>

\* An ephemeral reference released while its sync has yet to end.
ReleaseEarly(c, i) ==
  /\ Disturb(IF row[c] = "none" THEN "earlyNew" ELSE "early")
  /\ queue[c][i].user # Nobody
  /\ scope' = [scope EXCEPT ![queue[c][i].user] = "out"]
  /\ on' = [on EXCEPT ![queue[c][i].user] = Nobody]
  /\ eph' = Dropped(c)
  /\ queue' = [Released(c, refs, eph') EXCEPT ![c][i].user = Nobody]
  /\ UNCHANGED <<row, sub, refs, held, watchVars, taskVars, calls>>

Removing(c) == \E i \in DOMAIN queue[c] : queue[c][i].op \in {"remove", "delete"}

\* contract/sync, and what else calls 'in/sync' with force while subscribed.
ForceSync(c) ==
  \E op \in {"sync", "resync"} :
    /\ sub[c] \/ ~Collectible(c, refs, eph, watch, sub)
    /\ Disturb(IF Removing(c) THEN "forceLate"
               ELSE IF op = "sync" THEN "force"
               ELSE IF Foreign[c] = {} THEN "resync" ELSE "resyncWatcher")
    /\ queue' = [queue EXCEPT ![c] = Append(@, Plain(c, op))]
    /\ UNCHANGED <<row, sub, refVars, watchVars, taskVars, calls>>

\* contract/remove with permanent, which asks for no confirmation.
Delete(c) ==
  /\ Disturb("delete")
  /\ HasRow(c)
  /\ queue' = [queue EXCEPT ![c] = Append(@, Plain(c, "delete"))]
  /\ UNCHANGED <<row, sub, refVars, watchVars, taskVars, calls>>

\* The process starts again with the persisted rows, and the application retains
\* every contract it finds there.
Reload ==
  /\ Disturb(IF \E c \in Contracts : row[c] = "synced" /\ \E f \in live[c] : c \notin watch[f]
             THEN "reloadWatch" ELSE "reload")
  /\ refs' = [c \in Contracts |-> refs[c] + IF HasRow(c) THEN 1 ELSE 0]
  /\ held' = refs'
  /\ queue' = [c \in Contracts |-> IF HasRow(c) THEN <<Plain(c, "sync")>> ELSE <<>>]
  /\ sub' = None /\ eph' = Zero /\ postOp' = None
  /\ scope' = [u \in Users |-> "out"] /\ on' = [u \in Users |-> Nobody]
  /\ at' = [c \in Contracts |-> "idle"] /\ found' = Nothing
  /\ failed' = None /\ orphan' = None
  /\ UNCHANGED <<row, watch, live, pendingWatch, calls>>

-----------------------------------------------------------------------------
(* The tasks. *)

Starts(c, ops) == at[c] = "idle" /\ queue[c] # <<>> /\ Head(queue[c]).op \in ops
Done(c) == [queue EXCEPT ![c] = Tail(@)]

\* The withRetained that awaits the task in front goes on to its callback, or it
\* rejects and keeps its reference.
Settle(c, ok) ==
  /\ scope' = IF Head(queue[c]).user = Nobody THEN scope
              ELSE [scope EXCEPT ![Head(queue[c]).user] = IF ok THEN "inside" ELSE "leaked"]
  /\ on' = on

Noop(c) ==
  /\ Starts(c, {"noop"})
  /\ Settle(c, TRUE)
  /\ queue' = Done(c)
  /\ UNCHANGED <<row, sub, refs, eph, held, watchVars, taskVars, calls, budget>>

\* The tasks that release(.., {try: true}) adds for the foreign contracts of c.
ReleaseForeign(c, s) ==
  [f \in Contracts |->
    IF f \in Foreign[c] /\ HasRow(f) /\ Collectible(f, refs, eph, watch, s)
    THEN Append(queue[f], Plain(f, "remove")) ELSE Done(c)[f]]

\* removeImmediately, but for a resync.
Remove(c, becomes) ==
  IF row[c] # "synced"
  THEN queue' = Done(c) /\ UNCHANGED <<row, sub, refVars, watchVars, orphan>>
  ELSE /\ row' = [row EXCEPT ![c] = becomes]
       /\ refs' = [refs EXCEPT ![c] = 0]
       /\ eph' = [eph EXCEPT ![c] = 0]
       /\ watch' = [watch EXCEPT ![c] = {}]
       /\ pendingWatch' = [pendingWatch EXCEPT ![c] = {}]
       /\ sub' = [sub EXCEPT ![c] = FALSE]
       /\ orphan' = [orphan EXCEPT ![c] = FALSE]
       /\ queue' = ReleaseForeign(c, sub')
       /\ UNCHANGED <<held, scope, on, live, postOp>>

\* The mutant does not ask again.
RemoveUnconfirmed(c) ==
  /\ Starts(c, {"remove"})
  /\ Remove(c, "none")
  /\ UNCHANGED <<at, found, failed, calls, budget>>

\* The task of contract/remove for a release.
RemoveConfirmed(c) ==
  /\ Starts(c, {"remove"})
  /\ IF Collectible(c, refs, eph, watch, sub)
     THEN /\ IF \E x \in watch[c] : row[x] = "synced" \/ (at[x] = "apply" /\ c \notin found[x])
             THEN Disturb("trusted") ELSE UNCHANGED budget
          /\ Remove(c, "none")
     ELSE queue' = Done(c) /\ UNCHANGED <<row, sub, refVars, watchVars, orphan, budget>>
  /\ UNCHANGED <<at, found, failed, calls>>

RemoveForGood(c) ==
  /\ Starts(c, {"delete"})
  /\ Remove(c, "gone")
  /\ UNCHANGED <<at, found, failed, calls, budget>>

\* watchForeignKeys: a task in the queue of each contract to watch.
WatchForeignKeys(c) ==
  /\ Starts(c, {"post"})
  /\ queue' = [f \in Contracts |->
       IF f \in pendingWatch[c] THEN Append(queue[f], Task("watch", c, Nobody))
       ELSE Done(c)[f]]
  /\ UNCHANGED <<row, sub, refVars, watchVars, taskVars, calls, budget>>

\* The mutants forget the references with the rest of the row, or the watch with the
\* rest of the state.
ResyncedAnew(c) ==
  /\ row' = [row EXCEPT ![c] = IF @ = "synced" THEN "bare" ELSE @]
  /\ sub' = [sub EXCEPT ![c] = FALSE]
  /\ refs' = [refs EXCEPT ![c] = 0]
  /\ watch' = watch
ResyncedUnwatched(c) ==
  /\ row' = [row EXCEPT ![c] = IF @ = "synced" THEN "bare" ELSE @]
  /\ sub' = [sub EXCEPT ![c] = FALSE]
  /\ refs' = refs
  /\ watch' = [watch EXCEPT ![c] = {}]

\* removeImmediately for a resync: the row stays with its references, the state
\* with its watch.
Resynced(c) ==
  /\ row' = [row EXCEPT ![c] = IF @ = "synced" THEN "bare" ELSE @]
  /\ sub' = IF row[c] = "synced" THEN [sub EXCEPT ![c] = FALSE] ELSE sub
  /\ refs' = refs
  /\ watch' = watch

\* syncContract, up to the answer of the server.
SyncStart(c) ==
  /\ Starts(c, {"sync", "resync"})
  /\ row[c] # "gone"
  /\ at' = [at EXCEPT ![c] = "head"]
  /\ IF Head(queue[c]).op = "resync"
     THEN Resynced(c) /\ pendingWatch' = [pendingWatch EXCEPT ![c] = {}]
     ELSE UNCHANGED <<row, sub, refs, watch, pendingWatch>>
  /\ UNCHANGED <<queue, eph, held, scope, on, live, postOp, found, failed, orphan,
                 calls, budget>>

\* syncContract of a deleted contract throws.
SyncOfGone(c) ==
  /\ Starts(c, {"sync", "resync"})
  /\ row[c] = "gone"
  /\ Settle(c, FALSE)
  /\ queue' = Done(c)
  /\ failed' = [failed EXCEPT ![c] = TRUE]
  /\ UNCHANGED <<row, sub, refs, eph, held, watchVars, at, found, orphan, calls, budget>>

\* syncContractAndWatchKeys, up to the answer of the server, or to its end.
WatchStart(c) ==
  /\ Starts(c, {"watch"})
  /\ LET by == Head(queue[c]).by
         skip == row[by] # "synced" \/ c \notin pendingWatch[by] \/ c \notin live[by]
     IN /\ pendingWatch' = [pendingWatch EXCEPT ![by] = @ \ {c}]
        /\ IF ~skip /\ ~sub[c] /\ row[c] # "gone"
           THEN at' = [at EXCEPT ![c] = "head"] /\ UNCHANGED <<queue, watch>>
           ELSE /\ queue' = Done(c) /\ UNCHANGED at
                /\ watch' = IF skip \/ ~sub[c] THEN watch
                            ELSE [watch EXCEPT ![c] = @ \union {by}]
  /\ UNCHANGED <<row, sub, refVars, live, postOp, found, failed, orphan, calls,
                 budget>>

\* syncContract is over: its post-sync operations get tasks, the watch is set.
SyncEnds(c) ==
  /\ at' = [at EXCEPT ![c] = "idle"] /\ found' = [found EXCEPT ![c] = {}]
  /\ failed' = [failed EXCEPT ![c] = FALSE]
  /\ Settle(c, TRUE)
  /\ watch' = IF Head(queue[c]).op = "watch"
              THEN [watch EXCEPT ![c] = @ \union {Head(queue[c]).by}] ELSE watch
  /\ orphan' = [orphan EXCEPT ![c] =
       @ \/ (Head(queue[c]).op = "watch" /\ ~sub[Head(queue[c]).by])]
  /\ queue' = [queue EXCEPT ![c] =
       IF postOp[c] THEN Append(Tail(@), Plain(c, "post")) ELSE Tail(@)]
  /\ postOp' = [postOp EXCEPT ![c] = FALSE]

\* The state is as recent as the server's log.
HeadIsOurs(c) ==
  /\ at[c] = "head"
  /\ row[c] = "synced"
  /\ sub' = [sub EXCEPT ![c] = TRUE]
  /\ SyncEnds(c)
  /\ UNCHANGED <<row, refs, eph, held, live, pendingWatch, calls, budget>>

\* handleEvent up to the end of its side effects: the foreign contracts are to be
\* watched, unless they list c already (subscribeToForeignKeyContracts).  They are
\* looked up by the name the key has in c, and list the name it has there.
EventsRead(c) ==
  /\ at[c] = "head"
  /\ row[c] # "synced"
  /\ at' = [at EXCEPT ![c] = "apply"]
  /\ LET new == {f \in live[c] : c \notin sameNames \/ c \notin watch[f]}
     IN /\ found' = [found EXCEPT ![c] = new]
        /\ postOp' = [postOp EXCEPT ![c] = @ \/ new # {}]
  /\ UNCHANGED <<row, sub, queue, refVars, watch, live, pendingWatch, failed,
                 orphan, calls, budget>>

\* applyProcessResult, and the end of the sync.
EventsApplied(c) ==
  /\ at[c] = "apply"
  /\ row' = [row EXCEPT ![c] = "synced"]
  /\ sub' = [sub EXCEPT ![c] = TRUE]
  /\ pendingWatch' = [pendingWatch EXCEPT ![c] = found[c]]
  /\ SyncEnds(c)
  /\ UNCHANGED <<refs, eph, held, live, calls, budget>>

\* The server does not answer, or an event cannot be handled.
SyncFails(c) ==
  /\ at[c] \in {"head", "apply"}
  /\ Disturb(CASE Head(queue[c]).user # Nobody -> "failScope"
               [] Head(queue[c]).op = "watch" \/ Foreign[c] # {} -> "failWatch"
               [] OTHER -> "fail")
  /\ at' = [at EXCEPT ![c] = "idle"] /\ found' = [found EXCEPT ![c] = {}]
  /\ failed' = [failed EXCEPT ![c] = TRUE]
  /\ Settle(c, FALSE)
  /\ queue' = Done(c)
  /\ UNCHANGED <<row, sub, refs, eph, held, watchVars, orphan, calls>>

\* c handles the deletion of its keys of f.
KeyDel(c, f) ==
  /\ Disturb("keyDel")
  /\ at[c] = "idle" /\ row[c] = "synced" /\ sub[c]
  /\ f \in live[c]
  /\ live' = [live EXCEPT ![c] = @ \ {f}]
  /\ pendingWatch' = [pendingWatch EXCEPT ![c] = @ \ {f}]
  /\ queue' = [queue EXCEPT ![f] = Append(@, Task("unwatch", c, Nobody))]
  /\ UNCHANGED <<row, sub, refVars, watch, postOp, taskVars, calls>>

\* The mutant keeps a contract it no longer watches.
UnwatchOnly(c) ==
  /\ Starts(c, {"unwatch"})
  /\ watch' = [watch EXCEPT ![c] = @ \ {Head(queue[c]).by}]
  /\ queue' = Done(c)
  /\ UNCHANGED <<row, sub, refVars, live, pendingWatch, postOp, taskVars, calls,
                 budget>>

\* The task of KeyDel: stop watching, and try to release.
Unwatch(c) ==
  /\ Starts(c, {"unwatch"})
  /\ watch' = [watch EXCEPT ![c] = @ \ {Head(queue[c]).by}]
  /\ queue' = IF /\ watch' # watch /\ HasRow(c)
                 /\ Collectible(c, refs, eph, watch', sub)
              THEN [queue EXCEPT ![c] = Append(Tail(@), Plain(c, "remove"))]
              ELSE Done(c)
  /\ UNCHANGED <<row, sub, refVars, live, pendingWatch, postOp, taskVars, calls,
                 budget>>

Step ==
  \/ Reload
  \/ \E u \in Users : CallbackEnds(u)
  \/ \E c \in Contracts :
       \/ Retain(c) \/ Release(c) \/ ForceSync(c) \/ Delete(c)
       \/ \E u \in Users : WithRetained(c, u)
       \/ \E i \in DOMAIN queue[c] : ReleaseEarly(c, i)
       \/ Noop(c) \/ RemoveConfirmed(c) \/ RemoveForGood(c)
       \/ WatchForeignKeys(c) \/ SyncStart(c) \/ SyncOfGone(c) \/ WatchStart(c)
       \/ HeadIsOurs(c) \/ EventsRead(c) \/ EventsApplied(c) \/ SyncFails(c)
       \/ Unwatch(c)
       \/ \E f \in Contracts : KeyDel(c, f)

Next == Step /\ UNCHANGED sameNames

Spec == Init /\ [][Next]_vars

-----------------------------------------------------------------------------
TypeOK ==
  /\ row \in [Contracts -> {"none", "bare", "synced", "gone"}]
  /\ refs \in [Contracts -> Nat] /\ eph \in [Contracts -> Nat]
  /\ held \in [Contracts -> Nat]
  /\ scope \in [Users -> {"out", "waiting", "inside", "leaked"}]
  /\ on \in [Users -> Contracts \union {Nobody}]
  /\ {sub, postOp, failed, orphan} \subseteq [Contracts -> BOOLEAN]
  /\ {watch, live, pendingWatch, found} \subseteq [Contracts -> SUBSET Contracts]
  /\ queue \in [Contracts -> Seq([op : Ops, by : Contracts, user : Users \union {Nobody}])]
  /\ at \in [Contracts -> {"idle", "head", "apply"}]
  /\ calls \in 0 .. CallBound /\ budget \in 0 .. DisturbBound

Using(c, stages) == {u \in Users : on[u] = c /\ scope[u] \in stages}
AtRest == \A c \in Contracts : queue[c] = <<>>
Watched(c) == \E x \in watch[c] : sub[x]

\* The library counts exactly the references the application still has, whatever
\* was removed, synced anew or failed in between (and those a failed withRetained
\* has left behind).
CountsAgree ==
  \A c \in Contracts : row[c] # "gone" =>
    /\ refs[c] = held[c]
    /\ eph[c] = Cardinality(Using(c, {"waiting", "inside", "leaked"}))

\* A contract somebody has a reference to, or whose keys a followed contract uses,
\* is never removed, however late its removal runs; but for a permanent deletion.
KeptWhileNeeded ==
  [][\A c \in Contracts : row[c] = "synced" /\ row'[c] = "none" =>
       held[c] = 0 /\ Using(c, {"waiting", "inside"}) = {} /\ ~Watched(c)]_vars

\* Once the queues are empty, a contract with references is subscribed, unless its
\* last sync failed.
NeededIsFollowed ==
  AtRest => \A c \in Contracts :
    /\ held[c] > 0 \/ Using(c, {"inside"}) # {}
    /\ row[c] # "gone" /\ ~failed[c]
    => sub[c]

Unneeded(c) == refs[c] + eph[c] = 0 /\ ~Watched(c)

\* Once the queues are empty, a contract nobody needs is neither subscribed nor kept,
\* unless it got a watch for a contract that had gone.
UnneededIsRemoved ==
  AtRest => \A c \in Contracts :
    Unneeded(c) /\ ~orphan[c] => ~sub[c] /\ row[c] # "synced"

\* Once the queues are empty, the contracts whose keys a followed contract uses are
\* followed too (or failed to sync anew), and know of it.
ForeignKeysFollowed ==
  AtRest => \A c \in Contracts : sub[c] =>
    \A f \in live[c] : row[f] # "gone" => c \in watch[f] /\ (sub[f] \/ failed[f])

=============================================================================
