------------------------------ MODULE Publish ------------------------------
(***************************************************************************)
(* Writing to contracts: chelonia/private/out/publishEvent of              *)
(* src/src/internals.ts, recreateEvent of src/src/utils.ts and the         *)
(* selectors chelonia/out/* of src/src/chelonia.ts that use them.          *)
(*                                                                         *)
(* Clients append to the logs of the server, which takes an event only if  *)
(* it names the log's HEAD.  A client has a queue of publications for each *)
(* contract, and another for what reads or changes its state: an attempt   *)
(* is checked and rebuilt on the latest state in the latter, and sent      *)
(* outside.  An event stands for the parts of its operation; of a key only *)
(* whether it was never added, is active, or gone (_notAfterHeight).       *)
(***************************************************************************)
EXTENDS Integers, SequencesExt

CONSTANTS
  Clients, Contracts, Keys,
  Msgs,           \* the events the clients publish
  Nobody,
  Owner, Target,  \* the client and the contract of each event
  First,          \* the events that are OP_CONTRACT
  Atomic,         \* the events that are OP_ATOMIC
  Asked,          \* the parts of each event, as the application gives them
  Before,         \* the event its prepublish hook publishes (keyRequest), or Nobody
  FirstKeys,      \* the keys a contract starts with
  MaxAttempts,    \* options.maxAttempts
  DisturbBound,   \* bound: how many faults happen
  Disturbances    \* the kinds of faults this instance allows

Status == {"never", "active", "gone"}
Parts == [t : {"action", "add", "del", "update"}, olds : SUBSET Keys, news : SUBSET Keys]
Kinds == {"refuse", "remove", "error", "lost", "fail"}

ASSUME MsgsAssumption ==
  /\ Nobody \notin Msgs /\ First \subseteq Msgs /\ Atomic \subseteq Msgs
  /\ Owner \in [Msgs -> Clients] /\ Target \in [Msgs -> Contracts]
  /\ Before \in [Msgs -> Msgs \union {Nobody}]
  /\ \A m, n \in Msgs : Before[m] = Before[n] /\ Before[m] # Nobody => m = n
  /\ Asked \in [Msgs -> Seq(Parts)] /\ \A m \in Msgs \ Atomic : Len(Asked[m]) = 1
ASSUME KeysAssumption == FirstKeys \subseteq Keys
ASSUME BoundAssumption ==
  MaxAttempts \in Nat \ {0} /\ DisturbBound \in Nat /\ Disturbances \subseteq Kinds

VARIABLES
  log,       \* the server's events: what they are, what they build on, the keys after
  seen,      \* how many of them each client has in its state; 0: it has no state
  queue,     \* the queue publish:contractID
  lane,      \* the event being checked in the contract's queue, or Nobody
  pc,        \* where each publication is
  entry,     \* the event as it was last sent (entry)
  made,      \* the event as rebuilt (newEntry)
  last,      \* lastAttemptedHeight
  tried,     \* the heights it was sent with
  request,   \* the request at the server, or its answer on the way
  hook,      \* onreceivedHandler is installed (registerContract gives none to OP_CONTRACT)
  processed, \* how often onprocessed was called
  outcome,   \* how the publication ended
  turn,      \* ghost: the number of its call, or 0
  turns,     \* ghost: how many there were
  budget

stateVars == <<log, seen>>
hookVars == <<hook, processed>>
turnVars == <<turn, turns>>
ownVars == <<entry, made, last, tried>>
vars == <<stateVars, queue, lane, pc, ownVars, request, hookVars, outcome, turnVars, budget>>

Disturb(kind) ==
  /\ kind \in Disturbances
  /\ budget < DisturbBound
  /\ budget' = budget + 1

----------------------------------------------------------------------------
(* The effect of an operation on the keys.                                  *)

Changed(keys, p) ==
  [k \in Keys |-> IF k \in p.news THEN "active"
                  ELSE IF k \in p.olds /\ keys[k] # "never" THEN "gone" ELSE keys[k]]

\* ChelErrorWarning, which the rest of an OP_ATOMIC survives: no such old key.
Warns(keys, p) == p.t = "update" /\ \E k \in p.olds : keys[k] = "never"

\* An error: the key to add is there (keysToMap), the one to delete never was, or the
\* one to put in place of another is gone.
Fails(keys, p) ==
  \/ p.t = "add" /\ \E k \in p.news : keys[k] = "active"
  \/ p.t = "del" /\ \E k \in p.olds : keys[k] = "never"
  \/ p.t = "update" /\ \E k \in p.news : keys[k] = "gone"

\* processMessage: part after part.
Run(keys, parts, atomic) ==
  LET next(r, p) ==
        IF ~r.ok \/ (atomic /\ Warns(r.keys, p)) THEN r
        ELSE IF Warns(r.keys, p) \/ Fails(r.keys, p) THEN [r EXCEPT !.ok = FALSE]
        ELSE [r EXCEPT !.keys = Changed(@, p)]
  IN FoldLeft(next, [ok |-> TRUE, keys |-> keys], parts)

KeptWhenGone(keys, p) ==
  p.t = "action" \/ \A k \in p.olds \union p.news : keys[k] # "active"

\* recreateOperationInternal keeps a part only if none of its keys is to be left out.
Kept(keys, p) ==
  \/ p.t = "action"
  \/ /\ p.olds \union p.news # {}
     /\ \A k \in p.olds : keys[k] = "active"
     /\ p.t = "add" => \A k \in p.news : keys[k] # "active"

\* The parts that are in a set, in their order.
Selected(parts, kept) ==
  FoldLeft(LAMBDA s, p : IF p \in kept THEN Append(s, p) ELSE s, <<>>, parts)

Recreated(keys, parts) == Selected(parts, {p \in Range(parts) : Kept(keys, p)})

\* chelonia/out/keyAdd and keyDel leave out what is not to be done any more.
Prepared(keys, p) ==
  CASE p.t = "add" -> [p EXCEPT !.news = {k \in @ : keys[k] # "active"}]
    [] p.t = "del" -> [p EXCEPT !.olds = {k \in @ : keys[k] = "active"}]
    [] OTHER -> p

\* keyAdd returns when that leaves it with no keys.
Payload(keys, parts) ==
  LET prepared == [i \in DOMAIN parts |-> Prepared(keys, parts[i])]
  IN Selected(prepared, {p \in Range(prepared) : p.t = "add" => p.news # {}})

StartKeys == [k \in Keys |-> IF k \in FirstKeys THEN "active" ELSE "never"]

KeysAt(c, n) == IF n = 0 THEN StartKeys ELSE log[c][n].keys
OwnKeys(m) == KeysAt(Target[m], seen[Owner[m]][Target[m]])

----------------------------------------------------------------------------
Registered(c) == \E m \in First : Target[m] = c
Genesis == [msg |-> Nobody, at |-> 0, parts |-> <<>>, keys |-> StartKeys]

Unset == -1   \* Number.MAX_SAFE_INTEGER
NoEntry == [at |-> Unset, parts |-> <<>>]

Init ==
  /\ log = [c \in Contracts |-> IF Registered(c) THEN <<>> ELSE <<Genesis>>]
  /\ seen = [u \in Clients |-> [c \in Contracts |-> Len(log[c])]]
  /\ queue = [u \in Clients |-> [c \in Contracts |-> <<>>]]
  /\ lane = [u \in Clients |-> [c \in Contracts |-> Nobody]]
  /\ pc = [m \in Msgs |-> "idle"]
  /\ entry = [m \in Msgs |-> NoEntry] /\ made = [m \in Msgs |-> NoEntry]
  /\ last = [m \in Msgs |-> Unset]
  /\ tried = [m \in Msgs |-> <<>>]
  /\ request = [m \in Msgs |-> "none"]
  /\ hook = [m \in Msgs |-> FALSE] /\ processed = [m \in Msgs |-> 0]
  /\ outcome = [m \in Msgs |-> "none"]
  /\ turn = [m \in Msgs |-> 0] /\ turns = 0
  /\ budget = 0

SettleInPlace(m, how) ==
  /\ outcome' = [outcome EXCEPT ![m] = how]
  /\ pc' = [pc EXCEPT ![m] = "done"]
  /\ UNCHANGED queue

\* The promise of m is settled, and its queue goes on.
Settle(m, how) ==
  /\ outcome' = [outcome EXCEPT ![m] = how]
  /\ pc' = [pc EXCEPT ![m] = "done"]
  /\ queue' = [queue EXCEPT ![Owner[m]][Target[m]] = Tail(@)]

\* chelonia/out/*: the event is made and put into the publish queue.
Enqueued(m, parts) ==
  /\ entry' = [entry EXCEPT ![m] =
       [at |-> IF m \in First THEN 0 ELSE Unset, parts |-> parts]]
  /\ queue' = [queue EXCEPT ![Owner[m]][Target[m]] = Append(@, m)]
  /\ turns' = turns + 1
  /\ turn' = [turn EXCEPT ![m] = turns']

\* An atomic is published even if nothing is left in it.
Call(m) ==
  /\ pc[m] = "idle"
  /\ \A b \in Msgs : Before[b] # m
  /\ m \in First \/ seen[Owner[m]][Target[m]] > 0
  /\ LET parts == Payload(OwnKeys(m), Asked[m])
     IN \/ /\ parts # <<>> \/ m \in Atomic
           /\ Enqueued(m, parts)
           /\ pc' = [pc EXCEPT ![m] = "queued"]
           /\ UNCHANGED outcome
        \/ /\ parts = <<>> /\ m \notin Atomic
           /\ pc' = [pc EXCEPT ![m] = "done"]
           /\ outcome' = [outcome EXCEPT ![m] = "nothing"]
           /\ UNCHANGED <<entry, queue, turnVars>>
  /\ UNCHANGED <<stateVars, lane, made, last, tried, request, hookVars, budget>>

\* The prepublish hook of m is called.  That of a keyRequest adds a new key, and throws
\* when the contract that asks has no state.
Prepublish(m) ==
  LET first == Before[m]
  IN /\ pc[m] = "queued"
     /\ CASE first = Nobody ->
            /\ pc' = [pc EXCEPT ![m] = "enter"]
            /\ hook' = [hook EXCEPT ![m] = m \notin First]
            /\ UNCHANGED <<entry, queue, outcome, turnVars>>
          [] first # Nobody /\ (first \in First \/ seen[Owner[first]][Target[first]] > 0) ->
            /\ Enqueued(first, Asked[first])
            /\ pc' = [pc EXCEPT ![m] = "asking", ![first] = "queued"]
            /\ UNCHANGED <<hook, outcome>>
          [] OTHER -> Settle(m, "failed") /\ UNCHANGED <<entry, hook, turnVars>>
     /\ UNCHANGED <<stateVars, lane, made, last, tried, request, processed, budget>>

StartedAtOnce(m) == Prepublish(m)

\* The queue reaches m.
Start(m) == Prepublish(m) /\ Head(queue[Owner[m]][Target[m]]) = m

HookDone(m) ==
  /\ pc[m] = "asking" /\ pc[Before[m]] = "done"
  /\ IF outcome[Before[m]] = "failed"
     THEN Settle(m, "failed") /\ UNCHANGED hook
     ELSE /\ pc' = [pc EXCEPT ![m] = "enter"]
          /\ hook' = [hook EXCEPT ![m] = m \notin First]
          /\ UNCHANGED <<outcome, queue>>
  /\ UNCHANGED <<stateVars, lane, ownVars, request, processed, turnVars, budget>>

----------------------------------------------------------------------------
(* An attempt.                                                              *)

\* The contract's queue is free for m's turn, and m finds a state to build on.
Enter(m) ==
  LET u == Owner[m]
      c == Target[m]
  IN /\ pc[m] = "enter" /\ lane[u][c] = Nobody
     /\ last' = [last EXCEPT ![m] = entry[m].at]
     /\ \/ /\ seen[u][c] > 0 \/ m \in First
           /\ lane' = [lane EXCEPT ![u][c] = m]
           /\ pc' = [pc EXCEPT ![m] = "check"]
           /\ UNCHANGED <<queue, outcome, budget>>
        \/ /\ seen[u][c] = 0 /\ m \notin First
           /\ Settle(m, "dropped")
           /\ UNCHANGED <<lane, budget>>
        \/ /\ seen[u][c] > 0 \/ m \in First    \* preSendCheck says no
           /\ Disturb("refuse")
           /\ Settle(m, "dropped")
           /\ UNCHANGED lane
     /\ UNCHANGED <<stateVars, entry, made, tried, request, hookVars, turnVars>>

\* The outcome of the check on the latest state, with what the event is rebuilt to.
Checked(m, parts) ==
  LET u == Owner[m]
      c == Target[m]
  IN /\ pc[m] = "check"
     /\ lane' = [lane EXCEPT ![u][c] = Nobody]
     /\ IF ~Run(OwnKeys(m), entry[m].parts, m \in Atomic).ok
        THEN Settle(m, "failed") /\ UNCHANGED made
        ELSE IF parts = <<>> THEN Settle(m, "omitted") /\ UNCHANGED made
        ELSE /\ made' = [made EXCEPT ![m] =
                  [at |-> IF m \in First THEN entry[m].at ELSE seen[u][c], parts |-> parts]]
             /\ pc' = [pc EXCEPT ![m] = "made"]
             /\ UNCHANGED <<queue, outcome>>
     /\ UNCHANGED <<stateVars, entry, last, tried, request, hookVars, turnVars, budget>>

CheckRebuiltOnce(m) ==
  Checked(m, IF m \in First \/ tried[m] # <<>> THEN entry[m].parts
             ELSE Recreated(OwnKeys(m), entry[m].parts))

\* processMessage is through: the event is valid, and is rebuilt unless it is the first.
Check(m) ==
  Checked(m, IF m \in First THEN entry[m].parts ELSE Recreated(OwnKeys(m), entry[m].parts))

\* beforeRequest is through.
Send(m) ==
  /\ pc[m] = "made"
  /\ entry' = [entry EXCEPT ![m] = made[m]]
  /\ made' = [made EXCEPT ![m] = NoEntry]
  /\ request' = [request EXCEPT ![m] = "sent"]
  /\ tried' = [tried EXCEPT ![m] = Append(@, made[m].at)]
  /\ pc' = [pc EXCEPT ![m] = "request"]
  /\ UNCHANGED <<stateVars, queue, lane, last, hookVars, outcome, turnVars, budget>>

\* The server takes the event if it builds on the HEAD of its log.
Serve(m) ==
  LET c == Target[m]
      keys == KeysAt(c, Len(log[c]))
      r == Run(keys, entry[m].parts, m \in Atomic)
  IN /\ request[m] = "sent"
     /\ \/ /\ entry[m].at = Len(log[c])
           /\ log' = [log EXCEPT ![c] = Append(@,
                [msg |-> m, at |-> entry[m].at, parts |-> entry[m].parts,
                 keys |-> IF r.ok THEN r.keys ELSE keys])]
           /\ request' = [request EXCEPT ![m] = "ok"]
           /\ UNCHANGED budget
        \/ /\ entry[m].at # Len(log[c])
           /\ request' = [request EXCEPT ![m] = "conflict"]
           /\ UNCHANGED <<log, budget>>
        \/ /\ Disturb("error")
           /\ request' = [request EXCEPT ![m] = "error"]
           /\ UNCHANGED log
     /\ UNCHANGED <<seen, queue, lane, pc, ownVars, hookVars, outcome, turnVars>>

\* An answer, with where to go after a refusal; tried has one element per attempt.
Answered(m, again) ==
  /\ pc[m] = "request" /\ request[m] \in {"ok", "conflict", "error"}
  /\ request' = [request EXCEPT ![m] = "none"]
  /\ CASE request[m] = "ok" -> Settle(m, "published") /\ UNCHANGED hook
       [] request[m] = "conflict" /\ Len(tried[m]) < MaxAttempts ->
            /\ pc' = [pc EXCEPT ![m] = again]
            /\ UNCHANGED <<queue, outcome, hook>>
       [] OTHER -> Settle(m, "failed") /\ hook' = [hook EXCEPT ![m] = FALSE]
  /\ UNCHANGED <<stateVars, lane, ownVars, processed, turnVars, budget>>

AnswerEndless(m) ==
  /\ pc[m] = "request" /\ request[m] \in {"ok", "conflict", "error"}
  /\ request' = [request EXCEPT ![m] = "none"]
  /\ CASE request[m] = "ok" -> Settle(m, "published") /\ UNCHANGED hook
       [] request[m] = "conflict" -> pc' = [pc EXCEPT ![m] = "enter"] /\ UNCHANGED <<queue, outcome, hook>>
       [] OTHER -> Settle(m, "failed") /\ hook' = [hook EXCEPT ![m] = FALSE]
  /\ UNCHANGED <<stateVars, lane, ownVars, processed, turnVars, budget>>

AnswerNeverSyncs(m) == Answered(m, "enter")

\* The answer arrives.  After a refusal, and a delay, it tries again; two attempts at one
\* height have the contract synced by force first.
Answer(m) ==
  Answered(m, IF m \notin First /\ entry[m].at = last[m] THEN "sync" ELSE "enter")

LostRetried(m) ==
  /\ pc[m] = "request"
  /\ Disturb("lost")
  /\ pc' = [pc EXCEPT ![m] = "enter"]
  /\ UNCHANGED <<stateVars, queue, lane, ownVars, request, hookVars, outcome, turnVars>>

\* fetch throws: the connection is lost, with the request under way or done with.
Lost(m) ==
  /\ pc[m] = "request"
  /\ Disturb("lost")
  /\ Settle(m, "failed")
  /\ UNCHANGED <<stateVars, lane, ownVars, request, hookVars, turnVars>>

----------------------------------------------------------------------------
(* The contract's queue: events received, and syncs.                        *)

\* The client's events up to the n-th that onreceivedHandler waits for: it looks for the
\* event as it was last sent.
Awaited(u, c, n) ==
  {m \in Msgs : /\ Owner[m] = u /\ Target[m] = c /\ hook[m]
                /\ \E i \in seen[u][c] + 1 .. n : /\ log[c][i].msg = m
                                                  /\ log[c][i].at = entry[m].at
                                                  /\ log[c][i].parts = entry[m].parts}

HandledAgain(u, c, n) ==
  /\ processed' = [m \in Msgs |-> processed[m] + (IF m \in Awaited(u, c, n) THEN 1 ELSE 0)]
  /\ seen' = [seen EXCEPT ![u][c] = n]
  /\ UNCHANGED hook

\* The events up to the n-th are processed, with EVENT_HANDLED for each.
Handled(u, c, n) ==
  /\ processed' = [m \in Msgs |-> processed[m] + (IF m \in Awaited(u, c, n) THEN 1 ELSE 0)]
  /\ hook' = [m \in Msgs |-> hook[m] /\ m \notin Awaited(u, c, n)]
  /\ seen' = [seen EXCEPT ![u][c] = n]

\* An event comes over the subscription.
Receive(u, c) ==
  /\ lane[u][c] = Nobody
  /\ seen[u][c] > 0 /\ seen[u][c] < Len(log[c])
  /\ Handled(u, c, seen[u][c] + 1)
  /\ UNCHANGED <<log, queue, lane, pc, ownVars, request, outcome, turnVars, budget>>

\* The application has a contract synced it has no state of.
Sync(u, c) ==
  /\ lane[u][c] = Nobody
  /\ seen[u][c] = 0 /\ log[c] # <<>>
  /\ Handled(u, c, Len(log[c]))
  /\ UNCHANGED <<log, queue, lane, pc, ownVars, request, outcome, turnVars, budget>>

\* The forced sync of an attempt.
ForcedSync(m) ==
  /\ pc[m] = "sync" /\ lane[Owner[m]][Target[m]] = Nobody
  /\ Handled(Owner[m], Target[m], Len(log[Target[m]]))
  /\ pc' = [pc EXCEPT ![m] = "enter"]
  /\ UNCHANGED <<log, queue, lane, ownVars, request, outcome, turnVars, budget>>

SyncFails(m) ==
  /\ pc[m] = "sync" /\ lane[Owner[m]][Target[m]] = Nobody
  /\ Disturb("fail")
  /\ Settle(m, "failed")
  /\ hook' = [hook EXCEPT ![m] = FALSE]
  /\ UNCHANGED <<stateVars, lane, ownVars, request, processed, turnVars>>

\* chelonia/contract/remove
Drop(u, c) ==
  /\ lane[u][c] = Nobody /\ seen[u][c] > 0
  /\ Disturb("remove")
  /\ seen' = [seen EXCEPT ![u][c] = 0]
  /\ UNCHANGED <<log, queue, lane, pc, ownVars, request, hookVars, outcome, turnVars>>

\* What a client knows of other contracts matters to nobody.
Written(u) == {Target[m] : m \in {n \in Msgs : Owner[n] = u}}

Attempt(m) ==
  \/ Start(m) \/ HookDone(m) \/ Enter(m) \/ Check(m) \/ Send(m)
  \/ Answer(m) \/ ForcedSync(m)

Next ==
  \/ \E m \in Msgs : Call(m) \/ Attempt(m) \/ Serve(m) \/ Lost(m) \/ SyncFails(m)
  \/ \E u \in Clients : \E c \in Written(u) : Receive(u, c) \/ Sync(u, c) \/ Drop(u, c)

Spec == Init /\ [][Next]_vars

\* Less fairness than the code gives: as long as the event loop of a client, a timer or
\* the server has something to do for some publication, something is done for one.
\* Nobody has to call, and no fault has to happen or to stop.
FairSpec == Spec /\ WF_vars(\E m \in Msgs : Attempt(m) \/ Serve(m))

----------------------------------------------------------------------------
Events == [msg : Msgs \union {Nobody}, at : Nat, parts : Seq(Parts), keys : [Keys -> Status]]
Sent == [at : Nat \union {Unset}, parts : Seq(Parts)]

\* Every variable has values of its type.
TypeOK ==
  /\ log \in [Contracts -> Seq(Events)]
  /\ seen \in [Clients -> [Contracts -> Nat]]
  /\ queue \in [Clients -> [Contracts -> Seq(Msgs)]]
  /\ lane \in [Clients -> [Contracts -> Msgs \union {Nobody}]]
  /\ pc \in [Msgs -> {"idle", "queued", "asking", "enter", "check", "made", "request",
                      "sync", "done"}]
  /\ entry \in [Msgs -> Sent] /\ made \in [Msgs -> Sent]
  /\ last \in [Msgs -> Nat \union {Unset}]
  /\ tried \in [Msgs -> Seq(Nat)]
  /\ request \in [Msgs -> {"none", "sent", "ok", "conflict", "error"}]
  /\ hook \in [Msgs -> BOOLEAN] /\ processed \in [Msgs -> Nat]
  /\ outcome \in [Msgs -> {"none", "published", "nothing", "omitted", "dropped", "failed"}]
  /\ turn \in [Msgs -> Nat] /\ turns \in Nat
  /\ budget \in Nat

\* An event gets into the log at most once, however often it is tried (publishEvent
\* tries again after a refusal only), and is there when the promise is kept.
OnceInLog ==
  \A m \in Msgs :
    LET places == {i \in DOMAIN log[Target[m]] : log[Target[m]][i].msg = m}
    IN /\ \A i, j \in places : i = j
       /\ outcome[m] = "published" => places # {}

\* What a client publishes in one contract gets into the log in the order of its calls,
\* even when a request it has given up as lost arrives late (the publish queue, and
\* the HEAD that every event names).
InCallOrder ==
  \A c \in Contracts : \A i, j \in DOMAIN log[c] :
    LET m == log[c][i].msg
        n == log[c][j].msg
    IN i < j /\ m # Nobody /\ n # Nobody /\ Owner[m] = Owner[n] => turn[m] < turn[n]

\* Every event of the log was checked against, and rebuilt on, just the state it is
\* processed in: it is valid there, and every part of it still has all its work to do.
FitsItsPlace ==
  \A c \in Contracts : \A i \in DOMAIN log[c] :
    LET e == log[c][i]
    IN /\ Run(KeysAt(c, i - 1), e.parts, e.msg \in Atomic).ok
       /\ e.msg \notin First => \A p \in Range(e.parts) : Kept(KeysAt(c, i - 1), p)

\* No height is tried more than twice: after the second refusal the client has the
\* event that took it, by the subscription or by force.
TwiceAtMost ==
  \A m \in Msgs \ First : \A i, j, k \in DOMAIN tried[m] :
    tried[m][i] = tried[m][j] /\ tried[m][j] = tried[m][k] => i = j \/ j = k \/ i = k

\* onprocessed is called once for an event that is published and has come back, for the
\* form of it that the server took, and never otherwise.
HookCalled ==
  \A m \in Msgs \ First :
    LET places == {i \in DOMAIN log[Target[m]] : log[Target[m]][i].msg = m}
    IN /\ processed[m] <= 1
       /\ processed[m] = 1 => places # {}
       /\ \A i \in places : outcome[m] = "published" /\ seen[Owner[m]][Target[m]] >= i
                             => processed[m] = 1

\* A publication that ends without an error has achieved what was asked of it ("the
\* payload will be rewritten to eliminate no-longer-relevant keys", utils.ts:696): at
\* some point since, no key to delete or replace was active.
DoneAsAsked ==
  \A m \in Msgs : outcome[m] \in {"published", "omitted"} =>
    \A p \in Range(Asked[m]) : \A k \in p.olds :
      \E n \in 1 .. Len(log[Target[m]]) : KeysAt(Target[m], n)[k] # "active"

\* What a publication under way waits for is there: its turn in the publish queue, the
\* end of the one its hook publishes, the contract's queue, an answer or the server.
CanStep(m) ==
  LET u == Owner[m]
      c == Target[m]
  IN \/ pc[m] = "queued" /\ Head(queue[u][c]) = m
     \/ pc[m] = "asking" /\ pc[Before[m]] = "done"
     \/ pc[m] \in {"enter", "sync"} /\ lane[u][c] = Nobody
     \/ pc[m] \in {"check", "made"}
     \/ pc[m] = "request" /\ request[m] # "none"

\* The publications never all wait for each other: while one is under way, some one of
\* them can go on.  It is so as long as no hook needs a queue that waits for its own.
NeverStuck ==
  (\E m \in Msgs : pc[m] \notin {"idle", "done"}) => \E m \in Msgs : CanStep(m)

Stage(place) ==
  CASE place = "idle" -> 8
    [] place = "queued" -> 7
    [] place = "asking" -> 6
    [] place = "request" -> 5
    [] place = "sync" -> 4
    [] place = "enter" -> 3
    [] place = "check" -> 2
    [] place = "made" -> 1
    [] place = "done" -> 0

\* What a publication still has before it: the attempts left, and how far it is in one.
Effort(m) ==
  10 * (MaxAttempts - Len(tried[m])) + Stage(pc[m]) + (IF request[m] = "sent" THEN 1 ELSE 0)

\* No publication goes on for ever: whatever anybody does, none gets further from its
\* end, and each of its own steps brings it nearer (a retry is an attempt less, and
\* there are options.maxAttempts of them).
GetsOn ==
  [][\A m \in Msgs : /\ 0 <= Effort(m)' /\ Effort(m)' <= Effort(m)
                     /\ Attempt(m) \/ Serve(m) => Effort(m)' < Effort(m)]_vars

\* Every publication that is under way ends, whatever is refused, lost or fails: there is
\* always a time to come when none is under way.
Ends == []<>(\A m \in Msgs : pc[m] \in {"idle", "done"})

=============================================================================
