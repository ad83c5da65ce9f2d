--------------------------- MODULE ContractSync ---------------------------
(***************************************************************************)
(* How one Chelonia client keeps its copy of one contract in step with the *)
(* server's append-only log of that contract: the per-contract event queue,*)
(* syncContract, handleEvent, the re-ingest tracker and its debounced      *)
(* forced sync, and the 'dirty' flag set when a missing key arrives        *)
(* (src/src/internals.ts, reingestTracker.ts, the pubsub handlers of       *)
(* chelonia.ts).                                                           *)
(*                                                                         *)
(* An event is its height.  The contract state is the set of heights whose *)
(* mutation it contains.  Every await of handleEvent and syncContract is a *)
(* step boundary; what lies between two awaits is one action.              *)
(***************************************************************************)
EXTENDS Integers, Sequences, FiniteSets

CONSTANTS
  MaxHeight,     \* bound: height of the last event the server ever holds
  ReingestCap,   \* REINGEST_PER_CONTRACT_CAP
  QueueBound,    \* bound: tasks waiting in the contract's queue
  WireBound,     \* bound: messages in flight on the websocket
  DisturbBound,  \* bound: how many environment disturbances happen
  Disturbances,  \* the kinds of disturbance this instance allows
  Encrypted,     \* events that need a key the client does not have at first
  KeyHeight,     \* _notBeforeHeight of that key: the event that added it
  Invalid,       \* events whose mutation throws an ordinary error
  Fatal,         \* events whose mutation throws ChelErrorUnrecoverable
  SelfShare      \* OP_KEY_SHARE events of this contract carrying that key

Kinds == {"disconnect", "http", "db", "ingest", "appsync", "restart",
          "update", "key", "keyMidEvent"}

ASSUME HeightAssumption == MaxHeight \in Nat /\ KeyHeight \in Nat
ASSUME CapAssumption == ReingestCap \in Nat
ASSUME BoundAssumption ==
  QueueBound \in Nat /\ WireBound \in Nat /\ DisturbBound \in Nat
ASSUME EventAssumption ==
  \A S \in {Encrypted, Invalid, Fatal, SelfShare} : S \subseteq Nat
ASSUME DisturbAssumption == Disturbances \subseteq Kinds

None == -1
Heights == 0 .. MaxHeight

VARIABLES
  srvHeight,   \* height of the newest event in the server's log
  chan,        \* the pubsub client's view of its subscription
  wire,        \* server-to-client websocket messages in flight
  queue,       \* the contract's okTurtles.eventQueue
  pc,          \* where the task at work is between two awaits
  work,        \* handleEvent's locals: event, contractStateCopy, errors
  strm,        \* syncContract's locals: the reader of eventsAfter
  row,         \* state.contracts[contractID]
  applied,     \* state[contractID], as the set of mutations in it
  present,     \* has(state, contractID)
  dirty,       \* state[contractID]._volatile.dirty
  haveKey,     \* the secret key of the Encrypted events is stored
  subscribed,  \* this.subscriptionSet.has(contractID)
  pending,     \* contractID is in this.pending
  tracker,     \* reingestTracker's entries for the contract
  timer,       \* reprocessDebounceMap.has(contractID)
  budget       \* disturbances so far

netVars == <<srvHeight, chan, wire>>
taskVars == <<pc, work, strm>>
stateVars == <<row, applied, present, dirty, haveKey>>
memVars == <<subscribed, pending, tracker, timer>>
vars == <<netVars, queue, taskVars, stateVars, memVars, budget>>

EventTask(h) == [op |-> "event", h |-> h, resync |-> FALSE]
SyncTask(r) == [op |-> "sync", h |-> 0, resync |-> r]
NoWork == [ev |-> 0, copy |-> {}, errored |-> FALSE, undec |-> FALSE]
NoStream == [on |-> FALSE, next |-> 0, last |-> 0]
NoRow == [height |-> None, missing |-> FALSE]

Entry(h) == [kind |-> "entry", h |-> h]
SubOk == [kind |-> "ok", h |-> 0]

Init ==
  /\ srvHeight = 0 /\ chan = "off" /\ wire = <<>>
  /\ queue = <<SyncTask(FALSE)>>
  /\ pc = "idle" /\ work = NoWork /\ strm = NoStream
  /\ row = NoRow /\ applied = {} /\ present = FALSE /\ dirty = FALSE
  /\ haveKey = FALSE
  /\ subscribed = FALSE /\ pending = FALSE /\ tracker = {} /\ timer = FALSE
  /\ budget = 0

(***************************************************************************)
(* The environment: the server's log and its websocket.                    *)
(***************************************************************************)
Room == Len(queue) < QueueBound

Disturb(kind) ==
  /\ kind \in Disturbances
  /\ budget < DisturbBound
  /\ budget' = budget + 1

\* The server pushes new entries to a subscribed socket; while an UNSUB is in
\* flight it may still push.
Pushing == chan = "on" \/ SubOk \in {wire[i] : i \in DOMAIN wire}

ServerAppend ==
  /\ srvHeight < MaxHeight
  /\ Len(wire) < WireBound
  /\ srvHeight' = srvHeight + 1
  /\ \/ Pushing /\ wire' = Append(wire, Entry(srvHeight + 1))
     \/ chan = "leaving" /\ wire' = Append(wire, Entry(srvHeight + 1))
     \/ ~Pushing /\ wire' = wire
  /\ UNCHANGED <<chan, queue, taskVars, stateVars, memVars, budget>>

ServerAckSub ==
  /\ chan = "requested"
  /\ ~Pushing
  /\ Len(wire) < WireBound
  /\ wire' = Append(wire, SubOk)
  /\ UNCHANGED <<srvHeight, chan, queue, taskVars, stateVars, memVars, budget>>

\* The OK of an UNSUB follows every entry the server pushed before it.
UnsubAcked ==
  /\ chan = "leaving"
  /\ wire = <<>>
  /\ chan' = "off"
  /\ UNCHANGED <<srvHeight, wire, queue, taskVars, stateVars, memVars, budget>>

\* The socket closes: confirmed subscriptions become pending again, those with
\* an UNSUB pending are forgotten.
Disconnect ==
  /\ Disturb("disconnect")
  /\ chan' = CASE chan = "on" -> "requested"
               [] chan = "leaving" -> "off"
               [] OTHER -> chan
  /\ wire' = <<>>
  /\ UNCHANGED <<srvHeight, queue, taskVars, stateVars, memVars>>

\* 'chelonia/pubsub/update': compares the client's confirmed subscriptions with
\* Chelonia's subscriptionSet.  It runs on every CONTRACTS_MODIFIED.
Reconcile(sub, c) ==
  CASE c = "on" /\ ~sub -> "leaving"
    [] c = "off" /\ sub -> "requested"
    [] OTHER -> c

\* CONTRACTS_MODIFIED emitted for another contract.
PubsubUpdate ==
  /\ Disturb("update")
  /\ chan' = Reconcile(subscribed, chan)
  /\ UNCHANGED <<srvHeight, wire, queue, taskVars, stateVars, memVars>>

(***************************************************************************)
(* Work arriving in the contract's queue.                                  *)
(***************************************************************************)
\* NOTIFICATION_TYPE.ENTRY: enqueueHandleEvent.
ReceiveEntry ==
  /\ wire # <<>> /\ Head(wire).kind = "entry"
  /\ Room
  /\ queue' = Append(queue, EventTask(Head(wire).h))
  /\ wire' = Tail(wire)
  /\ UNCHANGED <<srvHeight, chan, taskVars, stateVars, memVars, budget>>

\* Mutant: no sync once the subscription is set up.
ReceiveSubOkNoSync ==
  /\ wire # <<>> /\ Head(wire) = SubOk
  /\ chan' = "on"
  /\ wire' = Tail(wire)
  /\ UNCHANGED <<srvHeight, queue, taskVars, stateVars, memVars, budget>>

\* 'subscription-succeeded': a forced sync.  The handler's check reads the pubsub
\* client's subscriptionSet, which has just gained the channel: it always holds.
ReceiveSubOk ==
  /\ wire # <<>> /\ Head(wire) = SubOk
  /\ Room
  /\ chan' = "on"
  /\ wire' = Tail(wire)
  /\ queue' = Append(queue, SyncTask(FALSE))
  /\ UNCHANGED <<srvHeight, taskVars, stateVars, memVars, budget>>

\* 'chelonia/handleEvent' (web push): any event of the log, again or early.
IngestEvent(h) ==
  /\ h <= srvHeight
  /\ Room
  /\ Disturb("ingest")
  /\ queue' = Append(queue, EventTask(h))
  /\ UNCHANGED <<netVars, taskVars, stateVars, memVars>>

\* 'chelonia/contract/sync', which always forces.
AppSync(resync) ==
  /\ Room
  /\ Disturb("appsync")
  /\ queue' = Append(queue, SyncTask(resync))
  /\ UNCHANGED <<netVars, taskVars, stateVars, memVars>>

\* reprocessDebounced's timeout.
DebounceFires ==
  /\ timer
  /\ Room
  /\ timer' = FALSE
  /\ queue' = Append(queue, SyncTask(FALSE))
  /\ UNCHANGED <<netVars, taskVars, stateVars, subscribed, pending, tracker,
                 budget>>

(***************************************************************************)
(* A key arrives through an OP_KEY_SHARE side effect.  It reads and marks  *)
(* the root state, whatever handleEvent is doing with its copy.            *)
(***************************************************************************)
MustResync ==
  /\ ~haveKey
  /\ row.height # None
  /\ row.missing \/ (KeyHeight \in applied /\ KeyHeight < row.height)

\* Mutant: the contract is not marked dirty.
StoreKeyNotDirty ==
  /\ haveKey' = TRUE
  /\ dirty' = dirty
  /\ queue' = IF MustResync /\ subscribed
              THEN Append(queue, SyncTask(FALSE)) ELSE queue

StoreKey ==
  /\ haveKey' = TRUE
  /\ dirty' = (dirty \/ MustResync)
  /\ queue' = IF MustResync /\ subscribed
              THEN Append(queue, SyncTask(FALSE)) ELSE queue

MidEvent == pc \in {"mutate", "effects", "apply"}

\* The OP_KEY_SHARE is in another contract, so its side effect runs on that
\* contract's queue, at any moment of this one's.
KeyArrives ==
  /\ ~haveKey
  /\ Disturb(IF MidEvent THEN "keyMidEvent" ELSE "key")
  /\ StoreKey
  /\ UNCHANGED <<netVars, taskVars, row, applied, present, memVars>>

\* The page is reloaded: what is in memory is lost, the saved root state stays,
\* and the application syncs the contracts it had retained.
Restart ==
  /\ Disturb("restart")
  /\ chan' = "off" /\ wire' = <<>>
  /\ queue' = <<SyncTask(FALSE)>>
  /\ pc' = "idle" /\ work' = NoWork /\ strm' = NoStream
  /\ subscribed' = FALSE /\ pending' = FALSE
  /\ tracker' = {} /\ timer' = FALSE
  /\ UNCHANGED <<srvHeight, stateVars>>

(***************************************************************************)
(* syncContract.                                                           *)
(***************************************************************************)
\* A task that ends, by returning or by throwing, frees the queue.
EndTask == pc' = "idle" /\ work' = NoWork /\ strm' = NoStream

\* removeImmediately with resync: keeps the reference count and '_volatile.watch'
\* and nothing else, and leaves the subscription set.
StartSync ==
  /\ pc = "idle" /\ queue # <<>> /\ Head(queue).op = "sync"
  /\ queue' = Tail(queue)
  /\ pc' = "head" /\ strm' = [NoStream EXCEPT !.on = TRUE]
  /\ IF dirty \/ Head(queue).resync
     THEN /\ row' = NoRow /\ applied' = {} /\ present' = TRUE /\ dirty' = FALSE
          /\ subscribed' = FALSE /\ tracker' = {} /\ timer' = FALSE
          /\ chan' = IF row.height = None THEN chan ELSE Reconcile(FALSE, chan)
     ELSE UNCHANGED <<row, applied, present, dirty, subscribed, tracker, timer,
                      chan>>
  /\ UNCHANGED <<srvHeight, wire, work, haveKey, pending, budget>>

\* latestHEADInfo answered: the contract is up to date, or the log is read from
\* the last processed event on.
FetchHead ==
  /\ pc = "head"
  /\ IF row.height = srvHeight
     THEN /\ subscribed' = TRUE
          /\ pending' = (pending /\ subscribed)
          /\ chan' = IF subscribed THEN chan ELSE Reconcile(TRUE, chan)
          /\ EndTask
     ELSE /\ pending' = (pending \/ ~subscribed)
          /\ pc' = "read"
          /\ strm' = [strm EXCEPT !.next = row.height + 1, !.last = srvHeight]
          /\ UNCHANGED <<subscribed, chan, work>>
  /\ UNCHANGED <<srvHeight, wire, queue, row, applied, present, dirty, haveKey,
                 tracker, timer, budget>>

\* A request of syncContract fails and the task throws.
FetchFails ==
  /\ pc \in {"head", "read"}
  /\ Disturb("http")
  /\ EndTask
  /\ UNCHANGED <<netVars, queue, row, applied, present, dirty, haveKey, memVars>>

\* The stream ends once it has delivered the latest HEAD, or later: it pages
\* until the server has no more.
ReadEnds ==
  /\ pc = "read" /\ strm.next > strm.last
  /\ EndTask
  /\ UNCHANGED <<netVars, queue, row, applied, present, dirty, haveKey, memVars,
                 budget>>

(***************************************************************************)
(* handleEvent up to its first await: is the event expected, in order, and *)
(* the state not dirty?                                                    *)
(***************************************************************************)
Unexpected == ~pending /\ ~subscribed
StateMissing(h) == h # 0 /\ ~present
\* Mutants: the event at the current height is taken again; one event may be
\* jumped over; the cap is exceeded by one.
PastOffByOne(h) == IF h = 0 THEN row.height # None
                            ELSE row.height = None \/ row.height > h
FutureOffByOne(h) == row.height + 2 < h
OutOfReachOffByOne(h) == h \in tracker \/ Cardinality(tracker) > ReingestCap

Past(h) == IF h = 0 THEN row.height # None
                    ELSE row.height = None \/ row.height >= h
Future(h) == row.height + 1 < h
OutOfReach(h) == h \in tracker \/ Cardinality(tracker) >= ReingestCap

Throws(h) ==
  /\ ~Unexpected
  /\ \/ StateMissing(h)
     \/ ~Past(h) /\ Future(h) /\ OutOfReach(h)
Ignored(h) == ~Throws(h) /\ (Unexpected \/ Past(h))

\* noteReingestSuccess and pruneStaleEntries.
Pruned(h) == {t \in tracker : t > h}

\* A task that returns early: the reader goes on with the next event.
Return ==
  /\ pc' = IF strm.on THEN "read" ELSE "idle"
  /\ work' = NoWork

\* 'next' is the reader's position after the event, if it is the reader's.
HandleEvent(h, next) ==
  \/ /\ Throws(h)
     /\ EndTask
     /\ UNCHANGED <<tracker, timer>>
  \/ /\ Ignored(h)
     /\ Return
     /\ strm' = next
     /\ UNCHANGED <<tracker, timer>>
  \/ /\ ~Throws(h) /\ ~Ignored(h) /\ Future(h)
     /\ tracker' = tracker \union {h}
     /\ timer' = TRUE
     /\ Return
     /\ strm' = next
  \/ /\ ~Throws(h) /\ ~Ignored(h) /\ ~Future(h)
     /\ tracker' = Pruned(h)
     /\ IF dirty
        THEN Return
        ELSE /\ pc' = "mutate"
             /\ work' = [NoWork EXCEPT !.ev = h, !.copy = applied]
     /\ strm' = next
     /\ UNCHANGED timer

ReadNext ==
  /\ pc = "read" /\ strm.next <= srvHeight
  /\ HandleEvent(strm.next, [strm EXCEPT !.next = @ + 1])
  /\ UNCHANGED <<netVars, queue, row, applied, present, dirty, haveKey,
                 subscribed, pending, budget>>

StartEvent ==
  /\ pc = "idle" /\ queue # <<>> /\ Head(queue).op = "event"
  /\ queue' = Tail(queue)
  /\ HandleEvent(Head(queue).h, strm)
  /\ UNCHANGED <<netVars, row, applied, present, dirty, haveKey, subscribed,
                 pending, budget>>

(***************************************************************************)
(* handleEvent after its awaits: processMutation, the side effects, and    *)
(* applyProcessResult.                                                     *)
(***************************************************************************)
Undecryptable(h) == h \in Encrypted /\ ~haveKey

\* An error in a mutation leaves the copy out; an unrecoverable one, or any in
\* the first event, throws and the head does not move.
Mutate ==
  /\ pc = "mutate"
  /\ LET h == work.ev
         fails == h \in Invalid \/ Undecryptable(h)
     IN \/ /\ h \in Fatal \/ (h = 0 /\ fails)
           /\ EndTask
        \/ /\ h \notin Fatal /\ h # 0 /\ fails
           /\ work' = [work EXCEPT !.errored = TRUE, !.undec = h \notin Invalid]
           /\ pc' = "apply"
           /\ UNCHANGED strm
        \/ /\ h \notin Fatal /\ ~fails
           /\ work' = [work EXCEPT !.copy = @ \union {h}]
           /\ pc' = "effects"
           /\ UNCHANGED strm
  /\ UNCHANGED <<netVars, queue, row, applied, present, dirty, haveKey, memVars,
                 budget>>

\* Internal side effects: an OP_KEY_SHARE of this very contract stores its key.
Effects ==
  /\ pc = "effects"
  /\ pc' = "apply"
  /\ IF work.ev \in SelfShare /\ ~haveKey
     THEN StoreKey
     ELSE UNCHANGED <<haveKey, dirty, queue>>
  /\ UNCHANGED <<netVars, work, strm, row, applied, present, memVars,
                 budget>>

\* Mutant: a missing key is not remembered.
ProcessedKeyLost == [height |-> work.ev, missing |-> row.missing]

Processed == [height |-> work.ev, missing |-> row.missing \/ work.undec]

\* applyProcessResult: reactiveSet(state, contractID, contractStateCopy), with
\* the copy's own _volatile, then HEAD, height and the missing key.
Apply ==
  /\ pc = "apply"
  /\ IF work.errored
     THEN UNCHANGED <<applied, present, dirty>>
     ELSE applied' = work.copy /\ present' = TRUE /\ dirty' = FALSE
  /\ row' = Processed
  /\ subscribed' = TRUE
  /\ pending' = (pending /\ subscribed)
  /\ chan' = IF subscribed THEN chan ELSE Reconcile(TRUE, chan)
  /\ Return
  /\ UNCHANGED <<srvHeight, wire, queue, strm, haveKey, tracker, timer, budget>>

\* db/addEntry fails: the error is logged and the event is not marked processed.
ApplyFails ==
  /\ pc = "apply"
  /\ Disturb("db")
  /\ Return
  /\ UNCHANGED <<netVars, queue, strm, stateVars, memVars>>

Environment ==
  \/ ServerAppend \/ ServerAckSub \/ UnsubAcked \/ Disconnect \/ PubsubUpdate
  \/ (\E h \in Heights : IngestEvent(h)) \/ (\E r \in BOOLEAN : AppSync(r))
  \/ KeyArrives \/ Restart

Arrive == ReceiveEntry \/ ReceiveSubOk \/ DebounceFires

Task ==
  \/ StartSync \/ FetchHead \/ ReadNext \/ ReadEnds \/ StartEvent
  \/ Mutate \/ Effects \/ Apply

Fault == FetchFails \/ ApplyFails

Next == Environment \/ Arrive \/ Task \/ Fault

Spec == Init /\ [][Next]_vars

\* The JavaScript event loop runs every ready callback, the socket delivers what
\* was sent on it, timers fire, and the server answers a (re)sent SUB.
Fairness ==
  /\ WF_vars(Task) /\ WF_vars(ReadEnds)
  /\ WF_vars(ReceiveEntry \/ ReceiveSubOk) /\ WF_vars(DebounceFires)
  /\ WF_vars(ServerAckSub) /\ WF_vars(UnsubAcked)

FairSpec == Spec /\ Fairness

-----------------------------------------------------------------------------
(***************************************************************************)
(* Properties.                                                             *)
(***************************************************************************)
Tasks == [op : {"event", "sync"}, h : Heights, resync : BOOLEAN]
WorkType == [ev : Heights, copy : SUBSET Heights, errored : BOOLEAN,
             undec : BOOLEAN]
StreamType == [on : BOOLEAN, next : 0 .. MaxHeight + 1, last : Heights]
RowType == [height : Heights \union {None}, missing : BOOLEAN]
Messages == [kind : {"entry", "ok"}, h : Heights]

\* Every variable holds a value of its kind.
TypeOK ==
  /\ srvHeight \in Heights
  /\ chan \in {"off", "requested", "on", "leaving"}
  /\ wire \in Seq(Messages)
  /\ queue \in Seq(Tasks)
  /\ pc \in {"idle", "head", "read", "mutate", "effects", "apply"}
  /\ work \in WorkType
  /\ strm \in StreamType
  /\ row \in RowType
  /\ applied \in SUBSET Heights
  /\ tracker \in SUBSET Heights
  /\ present \in BOOLEAN /\ dirty \in BOOLEAN
  /\ haveKey \in BOOLEAN /\ subscribed \in BOOLEAN /\ pending \in BOOLEAN
  /\ timer \in BOOLEAN
  /\ budget \in 0 .. DisturbBound

\* The state and the height of a contract agree whatever order, repetition,
\* failure or restart brought them there: the state holds the mutation of every
\* event up to the height, less those that failed and those that could not be
\* decrypted, and the latter are remembered in missingDecryptionKeyIds.
StateFaithful ==
  /\ applied \subseteq 0 .. row.height
  /\ applied \intersect Invalid = {}
  /\ \A h \in 0 .. row.height :
        h \in applied \/ h \in Invalid \/ (h \in Encrypted /\ row.missing)

\* An event recorded as 'from the future' is never one already processed, so
\* entries do not linger and eat up the contract's cap.
TrackerAhead ==
  /\ \A t \in tracker : t > row.height
  /\ Cardinality(tracker) <= ReingestCap

\* The event being processed is exactly the next one: none is jumped over, and
\* none is processed again, although any may be delivered again.
NextOnly == MidEvent => work.ev = row.height + 1

Quiescent ==
  /\ pc = "idle" /\ queue = <<>> /\ wire = <<>> /\ ~timer
  /\ chan \in {"on", "off"}

\* Once everything has settled, a subscribed contract whose missing key has
\* arrived was rebuilt with it: no event the key opens is left out.
KeyNotForgotten ==
  Quiescent /\ subscribed /\ haveKey =>
    \A h \in Encrypted \ Invalid : h <= row.height => h \in applied

Replica == INSTANCE EventReplica WITH
  last <- srvHeight, at <- row.height, folded <- applied,
  Skippable <- Invalid \union Encrypted

\* The client implements the abstract replica of the log.
ImplementsReplica == Replica!RSpec

\* However often the socket drops, events come early, twice or not at all, and
\* the client restarts, it ends up at the server's HEAD with a live subscription.
CatchesUp == <>[](row.height = srvHeight /\ subscribed /\ chan = "on")

=============================================================================
