# A verification development for Chelonia (`@chelonia/lib`)

TLA+ models of the parts of Chelonia whose correctness depends on the order in
which things happen, TLC instances that check them, and TLAPS proofs of the
results that matter most. Every definition is translated from the sources in
`src/src/*.ts`; `PROJECT.json` says from which lines.

## 1. The system

Chelonia is a client library for append-only, end-to-end encrypted contracts. A
contract is a log of events (`SPMessage`) on a server; a client folds the log
into a state by running the contract's `process` functions, and follows it over a
websocket. All of a client runs on one JavaScript event loop: code between two
`await`s is atomic, everything else interleaves.

| Component (source) | State it keeps | Operations | Interacts with | What must hold |
|---|---|---|---|---|
| Contract synchronisation (`internals.ts` `in/syncContract`, `in/handleEvent`, `checkMessageOrdering`; `reingestTracker.ts`) | `state[cid]`, `state.contracts[cid]` (HEAD, height, missing keys), `subscriptionSet`, `pending`, tracker of early events, debounce timers | handle an event, sync from the server, re-sync from scratch, record and fill a gap | event queue, log database, pubsub, key shares, journal | the state is a fold of the log up to its height; no event skipped or taken twice; a gap is filled; a rebuild asked for takes place |
| Event queue (`queueEvent`, `@sbp/okturtles.eventqueue`) | one FIFO per contract, one per `publish:cid` | enqueue, wait | everything | one task of a contract at a time, in order |
| Pubsub client (`pubsub/index.ts`, `chelonia/pubsub/update`) | socket, reconnection timer and attempt count, `pendingOperations`, `subscriptionSet`, `kvFilter` | sub, unsub, set a KV filter, retry, reconnect, destroy | server, `CONTRACTS_MODIFIED`, contract sync, KV | what is wanted is subscribed; client and server agree when nothing is under way; the client reconnects |
| Persistent actions (`persistent-actions.ts`) | actions by id, their status and timer; a JSON copy in the database | enqueue, attempt, force a retry, cancel, save, load, unload | database, arbitrary selectors | an action is retried until it succeeds, is cancelled or runs out of attempts; one attempt at a time; survives a restart |
| Contract references (`contract/retain`, `release`, `remove`, `withRetained`) | `references`, `ephemeralReferenceCount` | retain, release, garbage-collect | contract sync, event queue | kept while referenced, removed and left alone after |
| Publishing (`publishEvent`, `out/*`, `recreateEvent`) | outgoing queue per contract | publish, retry on 409, rebuild on the new HEAD | server, queue, key ring | published at most once, valid against the HEAD it lands on |
| Log database (`db.ts`) | entries by hash, HEAD, height index | addEntry, read | contract sync, publishing | HEAD and entries agree after any crash, and accept the next event |
| Reading the server's log (`eventsAfter` in `utils.ts`, `out/eventsBefore`, `out/eventsBetween`, `latestContractState`) | a page, its offset, what is still wanted | fetch a page, enqueue its events, end | contract sync, application | no event left out, nothing outside what was asked for |
| Journal (`journal.ts`) | snapshots and patches in the contract's row | record, trim, replay, redact, clear | contract sync, application | the window is unbroken and bounded; replay gives the state |
| Key ring (`processMessage` OP_KEY_*, `utils.ts` permissions, `signedData.ts`) | `_vm.authorizedKeys`, `_volatile.pendingKeyRevocations` | compose, sign, publish again, add, delete, update keys | contract sync, publishing | clients agree on the public keys; permissions are only passed on; what is deleted stays so |
| Foreign keys (`watchForeignKeys`, `syncContractAndWatchKeys`) | `_volatile.watch`, `pendingKeyRevocations` | watch, mirror rotations | several contracts' queues | a revoked foreign key is eventually removed |
| Key requests and post-sync operations | `_vm.pendingKeyshares`, `keyshares`, `invites`, `postSyncOperations` | request, answer | publishing, queue | each request answered once |
| Key-value store (`kv.ts`, `kv/set`, `kv/get`) | slots, mirror, pending writes and loads, echo ids, filters, retry timer | define a slot, load, update, clear, take a frame, reconnect | pubsub, event queue, server (etag) | no lost update; value and etag belong together; what others write is seen |
| Reset and instances (`chelonia/reset`, `_instance`) | the instance token | drain, tear down, reseed | everything | nothing of the old session acts in the new one |
| Clock sync (`time-sync.ts`), files (`files.ts`), local selectors, zkpp, encrypted and signed data, `SPMessage`, manifests | | | | |

### What is hard about it

* **Stale copies.** `handleEvent` works on a clone of the state across several
  awaits and writes it back at the end; other contracts' side effects write the
  original in the meantime.
* **Two memories.** The log database keeps what it is given at once, the root state
  is saved by the application when it likes: a restart brings back two moments of the
  past that need not be the same.
* **Clients that see different things.** The key ring is made by every client for
  itself from the same log, but not every client can decrypt every item of it.
* **Delivery.** Events arrive over a socket that drops, by web push, and by
  paging the server, in any combination.
* **Retries racing late answers** in the pubsub client and in persistent actions.
* **Failure part-way** between the database, the state and the bookkeeping row.
* **Liveness** that hangs on one timer or on one event listener.

## 2. The modules

| Module | What it is |
|---|---|
| `ContractSync` | one contract of one client: queue, stream, state, tracker of early events, subscription, restarts |
| `EventReplica` | what contract synchronisation promises: a replica that takes the log's events one at a time, in order, or starts over |
| `ContractSyncProofs` | theorems about `ContractSync`, and that it implements `EventReplica` |
| `PubSub` | the websocket client: its connection, and the subscription of one channel |
| `PubSubProofs` | theorems about `PubSub` |
| `PersistentActions` | one entry of the retry queue, over all the objects its id gets |
| `PersistentActionsProofs` | theorems about `PersistentActions` |
| `ContractRefs` | which of several contracts are kept and followed: references, scopes, watches for foreign keys, removals |
| `ContractRefsProofs` | theorems about `ContractRefs` |
| `Publish` | what several clients write to the logs: queues, checks, rebuilding, refusals, hooks |
| `PublishProofs` | theorems about `Publish` |
| `Kv` | one slot of the key-value store: the server's value, the mirror, loads, writes, frames |
| `KvProofs` | theorems about `Kv` |
| `EventStream` | reading the server's log, page by page |
| `Journal` | the journal as functions of its entries: recording, trimming, rebuilding |
| `JsonPatch`, `JournalValues` | the journal's default differ, applier and redactions on JSON documents; a set of documents to run them on |
| `EventStore` | a contract's entries and HEAD, its state and row, and its journal, under crashes; extends `EventStream` and `Journal` |
| `EventStoreProofs` | theorems about `EventStream` and `EventStore` |
| `KeyOps` | what one key operation does to a key ring, as functions |
| `KeyRing` | several clients that compose, publish and process key operations; extends `KeyOps` |
| `KeyRingProofs` | theorems about `KeyRing` |
| `MCContractSync`, `MCPubSub`, `MCPersistentActions`, `MCContractRefs`, `MCPublish`, `MCKv`, `MCEventStore`, `MCKeyRing` | their instances for TLC |

A module's environment steps are numbered by `budget`: each fault or call of the
application is of a *kind*, is allowed only if the instance's `Disturbances` holds
that kind, and at most `DisturbBound` of them happen. Everything else (timers,
answers, the event loop) is unbounded. Operators whose name says how they are
wrong (`PastOffByOne`, `ForgottenSubs`, ...) are plausible bugs, used to see that
a property would notice them; no specification uses them.

### ContractSync

Events are their heights. `applied` is the set of mutations the state holds, and
`row` the bookkeeping of `state.contracts[cid]`. An event passes through
`handleEvent` in four steps, cut where the code awaits: `HandleEvent` (guards,
height check, the clone), `Mutate`, `Effects`, `Apply`. A task of the queue is
`StartEvent` or `StartSync`; a sync goes `FetchHead`, then `ReadNext` for each
event, each through the same four steps, until `ReadEnds`. `Past`, `Future`,
`Throws`, `OutOfReach`, `Ignored` and `Pruned` are the branches of
`checkMessageOrdering` and the re-ingest tracker. `KeyArrives` is the OP_KEY_SHARE
of another contract; its side effect (`StoreKey`, `MustResync`) marks this one
dirty and queues the re-sync. `DebounceFires` is the timer of
`reprocessDebounced`. `chan` is the pubsub client's view of the subscription,
changed by `Reconcile` (`chelonia/pubsub/update`), `ServerAckSub`, `UnsubAcked`
and `Disconnect`.

The client runs with its defaults (`strictOrdering`, `strictProcessing`,
`acceptAllMessages` and `skipSideEffects` off). The root state is taken to be
saved by the application, so `Restart` keeps it and loses what is in memory. The
stream of a sync may hold events past the HEAD it fetched, as the server's does.
`ReceiveSubOk` always queues a forced sync: the handler of
`subscription-succeeded` checks `this.subscriptionSet`, but its `this` is the
pubsub client (`.call(client, event)`), so the check written to skip contracts
removed meanwhile never skips one.

### PubSub

`socket` and `timer` are `client.socket` and the reconnection timer, `failed` the
attempt counter; `Open`, `OnClose`, `TimesOut`, `OfflineEvent`, `OnlineEvent` are
the handlers of those names. `pend` is `pendingOperations`: for each kind of
request the number of times its current instance was sent. A send loop of an older
instance does nothing once its timeout comes (the check by reference in
`runWithRetry`), so it needs no state. Chelonia's own set is `wanted`; `Update` is
`chelonia/pubsub/update`, which looks at confirmed subscriptions only. `offline`
and `online` events are queued by the browser and dispatched later than
`navigator.onLine` changes. The server is external: it handles requests in order,
a SUB sets the filter it carries, a KV_FILTER without a subscription is refused.
`isLocal` is false.

### PersistentActions

`object[g]` is the g-th `PersistentAction` with this id: `load` makes a new one,
while an older one may still be awaiting something. `tasks` counts the calls of
`attempt` at each of its awaits. `timer` is the timer the object remembers, and
`loose` counts those overwritten by a newer one. `writes` are calls of
`chelonia.db/set` not yet stored; the database serves calls in order. `Json` is
what storing the options does to `maxAttempts`.

### ContractRefs

Each contract has its `queue`, whose first task is at work; `at` is how far a sync
in front has come, cut at its awaits: `SyncStart`, then `HeadIsOurs` (nothing new)
or `EventsRead` and `EventsApplied`, or `SyncFails`. What `ContractSync` models
inside a sync is left out here. `row` is `state.contracts[cid]`: none, one without
a type (retained, never synced), one with a state, or the `null` of a permanent
deletion. `refs` and `eph` are the two counts; `held`, `scope` and `on` are what the
application itself has taken and not given back, so `CountsAgree` compares the
library's books with the application's. `Foreign[c]` are the contracts c uses keys
of; `found`, `pendingWatch`, `postOp` and `watch` are the stages of the watch on
one: read from the keys, in the state, an operation to queue, and the watch itself.
`sameNames` says which contracts give these keys the names they have at home,
because `subscribeToForeignKeyContracts` looks watches up by the local name while
they are stored under the foreign one.

The application is legal: it releases only what it holds, and after a restart it
retains again what it finds saved, as `docs/contracts.md` ("Boot") has it do.
Because the saved counts are kept and every start adds one to them, a contract
carried over a restart is released more often or stays; `Reload` sets `held` to
what the library counts.

### Publish

Each publication is one of `Msgs`, with its owner and contract, and the parts the
application asks for: an action, or keys to add, delete or update; several of them
in an `OP_ATOMIC`. `queue` is the queue `publish:contractID` and `lane` the place of
a check in the contract's own. The queued function is cut at its awaits: `Start`
(its turn; `prepublish` and the handler of `EVENT_HANDLED`), `HookDone` (what
`prepublish` itself published has ended, as in `keyRequest`), `Enter` (the
contract's queue is free: state, `preSendCheck`), `Check` (`processMessage` on a
copy, `recreateEvent`), `Send`, `Answer` or `Lost`, and after a refusal perhaps
`ForcedSync`. `seen` is how many events of each log a client has in its state, so
the state itself is `KeysAt`: each event of the log carries the keys after it. A
key never was there, is active, or is gone (`_notAfterHeight`). `Run` is
`processMessage` for those, where a `ChelErrorWarning` does not end an `OP_ATOMIC`
and another error does; `Kept` and `Recreated` are `recreateEvent`, which judges
each part on the state before the event. The server takes what names its HEAD.

Processing an event (`Receive`, `Sync`) is one step here, since `ContractSync`
models what is inside. A contract has several writers but each publication one
owner, and one `prepublish` at a time is under way. Left out: `disableAutoDedup`,
updates that keep the key's id, encrypted key ids, and retries of what the server
refuses other than with 409, of which there are none.

### Kv

The server's writes are numbered; the number is the etag and stands for the value,
0 for no etag and no value (`null` and `undefined`). `data` is what a schema can tell
apart, or `clear`. `lane` is the contract's queue as far as the slot goes and `job`
what is under way in it, cut at its requests: a load or an authoritative GET is
`StartLoad` or `Ask`, then `ServeGet`, then `LoadDone`; a write is `StartUpdate` or
`StartClear`, then `ServePost`, then `Succeeded`, `Refused` (with a retry from the
server's value) or `WriteFails`. The data-loss guard of `update` is a GET before its
POST (`ReloadDone`). `slot` numbers the definitions: an answer for an older one, or for
a contract no longer followed, is dropped (`Stale`). `echoes` are the CIDs of this
client's writes and whether a conflict was met; they expire, and `Recorded` evicts.
`StartFrame` has the three outcomes of `_handleRemote`: the client's own echo
(`Suppress`), a frame whose place in the order is doubtful (`Ask`), and the rest, where
the last one handled wins (`ApplyFrame`). `wire` keeps its order, as a WebSocket does,
but HTTP answers may overtake it.

`basis` is kept with each write of an update: the value its reducer was given.
The slot loads on sync and refreshes on reconnection, as is the default, has no
`match` predicate, and its schema accepts or refuses but does not change data. Left
out besides: `onUpdate` and the guard against calling back from it, manual `ifMatch`,
the GET that recovers a conflict without an etag, and frames and conflicts whose
body is ahead of the client's contract.

### EventStream, Journal, EventStore

An event is its height and so is its hash: the server's log only grows (`top`).
`strm` is one call of `eventsAfter`: the page it has, where in it it is, what
`remainingEvents` is down to and how much `requestCount` has counted. `FetchPage` is the request,
`ReadEvent` one event parsed and perhaps enqueued (`Enqueues`), `EndOfPage` and
`NextPage` the end of a page, `ConnectionCut` a page that ends early, which the code
cannot tell from a full one. `eventsBefore`, `eventsBetween` and `latestContractState`
are the three other uses of it; `got` is what came out.

`EventStore` reads such a stream in `SyncRead`, or takes an event of the websocket in
`ReceiveEvent`; `Handle` is `handleEvent` up to the mutation, on a copy of the state.
`addEntry` is cut at its writes: `CheckEntry`, `WriteEntry`, `WriteHead`, and then
`Apply` is the synchronous rest of `applyProcessResult`, with the journal's
`recordEvent`. `DbFails` may come before each, and so may `Crash`, after which the
database is as it was and the root state is what `Save` saved last. `light` is a
lightweight client, whose database keeps nothing and whose HEAD is the row's. `Resync`
empties the row. `WriteOutside` is code that writes the state past the journal, such as
`setPendingKeyRevocation`; `drift` remembers it until the next snapshot.

`Journal` is written as functions: `recordEvent` gives the new entries, with its
re-seeding (`Reseeds`), `appendAndTrim`, and `reconstruct` with its refusal of a journal
that does not apply (`Corrupt`). The differ and the redactions are parameters. For TLC
they are those of `JsonPatch` (`DiffInto`, `applyOne`, `Walk`), which evaluates
`defaultDiff`, `defaultApplyPatch` and `applyRedactions` on every pair of
`JournalValues`' documents: objects, arrays that shrink and grow, an absent key, a
redactor that throws.

A stream at a time; the journal's configuration outlives a crash, as the application
sets it again. The branches of `recordEvent` for an event behind or equal to the last
entry are there but not reached, since a re-sync deletes the journal with its row and
the height check stops repeated events. Left out: a server whose log forks or is
cut, a differ or redactor that throws other than for its value, the type and
description in an entry, the JSON pointer token `-`, the contents of the height index,
and the dirty flag and early events, which are those of `ContractSync`.

### KeyOps, KeyRing

Each client has its own ring `vm[c]` and has processed `at[c]` events of the one `log`.
`Compose` is `out/keyAdd`, `keyDel`, `keyUpdate` and `atomic` on the state of that moment,
with the choice of a signer in `signData` (`Signers`). `Publish` is what the outgoing
queue does: accepted at the HEAD, otherwise `recreateEvent` (`Recreated`), sent again,
or dropped; `raw` is `disableAutoDedup`. What happens between is `Publish`'s matter, the
module of that name. `Begin`, `Step` and `Finish` are `handleEvent` on its copy, one
operation of an `OP_ATOMIC` after the other: `Step` passes over a `ChelErrorWarning`,
and any other error ends the event. `Readable` is what a client can decrypt; it passes
over the rest. `SetPendingKeyRevocation` writes the state in place.

`KeyOps` has the checks as the code has them: `permissions: []` is the same as none; an
update that names its own id is one without an id; an update of a key that is there
only adds permissions; a missing old key is a warning, and wins over other errors of
the same payload. Two things of the code are not properties but belong to what a
reader should know. `updateKey` does not look at the ring level of a key that is already there. An
update that names a key deleted before as the one to replace moves its
`_notAfterHeight` forward. Left out: purposes, `allowedActions` (which obey the rules
of permissions), the secrets in `meta`, invites, and foreign keys, whose watches are in
`ContractRefs`.

## 3. What the runs check

| Run | Properties | What it shows |
|---|---|---|
| `contract_sync` | `StateFaithful`, `TrackerAhead`, `NextOnly`, `KeyNotForgotten`, `ImplementsReplica` | safety under drops, failed requests and writes, early and repeated events, restarts, re-syncs, a late key |
| `contract_sync_live` | `CatchesUp` | the client ends at the HEAD, subscribed |
| `contract_sync_key` (violated) | `KeyNotForgotten` | a key share in the contract itself: the dirty flag is lost |
| `pubsub` | `ViewsAgree`, `RoomKept`, `TimerAlone`, `SettlesDown` | subscriptions and the connection under every fault |
| `persistent_actions` | `OneRun`, `GoneForGood`, `StartsLoaded`, `InHand`, `Ends` | a retried action from its enqueueing to its end, over restarts |
| `contract_refs` | `CountsAgree`, `KeptWhileNeeded`, `NeededIsFollowed`, `UnneededIsRemoved`, `ForeignKeysFollowed` | a contract and one whose keys it uses, under every legal use of references |
| `contract_refs_watch` (violated) | `ForeignKeysFollowed` | released and retained again, a contract loses the one whose keys it uses |
| `publish` | `OnceInLog`, `InCallOrder`, `FitsItsPlace`, `TwiceAtMost`, `HookCalled`, `DoneAsAsked`, `NeverStuck`, `GetsOn` | two clients rotate one key at once, publish elsewhere from a hook, and register a contract |
| `kv` | `NoLostUpdate`, `OthersSeen` | a slot written by this client and by others, redefined, released, reconnected, restarted |
| `event_store` | `LogIsChain`, `NextAccepted`, `WindowUnbroken`, `HeadRebuilt`, `NothingSkipped`, `SyncFindsHead` | entries, HEAD, state and journal of a contract that is read in pages, over crashes, failed writes, re-syncs, writes past the journal and changes of its configuration |
| `key_ring` | `PublicAgree`, `GrantsFounded`, `PendingIsActive`, `RevokedStays` | two clients, one of which cannot decrypt, change the same keys at once |
| `persistent_reload` (violated) | `KeepsTrying` | an action without a limit is given up after a restart |

Each component's module also defines a `TypeOK`, which is no run's property. It is proved for
all but `KeyRing` (section 4), on whose instance TLC checked it. `MCPubSubResub.cfg`, `MCPublishKeys.cfg` and
`MCPublishCrossed.cfg` reproduce three of the disagreements in section 5 and belong to no run;
nor does `MCPublishLive.cfg`, with which TLC finds that publications end (`Ends`) under two
faults.

### Bounds

* `contract_sync`: a log of five events (0 to 4), one undecryptable at first, one
  whose mutation throws, one unrecoverable; three disturbances. A lost, an early
  and a repeated event need one each; a restart or a re-sync in the middle of a
  gap needs the third. `ReingestCap` 1 makes the cap matter with two early events.
  `QueueBound` and `WireBound` hold back only what the environment adds (server
  pushes, calls of the application); the client's own enqueues are not bounded.
* `contract_sync_live`: a log of four events and two disturbances.
* `pubsub`: two filters, five disturbances, one reconnection attempt and two
  sends per request before giving up: losing the connection, failing to get it
  back and giving up all happen. `WireBound` delays only a retry.
* `persistent_actions`: three attempts per load (a forgotten timer needs the
  third), up to three objects, eight disturbances. `GenBound` holds back restarts and unloads.

* `contract_refs`: two contracts, one with a key of the other, which is the
  smallest case where a removal meets a watch; three calls (release and retain
  again, with a scope across them) and two disturbances; at most two scopes at once.

* `publish`: two clients, two contracts, five publications, three keys, three
  attempts and one fault. Two rotations of one key meet, one of them in an
  `OP_ATOMIC` with an action that must survive it; a third publication of the same
  client waits behind; a 409 can come up to three times, and the second at one
  height forces a sync. `MaxAttempts` is the code's option (default 5). One fault
  is enough for a lost answer with the request still on its way.

* `kv`: two writes of others, two calls, one fault and one redefinition with a schema
  that accepts more; one echo is kept and a write is tried twice. A lost update needs
  a value, another's write over it and this client's; an echo is evicted by the second
  call, a retry uses up the attempts. Checked once, and not part of the runs: four
  writes without a fault, and three with two faults and no call.

* `event_store`: a log of four events (0 to 3), of which two are key operations and one
  throws; pages of two events, so that a page overlaps the next; `MAX_EVENTS_AFTER` 3
  and limits 1 and 3; two disturbances. A torn HEAD needs one, its meeting with a
  re-sync or an older saved state the second. Snapshot intervals are 1, 2 (the default)
  and what is invalid (-1): with an interval of 1 the window is cut within the log.
* `key_ring`: two events of two authors after OP_CONTRACT, one flag, two clients of
  which one can decrypt; five key identifiers for three names. Two events are enough
  for every pair of wishes to cross: a rotation and its reverse, a deletion and a
  permission change, an addition by a key that may not pass on what it grants, an
  `OP_ATOMIC` that deletes its own signer. `Wishes` are chosen by hand so that
  each check of `KeyOps` both passes and refuses.

`CHECK_DEADLOCK FALSE` everywhere: with the disturbances used up, a client with
nothing to do rests.

### What the passing runs leave out, and why

Some kinds of disturbance are left out of a passing run because with them a
property fails, as the code stands. Each is a hazard in `PROJECT.json` at its line:

| Kind | Run | What happens with it |
|---|---|---|
| `keyMidEvent`, `SelfShare` | `contract_sync` | the dirty flag is written over (shown by `contract_sync_key`) |
| `http`, `update`, `key` | `contract_sync_live` | nothing retries the request of a sync that failed; a re-sync goes through `resub` |
| `resub` | `pubsub` | `sub()` is a no-op while the channel is in `subscriptionSet`, where its UNSUB leaves it until the OK (`MCPubSubResub.cfg`) |
| `trusted` | `contract_refs` | shown by `contract_refs_watch` |
| `failWatch` | `contract_refs` | a failed sync of a contract to watch loses its `pendingWatch` entries, already spliced |
| `reloadWatch` | `contract_refs` | the operation that sets a watch is in memory only; after a restart nothing acts on `pendingWatch` |
| `earlyNew` | `contract_refs` | a scope left before its first sync: no row to remove, and the sync still runs |
| `forceLate` | `contract_refs` | a forced sync queued behind a removal follows the removed contract again |
| `resyncWatcher` | `contract_refs` | while its watcher is re-synced, and so not subscribed, a contract looks unneeded |
| `refilter` | `pubsub` | an OK with an old value of the filter is taken for the newest |
| `double` | `persistent_actions` | two attempts while `skipCondition` is awaited run the invocation twice at once |
| `unloadBusy` | `persistent_actions` | an attempt under way at `unload`, or a forgotten timer, runs the action after it |
| `saveUnloaded` | `persistent_actions` | a save for another entry erases the unloaded ones |
| `gap` | `kv` | a write after a slot's first load and before the server has handled the SUB is not seen until the next one: the forced sync that follows the SUB reloads the contract, and slots only after a reconnection |
| `refetch` | `kv` | the GET a frame asks for fails: it is logged, and the frame is gone |
| `recover` | `kv` | redefining a slot in error whose value was kept takes that value for loaded, without a load |

`ViewsAgree` and `RoomKept` hold up to a refused or given-up request (`lost`):
the code has no step that repairs one. `InHand`, `GoneForGood` and `Ends` hold
up to writes that died with the process (`torn`). `CountsAgree` counts a
`withRetained` that failed before its callback as still holding its reference
(`leaked`), since its release is never reached. `NeededIsFollowed` excepts a
contract whose last sync failed. `UnneededIsRemoved` excepts a contract that got a
watch for one that was gone by then (`orphan`), which nothing releases, and asks
nothing of a row without a type, which `removeImmediately` leaves alone.

`OthersSeen` lets the mirror be behind by writes of this client, and up to a value
that a schema refuses. It must: a frame that a load or a write has overtaken is
applied when it comes (`kv.ts:2319`) and puts the mirror back, and the client's own
echo, which would mend it, is suppressed. `docs/specs/KV-REVAMPED.md:483` says that
last-write-wins "keeps the mirror in lockstep with the server"; it does up to the next
write of another. `NoLostUpdate` and `Paired` do not depend on it.

`publish` has no key operation of which another client does a part (section 5), and
one hook only: two requests for keys of the same client whose
contracts are each other's asker would each hold the queue the other waits for
(`chelonia.ts:2608`), which `MCPublishCrossed.cfg` shows. The handler of `EVENT_HANDLED`
stays installed when a publication is omitted, dropped, fails its check or loses
its connection; `HookCalled` only asks that it is never called wrongly.

`NextAccepted` excepts a HEAD that was torn from its entry. `HeadRebuilt` excepts a state
written past the journal (`drift`) until the next snapshot. `PublicAgree` holds up to
the first event that parts the clients (`parted`): one that mixes private and public
items, one whose private signer has public items (`OP_KEY_UPDATE` alone lets a private
key sign for them, `skipPrivateCheck`), or one that adds or updates a public key by a
private item or the reverse. Who cannot decrypt then passes over a part of what the
others do, as the code stands. `parted` is read off the ring of each client when it begins
an event (`Begin`), so that it takes a client that can see the mixture to excuse anything.

### Fairness

* `ContractSync`: the task at work and the reader go on (promises settle), a
  message that arrived is handled, the debounce timer fires, the server answers
  a SUB and an UNSUB. Nothing is assumed of faults or of the application. In the
  liveness run no request fails, because no code path would try again.
* `PubSub`: timers fire, the browser dispatches its events, the `close` event
  follows `socket.close()`, and a connection opens if the line stays up. The
  server handles and answers what it gets, unless a disturbance says otherwise.
* `PersistentActions`: what is awaited ends one way or another, timers fire,
  writes are stored, and the application calls `load` again after a restart or
  `unload`, which the queue's documentation asks of it.
* `Publish` (`FairSpec`, for `MCPublishLive.cfg`): one condition for all publications together. As long as one of them has a next
  step of its own (`Attempt`) or of the server (`Serve`), such a step is taken some time:
  promises are resumed, queues go on to their next entry, the delays before an attempt pass,
  and a fetch is answered or fails. Nothing is assumed of calls or faults, nor that any one
  client or publication gets its turn; that all end follows from `GetsOn` and `NeverStuck`.

## 4. What is proved

TLAPS checks these for every value of the constants that the named assumptions
allow.

* `ContractSyncProofs`: `TypeCorrect`; `StateFaithfulAlways` and `NextOnlyAlways`;
  `TrackerAheadAlways`; `ReplicaRefinement`. `StateFaithful` is not inductive: a
  step of `Apply` writes back the clone taken awaits ago, so the clone must be
  known to agree with the state and the event to be the next one. The inductive
  invariant is `SyncInv`: `StateFaithful`, `NextOnly`, `InLog` (nothing queued or
  at work is ahead of the server's log) and `CopyFaithful` (the copy is what the
  state was when the event was begun, with the event in it if its mutation
  succeeded). `TrackerInv` says that the tracker is ahead of
  the height and of the event at work; its bound comes from the check in
  `noteFutureEvent`. The refinement maps
  the server's HEAD, the row's height and the applied set to the replica's
  variables: every step is a step of the log, an event taken or passed over, a
  fresh start, or a stutter. `KeyNotForgottenAlways` assumes `NoSelfShare`: no event
  of the contract shares the key with it, and none comes in the middle of an event,
  the two cases in which section 5 shows the dirty flag lost. All else may happen.
  `KeyInv` says that a row is never without the flag while an event that the key
  would read is missing from it (`KeyRow`, `KeyWork`), and that the flag of a subscribed
  contract has a sync to come (`SyncComes`): one that waits in the queue, or the one
  that the confirmation of a subscription brings. For that a confirmation on the wire
  must be that of the open request (`OneAck`), and a row that a restart left without a
  subscription have none under way (`Apart`).
* `PubSubProofs`: `TypeCorrect`, `ConnectionSafety`, `TimerAloneAlways`,
  `NeverStuckAlways`, `RoomKeptAlways`. `TimerAlone` needs to know that a socket
  exists only while the client lives (`ConnInv`), or a `close` could schedule an
  attempt for a client that gave up. `NeverStuck` needs that the last event not
  yet dispatched tells what `navigator.onLine` is (`LineInv`). `RoomKept` needs
  that a SUB and an UNSUB are never pending together (`RoomInv`), and assumes that
  `resub` does not happen; the instance of `MCPubSubResub.cfg` shows that the assumption is needed.
  `ViewsAgreeAlways`, that a client and a server at rest agree on the channel and its
  filter, needs what is on its way between them (`ViewInv`). Answers and
  requests in flight are one sequence (`Flow`): while the client is subscribed no UNSUB is
  in it, while it is not no SUB is, but for the requests it waits for, and a
  filter is only ever followed by newer ones (`Ordered`); the last answer tells what the
  server has served (`Answers`). Losing or handling a message thins that sequence, which
  keeps `Ordered`, so each is shown once (`OrderedThinned`). It assumes that `refilter` does not happen, which the run leaves out for the reason in
  section 3.
* `ContractRefsProofs`: `TypeCorrect`, `Counted` and `KeptAlways`, for every set of
  contracts and users, every relation of foreign keys and every kind of
  disturbance. Types need `CountsAgree`: a count may go down only because the
  application still has what it gives back. `CountsAgree` in turn is about scopes
  whose syncs are tasks in a queue, so the invariant adds `AwaitInv` (a user in a
  queue waits, for that contract, and is in no queue twice) and `AtInv` (a sync
  under way has its task, and its contract is not deleted). Every action makes a
  queue step: a queue stays, gets a task, or loses its first, and `StepAwaits` shows
  once that such a step keeps `AwaitInv`. `KeptWhileNeeded` follows, because the
  removal asks again when it runs.
  The other three are about contracts at rest, so each needs what a queue that is not empty
  still has to do. `NeededAlways` (`NeedInv`): who needs a contract that is not followed has
  a sync in its queue, or its last sync failed. `ForeignAlways` (`KeysInv`, `LinkInv`): of
  each foreign contract whose keys are still alive there is a watch, or an entry of
  `pendingWatch` whose `watchForeignKeys` or watch task is to come or is running (`Coming`). For
  that, what a sync found must have its post-sync operation (`Posts`), a sync under way must
  be the first task (`Busy`), and an `unwatch` is only for keys that are gone (`Fit`). `UnneededAlways` (`LeaveInv`): in the queue of
  a contract nobody needs every sync has a removal behind it (`Closed`), or would have one if
  it follows a removal (`Reclosed`, all that is known of a contract with the ghost `orphan`);
  a contract without a row has no open scope, so no release is lost on it (`Opened`). The
  first has no hypothesis; those of the other two are the kinds of disturbance that the runs
  leave out, each of which breaks the property (section 3).

* `PersistentActionsProofs`: `TypeCorrect`, `GoneAlways`, `DurableAlways`, `StartsAlways`,
  `InHandAlways` and `OneRunAlways`, for every limit of attempts (or none) and every number of objects an id
  gets. `TypeInv` counts: the failures of an object are at most the disturbances so far.
  What makes the rest hard is what objects leave behind: calls awaited and timers forgotten.
  `LeftInv` (`Abandoned`) says that only an object that was resolved can have left anything,
  and that the id is then out of the list, of the database and of what `load()` has read,
  so no other object of the id comes to be. `RunInv` adds that each object awaits
  `skipCondition` or the invocation, never both or two of one. `InHand` is the safety half
  of `Ends`: an action that has not ended is in somebody's hand, an awaited call, a timer, or
  the database. Its invariant (`HandInv`) has to say of the object in the list that what it
  still awaits leads to a timer or to its end (`Held`), and that a `load()` under way has not
  missed the entry (`ReadInv`). `Durable` is proved first and used for it; no run has
  it, since a restart is possible at any moment and `InHand` asks for the entry after it. The hypotheses are again
  kinds of disturbance that the run leaves out (`unloadBusy`, `saveUnloaded`, `double` of
  section 3), each only for the theorems that need it.

* `PublishProofs`: `Ordered` and `Once`, for every number of clients, contracts,
  publications and hooks, with every kind of fault. They need two invariants, in
  turn. `QueueInv` is about the queues: they hold what is under way in the order of
  the calls (`Sorted`), only the first of a queue has been started (`Holds`), hence
  `Fifo`: while one is not over, those called later in its queue have not started.
  `LogInv` is about the log: where an event is (`Placed`), and `Late`: a request
  overtaken by a later one of its client names a HEAD that has gone, so the server
  will refuse it. The assumption used is that each event is published by one hook
  at most (`MsgsAssumption`). `EnqueueStep`, `SettleStep` and `Advance` are the three
  things that can happen to a queue, each shown once. `HookCalledAlways` needs
  `HookInv`: what is started or published has its hook installed or called, the form of the event that
  the server took does not change afterwards, and an installed hook has its event still
  ahead of what its client has seen. `TwiceAlways` needs `TriedInv`: the heights an event was sent with
  never go down, and one sent twice is behind the log (`Forced`), so the next is higher
  (`Climbs`).
  `FitsItsPlaceAlways` is about what the events consist of, so it first needs what `Run` and
  `Recreated` do to a payload of any length. They are folds; that the fold has a value after
  each part, and which (`RunSteps`, `SiftSteps`), is an induction over the parts, made with
  the least number that fails (`LeastNat`, `FoldExists`). Then: a payload without a key in two
  parts runs through just if each part would alone (`RunApart`), so what is left of
  it where it runs through does so too (`RecreatedFits`). `FitInv` says that an event fits
  the keys of its contract as long as the HEAD it builds on is the server's (`Ready`): the
  server takes no other. The hypothesis `AskedApart` is that no payload has a key in two
  parts, which all have that are no `OP_ATOMIC`: one that adds, deletes and adds a
  key is rebuilt to one that adds it twice, which is valid nowhere. `TypeCorrect`
  needs no such hypothesis. `DoneAsAskedAlways` turns to what is lost on the way: `DoneInv`
  says that a key to be ended which has always been active is still in the event, each time
  it is built anew (`Carries`, from `Selected` leaving out no part that is still to be done).
  When the server takes the event the key is active no more (`RunEnds`, for which nothing
  that comes after it in the payload may touch the key, hence `AskedApart`), and before, the
  publication cannot end without an error. The second hypothesis, `AskedSingle`, is that a
  part deletes or replaces one key at most; with more the code does not keep the property
  (`MCPublishKeys.cfg`). The payloads of `MCPublish.cfg` satisfy both.
  `GetsOnAlways` and `NeverStuckAlways` are the safety half of `Ends`: every step of a
  publication brings it nearer to its end, and as long as one is under way one of them can
  step. `Effort` counts the attempts left, ten steps each; that it never goes below zero or up
  needs the number of attempts made to be bounded wherever another may follow (`TryingInv`). For
  `NeverStuck`, `WaitInv` says who holds a contract's queue (`LaneHeld`: a
  publication that is checked there, never one that waits for another), and that the
  publication of a hook has been called once it is waited for (`Called`). What is left is that publish queues do not wait in a circle. `HooksOrdered`
  excludes that: the queues can be numbered so that each hook publishes in a lower one;
  of all that is under way, the head of the lowest queue can step (`HeadGoesOn`). The
  hypothesis is needed, as `MCPublishCrossed.cfg` shows, and holds of `MCPublish.cfg`. `CanStep` names
  what is waited for instead of `ENABLED`, which the prover does not handle.

* `KvProofs`: `UpdatesKept`, `PairedAlways`, `OthersSeenAlways` and `TypeCorrect`. The first
  two hold without any assumption on the constants, and for the kinds the run leaves out as
  well. Neither is inductive alone: a write is
  made from the mirror (so its value must be that of its etag), and the mirror takes
  what was written. `KvInv` says it of the mirror (`Good`), the request under way
  (`Sent`: what it is made from is the value of the etag it is conditional on, or it is
  conditional on there being none) and the log (`Kept`), and that frames are of writes
  there are (`Frames`). Its parts take the log as a parameter, so that `Grown` can
  say once that they outlive an append. A value without an etag, as a frame without a
  CID leaves it, is harmless: such a write is accepted by an empty log only.
  `OthersSeenAlways` is about a client at rest, so its invariant says where a write of
  another is as long as the mirror does not have it (`SeenInv`): in a frame or behind a load
  in the queue (`Covered`), in the answer of the load under way (`Fetched`), in a frame on
  the wire, or in a reload that a reconnection owes (`Due`). It says so for the mirror, for an
  answer, and for each frame in the queue, since applying a frame puts the mirror back to
  it. An answer is sometimes dropped and a request may leave `loading` behind: `Promised`
  says that then another load waits, and that the last that waits is for the slot as it is
  (`LoadsLast`). `OwnInv` says that what is suppressed as an echo is a write of this client.
  TLC checked the parts of this invariant before they were proved. The hypotheses are
  `gap`, `refetch` and `recover` of section 3, each of which breaks the property.
  `TypeCorrect` takes the numbers of values, etags and frames from `KvInv`; what it adds
  (`KindInv`) is that the status a failed load puts back is one the mirror had (`Prior`),
  that a followed contract's mirror has one, and that the list of echoes is cut back to
  `KV_ECHO_CID_MAX` whenever it grows (`EchoStep`).

* `EventStoreProofs`: `TypesKept`, `NoneSkipped`, `NoneOutside`,
  `FoundAlways`, `ChainKept`, `AcceptedAlways`, `WindowKept` and `RebuiltAlways`, for every log,
  page size, limit, set of key operations and of failing ones, every differ and
  redaction. What is assumed of the data is `RoundTrip` and its companions in `Journal`:
  applying the difference of two states to the first gives the second. TLC
  evaluates that assumption for the differ and the redactions of `JsonPatch` on every
  pair of the instance's documents. Its first part shows what a stream promises
  whatever it is used for (`StreamPromises`): what came out is an interval from where it
  was asked to start, up to repeats, within what was asked. The invariant of the
  store, `IInv`, has one part for the database (`LogPart`: its entries are a run, its
  HEAD is on the last or, torn or between two writes, on the one before, and no row is
  ahead of them), one for the root state, live and saved (`RootPart`: the row is a HEAD of
  the log, and the journal an unbroken window whose replay is the state it was recorded
  for), one for the event at work (`WorkPart`: it follows the row, and its writes have
  come as far as its place says), and one for the synchronisation (`SyncPart`: it reads
  without a limit, up to the HEAD it was given). That `reconstruct` is such a
  replay (`Rebuilt`) is shown by the least entry where the two would differ.
* `KeyRingProofs`: `GrantsKept`, `PendingKept`, `RevokedKept` and `PublicAlways`, for every set of keys,
  names, clients and events of any length, without typing the log. The invariant says
  that every ring, in the state or in a copy under way, is `Sound`: it has the shape of a
  ring, its keys are `Founded` in OP_CONTRACT's, and flags are on
  active keys. The properties alone are not inductive, because the copy becomes the
  state some steps later: the copy must be sound as well, must `Continue` the state it
  was taken from (no key gone, no deleted key back but by an addition the event names),
  and the signer remembered at `Begin` must be allowed no more than OP_CONTRACT gave out
  (`Allowed`), whatever the event has done to that key since. `PublicAlways` compares clients
  that are at the same height at different times, so it needs something they all follow: the
  public keys after each event (`History`), as a client would have them that has nothing else
  (`Bare`). An event whose items are public does to a ring's public part what it does to that
  client's (`OpenOperation`, `SameShown`: same result, same public keys, no new secret key, and the
  signer stays public), and an event of private items leaves the public part alone whichever of
  them could be read (`SecretOperation`). A client in the middle of an event is where the
  client of public keys is after as many operations (`InStep`, `Trace`). The trace is a
  sequence defined by recursion; that there is one, and only one, is an induction over the
  operations, made with the least number that has none (`LeastNat`, `TraceIsOne`).

Only model-checked, and why:

* `CatchesUp`, `SettlesDown` and `Ends` (of `PersistentActions`, and of `Publish` with
  `MCPublishLive.cfg`): liveness under
  fairness is out of the prover's reach. Of both `Ends` and of `SettlesDown` the safety half is proved
  (`NeverStuck` with `GetsOn`, `InHand`, `NeverStuck` of `PubSub`); of `CatchesUp` only what
  `KeyInv` says of the dirty flag.
* `NeverStuck` of `Publish` for hooks that need each other's queues: the code does not keep
  it (section 5).
* `FitsItsPlace` of `Publish` for an `OP_ATOMIC` with a key in two of its parts: rebuilding
  takes its parts one by one, and what it leaves of such a payload may fit no place.
* `DoneAsAsked` of `Publish` for payloads that delete several keys in a part: false of the
  code (`MCPublishKeys.cfg`).
* `KeyNotForgotten` for a key that comes in the middle of an event or by the contract
  itself: the code does not keep it (section 5).

## 5. What disagrees with the sources' own words

* `contract_sync_key`: a key arrives by an OP_KEY_SHARE of the contract itself. Its
  side effect marks the contract dirty on the root state; `handleEvent` then
  writes its clone back over it. The queued sync finds nothing to do.
* `sub()` is a no-op while the channel is in `subscriptionSet`, which an UNSUB leaves
  it in until the OK. A contract that is dropped and wanted again in between ends
  without a subscription, against the comment at `pubsub/index.ts:948` and `:963`
  (`RoomKept` under `MCPubSubResub.cfg`).
* `contract_refs_watch`: a watch about to go with its contract is taken for a set one.
* `persistent_reload`: `JSON.stringify` makes `maxAttempts: Infinity` into `null`,
  and `null > n` is false.
* A request for keys is published by a hook that holds its
  contract's publish queue while it publishes in the asked contract's. Two contracts of one
  client that ask each other so wait for each other, and nothing times out (`NeverStuck` under
  `MCPublishCrossed.cfg`).
* `recreateOperationInternal` has no `return` for a payload of which only some keys are
  still relevant, so the event is omitted, not rewritten as `utils.ts:696` says
  (`DoneAsAsked` under `MCPublishKeys.cfg`).
* Modelled as it runs, without a run of its own: adding a key that is there is the
  example of an error that does not end an `OP_ATOMIC` (`internals.ts:1059`), but
  `keysToMap` throws first, and not a `ChelErrorWarning` (`internals.ts:165`); the `this` of the
  `subscription-succeeded` handler (above); the kinds of the table in section 3.
* The comment at `internals.ts:3387` says that an event cut off by a sudden failure is
  recovered by processing it again. Between the entry and the HEAD it is not: the entry
  is known when it is processed again, so the HEAD never moves, and the next event does
  not fit it (`AlwaysRecovers` in `EventStore`, which TLC refutes).
* `docs/journal.md:96` and `:153` promise the contract state from `reconstruct`; writes
  past the journal (`setPendingKeyRevocation` and others) are not in it until the next snapshot
  (`AlwaysRebuilt`). `docs/journal.md:92` trims when the window "reaches" twice the
  interval, the code when it exceeds it.
* The first event of a later page is to be dropped because pages overlap
  (`utils.ts:983`), on a condition that is false by then: `requestCount` has counted
  already. Repeats are harmless to a synchronisation, whose height check takes
  them for processed, but `latestContractState` processes them twice, and the limits of
  `eventsBefore` and `eventsBetween` count them (`EachOnce` in `EventStream`).
* `chelonia.ts:1014` says that a flag set by `setPendingKeyRevocation` is cleared when its
  key is updated or deleted. It is also lost when it is set while an event of the contract
  is being processed, as the copy is written back over it; and an update of permissions
  alone does not clear it.
* `docs/kv.md:242` warns that the first `update` of a slot that was never loaded "is
  sent with no precondition and overwrites whatever the server holds". It is not:
  without an etag `kv/set` sends `if-match: '""'` (`chelonia.ts:2905`), which a server
  with a value refuses, and `UpdatesKept` covers that case.

## 6. What is not modelled

Fork detection at the end of a sync and the non-default options of contract
synchronisation; contracts whose key operations cannot be mirrored, and the
revocations and rotations that are mirrored; requests for keys and their answers;
`chelonia/reset`; the contents of pubsub notifications; `local-selectors` and
`time-sync`; cryptography (`zkpp.ts`, the inside of `encryptedData.ts` and
`signedData.ts`), streams of file chunks, fetching and sandboxing of contract code, and
the construction and parsing of messages, which are sequential transformations of data
or I/O. `PROJECT.json` lists every component with its status.

## 7. Plan

Done: `ContractSync` with `EventReplica` and its proofs; `PubSub` and its proofs;
`PersistentActions` and its proofs; `ContractRefs` and its proofs; `Publish` and its proofs; `Kv` and
its proofs; `EventStore` with `EventStream`, `Journal` and `JsonPatch` and its proofs;
`KeyRing` with `KeyOps` and its proofs. Next, in this order:

1. `KeyMirror`: what a key operation does to other contracts that use the key
   (`keyRotationHelper`, `deleteOrRotateRevokedKeys`), on top of `KeyOps`.
2. Requests for keys and `postSyncOperations`, on top of `Publish` and `KeyRing`.
3. `chelonia/reset` and the instance token, over the queues of `Publish` and
   `ContractSync`.

Bounds as above: one or two contracts, logs of three or four events, two or three
faults.
