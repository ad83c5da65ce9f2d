----------------------------- MODULE EventStore -----------------------------
(***************************************************************************)
(* What one client stores of one contract, and in which order: the entries *)
(* and the HEAD of its log database (src/src/db.ts), the contract state    *)
(* and its row in the root state, and the journal kept in the row          *)
(* (src/src/internals.ts handleEvent and applyProcessResult, journal.ts).  *)
(* Events come from eventsAfter (EventStream) while the contract is        *)
(* synchronised, or one at a time over the websocket.                      *)
(*                                                                         *)
(* Each write of addEntry is an action: the client may crash, or a write   *)
(* may fail, before any of them.  The database survives a crash; the root  *)
(* state is what the application saved last.  An event is its height, and  *)
(* so is its hash: the server's log never changes behind its end.          *)
(***************************************************************************)
EXTENDS EventStream, Journal, FiniteSets

CONSTANTS
  KeyOps,          \* events whose operation is a key operation (isKeyOp)
  Invalid,         \* events whose mutation throws
  EmptyState,      \* the state of a contract none of whose events was processed
  mutated(_, _),   \* the state an event's mutation makes of a state
  written(_),      \* what code outside the event loop makes of a state in place
  DEFAULT_SNAPSHOT_INTERVAL,
  Intervals        \* the snapshotInterval values the application asks for

ASSUME EventAssumption == KeyOps \subseteq Nat /\ Invalid \subseteq Nat \ {0}
\* The first event of a log is OP_CONTRACT, which is a key operation.
ASSUME FirstAssumption == 0 \in KeyOps
ASSUME StateAssumption ==
  /\ EmptyState \in States
  /\ \A s \in States, h \in Heights : mutated(h, s) \in States
  /\ \A s \in States : written(s) \in States
ASSUME IntervalAssumption ==
  /\ DEFAULT_SNAPSHOT_INTERVAL \in Nat \ {0}
  /\ Intervals \subseteq Int

VARIABLES
  light,    \* process.env.LIGHTWEIGHT_CLIENT === 'true'
  entries,  \* the events whose entry the database holds
  head,     \* the contract's HEAD in the database: height and previousKeyOp
  row,      \* state.contracts[contractID]: height (and HEAD) and previousKeyOp
  state,    \* state[contractID]
  journal,  \* state.contracts[contractID]._journal.entries
  config,   \* this.config.journal: enabled for this contract, snapshotInterval
  saved,    \* the root state the application saved last
  pc,       \* where the event at work is between two awaits
  work,     \* handleEvent's locals: the event, contractStateCopy, processingErrored
  sync,     \* syncContract's locals
  drift     \* history: the state was written past the journal

dbVars == <<light, entries, head>>
rootVars == <<row, state, journal>>
taskVars == <<pc, work, sync>>
storeVars == <<dbVars, rootVars, config, saved, taskVars, drift>>
vars == <<streamVars, budget, storeVars>>

NoHead == [height |-> None, previousKeyOp |-> None]
NoWork == [ev |-> 0, copy |-> EmptyState, errored |-> FALSE]
NoSync == [on |-> FALSE, latestHEAD |-> 0, skip |-> FALSE, found |-> FALSE]
Root == [row |-> row, state |-> state, journal |-> journal, drift |-> drift]
NoRoot == [row |-> NoHead, state |-> EmptyState, journal |-> <<>>, drift |-> FALSE]

Init ==
  /\ StreamInit
  /\ budget = 0
  /\ light \in BOOLEAN
  /\ entries = {} /\ head = NoHead
  /\ row = NoHead /\ state = EmptyState /\ journal = <<>>
  /\ config = [enabled |-> TRUE, interval |-> DEFAULT_SNAPSHOT_INTERVAL]
  /\ saved = NoRoot
  /\ pc = "idle" /\ work = NoWork /\ sync = NoSync
  /\ drift = FALSE

(***************************************************************************)
(* syncContract: the events since the height of the row, the first of them *)
(* skipped if the row has it, until the stream ends; the HEAD the server   *)
(* named when the synchronisation began must have come by.                 *)
(***************************************************************************)
StartSync ==
  /\ pc = "idle"
  /\ row.height # top
  /\ Open("sync", Greater(row.height, 0), None, None)
  /\ sync' = [on |-> TRUE, latestHEAD |-> top, skip |-> row.height # None,
              found |-> FALSE]
  /\ UNCHANGED <<top, budget, dbVars, rootVars, config, saved, pc, work, drift>>

SyncEnds ==
  /\ sync.on /\ pc = "idle"
  /\ strm.st \in {"closed", "error"}
  /\ strm' = NoStream /\ got' = <<>> /\ asked' = <<0, None>>
  /\ sync' = NoSync
  /\ UNCHANGED <<top, budget, dbVars, rootVars, config, saved, pc, work, drift>>

(***************************************************************************)
(* handleEvent.  Only the event after the row's is processed: one at or    *)
(* below it came before, one further on waits for a re-sync                *)
(* (checkMessageOrdering).  The mutation runs on a copy of the state.      *)
(***************************************************************************)
Handle(h) ==
  IF h = row.height + 1
  THEN /\ pc' = "check"
       /\ work' = [ev |-> h, errored |-> h \in Invalid,
                   copy |-> IF h \in Invalid THEN state ELSE mutated(h, state)]
  ELSE UNCHANGED <<pc, work>>

SyncRead ==
  /\ sync.on /\ pc = "idle" /\ strm.use = "sync"
  /\ ReadEvent
  /\ sync' = [sync EXCEPT !.skip = FALSE,
                          !.found = @ \/ strm.next = sync.latestHEAD]
  /\ IF sync.skip THEN UNCHANGED <<pc, work>> ELSE Handle(strm.next)
  /\ UNCHANGED <<budget, dbVars, rootVars, config, saved, drift>>

\* The websocket delivers the next event of a contract that is being followed.
ReceiveEvent ==
  /\ pc = "idle" /\ ~sync.on
  /\ row.height # None /\ row.height < top
  /\ Handle(row.height + 1)
  /\ UNCHANGED <<streamVars, budget, dbVars, rootVars, config, saved, sync, drift>>

(***************************************************************************)
(* addEntry: look for the entry, check the HEAD, write the entry, write    *)
(* the HEAD, write the height index.  A light client keeps no database:    *)
(* it finds no entry, its writes do nothing, and its HEAD is the row's.    *)
(***************************************************************************)
latestHEADinfo == IF light THEN row ELSE head

LastOf(S) ==
  IF S = {} THEN None ELSE CHOOSE h \in S : \A k \in S : k <= h

\* previousKeyOp of the event at height h, and of a HEAD that is there.
PreviousKeyOp(h) == LastOf({k \in KeyOps : k < h})
HeadOf(h) == [height |-> h, previousKeyOp |-> LastOf({k \in KeyOps : k <= h})]

\* previousHEAD, previousKeyOp and height of the event against the HEAD.
Fits(h) ==
  IF h = 0 THEN latestHEADinfo = NoHead
  ELSE latestHEADinfo = [height |-> h - 1, previousKeyOp |-> PreviousKeyOp(h)]

Known(h) == ~light /\ h \in entries

\* applyProcessResult throws and handleEvent logs it: nothing was applied.
NotApplied ==
  /\ pc' = "idle" /\ work' = NoWork
  /\ UNCHANGED <<streamVars, dbVars, rootVars, config, saved, sync, drift>>

CheckEntry ==
  /\ pc = "check"
  /\ pc' = CASE Known(work.ev) -> "apply"
             [] ~Known(work.ev) /\ Fits(work.ev) -> "entry"
             [] ~Known(work.ev) /\ ~Fits(work.ev) -> "idle"
  /\ work' = IF ~Known(work.ev) /\ ~Fits(work.ev) THEN NoWork ELSE work
  /\ UNCHANGED <<streamVars, budget, dbVars, rootVars, config, saved, sync, drift>>

WriteEntry ==
  /\ pc = "entry"
  /\ pc' = "head"
  /\ entries' = IF light THEN entries ELSE entries \cup {work.ev}
  /\ UNCHANGED <<streamVars, budget, light, head, rootVars, config, saved, work,
                 sync, drift>>

\* The mutant forgets that a key operation is its HEAD's own previousKeyOp.
HeadWithoutKeyOp(h) == [height |-> h, previousKeyOp |-> PreviousKeyOp(h)]

NewHead(h) ==
  [height |-> h, previousKeyOp |-> IF h \in KeyOps THEN h ELSE PreviousKeyOp(h)]

WriteHead ==
  /\ pc = "head"
  /\ pc' = "apply"
  /\ head' = IF light THEN head ELSE NewHead(work.ev)
  /\ UNCHANGED <<streamVars, budget, light, entries, rootVars, config, saved,
                 work, sync, drift>>

\* The database refuses a read or a write of addEntry.  After the HEAD there is
\* the height index yet to write.
DbFails ==
  /\ pc \in {"check", "entry", "head", "apply"}
  /\ ~light
  /\ Disturb("db")
  /\ NotApplied

(***************************************************************************)
(* The rest of applyProcessResult, which is synchronous: the copy becomes  *)
(* the state unless the mutation failed, the row moves on in any case, and *)
(* the journal records the event.                                          *)
(***************************************************************************)
After(w) == IF w.errored THEN state ELSE w.copy

Recorded(w) ==
  IF config.enabled
  THEN recordEvent(journal, w.ev, state, After(w), w.errored, config.interval)
  ELSE journal

\* The row's previousKeyOp is left as it was by any other operation.
NewRow(h) ==
  [height |-> h, previousKeyOp |-> IF h \in KeyOps THEN h ELSE row.previousKeyOp]

Apply ==
  /\ pc = "apply"
  /\ pc' = "idle" /\ work' = NoWork
  /\ state' = After(work)
  /\ row' = NewRow(work.ev)
  /\ journal' = Recorded(work)
  /\ drift' = (drift /\ ~(config.enabled /\ Last(journal').kind = "snapshot"))
  /\ UNCHANGED <<streamVars, budget, dbVars, config, saved, sync>>

(***************************************************************************)
(* The application and the surroundings.                                   *)
(***************************************************************************)
\* The application saves the root state as it is, between any two awaits.
Save ==
  /\ saved # Root
  /\ saved' = Root
  /\ UNCHANGED <<streamVars, budget, dbVars, rootVars, config, taskVars, drift>>

\* The process ends, and comes back with the database and the saved root state.
Crash ==
  /\ Disturb("crash")
  /\ row' = saved.row /\ state' = saved.state /\ journal' = saved.journal
  /\ drift' = saved.drift
  /\ pc' = "idle" /\ work' = NoWork /\ sync' = NoSync
  /\ strm' = NoStream /\ got' = <<>> /\ asked' = <<0, None>>
  /\ UNCHANGED <<top, dbVars, config, saved>>

\* syncContract on a dirty contract, or with resync: the row goes but for its
\* references, and with it HEAD, height and journal; the state starts anew.
Resync ==
  /\ pc = "idle" /\ ~sync.on
  /\ row # NoHead
  /\ Disturb("resync")
  /\ row' = NoHead /\ state' = EmptyState /\ journal' = <<>>
  /\ drift' = FALSE
  /\ UNCHANGED <<streamVars, dbVars, config, saved, taskVars>>

\* Code that is not processing an event of this contract writes _volatile or _vm
\* in place: pendingKeyRevocations, watches, the dirty flag.
WriteOutside ==
  /\ row # NoHead
  /\ Disturb("outside")
  /\ state' = written(state)
  /\ drift' = (journal # <<>>)
  /\ UNCHANGED <<streamVars, dbVars, row, journal, config, saved, taskVars>>

ValidInterval(n) == IF n > 0 THEN n ELSE DEFAULT_SNAPSHOT_INTERVAL

\* chelonia/configure: the journal on or off, for this contract or not, and its
\* interval; what is no positive integer becomes the default.
ConfigureJournal(on, n) ==
  /\ config' = [enabled |-> on, interval |-> ValidInterval(n)]
  /\ UNCHANGED journal

\* journal: null switches it off and wipes it.
JournalOff ==
  /\ config' = [enabled |-> FALSE, interval |-> DEFAULT_SNAPSHOT_INTERVAL]
  /\ journal' = <<>>

Configure ==
  /\ Disturb("journal")
  /\ \/ \E on \in BOOLEAN, n \in Intervals : ConfigureJournal(on, n)
     \/ JournalOff
  /\ UNCHANGED <<streamVars, dbVars, row, state, saved, taskVars, drift>>

ClearJournal ==
  /\ Disturb("clear")
  /\ journal' = <<>>
  /\ UNCHANGED <<streamVars, dbVars, row, state, config, saved, taskVars, drift>>

RequestRead ==
  /\ strm.use \in {"request", "latest"}
  /\ ReadEvent
  /\ UNCHANGED budget

StreamStep ==
  /\ \/ ServerAppend \/ Request \/ FetchPage \/ RequestRead \/ EndOfPage
     \/ ConnectionCut \/ StreamFails \/ Requested
  /\ UNCHANGED storeVars

StoreStep ==
  \/ StartSync \/ SyncEnds \/ SyncRead \/ ReceiveEvent
  \/ CheckEntry \/ WriteEntry \/ WriteHead \/ DbFails \/ Apply
  \/ Save \/ Crash \/ Resync \/ WriteOutside \/ Configure \/ ClearJournal

Next == StreamStep \/ StoreStep

Spec == Init /\ [][Next]_vars

(***************************************************************************)
(* Properties.                                                             *)
(***************************************************************************)
Heads == [height : Heights \cup {None}, previousKeyOp : Heights \cup {None}]

RootType(r) ==
  /\ r.row \in Heads
  /\ r.state \in States
  /\ r.journal \in Seq(Entries)
  /\ r.drift \in BOOLEAN

\* Every variable keeps its type; the journal's entries hold states and patches.
TypeOK ==
  /\ light \in BOOLEAN
  /\ entries \subseteq Heights /\ head \in Heads
  /\ RootType(Root) /\ RootType(saved)
  /\ config \in [enabled : BOOLEAN, interval : Nat \ {0}]
  /\ pc \in {"idle", "check", "entry", "head", "apply"}
  /\ work \in [ev : Heights, copy : States, errored : BOOLEAN]
  /\ sync \in [on : BOOLEAN, latestHEAD : Heights, skip : BOOLEAN, found : BOOLEAN]

\* The HEAD was left behind its entry: a crash or a failed write came between
\* the two writes of addEntry.
Torn == entries # {} /\ head.height # LastOf(entries) /\ pc # "head"

\* The database holds one unbroken run of the log from its first event, its HEAD
\* names the last entry (or, between addEntry's two writes, the one before) and
\* that entry's latest key operation, and neither the state nor what was saved of
\* it is ahead of the entries: after any crash there is nothing to refetch that
\* the state already holds.
LogIsChain ==
  LET last == LastOf(entries) IN
    /\ entries = 0 .. last
    /\ head.height \in {last, last - 1} \ {-2}
    /\ head = HeadOf(head.height)
    /\ ~light => row.height <= last /\ saved.row.height <= last
    /\ light => entries = {}

\* An event that follows the state fits the stored HEAD, so that it is stored and
\* applied: however the state was rewound by a crash, a re-sync or a failure, only
\* a HEAD that was torn from its entry (src/src/db.ts:237) refuses it.
NextAccepted == pc = "check" /\ ~Known(work.ev) /\ ~Fits(work.ev) => Torn

\* What the comment in applyProcessResult says: an event cut off by a sudden
\* failure is recovered by processing it again.
AlwaysRecovers == pc = "check" => Known(work.ev) \/ Fits(work.ev)

\* The journal's window starts with a snapshot, goes on without a gap and never
\* holds more than two intervals of entries, for one of the intervals the
\* application may have set, whatever was switched, cleared, rewound or replayed.
Window(es) ==
  /\ es # <<>> => es[1].kind = "snapshot"
  /\ \A i \in 1 .. Len(es) - 1 :
       es[i + 1].h = es[i].h + (IF es[i + 1].kind = "patch" THEN 1 ELSE 0)
  /\ \E n \in Intervals \cup {DEFAULT_SNAPSHOT_INTERVAL} :
       Len(es) <= 2 * ValidInterval(n)

WindowUnbroken == Window(journal)

\* A synchronisation whose stream closes has seen the HEAD that the server named
\* when it began; syncContract would otherwise report a forked chain.
SyncFindsHead == sync.on /\ strm.st = "closed" => sync.found

\* With every change made by an event, and the journal up with the row, replaying
\* the journal gives the redacted contract state.
HeadRebuilt ==
  (journal # <<>> /\ Last(journal).h = row.height /\ ~drift)
    => reconstruct(journal) = redact(state)

\* What docs/journal.md says of reconstruct, whoever wrote the state.
AlwaysRebuilt ==
  (journal # <<>> /\ Last(journal).h = row.height)
    => reconstruct(journal) = redact(state)
=============================================================================
