--------------------------------- MODULE Kv ---------------------------------
(***************************************************************************)
(* A slot of the key-value store: src/src/kv.ts, with chelonia/kv/set and  *)
(* chelonia/kv/get of src/src/chelonia.ts.                                 *)
(*                                                                         *)
(* The server keeps one value for the key, and each write gets an etag (a  *)
(* CID).  A client mirrors value and etag: it loads them, writes on the    *)
(* condition that the etag is still the server's (if-match), and hears of  *)
(* the writes of others from pubsub frames.  What touches the mirror goes  *)
(* through one queue of the contract (chelonia/queueInvocation): a load, a *)
(* frame or a write is done before the next starts, but awaits the server  *)
(* meanwhile, and the slot may be redefined or its contract released.      *)
(*                                                                         *)
(* The writes are numbered in the server's order; the number stands for    *)
(* the etag and the value, 0 for no etag (null) and no value (undefined).  *)
(***************************************************************************)
EXTENDS Integers, SequencesExt

CONSTANTS
  Shapes,        \* the kinds of data that are written
  MaxSlot,       \* bound: how often the slot is redefined
  Accepts,       \* what the schema of each definition accepts
  EchoMax,       \* KV_ECHO_CID_MAX
  MaxAttempts,   \* options.maxAttempts of kv/set
  CommitBound,   \* bound: how many writes there are, those of others only
  CallBound,     \* bound: how many calls the application makes
  DisturbBound,  \* bound: how many faults happen
  Disturbances   \* the kinds of faults this instance allows

Slots == 0 .. MaxSlot
Kinds == {"nocid", "height", "http", "refetch", "abort", "recover", "release",
          "disconnect", "restart", "ttl", "gap"}

ASSUME SlotsAssumption ==
  /\ MaxSlot \in Nat /\ "clear" \notin Shapes
  /\ Accepts \in [Slots -> (SUBSET Shapes) \ {{}}]
ASSUME BoundAssumption ==
  /\ EchoMax \in Nat \ {0} /\ MaxAttempts \in Nat \ {0}
  /\ CommitBound \in Nat /\ CallBound \in Nat /\ DisturbBound \in Nat
  /\ Disturbances \subseteq Kinds

VARIABLES
  log,      \* the server's writes: their data, whether this client's, what from
  wire,     \* frames on their way to the client
  link,     \* the WebSocket is open
  isNew,    \* client.isNew: it has never been open
  sub,      \* the server has handled the client's SUB
  active,   \* the contract is in subscriptionSet and the slot in kvSlotsByContractID
  slot,     \* the definition of the slot (kvSlots)
  entry,    \* the mirror: rootState._kv[contractID][key]
  echoes,   \* kvLocalEchoCIDs, in the order they expire
  refresh,  \* kvReconnectRefresh has the contract
  lane,     \* what waits in the queue of the contract
  job,      \* what is under way in it
  calls, budget

netVars == <<wire, link, isNew, sub>>
mirrorVars == <<active, slot, entry, echoes, refresh>>
laneVars == <<lane, job>>
boundVars == <<calls, budget>>
vars == <<log, netVars, mirrorVars, laneVars, boundVars>>

Disturb(k) ==
  /\ k \in Disturbances /\ budget > 0
  /\ budget' = budget - 1

-----------------------------------------------------------------------------
(***************************************************************************)
(* The server.                                                             *)
(***************************************************************************)
\* The etag of the key is that of the last write.
Newest == Len(log)

\* The value of the n-th write: null, the sentinel of a clear, is read as none.
Value(n) == IF n = 0 THEN 0 ELSE IF log[n].data = "clear" THEN 0 ELSE n

\* No value, or one the schema of definition s accepts.
Accepted(s, n) == IF n = 0 THEN TRUE ELSE log[n].data \in Accepts[s] \union {"clear"}

Frame(n, cid) == [op |-> "frame", n |-> n, cid |-> cid, slot |-> 0]
Written(data, own, basis) == [data |-> data, own |-> own, basis |-> basis]

\* A write is broadcast to those subscribed, the writer too.
Commit(w, cid) ==
  /\ log' = Append(log, w)
  /\ wire' = IF sub THEN Append(wire, Frame(Newest + 1, cid)) ELSE wire

\* The mirror was loaded, or will be, before the server sends frames, and no
\* reconnection is going to refresh it; or frames are under way from a subscription
\* that has ended.
Gap == ~sub /\ (wire # <<>> \/ (active /\ ~refresh /\ (link \/ isNew)))

OthersWrite ==
  /\ Newest < CommitBound
  /\ "gap" \in Disturbances \/ ~Gap
  /\ \E d \in Shapes \union {"clear"} :
        \/ Commit(Written(d, FALSE, 0), TRUE) /\ UNCHANGED budget
        \/ Commit(Written(d, FALSE, 0), FALSE) /\ Disturb("nocid")
  /\ UNCHANGED <<link, isNew, sub, mirrorVars, laneVars, calls>>

-----------------------------------------------------------------------------
(***************************************************************************)
(* The client: the mirror.                                                 *)
(***************************************************************************)
Statuses == {"none", "non-init", "loading", "loaded", "error"}
Entry(v, e, s) == [value |-> v, etag |-> e, status |-> s]
NoEntry == Entry(0, 0, "none")
Marked(status) == [entry EXCEPT !.status = status]

\* Value and etag of the n-th write, with the status that goes with its data.
Mirrored(n, etag) ==
  Entry(Value(n), etag, IF Value(n) = 0 THEN "non-init" ELSE "loaded")

Nothing == [t |-> "wait", n |-> 0]
Idle == [op |-> "none", slot |-> 0, pc |-> "idle", prior |-> "none", marks |-> {},
         data |-> "clear", basis |-> 0, ifm |-> 0, tries |-> 0, conflict |-> FALSE,
         answer |-> Nothing]

Load(s) == [op |-> "load", n |-> 0, cid |-> FALSE, slot |-> s]

Init ==
  /\ log = <<>> /\ wire = <<>>
  /\ link = FALSE /\ isNew = TRUE /\ sub = FALSE
  /\ active = FALSE /\ slot = 0 /\ entry = NoEntry /\ echoes = <<>> /\ refresh = FALSE
  /\ lane = <<>> /\ job = Idle
  /\ calls = 0 /\ budget = DisturbBound

\* The contract was synced: the slot is wired up and a load scheduled.
Reconcile ==
  /\ ~active
  /\ active' = TRUE
  /\ entry' = IF entry.status = "none" THEN Entry(0, 0, "non-init") ELSE entry
  /\ lane' = Append(lane, Load(slot))
  /\ UNCHANGED <<log, netVars, slot, echoes, refresh, job, boundVars>>

CleanupContractRuntime ==
  /\ active /\ Disturb("release")
  /\ active' = FALSE /\ entry' = NoEntry /\ echoes' = <<>> /\ refresh' = FALSE
  /\ sub' = FALSE
  /\ UNCHANGED <<log, wire, link, isNew, slot, laneVars, calls>>

PendingWrite == \E t \in Range(lane) \union {job} : t.op \in {"update", "clear"}
PendingLoad == job.pc = "get" \/ \E t \in Range(lane) : t.op = "load"

\* revalidateMirrorEntry: the value that is there is judged by schema s.
Revalidated(s) ==
  IF entry.value = 0 THEN entry
  ELSE Marked(IF Accepted(s, entry.value) THEN "loaded" ELSE "error")

RedefineRevalidates ==
  /\ slot < MaxSlot /\ ("recover" \in Disturbances \/ entry.status # "error")
  /\ slot' = slot + 1
  /\ entry' = Revalidated(slot + 1) /\ UNCHANGED lane
  /\ UNCHANGED <<log, netVars, active, echoes, refresh, job, boundVars>>

DefineSlot ==
  /\ slot < MaxSlot /\ ("recover" \in Disturbances \/ entry.status # "error")
  /\ slot' = slot + 1
  /\ IF active /\ (entry.value = 0 \/ entry.status \in {"non-init", "loading"}
                     \/ PendingWrite \/ PendingLoad)
     THEN lane' = Append(lane, Load(slot + 1)) /\ UNCHANGED entry
     ELSE entry' = Revalidated(slot + 1) /\ UNCHANGED lane
  /\ UNCHANGED <<log, netVars, active, echoes, refresh, job, boundVars>>

-----------------------------------------------------------------------------
(***************************************************************************)
(* The client: the connection.                                             *)
(***************************************************************************)
\* PUBSUB_RECONNECTION_SUCCEEDED, which the first connection is not (_onReconnect).
Open ==
  /\ ~link /\ link' = TRUE /\ isNew' = FALSE
  /\ IF isNew THEN UNCHANGED <<echoes, refresh>>
     ELSE echoes' = <<>> /\ refresh' = (refresh \/ active)
  /\ UNCHANGED <<log, wire, sub, active, slot, entry, laneVars, boundVars>>

SubHandled ==
  /\ link /\ active /\ ~sub /\ sub' = TRUE
  /\ UNCHANGED <<log, wire, link, isNew, mirrorVars, laneVars, boundVars>>

\* The forced sync that follows a subscription has ended.
OnContractResynced ==
  /\ sub /\ refresh /\ refresh' = FALSE
  /\ lane' = Append(lane, Load(slot))
  /\ UNCHANGED <<log, netVars, active, slot, entry, echoes, job, boundVars>>

Disconnect ==
  /\ link /\ Disturb("disconnect")
  /\ link' = FALSE /\ sub' = FALSE /\ wire' = <<>>
  /\ UNCHANGED <<log, isNew, mirrorVars, laneVars, calls>>

\* The process dies; the next one has its state, and defines the slot again.
Restart ==
  /\ Disturb("restart")
  /\ wire' = <<>> /\ link' = FALSE /\ isNew' = TRUE /\ sub' = FALSE
  /\ active' = FALSE /\ entry' = Revalidated(slot)
  /\ echoes' = <<>> /\ refresh' = FALSE
  /\ lane' = <<>> /\ job' = Idle
  /\ UNCHANGED <<log, slot, calls>>

\* NOTIFICATION_TYPE.KV: a frame of a contract that is not followed is discarded.
Receive ==
  /\ wire # <<>> /\ wire' = Tail(wire)
  /\ lane' = IF active THEN Append(lane, Head(wire)) ELSE lane
  /\ UNCHANGED <<log, link, isNew, sub, mirrorVars, job, boundVars>>

EchoExpires ==
  /\ echoes # <<>> /\ Disturb("ttl")
  /\ echoes' = Tail(echoes)
  /\ UNCHANGED <<log, netVars, active, slot, entry, refresh, laneVars, calls>>

-----------------------------------------------------------------------------
(***************************************************************************)
(* The client: what starts when its turn in the queue comes.               *)
(***************************************************************************)
\* chelonia/kv/update, clear and sync.
Call(op) ==
  /\ active /\ calls < CallBound
  /\ calls' = calls + 1
  /\ lane' = Append(lane, [op |-> op, n |-> 0, cid |-> FALSE, slot |-> slot])
  /\ UNCHANGED <<log, netVars, mirrorVars, job, budget>>

Turn(op) == job = Idle /\ lane # <<>> /\ Head(lane).op = op /\ lane' = Tail(lane)

\* _loadSlotNow, up to its request.  Only an explicit load shows 'loading' when
\* the slot is loaded, and the reload of an update never does.
Get(op, s, marks) ==
  /\ job' = [Idle EXCEPT !.op = op, !.slot = s, !.pc = "get", !.prior = entry.status,
                         !.marks = marks]
  /\ entry' = IF op = "update" \/ (op = "frame" /\ entry.status = "loaded")
              THEN entry ELSE Marked("loading")

StartLoad ==
  /\ Turn("load")
  /\ IF active THEN Get("load", Head(lane).slot, {}) ELSE UNCHANGED <<job, entry>>
  /\ UNCHANGED <<log, netVars, active, slot, echoes, refresh, boundVars>>

\* kv/set: the first attempt is on the condition that nobody wrote since the mirror.
Post(op, s, data, basis, etag) ==
  job' = [Idle EXCEPT !.op = op, !.slot = s, !.pc = "post", !.data = data,
                      !.basis = basis, !.ifm = etag, !.tries = MaxAttempts]

\* computeSeedValue, without a reload.
Seed == IF entry.status = "error" THEN 0 ELSE entry.value

StartUpdateNoReload ==
  /\ Turn("update")
  /\ IF active /\ slot = Head(lane).slot
     THEN \E d \in Accepts[slot] : Post("update", slot, d, Seed, entry.etag)
     ELSE UNCHANGED job
  /\ UNCHANGED <<log, netVars, mirrorVars, boundVars>>

\* A slot in error whose value was kept is reloaded first, so that what the reducer
\* starts from and the etag belong together.
StartUpdate ==
  /\ Turn("update")
  /\ IF active /\ slot = Head(lane).slot
     THEN \/ /\ entry.status = "error" /\ entry.value # 0
             /\ Get("update", slot, {})
          \/ /\ ~(entry.status = "error" /\ entry.value # 0)
             /\ \E d \in Accepts[slot] : Post("update", slot, d, Seed, entry.etag)
             /\ UNCHANGED entry
     ELSE UNCHANGED <<job, entry>>
  /\ UNCHANGED <<log, netVars, active, slot, echoes, refresh, boundVars>>

StartClear ==
  /\ Turn("clear")
  /\ IF active /\ slot = Head(lane).slot
     THEN Post("clear", slot, "clear", 0, entry.etag)
     ELSE UNCHANGED job
  /\ UNCHANGED <<log, netVars, mirrorVars, boundVars>>

-----------------------------------------------------------------------------
(***************************************************************************)
(* The client: frames (_handleRemote).                                     *)
(***************************************************************************)
Conflicts == {e.cid : e \in {x \in Range(echoes) : x.conflict}}
Ours(f) == f.cid /\ \E e \in Range(echoes) : e.cid = f.n

\* The echo of a write that met no conflict can come only once.
Suppress(f) ==
  /\ f.cid
  /\ \E i \in DOMAIN echoes :
       /\ echoes[i].cid = f.n
       /\ echoes' = IF f.n \in Conflicts THEN echoes ELSE RemoveAt(echoes, i)
  /\ UNCHANGED <<entry, job>>

\* It is not known what the frame comes before: the server is asked instead.
Doubtful(f) == IF f.cid THEN Conflicts # {} ELSE entry.etag # 0

Ask(f) ==
  /\ ~Ours(f) /\ Doubtful(f)
  /\ Get("frame", slot, Conflicts)
  /\ UNCHANGED echoes

\* Last write wins, if its data is what the schema accepts.
ApplyFrame(f) ==
  /\ ~Ours(f) /\ ~Doubtful(f)
  /\ entry' = IF Accepted(slot, f.n) THEN Mirrored(f.n, IF f.cid THEN f.n ELSE entry.etag)
              ELSE Marked("error")
  /\ UNCHANGED <<echoes, job>>

StartFrame ==
  /\ Turn("frame")
  /\ LET f == Head(lane)
     IN IF active THEN Suppress(f) \/ Ask(f) \/ ApplyFrame(f)
        ELSE UNCHANGED <<entry, echoes, job>>
  /\ UNCHANGED <<log, netVars, active, slot, refresh, boundVars>>

-----------------------------------------------------------------------------
(***************************************************************************)
(* Requests.                                                               *)
(***************************************************************************)
Answer(t, n) == job' = [job EXCEPT !.answer = [t |-> t, n |-> n]]

ServeGet ==
  /\ job.pc = "get" /\ job.answer = Nothing
  /\ Answer("got", Newest)
  /\ UNCHANGED <<log, netVars, mirrorVars, lane, boundVars>>

\* 412 when the etag is not the server's any more; 409 when the client is behind
\* the contract.  Either comes with what the server has.
ServePost ==
  /\ job.pc = "post" /\ job.answer = Nothing
  /\ \/ /\ job.ifm = Newest /\ UNCHANGED budget
        /\ Commit(Written(job.data, TRUE, job.basis), TRUE)
        /\ Answer("ok", Newest + 1)
     \/ /\ job.ifm # Newest /\ UNCHANGED <<log, wire, budget>>
        /\ Answer("conflict", Newest)
     \/ /\ Disturb("height") /\ UNCHANGED <<log, wire>>
        /\ Answer("conflict", Newest)
  /\ UNCHANGED <<link, isNew, sub, mirrorVars, lane, calls>>

\* The request fails, or its answer is lost.
RequestFails ==
  /\ job.answer.t \in {"wait", "ok"} /\ job.pc # "idle"
  /\ job.op = "frame" => "refetch" \in Disturbances
  /\ Disturb("http")
  /\ Answer("fail", 0)
  /\ UNCHANGED <<log, netVars, mirrorVars, lane, calls>>

Stale == ~active \/ slot # job.slot
Restored == IF entry.status = "loading" THEN Marked(job.prior) ELSE entry
Demoted == [i \in DOMAIN echoes |->
              [echoes[i] EXCEPT !.conflict = @ /\ echoes[i].cid \notin job.marks]]

\* What _loadSlotNow makes of the answer.  An answer for a slot that was redefined or
\* released meanwhile is dropped, and a frame's request never puts the slot in error.
GotLoad ==
  CASE Stale -> Restored
    [] ~Stale /\ job.answer.t = "got" /\ Accepted(slot, job.answer.n) ->
         Mirrored(job.answer.n, job.answer.n)
    [] OTHER -> IF job.op = "frame" THEN Restored ELSE Marked("error")

LoadDone ==
  /\ job.op \in {"load", "frame"} /\ job.answer # Nothing
  /\ entry' = GotLoad
  /\ echoes' = Demoted
  /\ job' = Idle
  /\ UNCHANGED <<log, netVars, active, slot, refresh, lane, boundVars>>

\* The reload of an update: the update goes on with what was kept if it failed.
Reloaded == IF Stale THEN entry ELSE [GotLoad EXCEPT !.status = entry.status]

ReloadDone ==
  /\ job.op = "update" /\ job.pc = "get" /\ job.answer # Nothing
  /\ entry' = Reloaded
  /\ IF Stale THEN job' = Idle
     ELSE \E d \in Accepts[slot] :
            Post("update", slot, d, Reloaded.value, Reloaded.etag)
  /\ UNCHANGED <<log, netVars, active, slot, echoes, refresh, lane, boundVars>>

-----------------------------------------------------------------------------
(***************************************************************************)
(* The client: answers to a write.                                         *)
(***************************************************************************)
\* recordEchoCID: over the limit, a write that met no conflict goes first.
Recorded(n) ==
  LET all == Append(echoes, [cid |-> n, conflict |-> job.conflict])
      plain == {i \in DOMAIN echoes : ~echoes[i].conflict}
  IN IF Len(all) <= EchoMax THEN all
     ELSE RemoveAt(all, IF plain = {} THEN 1 ELSE Min(plain))

\* The write is in the log.  Its echo is not to be taken for news, even if the call
\* was aborted meanwhile and the mirror does not get the value.
Succeeded ==
  /\ job.answer.t = "ok"
  /\ echoes' = Recorded(job.answer.n)
  /\ \/ /\ entry' = IF Stale THEN entry ELSE Mirrored(job.answer.n, job.answer.n)
        /\ UNCHANGED budget
     \/ Disturb("abort") /\ UNCHANGED entry
  /\ job' = Idle
  /\ UNCHANGED <<log, netVars, active, slot, refresh, lane, calls>>

\* onconflict: the reducer starts again from what the server has.
Retry ==
  job' = [job EXCEPT !.basis = IF job.op = "update" THEN Value(job.answer.n) ELSE 0,
                     !.ifm = job.answer.n, !.tries = @ - 1, !.conflict = TRUE,
                     !.answer = Nothing]

Resolvable == job.op = "clear" \/ Accepted(job.slot, job.answer.n)

\* The write is given up: no attempts are left, the server's value is refused by the
\* schema, the reducer has nothing to write (KV_NOOP), or the caller aborts.
Refused ==
  /\ job.answer.t = "conflict"
  /\ \/ job.tries > 1 /\ Resolvable /\ Retry
     \/ job' = Idle
  /\ UNCHANGED <<log, netVars, mirrorVars, lane, boundVars>>

WriteFails ==
  /\ job.pc = "post" /\ job.answer.t = "fail"
  /\ job' = Idle
  /\ UNCHANGED <<log, netVars, mirrorVars, lane, boundVars>>

-----------------------------------------------------------------------------
Application ==
  Reconcile \/ CleanupContractRuntime \/ DefineSlot \/ Restart
    \/ \E op \in {"update", "clear", "load"} : Call(op)
Connection ==
  Open \/ SubHandled \/ OnContractResynced \/ Disconnect \/ Receive \/ EchoExpires
Queue == StartLoad \/ StartUpdate \/ StartClear \/ StartFrame
Request ==
  ServeGet \/ ServePost \/ RequestFails \/ LoadDone \/ ReloadDone
    \/ Succeeded \/ Refused \/ WriteFails

Next == OthersWrite \/ Application \/ Connection \/ Queue \/ Request

Spec == Init /\ [][Next]_vars

-----------------------------------------------------------------------------
(***************************************************************************)
(* Properties.                                                             *)
(***************************************************************************)
Numbers == 0 .. Len(log)
Ops == {"update", "clear", "load", "frame"}
WriteType == [data : Shapes \union {"clear"}, own : BOOLEAN, basis : Nat]
FrameType == [op : {"frame"}, n : Nat, cid : BOOLEAN, slot : {0}]
TaskType == [op : Ops, n : Nat, cid : BOOLEAN, slot : Slots]
EntryType == [value : Nat, etag : Nat, status : Statuses]
EchoType == [cid : Nat, conflict : BOOLEAN]
JobType == [op : Ops \union {"none"}, slot : Slots, pc : {"idle", "get", "post"},
            prior : Statuses, marks : SUBSET Nat, data : Shapes \union {"clear"},
            basis : Nat, ifm : Nat, tries : Nat, conflict : BOOLEAN,
            answer : [t : {"wait", "got", "ok", "conflict", "fail"}, n : Nat]]

\* Every variable holds a value of its kind, numbers are of writes there are, and
\* the echoes to suppress never exceed their limit.
TypeOK ==
  /\ log \in Seq(WriteType) /\ wire \in Seq(FrameType)
  /\ link \in BOOLEAN /\ isNew \in BOOLEAN /\ sub \in BOOLEAN /\ active \in BOOLEAN
  /\ slot \in Slots /\ refresh \in BOOLEAN
  /\ entry \in EntryType /\ {entry.value, entry.etag} \subseteq Numbers
  /\ active => entry.status # "none"
  /\ echoes \in Seq(EchoType) /\ Len(echoes) <= EchoMax
  /\ lane \in Seq(TaskType) /\ job \in JobType
  /\ calls \in 0 .. CallBound /\ budget \in 0 .. DisturbBound

\* No write of another client is lost: whatever the mirror held, and whoever wrote
\* meanwhile, an update that is in the log was made from the very value it replaced.
NoLostUpdate ==
  \A n \in DOMAIN log :
    log[n].own /\ log[n].data # "clear" => log[n].basis = Value(n - 1)

\* Value and etag of the mirror move together: an etag is never held with the value
\* of another write, which the next update would build on and have accepted.
Paired == entry.etag # 0 => entry.value = Value(entry.etag)

Quiet ==
  /\ active /\ link /\ sub /\ ~refresh
  /\ wire = <<>> /\ lane = <<>> /\ job = Idle

\* Taken by every definition of the slot there was, so never rejected.
Plain(n) == \A s \in 0 .. slot : Accepted(s, n)

\* Once all is quiet, a slot that is not in error is loaded, or was never written,
\* and its mirror is behind by writes of this client only, if at all, unless the
\* server has had a value a schema refuses since.
OthersSeen ==
  Quiet /\ entry.status # "error" =>
    /\ entry.status \in {"loaded", "non-init"}
    /\ \E k \in Numbers :
         /\ entry.value = Value(k)
         /\ \A n \in k + 1 .. Newest : log[n].own \/ \E m \in n .. Newest : ~Plain(m)

=============================================================================
