------------------------- MODULE PersistentActions -------------------------
(***************************************************************************)
(* One entry of the retry queue of src/src/persistent-actions.ts.  Other   *)
(* entries matter to it only by saving the whole list.                     *)
(*                                                                         *)
(* An id may have several PersistentAction objects over time: load() makes *)
(* a new one, and what the old one was awaiting goes on.  object[g] is the *)
(* g-th; its tasks count the calls of attempt() that wait in each place:   *)
(*   "skip"   for skipCondition, "run" for the invocation,                 *)
(*   "error"  for errorInvocation, with attempts left or ("last") without. *)
(* timer says that the timer it remembers is running, loose counts those   *)
(* it forgot when it set another.                                          *)
(***************************************************************************)
EXTENDS Integers, SequencesExt

CONSTANTS
  MaxAttempts,    \* options.maxAttempts
  GenBound,       \* bound: how many objects the id gets
  DisturbBound,   \* bound: how many calls and faults happen
  Disturbances    \* the kinds of calls and faults this instance allows

Infinity == -1
Null == -2

\* "double" is an attempt while skipCondition is awaited, "unloadBusy" an unload
\* with an attempt under way or a timer lost sight of, and "saveUnloaded" a save of
\* the other entries while this one is unloaded.
Kinds == {"fail", "skip", "force", "double", "cancel", "unload", "unloadBusy",
          "save", "saveUnloaded", "crash"}

ASSUME AttemptsAssumption == MaxAttempts \in Nat \union {Infinity}
ASSUME BoundAssumption == GenBound \in Nat /\ DisturbBound \in Nat
ASSUME DisturbAssumption == Disturbances \subseteq Kinds

Gens == 1 .. GenBound
Stages == {"skip", "run", "error", "last"}

VARIABLES
  object,   \* the PersistentAction objects
  gen,      \* how many of them exist
  cur,      \* the one in actionsByID, or 0
  stored,   \* the database's list holds the id
  writes,   \* what chelonia.db/set has yet to store
  reading,  \* load() awaits the database: what it will get, or "no"
  outcome,  \* how the action ended
  torn,     \* the process died before its last writes were stored
  budget    \* calls and faults so far

vars == <<object, gen, cur, stored, writes, reading, outcome, torn, budget>>

Disturb(kind) ==
  /\ kind \in Disturbances
  /\ budget < DisturbBound
  /\ budget' = budget + 1

NoTasks == [s \in Stages |-> 0]
New(max) ==
  [max |-> max, failed |-> 0, attempting |-> FALSE, resolved |-> FALSE,
   nextRetry |-> FALSE, timer |-> FALSE, loose |-> 0, tasks |-> NoTasks]
Busy(a) == \E s \in Stages : a.tasks[s] > 0
Move(a, from, to) == [a EXCEPT !.tasks[from] = @ - 1, !.tasks[to] = @ + 1]
Leave(a, from) == [a EXCEPT !.tasks[from] = @ - 1]

Init ==
  /\ object = [g \in Gens |-> New(MaxAttempts)]
  /\ gen = 0 /\ cur = 0
  /\ stored = FALSE /\ writes = <<>> /\ reading = "no"
  /\ outcome = "none" /\ torn = FALSE /\ budget = 0

\* What the database will hold; it serves its calls in order.
Persisted == IF writes = <<>> THEN stored ELSE Last(writes)

\* JSON.parse(JSON.stringify(options)).maxAttempts
Json(max) == IF max = Infinity THEN Null ELSE max

\* The mutants try again while an attempt is running, or once it is over.
AttemptedTwice(a) == IF a.resolved THEN a ELSE [a EXCEPT !.tasks["skip"] = @ + 1]

\* attempt(), up to its first await.
Attempted(a) ==
  IF a.attempting \/ a.resolved THEN a ELSE [a EXCEPT !.tasks["skip"] = @ + 1]

Cancelled(a) ==
  [a EXCEPT !.timer = FALSE, !.nextRetry = FALSE, !.resolved = TRUE]

\* persistentActions/cancel: the object in actionsByID goes, and the list is saved.
CancelID(objects) ==
  IF cur = 0
  THEN object' = objects /\ UNCHANGED <<cur, writes>>
  ELSE /\ object' = [objects EXCEPT ![cur] = Cancelled(@)]
       /\ cur' = 0
       /\ writes' = Append(writes, FALSE)

-----------------------------------------------------------------------------
Enqueue ==
  /\ gen = 0 /\ GenBound > 0
  /\ gen' = 1 /\ cur' = 1
  /\ object' = [object EXCEPT ![1] = Attempted(New(MaxAttempts))]
  /\ writes' = Append(writes, TRUE)
  /\ UNCHANGED <<stored, reading, outcome, torn, budget>>

\* The mutant does not look again whether the action was cancelled meanwhile.
SkipAnswersBlindly(g) ==
  /\ object[g].tasks["skip"] > 0
  /\ object' = [object EXCEPT ![g] = [Move(@, "skip", "run") EXCEPT !.attempting = TRUE]]
  /\ UNCHANGED <<gen, cur, stored, writes, reading, outcome, torn, budget>>

\* attempt(), after skipCondition said no.
Started(a) ==
  IF a.resolved THEN Leave(a, "skip")
  ELSE [Move(a, "skip", "run") EXCEPT !.attempting = TRUE]

\* skipCondition resolves: true cancels the object (and leaves it in the list).
SkipAnswers(g) ==
  /\ object[g].tasks["skip"] > 0
  /\ \/ /\ Disturb("skip")
        /\ object' = [object EXCEPT ![g] = Cancelled(Leave(@, "skip"))]
        /\ outcome' = IF object[g].resolved THEN outcome ELSE "skipped"
     \/ /\ object' = [object EXCEPT ![g] = Started(@)]
        /\ UNCHANGED <<outcome, budget>>
  /\ UNCHANGED <<gen, cur, stored, writes, reading, torn>>

\* handleSuccess
Succeeded(a) ==
  [Leave(a, "run") EXCEPT !.attempting = FALSE, !.nextRetry = FALSE, !.resolved = TRUE]

\* The invocation resolves, and so calls the listener of PERSISTENT_ACTION_SUCCESS.
Succeeds(g) ==
  /\ object[g].tasks["run"] > 0
  /\ CancelID([object EXCEPT ![g] = Succeeded(@)])
  /\ outcome' = "done"
  /\ UNCHANGED <<gen, stored, reading, torn, budget>>

\* maxAttempts > failedAttemptsSoFar, after a failure; null > n is false.
AnyAttemptLeft(a) == a.max = Infinity \/ a.max > a.failed + 1

\* handleError, up to errorInvocation.
Failed(a) ==
  LET left == AnyAttemptLeft(a)
  IN [Move(a, "run", IF left THEN "error" ELSE "last") EXCEPT
        !.attempting = FALSE, !.failed = @ + 1,
        !.resolved = @ \/ ~left, !.nextRetry = left /\ ~a.resolved]

Fails(g) ==
  /\ object[g].tasks["run"] > 0
  /\ Disturb("fail")
  /\ object' = [object EXCEPT ![g] = Failed(@)]
  /\ UNCHANGED <<gen, cur, stored, writes, reading, outcome, torn>>

\* handleError, after errorInvocation: the retry is scheduled unless the action
\* was cancelled meanwhile.  An older timer goes on, forgotten.
Scheduled(a) ==
  IF ~a.nextRetry THEN a
  ELSE [a EXCEPT !.timer = TRUE, !.loose = IF a.timer THEN @ + 1 ELSE @]

ErrorHandled(g) ==
  /\ object[g].tasks["error"] > 0
  /\ object' = [object EXCEPT ![g] = Scheduled(Leave(@, "error"))]
  /\ UNCHANGED <<gen, cur, stored, writes, reading, outcome, torn, budget>>

\* The mutant only marks the object resolved.
TotalFailureKept(g) ==
  /\ object[g].tasks["last"] > 0
  /\ object' = [object EXCEPT ![g] = Leave(@, "last")]
  /\ outcome' = "failed"
  /\ UNCHANGED <<gen, cur, stored, writes, reading, torn, budget>>

\* The listener of PERSISTENT_ACTION_TOTAL_FAILURE.
TotalFailure(g) ==
  /\ object[g].tasks["last"] > 0
  /\ CancelID([object EXCEPT ![g] = Leave(@, "last")])
  /\ outcome' = IF outcome = "done" THEN outcome ELSE "failed"
  /\ UNCHANGED <<gen, stored, reading, torn, budget>>

\* attempt() is called, by a timer or by forceRetry.
Attempt(g, a, kind) ==
  /\ IF a.tasks["skip"] > 0 THEN Disturb("double")
     ELSE IF kind = "timer" THEN UNCHANGED budget ELSE Disturb(kind)
  /\ object' = [object EXCEPT ![g] = Attempted(a)]
  /\ UNCHANGED <<gen, cur, stored, writes, reading, outcome, torn>>

TimerFires(g) ==
  \/ /\ object[g].timer
     /\ Attempt(g, [object[g] EXCEPT !.timer = FALSE], "timer")
  \/ /\ object[g].loose > 0
     /\ Attempt(g, [object[g] EXCEPT !.loose = @ - 1], "timer")

ForceRetry == cur # 0 /\ Attempt(cur, object[cur], "force")

Cancel ==
  /\ cur # 0
  /\ Disturb("cancel")
  /\ CancelID(object)
  /\ outcome' = IF outcome = "none" THEN "cancelled" ELSE outcome
  /\ UNCHANGED <<gen, stored, reading, torn>>

\* save(), called for another entry.
SaveOthers ==
  /\ Disturb(IF cur = 0 /\ Persisted THEN "saveUnloaded" ELSE "save")
  /\ writes' = Append(writes, cur # 0)
  /\ UNCHANGED <<object, gen, cur, stored, reading, outcome, torn>>

DbWrites ==
  /\ writes # <<>>
  /\ stored' = Head(writes) /\ writes' = Tail(writes)
  /\ UNCHANGED <<object, gen, cur, reading, outcome, torn, budget>>

\* The mutant saves what is left of the list.
UnloadSaves ==
  /\ cur # 0 /\ gen < GenBound
  /\ Disturb(IF Busy(object[cur]) \/ object[cur].loose > 0 THEN "unloadBusy"
                                                          ELSE "unload")
  /\ object' = [object EXCEPT ![cur].timer = FALSE]
  /\ cur' = 0
  /\ writes' = Append(writes, FALSE)
  /\ UNCHANGED <<gen, stored, reading, outcome, torn>>

Unload ==
  /\ cur # 0 /\ gen < GenBound
  /\ Disturb(IF Busy(object[cur]) \/ object[cur].loose > 0 THEN "unloadBusy"
                                                          ELSE "unload")
  /\ object' = [object EXCEPT ![cur].timer = FALSE]
  /\ cur' = 0
  /\ UNCHANGED <<gen, stored, writes, reading, outcome, torn>>

\* load(), called at the start of the application or after unload, and never twice.
LoadReads ==
  /\ cur = 0 /\ gen > 0 /\ gen < GenBound /\ reading = "no"
  /\ reading' = IF Persisted THEN "entry" ELSE "empty"
  /\ UNCHANGED <<object, gen, cur, stored, writes, outcome, torn, budget>>

\* The mutant leaves the loaded action to a timer nobody set.
LoadEndsQuietly ==
  /\ reading # "no" /\ reading' = "no"
  /\ IF reading = "entry"
     THEN /\ gen' = gen + 1 /\ cur' = gen + 1
          /\ object' = [object EXCEPT ![gen + 1] = New(Json(MaxAttempts))]
     ELSE UNCHANGED <<gen, cur, object>>
  /\ UNCHANGED <<stored, writes, outcome, torn, budget>>

\* The list is retried once it is there.
LoadEnds ==
  /\ reading # "no" /\ reading' = "no"
  /\ IF reading = "entry"
     THEN /\ gen' = gen + 1 /\ cur' = gen + 1
          /\ object' = [object EXCEPT ![gen + 1] = Attempted(New(Json(MaxAttempts)))]
     ELSE UNCHANGED <<gen, cur, object>>
  /\ UNCHANGED <<stored, writes, outcome, torn, budget>>

\* The process ends: nothing but the database is left.
Crash ==
  /\ gen > 0 /\ gen < GenBound
  /\ Disturb("crash")
  /\ object' = [g \in Gens |-> Cancelled(New(MaxAttempts))]
  /\ cur' = 0 /\ writes' = <<>> /\ reading' = "no"
  /\ torn' = (torn \/ writes # <<>>)
  /\ UNCHANGED <<gen, stored, outcome>>

Work(g) ==
  \/ SkipAnswers(g) \/ Succeeds(g) \/ Fails(g)
  \/ ErrorHandled(g) \/ TotalFailure(g) \/ TimerFires(g)
Client == Enqueue \/ ForceRetry \/ Cancel \/ SaveOthers \/ Unload \/ Crash
Load == LoadReads \/ LoadEnds

Next == (\E g \in Gens : Work(g)) \/ Client \/ Load \/ DbWrites

Spec == Init /\ [][Next]_vars

\* What is awaited ends, timers fire, and the application loads the list again.
Fairness ==
  /\ WF_vars(Load) /\ WF_vars(DbWrites)
  /\ \A g \in Gens : WF_vars(Work(g))

FairSpec == Spec /\ Fairness

-----------------------------------------------------------------------------
(***************************************************************************)
(* Properties.                                                             *)
(***************************************************************************)
\* Every variable holds a value of its kind.
TypeOK ==
  /\ \A g \in Gens :
       /\ DOMAIN object[g] = {"max", "failed", "attempting", "resolved",
                              "nextRetry", "timer", "loose", "tasks"}
       /\ object[g].max \in {MaxAttempts, Json(MaxAttempts)}
       /\ object[g].failed \in 0 .. DisturbBound
       /\ {object[g].attempting, object[g].resolved, object[g].nextRetry,
           object[g].timer} \subseteq BOOLEAN
       /\ object[g].loose \in Nat /\ object[g].tasks \in [Stages -> Nat]
  /\ gen \in 0 .. GenBound /\ cur \in 0 .. gen
  /\ stored \in BOOLEAN /\ writes \in Seq(BOOLEAN)
  /\ reading \in {"no", "entry", "empty"}
  /\ outcome \in {"none", "done", "failed", "cancelled", "skipped"}
  /\ torn \in BOOLEAN /\ budget \in 0 .. DisturbBound

\* forceRetry and the retry's timer never start a second run of the invocation
\* while one is under way.
OneRun ==
  \A g, h \in Gens :
    object[g].tasks["run"] > 0 /\ object[h].tasks["run"] > 0 =>
      g = h /\ object[g].tasks["run"] = 1

\* Until it has ended the action is in the database, as long as no write was lost.
Durable == gen > 0 /\ outcome = "none" /\ ~torn => Persisted

\* Once it has ended it is out of the list and out of the database.
GoneForGood ==
  outcome \in {"done", "failed", "cancelled"} /\ ~torn =>
    cur = 0 /\ ~Persisted /\ reading # "entry"

\* A run starts only for the object in the list: never once the action was
\* cancelled, has ended, or was unloaded.
StartsLoaded ==
  [][\A g \in Gens :
       object'[g].tasks["run"] > object[g].tasks["run"] => g = cur]_vars

\* Until it has ended somebody has the action in hand: its object in the list awaits an
\* answer or has set its timer, and while it is unloaded the list that load() reads, or
\* would read, has it.
InHand ==
  gen > 0 /\ outcome = "none" /\ ~torn =>
    IF cur # 0 THEN Busy(object[cur]) \/ object[cur].timer
    ELSE reading = "entry" \/ (reading = "no" /\ Persisted)

\* The action ends, whatever fails, restarts or is retried in between.
Ends == gen > 0 ~> outcome # "none" \/ torn

\* An action without a limit on its attempts is never given up.
KeepsTrying == MaxAttempts = Infinity => outcome # "failed"

=============================================================================
