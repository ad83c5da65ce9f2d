----------------------- MODULE PersistentActionsProofs -----------------------
(***************************************************************************)
(* A persistent action runs once at a time, is stored until it has ended,  *)
(* and is gone for good once it has.                                       *)
(*                                                                         *)
(* What makes this hard is what objects leave behind: calls awaited and    *)
(* timers forgotten, by objects that are in the list no more.  The         *)
(* invariant (Abandoned) says that only an object that was cancelled can   *)
(* have left anything behind, and that the id is then out of the list, of  *)
(* the database and of what load() has read, so that no other object of    *)
(* the id comes to be.  The last invariant (Held) says why an action that  *)
(* has not ended is not forgotten either.                                  *)
(***************************************************************************)
EXTENDS PersistentActions, SequenceTheorems, TLAPS

Objects ==
  [max : {MaxAttempts, Json(MaxAttempts)}, failed : Nat, attempting : BOOLEAN,
   resolved : BOOLEAN, nextRetry : BOOLEAN, timer : BOOLEAN, loose : Nat,
   tasks : [Stages -> Nat]]

Types ==
  /\ object \in [Gens -> Objects]
  /\ gen \in 0 .. GenBound /\ cur \in 0 .. gen
  /\ stored \in BOOLEAN /\ writes \in Seq(BOOLEAN)
  /\ reading \in {"no", "entry", "empty"}
  /\ reading # "no" => gen \in 1 .. GenBound - 1
  /\ outcome \in {"none", "done", "failed", "cancelled", "skipped"}
  /\ torn \in BOOLEAN /\ budget \in 0 .. DisturbBound

\* Each failure was one of the disturbances.
Failures == \A g \in Gens : object[g].failed <= budget

\* What an object does, or can still be woken to do.
LeftOver(a) == Busy(a) \/ a.loose > 0 \/ a.timer

\* The id is out of the list, of the database and of what load() has read.
Gone == cur = 0 /\ ~Persisted /\ reading # "entry"

Abandoned ==
  /\ \A g \in Gens : g # cur /\ LeftOver(object[g]) => object[g].resolved /\ Gone
  /\ \A g, h \in Gens : LeftOver(object[g]) /\ LeftOver(object[h]) => g = h

Loading ==
  /\ reading # "no" => cur = 0
  /\ gen = 0 => outcome = "none" /\ cur = 0 /\ \A g \in Gens : ~LeftOver(object[g])

NoRetryOnceResolved == \A g \in Gens : object[g].resolved => ~object[g].nextRetry

\* An object awaits skipCondition or the invocation, never both and never two of one.
OneAtATime(a) ==
  /\ a.tasks["skip"] + a.tasks["run"] <= 1
  /\ a.attempting <=> a.tasks["run"] = 1

LeftInv ==
  Types /\ Loading /\ NoRetryOnceResolved /\ Abandoned /\ GoneForGood

RunInv == \A g \in Gens : OneAtATime(object[g])

-----------------------------------------------------------------------------
(***************************************************************************)
(* What the operations of an object leave and change.                      *)
(***************************************************************************)
LEMMA NewObject ==
  ASSUME NEW max \in {MaxAttempts, Json(MaxAttempts)}
  PROVE  /\ New(max) \in Objects /\ ~LeftOver(New(max))
         /\ New(max).failed = 0 /\ ~New(max).resolved /\ ~New(max).attempting
         /\ New(max).tasks = NoTasks
<1>1. NoTasks \in [Stages -> Nat] /\ \A s \in Stages : NoTasks[s] = 0
  BY DEF NoTasks
<1> QED
  BY <1>1 DEF New, Objects, LeftOver, Busy

LEMMA AttemptedObject ==
  ASSUME NEW a \in Objects
  PROVE  /\ Attempted(a) \in Objects
         /\ Attempted(a) = a \/ (~a.attempting /\ ~a.resolved)
         /\ Attempted(a).failed = a.failed
         /\ Attempted(a).attempting = a.attempting
         /\ Attempted(a).resolved = a.resolved
         /\ Attempted(a).nextRetry = a.nextRetry
         /\ Attempted(a).timer = a.timer
         /\ Attempted(a).loose = a.loose
         /\ Attempted(a).tasks \in
              {a.tasks, [a.tasks EXCEPT !["skip"] = @ + 1]}
<1>1. [a.tasks EXCEPT !["skip"] = @ + 1] \in [Stages -> Nat]
  BY DEF Objects, Stages
<1> QED
  BY <1>1 DEF Attempted, Objects

LEMMA CancelledObject ==
  ASSUME NEW a \in Objects
  PROVE  /\ Cancelled(a) \in Objects
         /\ Cancelled(a).failed = a.failed
         /\ Cancelled(a).attempting = a.attempting
         /\ Cancelled(a).resolved
         /\ ~Cancelled(a).nextRetry /\ ~Cancelled(a).timer
         /\ Cancelled(a).loose = a.loose /\ Cancelled(a).tasks = a.tasks
BY DEF Cancelled, Objects

\* a, but for its tasks.
SameBut(b, a) ==
  /\ b.max = a.max /\ b.failed = a.failed /\ b.attempting = a.attempting
  /\ b.resolved = a.resolved /\ b.nextRetry = a.nextRetry
  /\ b.timer = a.timer /\ b.loose = a.loose

LEMMA LeaveObject ==
  ASSUME NEW a \in Objects, NEW s \in Stages, a.tasks[s] > 0
  PROVE  /\ Leave(a, s) \in Objects
         /\ SameBut(Leave(a, s), a)
         /\ Leave(a, s).tasks = [a.tasks EXCEPT ![s] = @ - 1]
         /\ LeftOver(a)
<1>1. [a.tasks EXCEPT ![s] = @ - 1] \in [Stages -> Nat]
  BY DEF Objects
<1> QED
  BY <1>1 DEF Leave, Objects, LeftOver, Busy, SameBut

LEMMA MoveObject ==
  ASSUME NEW a \in Objects, NEW s \in Stages, NEW t \in Stages, a.tasks[s] > 0, s # t
  PROVE  /\ Move(a, s, t) \in Objects
         /\ SameBut(Move(a, s, t), a)
         /\ Move(a, s, t).tasks = [a.tasks EXCEPT ![s] = @ - 1, ![t] = @ + 1]
         /\ LeftOver(a)
<1> DEFINE tasks == [a.tasks EXCEPT ![s] = @ - 1, ![t] = @ + 1]
<1>1. tasks \in [Stages -> Nat]
  BY DEF Objects
<1>2. Move(a, s, t) = [a EXCEPT !.tasks = tasks]
  BY DEF Move, Objects
<1> QED
  BY <1>1, <1>2 DEF Objects, LeftOver, Busy, SameBut

\* skipCondition has said no.
LEMMA StartedObject ==
  ASSUME NEW a \in Objects, a.tasks["skip"] > 0
  PROVE  /\ Started(a) \in Objects /\ LeftOver(a)
         /\ Started(a).failed = a.failed
         /\ Started(a).resolved = a.resolved
         /\ Started(a).nextRetry = a.nextRetry
         /\ a.resolved => /\ Started(a).attempting = a.attempting
                          /\ Started(a).tasks = [a.tasks EXCEPT !["skip"] = @ - 1]
         /\ ~a.resolved => /\ Started(a).attempting
                           /\ Started(a).tasks =
                                [a.tasks EXCEPT !["skip"] = @ - 1, !["run"] = @ + 1]
<1>1. "skip" \in Stages /\ "run" \in Stages
  BY DEF Stages
<1>2. CASE a.resolved
  BY <1>1, <1>2, LeaveObject DEF Started, Objects, SameBut
<1>3. CASE ~a.resolved
  <2> DEFINE b == Move(a, "skip", "run")
  <2>1. /\ b \in Objects /\ SameBut(b, a) /\ LeftOver(a)
        /\ b.tasks = [a.tasks EXCEPT !["skip"] = @ - 1, !["run"] = @ + 1]
    BY <1>1, MoveObject
  <2>2. Started(a) = [b EXCEPT !.attempting = TRUE]
    BY <1>3 DEF Started
  <2> HIDE DEF b
  <2> QED
    BY <1>3, <2>1, <2>2 DEF Objects, SameBut
<1> QED
  BY <1>2, <1>3

\* The invocation has resolved.
LEMMA SucceededObject ==
  ASSUME NEW a \in Objects, a.tasks["run"] > 0
  PROVE  /\ Succeeded(a) \in Objects /\ LeftOver(a)
         /\ Succeeded(a).failed = a.failed
         /\ Succeeded(a).resolved /\ ~Succeeded(a).nextRetry
         /\ ~Succeeded(a).attempting
         /\ Succeeded(a).tasks = [a.tasks EXCEPT !["run"] = @ - 1]
<1>1. "run" \in Stages
  BY DEF Stages
<1> QED
  BY <1>1, LeaveObject DEF Succeeded, Objects, SameBut

\* The invocation has failed.
LEMMA FailedObject ==
  ASSUME NEW a \in Objects, a.tasks["run"] > 0
  PROVE  /\ Failed(a) \in Objects /\ LeftOver(a)
         /\ Failed(a).failed = a.failed + 1
         /\ a.resolved => Failed(a).resolved
         /\ Failed(a).resolved => ~Failed(a).nextRetry
         /\ ~Failed(a).attempting
         /\ \E s \in {"error", "last"} :
              Failed(a).tasks = [a.tasks EXCEPT !["run"] = @ - 1, ![s] = @ + 1]
<1> DEFINE left == AnyAttemptLeft(a)
           s == IF left THEN "error" ELSE "last"
           b == Move(a, "run", s)
           res == b.resolved \/ ~left
           next == left /\ ~a.resolved
<1>1. "run" \in Stages /\ s \in Stages /\ s \in {"error", "last"} /\ s # "run"
  BY DEF Stages
<1>2. /\ b \in Objects /\ SameBut(b, a) /\ LeftOver(a)
      /\ b.tasks = [a.tasks EXCEPT !["run"] = @ - 1, ![s] = @ + 1]
  BY <1>1, MoveObject
<1>3. Failed(a) = [b EXCEPT !.attempting = FALSE, !.failed = b.failed + 1,
                           !.resolved = res, !.nextRetry = next]
  BY DEF Failed
<1> HIDE DEF b
<1>4. /\ res \in BOOLEAN /\ next \in BOOLEAN
      /\ a.resolved => res
      /\ res => ~next
  BY <1>2 DEF SameBut, AnyAttemptLeft
<1> HIDE DEF left, s, res, next
<1>5. /\ Failed(a) \in Objects /\ Failed(a).failed = b.failed + 1
      /\ Failed(a).resolved = res /\ Failed(a).nextRetry = next
      /\ ~Failed(a).attempting /\ Failed(a).tasks = b.tasks
  <2> DEFINE c == [b EXCEPT !.attempting = FALSE, !.failed = b.failed + 1]
  <2>1. /\ c \in Objects /\ c.failed = b.failed + 1
        /\ ~c.attempting /\ c.tasks = b.tasks
    <3>1. b \in Objects /\ b.failed + 1 \in Nat
      BY <1>2 DEF Objects
    <3> QED
      BY <3>1 DEF Objects
  <2>2. Failed(a) = [c EXCEPT !.resolved = res, !.nextRetry = next]
    BY <1>3
  <2> HIDE DEF c
  <2> QED
    BY <1>4, <2>1, <2>2 DEF Objects
<1> QED
  BY <1>1, <1>2, <1>4, <1>5 DEF SameBut

\* errorInvocation has ended.
LEMMA ScheduledObject ==
  ASSUME NEW a \in Objects
  PROVE  /\ Scheduled(a) \in Objects
         /\ Scheduled(a).failed = a.failed
         /\ Scheduled(a).attempting = a.attempting
         /\ Scheduled(a).resolved = a.resolved
         /\ Scheduled(a).nextRetry = a.nextRetry
         /\ Scheduled(a).tasks = a.tasks
<1> DEFINE n == IF a.timer THEN a.loose + 1 ELSE a.loose
<1>1. n \in Nat
  BY DEF Objects
<1>2. CASE a.nextRetry
  <2>1. Scheduled(a) = [a EXCEPT !.timer = TRUE, !.loose = n]
    BY <1>2 DEF Scheduled
  <2> HIDE DEF n
  <2> QED
    BY <1>1, <2>1 DEF Objects
<1>3. CASE ~a.nextRetry
  BY <1>3 DEF Scheduled
<1> QED
  BY <1>2, <1>3

-----------------------------------------------------------------------------
(***************************************************************************)
(* What the database will hold.                                            *)
(***************************************************************************)
LEMMA Saved ==
  ASSUME Types, NEW x \in BOOLEAN, writes' = Append(writes, x)
  PROVE  writes' \in Seq(BOOLEAN) /\ Persisted' = x
<1>1. /\ writes' \in Seq(BOOLEAN) /\ writes' # <<>>
      /\ Len(writes') = Len(writes) + 1 /\ writes'[Len(writes) + 1] = x
  BY AppendProperties DEF Types
<1> QED
  BY <1>1 DEF Persisted, Last

LEMMA Written ==
  ASSUME Types, DbWrites
  PROVE  writes' \in Seq(BOOLEAN) /\ stored' \in BOOLEAN /\ Persisted' = Persisted
<1>1. writes \in Seq(BOOLEAN) /\ writes # <<>>
  BY DEF Types, DbWrites
<1>2. /\ Head(writes) \in BOOLEAN /\ Tail(writes) \in Seq(BOOLEAN)
      /\ Head(writes) = writes[1]
      /\ \A i \in 1 .. Len(writes) - 1 : Tail(writes)[i] = writes[i + 1]
  BY <1>1, HeadTailProperties
<1>3. Len(writes) \in Nat \ {0} /\ Len(Tail(writes)) = Len(writes) - 1
  BY <1>1, HeadTailProperties, EmptySeq
<1>4. Persisted = Last(writes)
  BY <1>1 DEF Persisted
<1>5. CASE Tail(writes) = <<>>
  <2>1. Len(writes) = 1
    <3>1. Len(Tail(writes)) = 0
      BY <1>5, EmptySeq
    <3> QED
      BY <1>3, <3>1
  <2>2. Last(writes) = Head(writes)
    BY <1>2, <2>1 DEF Last
  <2>3. Persisted' = stored' /\ stored' = Head(writes)
    BY <1>5 DEF Persisted, DbWrites
  <2> QED
    BY <1>1, <1>2, <1>4, <2>2, <2>3 DEF DbWrites
<1>6. CASE Tail(writes) # <<>>
  <2>1. Len(writes) - 1 \in 1 .. Len(writes) - 1
    <3>1. Len(Tail(writes)) # 0
      BY <1>2, <1>6, EmptySeq
    <3> QED
      BY <1>3, <3>1
  <2>2. Last(Tail(writes)) = Last(writes)
    BY <1>2, <1>3, <2>1 DEF Last
  <2> QED
    BY <1>1, <1>2, <1>6, <2>2 DEF DbWrites, Persisted
<1> QED
  BY <1>5, <1>6

-----------------------------------------------------------------------------
(***************************************************************************)
(* Type correctness.                                                       *)
(***************************************************************************)
TypeInv == Types /\ Failures

Other == <<gen, cur, stored, writes, reading, torn>>

\* One object goes on.
LEMMA ObjectTypes ==
  ASSUME TypeInv, NEW g \in Gens, NEW b \in Objects,
         object' = [object EXCEPT ![g] = b],
         b.failed = object[g].failed \/ (b.failed = object[g].failed + 1 /\ budget' = budget + 1),
         budget' \in {budget, budget + 1}
  PROVE  object' \in [Gens -> Objects] /\ Failures'
<1>1. /\ object \in [Gens -> Objects] /\ budget \in Nat
      /\ \A h \in Gens : object[h].failed \in Nat /\ object[h].failed <= budget
  BY BoundAssumption DEF TypeInv, Types, Failures, Objects
<1>2. object' \in [Gens -> Objects] /\ \A h \in Gens : object'[h] = IF h = g THEN b ELSE object[h]
  BY <1>1
<1>3. b.failed <= budget'
  BY <1>1
<1>4. ASSUME NEW h \in Gens PROVE object'[h].failed <= budget'
  BY <1>1, <1>2, <1>3
<1> QED
  BY <1>2, <1>4 DEF Failures

LEMMA Disturbed ==
  ASSUME TypeInv, NEW k, Disturb(k)
  PROVE  budget' = budget + 1 /\ budget' \in 0 .. DisturbBound
BY BoundAssumption DEF Disturb, TypeInv, Types

\* The list loses the id, and is saved.
LEMMA CancelTypes ==
  ASSUME TypeInv, NEW objects \in [Gens -> Objects], CancelID(objects),
         \A h \in Gens : objects[h].failed = object[h].failed,
         budget' \in {budget, budget + 1}
  PROVE  /\ object' \in [Gens -> Objects] /\ Failures'
         /\ cur' \in {0, cur} /\ writes' \in Seq(BOOLEAN)
<1>0. budget \in Nat /\ \A h \in Gens : objects[h].failed \in Nat
  BY BoundAssumption DEF TypeInv, Types, Objects
<1>1. CASE cur = 0
  BY <1>0, <1>1 DEF CancelID, TypeInv, Types, Failures
<1>2. CASE cur # 0
  <2>0. cur \in Gens
    BY <1>2, BoundAssumption DEF TypeInv, Types, Gens
  <2>1. /\ cur \in Gens /\ object' = [objects EXCEPT ![cur] = Cancelled(@)]
        /\ cur' = 0 /\ writes' = Append(writes, FALSE)
    BY <1>2, <2>0 DEF CancelID
  <2>2. /\ Cancelled(objects[cur]) \in Objects
        /\ Cancelled(objects[cur]).failed = objects[cur].failed
    BY <2>1, CancelledObject
  <2>3. object' \in [Gens -> Objects] /\ \A h \in Gens : object'[h].failed = objects[h].failed
    BY <2>1, <2>2
  <2>4. writes' \in Seq(BOOLEAN)
    BY <2>1, AppendProperties DEF TypeInv, Types
  <2> QED
    BY <1>0, <2>1, <2>3, <2>4 DEF TypeInv, Failures
<1> QED
  BY <1>1, <1>2

\* attempt() is called.
LEMMA AttemptTypes ==
  ASSUME TypeInv, NEW g \in Gens, NEW a \in Objects, a.failed = object[g].failed,
         NEW kind, Attempt(g, a, kind)
  PROVE  TypeInv'
<1>1. Attempted(a) \in Objects /\ Attempted(a).failed = object[g].failed
  BY AttemptedObject
<1>2. budget' \in {budget, budget + 1} /\ budget' \in 0 .. DisturbBound
  BY Disturbed DEF Attempt, TypeInv, Types
<1> QED
  BY <1>1, <1>2, ObjectTypes DEF Attempt, TypeInv, Types

\* What waits in an object answers.
LEMMA WorkTypes ==
  ASSUME TypeInv, NEW g \in Gens, Work(g)
  PROVE  TypeInv'
<1>0. /\ object[g] \in Objects /\ Types /\ budget \in 0 .. DisturbBound
      /\ \A s \in Stages : object[g].tasks[s] \in Nat
  BY DEF TypeInv, Types, Objects
<1>s. {"skip", "run", "error", "last"} \subseteq Stages
  BY DEF Stages
<1>1. CASE SkipAnswers(g)
  <2> DEFINE a == object[g]
  <2>1. /\ Leave(a, "skip") \in Objects /\ SameBut(Leave(a, "skip"), a)
        /\ Started(a) \in Objects /\ Started(a).failed = a.failed
    BY <1>0, <1>1, <1>s, LeaveObject, StartedObject DEF SkipAnswers
  <2>2. PICK b \in Objects : /\ object' = [object EXCEPT ![g] = b] /\ b.failed = a.failed
                             /\ budget' \in {budget, budget + 1} /\ budget' \in 0 .. DisturbBound
    <3>1. CASE Disturb("skip") /\ object' = [object EXCEPT ![g] = Cancelled(Leave(@, "skip"))]
      BY <2>1, <3>1, CancelledObject, Disturbed DEF SameBut
    <3>2. CASE object' = [object EXCEPT ![g] = Started(@)] /\ UNCHANGED budget
      BY <1>0, <2>1, <3>2
    <3> QED
      BY <1>1, <3>1, <3>2 DEF SkipAnswers
  <2> QED
    BY <1>0, <1>1, <2>2, ObjectTypes DEF SkipAnswers, TypeInv, Types
<1>2. CASE Succeeds(g)
  <2> DEFINE objects == [object EXCEPT ![g] = Succeeded(@)]
  <2>1. Succeeded(object[g]) \in Objects /\ Succeeded(object[g]).failed = object[g].failed
    BY <1>0, <1>2, SucceededObject DEF Succeeds
  <2>2. objects \in [Gens -> Objects] /\ \A h \in Gens : objects[h].failed = object[h].failed
    BY <1>0, <2>1 DEF Types
  <2>3. CancelID(objects) /\ budget' = budget
    BY <1>2 DEF Succeeds
  <2>4. /\ object' \in [Gens -> Objects] /\ Failures'
        /\ cur' \in {0, cur} /\ writes' \in Seq(BOOLEAN)
    BY <2>2, <2>3, CancelTypes
  <2>5. /\ outcome' \in {"none", "done", "failed", "cancelled", "skipped"}
        /\ UNCHANGED <<gen, stored, reading, torn, budget>>
    BY <1>2 DEF Succeeds
  <2> QED
    BY <1>0, <2>4, <2>5 DEF TypeInv, Types
<1>3. CASE Fails(g)
  <2>1. Failed(object[g]) \in Objects /\ Failed(object[g]).failed = object[g].failed + 1
    BY <1>0, <1>3, FailedObject DEF Fails
  <2>2. budget' = budget + 1 /\ budget' \in 0 .. DisturbBound
    BY <1>3, Disturbed DEF Fails
  <2> QED
    BY <1>0, <1>3, <2>1, <2>2, ObjectTypes DEF Fails, TypeInv, Types
<1>4. CASE ErrorHandled(g)
  <2> DEFINE a == Leave(object[g], "error")
  <2>1. a \in Objects /\ a.failed = object[g].failed
    BY <1>0, <1>s, <1>4, LeaveObject DEF ErrorHandled, SameBut
  <2>2. Scheduled(a) \in Objects /\ Scheduled(a).failed = object[g].failed
    BY <2>1, ScheduledObject
  <2> QED
    BY <1>0, <1>4, <2>2, ObjectTypes DEF ErrorHandled, TypeInv, Types
<1>5. CASE TotalFailure(g)
  <2> DEFINE objects == [object EXCEPT ![g] = Leave(@, "last")]
  <2>1. Leave(object[g], "last") \in Objects /\ Leave(object[g], "last").failed = object[g].failed
    BY <1>0, <1>s, <1>5, LeaveObject DEF TotalFailure, SameBut
  <2>2. objects \in [Gens -> Objects] /\ \A h \in Gens : objects[h].failed = object[h].failed
    BY <1>0, <2>1 DEF Types
  <2>3. CancelID(objects) /\ budget' = budget
    BY <1>5 DEF TotalFailure
  <2>4. /\ object' \in [Gens -> Objects] /\ Failures'
        /\ cur' \in {0, cur} /\ writes' \in Seq(BOOLEAN)
    BY <2>2, <2>3, CancelTypes
  <2>5. /\ outcome' \in {"none", "done", "failed", "cancelled", "skipped"}
        /\ UNCHANGED <<gen, stored, reading, torn, budget>>
    BY <1>5 DEF TotalFailure
  <2> QED
    BY <1>0, <2>4, <2>5 DEF TypeInv, Types
<1>6. CASE TimerFires(g)
  <2> DEFINE a == [object[g] EXCEPT !.timer = FALSE]
             b == [object[g] EXCEPT !.loose = @ - 1]
  <2>1. PICK c \in Objects : c.failed = object[g].failed /\ Attempt(g, c, "timer")
    <3>1. CASE object[g].timer /\ Attempt(g, a, "timer")
      <4>1. a \in Objects /\ a.failed = object[g].failed
        BY <1>0 DEF Objects
      <4> QED
        BY <3>1, <4>1
    <3>2. CASE object[g].loose > 0 /\ Attempt(g, b, "timer")
      <4>1. b \in Objects /\ b.failed = object[g].failed
        BY <1>0, <3>2 DEF Objects
      <4> QED
        BY <3>2, <4>1
    <3> QED
      BY <1>6, <3>1, <3>2 DEF TimerFires
  <2> QED
    BY <1>0, <2>1, AttemptTypes
<1> QED
  BY <1>1, <1>2, <1>3, <1>4, <1>5, <1>6 DEF Work

LEMMA NewTypes ==
  ASSUME TypeInv, NEW g \in Gens, NEW max \in {MaxAttempts, Json(MaxAttempts)},
         object' = [object EXCEPT ![g] = Attempted(New(max))], UNCHANGED budget
  PROVE  object' \in [Gens -> Objects] /\ Failures'
<1>1. Attempted(New(max)) \in Objects /\ Attempted(New(max)).failed = 0
  BY NewObject, AttemptedObject
<1>2. object \in [Gens -> Objects] /\ budget \in Nat /\ Failures
  BY BoundAssumption DEF TypeInv, Types
<1>3. object' \in [Gens -> Objects]
      /\ \A h \in Gens : object'[h] = IF h = g THEN Attempted(New(max)) ELSE object[h]
  BY <1>1, <1>2
<1>4. ASSUME NEW h \in Gens PROVE object'[h].failed <= budget'
  BY <1>1, <1>2, <1>3 DEF Failures
<1> QED
  BY <1>3, <1>4 DEF Failures

\* What the application, the database and load() do.
LEMMA ClientTypes ==
  ASSUME TypeInv, Client \/ Load \/ DbWrites
  PROVE  TypeInv'
<1>0. /\ Types /\ Failures /\ budget \in 0 .. DisturbBound /\ budget \in Nat
      /\ writes \in Seq(BOOLEAN) /\ gen \in 0 .. GenBound /\ GenBound \in Nat
      /\ cur \in 0 .. gen /\ object \in [Gens -> Objects]
  BY BoundAssumption DEF TypeInv, Types
<1>w. \A x \in BOOLEAN : Append(writes, x) \in Seq(BOOLEAN)
  BY <1>0, AppendProperties
<1>1. CASE Enqueue
  <2>1. 1 \in Gens
    BY <1>0, <1>1 DEF Enqueue, Gens
  <2>2. object' \in [Gens -> Objects] /\ Failures'
    BY <1>1, <2>1, NewTypes DEF Enqueue
  <2> QED
    BY <1>0, <1>1, <1>w, <2>2 DEF Enqueue, TypeInv, Types
<1>2. CASE ForceRetry
  <2>1. cur \in Gens /\ object[cur] \in Objects
    BY <1>0, <1>2 DEF ForceRetry, Gens
  <2> QED
    BY <1>2, <2>1, AttemptTypes DEF ForceRetry
<1>3. CASE Cancel
  <2>1. budget' = budget + 1 /\ budget' \in 0 .. DisturbBound
    BY <1>3, Disturbed DEF Cancel
  <2>2. /\ object' \in [Gens -> Objects] /\ Failures'
        /\ cur' \in {0, cur} /\ writes' \in Seq(BOOLEAN)
    BY <1>0, <1>3, <2>1, CancelTypes DEF Cancel
  <2>3. /\ outcome' \in {outcome, "cancelled"}
        /\ UNCHANGED <<gen, stored, reading, torn>>
    BY <1>3 DEF Cancel
  <2> QED
    BY <1>0, <2>1, <2>2, <2>3 DEF TypeInv, Types
<1>4. CASE SaveOthers
  <2>1. budget' = budget + 1 /\ budget' \in 0 .. DisturbBound
    BY <1>4, Disturbed DEF SaveOthers
  <2>2. writes' \in Seq(BOOLEAN)
    BY <1>4, <1>w DEF SaveOthers
  <2>3. UNCHANGED <<object, gen, cur, stored, reading, outcome, torn>>
    BY <1>4 DEF SaveOthers
  <2>4. Failures'
    BY <1>0, <2>1, <2>3 DEF Failures, Objects
  <2> QED
    BY <1>0, <2>1, <2>2, <2>3, <2>4 DEF TypeInv, Types
<1>5. CASE Unload
  <2> DEFINE a == [object[cur] EXCEPT !.timer = FALSE]
  <2>1. budget' = budget + 1 /\ budget' \in 0 .. DisturbBound
    BY <1>5, Disturbed DEF Unload
  <2>2. cur \in Gens /\ object[cur] \in Objects
    BY <1>0, <1>5 DEF Unload, Gens
  <2>3. a \in Objects /\ a.failed = object[cur].failed
    BY <2>2 DEF Objects
  <2>4. object' = [object EXCEPT ![cur] = a]
    BY <1>0, <1>5, <2>2 DEF Unload
  <2> HIDE DEF a
  <2>5. object' \in [Gens -> Objects] /\ Failures'
    BY <2>1, <2>2, <2>3, <2>4, ObjectTypes
  <2>6. cur' = 0 /\ UNCHANGED <<gen, stored, writes, reading, outcome, torn>>
    BY <1>5 DEF Unload
  <2> QED
    BY <1>0, <2>1, <2>5, <2>6 DEF TypeInv, Types
<1>6. CASE Crash
  <2> DEFINE a == Cancelled(New(MaxAttempts))
  <2>1. budget' = budget + 1 /\ budget' \in 0 .. DisturbBound
    BY <1>6, Disturbed DEF Crash
  <2>2. a \in Objects /\ a.failed = 0
    BY NewObject, CancelledObject
  <2>3. /\ object' = [g \in Gens |-> a]
        /\ cur' = 0 /\ writes' = <<>> /\ reading' = "no" /\ torn' \in BOOLEAN
        /\ UNCHANGED <<gen, stored, outcome>>
    BY <1>6 DEF Crash
  <2> HIDE DEF a
  <2>4. object' \in [Gens -> Objects] /\ Failures'
    BY <1>0, <2>1, <2>2, <2>3 DEF Failures
  <2>5. writes' \in Seq(BOOLEAN)
    BY <2>3, EmptySeq
  <2> QED
    BY <1>0, <2>1, <2>3, <2>4, <2>5 DEF TypeInv, Types
<1>7. CASE LoadReads
  BY <1>0, <1>7 DEF LoadReads, TypeInv, Types, Failures
<1>8. CASE LoadEnds
  <2>1. CASE reading = "entry"
    <3>1. gen < GenBound
      BY <1>0, <2>1 DEF Types
    <3>2. gen + 1 \in Gens
      BY <1>0, <3>1 DEF Gens
    <3>3. object' \in [Gens -> Objects] /\ Failures'
      BY <1>8, <2>1, <3>2, NewTypes DEF LoadEnds
    <3> QED
      BY <1>0, <1>8, <2>1, <3>1, <3>3 DEF LoadEnds, TypeInv, Types
  <2>2. CASE reading # "entry"
    BY <1>0, <1>8, <2>2 DEF LoadEnds, TypeInv, Types, Failures
  <2> QED
    BY <2>1, <2>2
<1>9. CASE DbWrites
  BY <1>0, <1>9, Written DEF DbWrites, TypeInv, Types, Failures
<1> QED
  BY <1>1, <1>2, <1>3, <1>4, <1>5, <1>6, <1>7, <1>8, <1>9 DEF Client, Load

LEMMA TypesAlways == Spec => []TypeInv
<1>1. Init => TypeInv
  <2>1. /\ New(MaxAttempts) \in Objects /\ New(MaxAttempts).failed = 0
        /\ <<>> \in Seq(BOOLEAN)
    BY NewObject, EmptySeq
  <2> SUFFICES ASSUME Init PROVE TypeInv
    OBVIOUS
  <2>2. object \in [Gens -> Objects] /\ \A g \in Gens : object[g].failed = 0
    <3> DEFINE n == New(MaxAttempts)
    <3>1. object = [g \in Gens |-> n]
      BY DEF Init
    <3> HIDE DEF n
    <3> QED
      BY <2>1, <3>1 DEF n
  <2>3. /\ gen = 0 /\ cur = 0 /\ stored = FALSE /\ writes = <<>> /\ reading = "no"
        /\ outcome = "none" /\ torn = FALSE /\ budget = 0
    BY DEF Init
  <2>4. Failures
    BY <2>2, <2>3 DEF Failures
  <2>5. gen \in 0 .. GenBound /\ cur \in 0 .. gen /\ budget \in 0 .. DisturbBound
    BY <2>3, BoundAssumption
  <2>6. writes \in Seq(BOOLEAN) /\ stored \in BOOLEAN /\ torn \in BOOLEAN
    BY <2>1, <2>3
  <2> QED
    BY <2>2, <2>3, <2>4, <2>5, <2>6 DEF TypeInv, Types
<1>2. TypeInv /\ [Next]_vars => TypeInv'
  <2> SUFFICES ASSUME TypeInv, [Next]_vars PROVE TypeInv'
    OBVIOUS
  <2>1. CASE UNCHANGED vars
    BY <2>1 DEF vars, TypeInv, Types, Failures
  <2>2. CASE Next
    BY <2>2, WorkTypes, ClientTypes DEF Next
  <2> QED
    BY <2>1, <2>2
<1> QED
  BY <1>1, <1>2, PTL DEF Spec

\* Every variable holds a value of its kind, and an object has no more failures than
\* the invocation had.
THEOREM TypeCorrect == Spec => []TypeOK
<1>1. TypeInv => TypeOK
  <2> SUFFICES ASSUME TypeInv, NEW g \in Gens
               PROVE  /\ DOMAIN object[g] = {"max", "failed", "attempting", "resolved",
                                             "nextRetry", "timer", "loose", "tasks"}
                      /\ object[g].max \in {MaxAttempts, Json(MaxAttempts)}
                      /\ object[g].failed \in 0 .. DisturbBound
                      /\ {object[g].attempting, object[g].resolved, object[g].nextRetry,
                          object[g].timer} \subseteq BOOLEAN
                      /\ object[g].loose \in Nat /\ object[g].tasks \in [Stages -> Nat]
    BY DEF TypeOK, TypeInv, Types
  <2>1. object[g] \in Objects /\ object[g].failed <= budget /\ budget \in 0 .. DisturbBound
    BY DEF TypeInv, Types, Failures
  <2> QED
    BY <2>1, BoundAssumption DEF Objects
<1> QED
  BY <1>1, TypesAlways, PTL

-----------------------------------------------------------------------------
(***************************************************************************)
(* What objects leave behind.                                              *)
(***************************************************************************)
LEMMA Unwritten ==
  ASSUME UNCHANGED <<stored, writes>> PROVE Persisted' = Persisted
BY DEF Persisted

\* One object goes on, which waited for something or is the one in the list.
LEMMA ObjectStep ==
  ASSUME LeftInv, NEW g \in Gens, NEW b \in Objects,
         object' = [object EXCEPT ![g] = b],
         UNCHANGED Other, outcome' \in {outcome, "skipped"},
         LeftOver(object[g]) \/ g = cur,
         object[g].resolved => b.resolved, b.resolved => ~b.nextRetry
  PROVE  Loading' /\ NoRetryOnceResolved' /\ Abandoned' /\ GoneForGood'
<1>1. /\ object \in [Gens -> Objects] /\ g # 0
      /\ \A h \in Gens : object'[h] = IF h = g THEN b ELSE object[h]
  BY DEF LeftInv, Types, Gens
<1>2. /\ Persisted' = Persisted /\ (Gone' <=> Gone)
      /\ gen' = gen /\ cur' = cur /\ reading' = reading /\ torn' = torn
  BY Unwritten DEF Other, Gone
<1>3. gen # 0
  BY <1>1 DEF LeftInv, Loading
<1>4. Loading'
  BY <1>2, <1>3 DEF LeftInv, Loading
<1>5. NoRetryOnceResolved'
  BY <1>1 DEF LeftInv, NoRetryOnceResolved
<1>6. \A h \in Gens : h # g /\ LeftOver(object[h]) => ~LeftOver(object[g])
  BY DEF LeftInv, Abandoned
<1>7. Abandoned'
  <2>1. ASSUME NEW h \in Gens, h # cur', LeftOver(object'[h])
        PROVE  object'[h].resolved /\ Gone'
    <3>1. CASE h = g
      BY <1>1, <1>2, <2>1, <3>1 DEF LeftInv, Abandoned
    <3>2. CASE h # g
      BY <1>1, <1>2, <2>1, <3>2 DEF LeftInv, Abandoned
    <3> QED
      BY <3>1, <3>2
  <2>2. ASSUME NEW h \in Gens, h # g, LeftOver(object'[h]) PROVE FALSE
    <3>1. LeftOver(object[h])
      BY <1>1, <2>2
    <3>2. g = cur
      BY <1>6, <2>2, <3>1
    <3>3. Gone
      BY <2>2, <3>1, <3>2 DEF LeftInv, Abandoned
    <3> QED
      BY <1>1, <3>2, <3>3 DEF Gone
  <2> QED
    BY <2>1, <2>2 DEF Abandoned
<1>8. GoneForGood'
  BY <1>2 DEF LeftInv, GoneForGood, Gone
<1> QED
  BY <1>4, <1>5, <1>7, <1>8

\* The list loses the id, for good, and is saved.
LEMMA CancelStep ==
  ASSUME LeftInv, NEW objects \in [Gens -> Objects], CancelID(objects),
         UNCHANGED <<gen, stored, reading, torn>>,
         \A h \in Gens : LeftOver(objects[h]) => LeftOver(object[h]),
         \A h \in Gens : object[h].resolved => objects[h].resolved,
         \A h \in Gens : objects[h].resolved => ~objects[h].nextRetry,
         cur # 0 \/ \E h \in Gens : LeftOver(object[h])
  PROVE  Loading' /\ NoRetryOnceResolved' /\ Abandoned' /\ GoneForGood' /\ Gone'
<1>1. gen # 0 /\ 0 \notin Gens
  BY DEF LeftInv, Loading, Gens
<1>2. /\ Gone' /\ cur' = 0
      /\ \A h \in Gens :
           /\ LeftOver(object'[h]) => LeftOver(objects[h]) /\ object'[h].resolved
           /\ object'[h].resolved => ~object'[h].nextRetry
  <2>1. CASE cur = 0
    <3>1. object' = objects /\ cur' = cur /\ writes' = writes
      BY <2>1 DEF CancelID
    <3>2. Gone
      BY <1>1, <2>1 DEF LeftInv, Abandoned
    <3>3. Gone'
      BY <3>1, <3>2, Unwritten DEF Gone
    <3> QED
      BY <1>1, <2>1, <3>1, <3>3 DEF LeftInv, Abandoned
  <2>2. CASE cur # 0
    <3>1. cur \in Gens
      BY <2>2, BoundAssumption DEF LeftInv, Types, Gens
    <3>2. /\ object' = [objects EXCEPT ![cur] = Cancelled(@)]
          /\ cur' = 0 /\ writes' = Append(writes, FALSE)
      BY <2>2 DEF CancelID
    <3>3. Persisted' = FALSE
      BY <3>2, Saved DEF LeftInv
    <3>4. Gone'
      BY <2>2, <3>2, <3>3 DEF Gone, LeftInv, Loading
    <3>5. /\ object'[cur] = Cancelled(objects[cur])
          /\ \A h \in Gens : h # cur => object'[h] = objects[h]
      BY <3>1, <3>2
    <3>6. /\ Cancelled(objects[cur]).resolved /\ ~Cancelled(objects[cur]).nextRetry
          /\ LeftOver(Cancelled(objects[cur])) => LeftOver(objects[cur])
      BY <3>1, CancelledObject DEF LeftOver, Busy
    <3>7. ASSUME NEW h \in Gens, h # cur, LeftOver(objects[h]) PROVE FALSE
      BY <2>2, <3>7 DEF LeftInv, Abandoned, Gone
    <3>8. ASSUME NEW h \in Gens
          PROVE  /\ LeftOver(object'[h]) => LeftOver(objects[h]) /\ object'[h].resolved
                 /\ object'[h].resolved => ~object'[h].nextRetry
      <4>1. CASE h = cur
        BY <3>5, <3>6, <4>1
      <4>2. CASE h # cur
        BY <3>5, <3>7, <4>2
      <4> QED
        BY <4>1, <4>2
    <3> QED
      BY <3>2, <3>4, <3>8
  <2> QED
    BY <2>1, <2>2
<1>3. Loading'
  BY <1>1, <1>2 DEF LeftInv, Loading
<1>4. NoRetryOnceResolved'
  BY <1>2 DEF NoRetryOnceResolved
<1>5. Abandoned'
  BY <1>2 DEF LeftInv, Abandoned
<1>6. GoneForGood'
  BY <1>2 DEF GoneForGood, Gone
<1> QED
  BY <1>2, <1>3, <1>4, <1>5, <1>6

\* attempt() is called for an object that a timer wakes, or for the one in the list.
LEMMA AttemptStep ==
  ASSUME LeftInv, NEW g \in Gens, NEW a \in Objects, NEW kind, Attempt(g, a, kind),
         LeftOver(object[g]) \/ g = cur,
         a.resolved = object[g].resolved, a.nextRetry = object[g].nextRetry
  PROVE  Loading' /\ NoRetryOnceResolved' /\ Abandoned' /\ GoneForGood'
<1>1. /\ Attempted(a) \in Objects
      /\ Attempted(a).resolved = object[g].resolved
      /\ Attempted(a).nextRetry = object[g].nextRetry
  BY AttemptedObject
<1>2. /\ object' = [object EXCEPT ![g] = Attempted(a)]
      /\ UNCHANGED Other /\ outcome' = outcome
  BY DEF Attempt, Other
<1>3. object[g].resolved => ~object[g].nextRetry
  BY DEF LeftInv, NoRetryOnceResolved
<1> QED
  BY <1>1, <1>2, <1>3, ObjectStep

LEMMA WorkStep ==
  ASSUME LeftInv, NEW g \in Gens, Work(g)
  PROVE  Loading' /\ NoRetryOnceResolved' /\ Abandoned' /\ GoneForGood'
<1> DEFINE a == object[g]
<1>0. /\ a \in Objects /\ object \in [Gens -> Objects]
      /\ a.resolved => ~a.nextRetry
      /\ \A h \in Gens : object[h].resolved => ~object[h].nextRetry
      /\ {"skip", "run", "error", "last"} \subseteq Stages
  BY DEF LeftInv, Types, NoRetryOnceResolved, Stages
<1>1. CASE SkipAnswers(g)
  <2>1. /\ Leave(a, "skip") \in Objects /\ SameBut(Leave(a, "skip"), a) /\ LeftOver(a)
    BY <1>0, <1>1, LeaveObject DEF SkipAnswers
  <2>2. /\ Started(a) \in Objects /\ Started(a).resolved = a.resolved
        /\ Started(a).nextRetry = a.nextRetry
    BY <1>0, <1>1, StartedObject DEF SkipAnswers
  <2>3. /\ Cancelled(Leave(a, "skip")) \in Objects
        /\ Cancelled(Leave(a, "skip")).resolved /\ ~Cancelled(Leave(a, "skip")).nextRetry
    BY <2>1, CancelledObject
  <2>4. UNCHANGED Other /\ outcome' \in {outcome, "skipped"}
    BY <1>1 DEF SkipAnswers, Other
  <2>5. CASE object' = [object EXCEPT ![g] = Cancelled(Leave(@, "skip"))]
    BY <2>1, <2>3, <2>4, <2>5, ObjectStep
  <2>6. CASE object' = [object EXCEPT ![g] = Started(@)]
    BY <1>0, <2>1, <2>2, <2>4, <2>6, ObjectStep
  <2> QED
    BY <1>1, <2>5, <2>6 DEF SkipAnswers
<1>2. CASE Succeeds(g)
  <2> DEFINE objects == [object EXCEPT ![g] = Succeeded(@)]
  <2>1. /\ Succeeded(a) \in Objects /\ LeftOver(a)
        /\ Succeeded(a).resolved /\ ~Succeeded(a).nextRetry
    BY <1>0, <1>2, SucceededObject DEF Succeeds
  <2>2. /\ objects \in [Gens -> Objects] /\ objects[g] = Succeeded(a)
        /\ \A h \in Gens : h # g => objects[h] = object[h]
    BY <1>0, <2>1
  <2>3. CancelID(objects) /\ UNCHANGED <<gen, stored, reading, torn>>
    BY <1>2 DEF Succeeds
  <2> HIDE DEF objects
  <2> QED
    BY <1>0, <2>1, <2>2, <2>3, CancelStep
<1>3. CASE Fails(g)
  <2>1. /\ Failed(a) \in Objects /\ LeftOver(a)
        /\ a.resolved => Failed(a).resolved
        /\ Failed(a).resolved => ~Failed(a).nextRetry
    BY <1>0, <1>3, FailedObject DEF Fails
  <2>2. /\ object' = [object EXCEPT ![g] = Failed(a)]
        /\ UNCHANGED Other /\ outcome' = outcome
    BY <1>3 DEF Fails, Other
  <2> QED
    BY <2>1, <2>2, ObjectStep
<1>4. CASE ErrorHandled(g)
  <2> DEFINE b == Leave(a, "error")
  <2>1. b \in Objects /\ SameBut(b, a) /\ LeftOver(a)
    BY <1>0, <1>4, LeaveObject DEF ErrorHandled
  <2>2. /\ Scheduled(b) \in Objects /\ Scheduled(b).resolved = b.resolved
        /\ Scheduled(b).nextRetry = b.nextRetry
    BY <2>1, ScheduledObject
  <2>3. /\ object' = [object EXCEPT ![g] = Scheduled(b)]
        /\ UNCHANGED Other /\ outcome' = outcome
    BY <1>4 DEF ErrorHandled, Other
  <2> HIDE DEF b
  <2> QED
    BY <1>0, <2>1, <2>2, <2>3, ObjectStep DEF SameBut
<1>5. CASE TotalFailure(g)
  <2> DEFINE objects == [object EXCEPT ![g] = Leave(@, "last")]
  <2>1. Leave(a, "last") \in Objects /\ SameBut(Leave(a, "last"), a) /\ LeftOver(a)
    BY <1>0, <1>5, LeaveObject DEF TotalFailure
  <2>2. /\ objects \in [Gens -> Objects] /\ objects[g] = Leave(a, "last")
        /\ \A h \in Gens : h # g => objects[h] = object[h]
    BY <1>0, <2>1
  <2>3. CancelID(objects) /\ UNCHANGED <<gen, stored, reading, torn>>
    BY <1>5 DEF TotalFailure
  <2> HIDE DEF objects
  <2> QED
    BY <1>0, <2>1, <2>2, <2>3, CancelStep DEF SameBut
<1>6. CASE TimerFires(g)
  <2> DEFINE b == [object[g] EXCEPT !.timer = FALSE]
             c == [object[g] EXCEPT !.loose = @ - 1]
  <2>1. CASE object[g].timer /\ Attempt(g, b, "timer")
    <3>1. /\ b \in Objects /\ b.resolved = a.resolved /\ b.nextRetry = a.nextRetry
          /\ LeftOver(a)
      BY <1>0, <2>1 DEF Objects, LeftOver
    <3> HIDE DEF b
    <3> QED
      BY <2>1, <3>1, AttemptStep
  <2>2. CASE object[g].loose > 0 /\ Attempt(g, c, "timer")
    <3>1. /\ c \in Objects /\ c.resolved = a.resolved /\ c.nextRetry = a.nextRetry
          /\ LeftOver(a)
      BY <1>0, <2>2 DEF Objects, LeftOver
    <3> HIDE DEF c
    <3> QED
      BY <2>2, <3>1, AttemptStep
  <2> QED
    BY <1>6, <2>1, <2>2 DEF TimerFires
<1> QED
  BY <1>1, <1>2, <1>3, <1>4, <1>5, <1>6 DEF Work

\* What the application, the database and load() do.  An object is unloaded only when
\* it has nothing left to do.
LEMMA ClientStep ==
  ASSUME LeftInv, Client \/ Load \/ DbWrites, "unloadBusy" \notin Disturbances
  PROVE  Loading' /\ NoRetryOnceResolved' /\ Abandoned' /\ GoneForGood'
<1>0. /\ Types /\ object \in [Gens -> Objects] /\ 0 \notin Gens
      /\ \A h \in Gens : object[h].resolved => ~object[h].nextRetry
      /\ cur \in 0 .. gen /\ gen \in Nat /\ GenBound \in Nat
  BY BoundAssumption DEF LeftInv, Types, NoRetryOnceResolved, Gens
<1>1. CASE Enqueue
  <2> DEFINE a == Attempted(New(MaxAttempts))
  <2>1. gen = 0 /\ 1 \in Gens /\ outcome = "none" /\ reading = "no"
        /\ \A h \in Gens : ~LeftOver(object[h])
    BY <1>0, <1>1 DEF Enqueue, LeftInv, Loading, Types, Gens
  <2>2. a \in Objects /\ ~a.resolved
    BY NewObject, AttemptedObject
  <2>3. /\ object' = [object EXCEPT ![1] = a] /\ gen' = 1 /\ cur' = 1
        /\ UNCHANGED <<stored, reading, outcome, torn, budget>>
    BY <1>1 DEF Enqueue
  <2> HIDE DEF a
  <2>4. \A h \in Gens : object'[h] = IF h = 1 THEN a ELSE object[h]
    BY <1>0, <2>1, <2>2, <2>3
  <2> QED
    BY <1>0, <2>1, <2>2, <2>3, <2>4 DEF Loading, NoRetryOnceResolved, Abandoned, GoneForGood
<1>2. CASE ForceRetry
  <2>1. cur \in Gens /\ object[cur] \in Objects
    BY <1>0, <1>2 DEF ForceRetry, Gens, Types
  <2> QED
    BY <1>2, <2>1, AttemptStep DEF ForceRetry
<1>3. CASE Cancel
  BY <1>0, <1>3, CancelStep DEF Cancel
<1>4. CASE SaveOthers
  <2>1. /\ writes' = Append(writes, cur # 0)
        /\ UNCHANGED <<object, gen, cur, stored, reading, outcome, torn>>
    BY <1>4 DEF SaveOthers
  <2>2. Persisted' = (cur # 0)
    BY <1>0, <2>1, Saved
  <2>3. Gone => Gone'
    BY <2>1, <2>2 DEF Gone
  <2> QED
    BY <2>1, <2>3 DEF LeftInv, Loading, NoRetryOnceResolved, Abandoned, GoneForGood, Gone
<1>5. CASE Unload
  <2> DEFINE a == [object[cur] EXCEPT !.timer = FALSE]
  <2>1. ~Busy(object[cur]) /\ ~(object[cur].loose > 0)
    BY <1>5 DEF Unload, Disturb
  <2>2. cur \in Gens /\ object[cur] \in Objects
    BY <1>0, <1>5 DEF Unload, Gens, Types
  <2>3. /\ a \in Objects /\ ~LeftOver(a) /\ a.resolved = object[cur].resolved
        /\ a.nextRetry = object[cur].nextRetry
    BY <2>1, <2>2 DEF Objects, LeftOver, Busy
  <2>4. object' = [object EXCEPT ![cur] = a]
    BY <1>0, <1>5, <2>2 DEF Unload
  <2>5. /\ cur' = 0 /\ UNCHANGED <<gen, stored, writes, reading, outcome, torn>>
        /\ cur # 0
    BY <1>5 DEF Unload
  <2> HIDE DEF a
  <2>6. \A h \in Gens : object'[h] = IF h = cur THEN a ELSE object[h]
    BY <1>0, <2>2, <2>3, <2>4
  <2>7. \A h \in Gens : ~LeftOver(object'[h])
    BY <2>3, <2>5, <2>6 DEF LeftInv, Abandoned, Gone
  <2>8. Loading' /\ NoRetryOnceResolved'
    BY <1>0, <2>3, <2>5, <2>6, <2>7 DEF LeftInv, Loading, NoRetryOnceResolved
  <2>9. Abandoned'
    BY <2>7 DEF Abandoned
  <2>10. GoneForGood'
    BY <2>5 DEF LeftInv, GoneForGood
  <2> QED
    BY <2>8, <2>9, <2>10
<1>6. CASE Crash
  <2> DEFINE a == Cancelled(New(MaxAttempts))
  <2>1. a \in Objects /\ ~LeftOver(a) /\ a.resolved /\ ~a.nextRetry
    BY NewObject, CancelledObject DEF LeftOver, Busy
  <2>2. /\ object' = [g \in Gens |-> a]
        /\ cur' = 0 /\ writes' = <<>> /\ reading' = "no"
        /\ torn' = (torn \/ writes # <<>>)
        /\ UNCHANGED <<gen, stored, outcome>> /\ gen > 0
    BY <1>6 DEF Crash
  <2> HIDE DEF a
  <2>3. \A h \in Gens : object'[h] = a
    BY <2>2
  <2>4. Loading' /\ NoRetryOnceResolved' /\ Abandoned'
    BY <2>1, <2>2, <2>3 DEF Loading, NoRetryOnceResolved, Abandoned
  <2>5. ASSUME ~torn' PROVE torn = FALSE /\ writes = <<>> /\ Persisted' = Persisted
    BY <1>0, <2>2, <2>5 DEF Persisted, Types
  <2>6. GoneForGood'
    BY <2>2, <2>5 DEF LeftInv, GoneForGood
  <2> QED
    BY <2>4, <2>6
<1>7. CASE LoadReads
  <2>1. /\ reading' = (IF Persisted THEN "entry" ELSE "empty") /\ cur = 0 /\ gen > 0
        /\ UNCHANGED <<object, gen, cur, stored, writes, outcome, torn>>
    BY <1>7 DEF LoadReads
  <2>2. Persisted' = Persisted /\ (Gone => Gone')
    BY <2>1, Unwritten DEF Gone
  <2> QED
    BY <2>1, <2>2 DEF LeftInv, Loading, NoRetryOnceResolved, Abandoned, GoneForGood, Gone
<1>8. CASE LoadEnds
  <2>1. CASE reading = "entry"
    <3> DEFINE a == Attempted(New(Json(MaxAttempts)))
    <3>1. cur = 0 /\ gen > 0 /\ gen + 1 \in Gens /\ ~Gone
      BY <1>0, <2>1 DEF LeftInv, Types, Loading, Gens, Gone
    <3>2. a \in Objects /\ ~a.resolved
      BY NewObject, AttemptedObject
    <3>3. /\ object' = [object EXCEPT ![gen + 1] = a] /\ gen' = gen + 1 /\ cur' = gen + 1
          /\ reading' = "no" /\ UNCHANGED <<stored, writes, outcome, torn, budget>>
      BY <1>8, <2>1 DEF LoadEnds
    <3> HIDE DEF a
    <3>4. \A h \in Gens : object'[h] = IF h = gen + 1 THEN a ELSE object[h]
      BY <1>0, <3>1, <3>2, <3>3
    <3>5. \A h \in Gens : ~LeftOver(object[h])
      BY <1>0, <3>1 DEF LeftInv, Abandoned
    <3>6. Loading' /\ NoRetryOnceResolved'
      BY <1>0, <3>1, <3>2, <3>3, <3>4 DEF Loading, NoRetryOnceResolved
    <3>7. Abandoned'
      BY <3>3, <3>4, <3>5 DEF Abandoned
    <3>8. GoneForGood'
      BY <3>1, <3>3 DEF LeftInv, GoneForGood, Gone
    <3> QED
      BY <3>6, <3>7, <3>8
  <2>2. CASE reading # "entry"
    <3>1. reading' = "no" /\ UNCHANGED <<object, gen, cur, stored, writes, outcome, torn>>
      BY <1>8, <2>2 DEF LoadEnds
    <3>2. Persisted' = Persisted /\ (Gone => Gone')
      BY <3>1, Unwritten DEF Gone
    <3> QED
      BY <3>1, <3>2 DEF LeftInv, Loading, NoRetryOnceResolved, Abandoned, GoneForGood, Gone
  <2> QED
    BY <2>1, <2>2
<1>9. CASE DbWrites
  <2>1. Persisted' = Persisted /\ UNCHANGED <<object, gen, cur, reading, outcome, torn>>
    BY <1>0, <1>9, Written DEF DbWrites
  <2>2. Gone => Gone'
    BY <2>1 DEF Gone
  <2> QED
    BY <2>1, <2>2 DEF LeftInv, Loading, NoRetryOnceResolved, Abandoned, GoneForGood, Gone
<1> QED
  BY <1>1, <1>2, <1>3, <1>4, <1>5, <1>6, <1>7, <1>8, <1>9 DEF Client, Load

LEMMA LeftAlways ==
  ASSUME "unloadBusy" \notin Disturbances
  PROVE  Spec => [](TypeInv /\ LeftInv)
<1>1. TypeInv /\ Init => LeftInv
  <2> SUFFICES ASSUME TypeInv, Init PROVE LeftInv
    OBVIOUS
  <2> DEFINE n == New(MaxAttempts)
  <2>1. ~LeftOver(n) /\ ~n.resolved
    BY NewObject
  <2>2. object = [g \in Gens |-> n] /\ gen = 0 /\ cur = 0 /\ reading = "no" /\ outcome = "none"
    BY DEF Init
  <2> HIDE DEF n
  <2> QED
    BY <2>1, <2>2 DEF LeftInv, TypeInv, Loading, NoRetryOnceResolved, Abandoned, GoneForGood
<1>2. TypeInv /\ TypeInv' /\ LeftInv /\ [Next]_vars => LeftInv'
  <2> SUFFICES ASSUME TypeInv, TypeInv', LeftInv, [Next]_vars PROVE LeftInv'
    OBVIOUS
  <2>1. CASE UNCHANGED vars
    BY <2>1 DEF vars, LeftInv, Types, Loading, NoRetryOnceResolved, Abandoned,
                GoneForGood, Gone, Persisted
  <2>2. CASE Next
    BY <2>2, WorkStep, ClientStep DEF Next, LeftInv, TypeInv
  <2> QED
    BY <2>1, <2>2
<1> QED
  BY <1>1, <1>2, TypesAlways, PTL DEF Spec

\* Once it has ended the action is out of the list, of the database and of what load()
\* has read, whatever was awaited when it ended, however many attempts run at once, and
\* also after restarts, up to writes that died with the process.
THEOREM GoneAlways ==
  ASSUME "unloadBusy" \notin Disturbances
  PROVE  Spec => []GoneForGood
<1>1. LeftInv => GoneForGood
  BY DEF LeftInv
<1> QED
  BY <1>1, LeftAlways, PTL

-----------------------------------------------------------------------------
(***************************************************************************)
(* Until it has ended the action is stored: only a save of the list        *)
(* without it could take it out.                                           *)
(***************************************************************************)
LEMMA DurableStep ==
  ASSUME TypeInv, Durable, "saveUnloaded" \notin Disturbances, [Next]_vars
  PROVE  Durable'
<1>0. Types /\ cur \in 0 .. gen /\ gen \in Nat
  BY BoundAssumption DEF TypeInv, Types
<1>1. ASSUME UNCHANGED <<gen, stored, writes, torn>>, outcome' \in {outcome, "skipped"}
      PROVE  Durable'
  BY <1>1, Unwritten DEF Durable
<1>2. ASSUME outcome' # "none" PROVE Durable'
  BY <1>2 DEF Durable
<1>3. CASE UNCHANGED vars
  BY <1>1, <1>3 DEF vars
<1>4. ASSUME NEW g \in Gens, Work(g) PROVE Durable'
  <2>1. CASE SkipAnswers(g)
    BY <1>1, <2>1 DEF SkipAnswers
  <2>2. CASE Succeeds(g)
    BY <1>2, <2>2 DEF Succeeds
  <2>3. CASE Fails(g)
    BY <1>1, <2>3 DEF Fails
  <2>4. CASE ErrorHandled(g)
    BY <1>1, <2>4 DEF ErrorHandled
  <2>5. CASE TotalFailure(g)
    BY <1>2, <2>5 DEF TotalFailure
  <2>6. CASE TimerFires(g)
    BY <1>1, <2>6 DEF TimerFires, Attempt
  <2> QED
    BY <1>4, <2>1, <2>2, <2>3, <2>4, <2>5, <2>6 DEF Work
<1>5. CASE Enqueue
  BY <1>0, <1>5, Saved DEF Enqueue, Durable
<1>6. CASE ForceRetry
  BY <1>1, <1>6 DEF ForceRetry, Attempt
<1>7. CASE Cancel
  BY <1>2, <1>7 DEF Cancel
<1>8. CASE SaveOthers
  <2>1. cur # 0 \/ ~Persisted
    BY <1>8 DEF SaveOthers, Disturb
  <2>2. /\ Persisted' = (cur # 0)
        /\ UNCHANGED <<gen, outcome, torn>>
    BY <1>0, <1>8, Saved DEF SaveOthers
  <2> QED
    BY <2>1, <2>2 DEF Durable
<1>9. CASE Unload
  BY <1>1, <1>9 DEF Unload
<1>10. CASE Crash
  <2>1. /\ writes' = <<>> /\ torn' = (torn \/ writes # <<>>)
        /\ UNCHANGED <<gen, stored, outcome>>
    BY <1>10 DEF Crash
  <2>2. ASSUME ~torn' PROVE ~torn /\ writes = <<>> /\ Persisted' = Persisted
    BY <2>1, <2>2 DEF Persisted
  <2> QED
    BY <2>1, <2>2 DEF Durable
<1>11. CASE Load
  <2>1. gen' # 0 => gen # 0
    BY <1>0, <1>11 DEF Load, LoadReads, LoadEnds, Types
  <2>2. UNCHANGED <<stored, writes, outcome, torn>>
    BY <1>11 DEF Load, LoadReads, LoadEnds
  <2>3. gen > 0 \/ gen' = 0
    BY <1>0, <2>1
  <2> QED
    BY <2>2, <2>3, Unwritten DEF Durable
<1>12. CASE DbWrites
  BY <1>0, <1>12, Written DEF DbWrites, Durable
<1> QED
  BY <1>3, <1>4, <1>5, <1>6, <1>7, <1>8, <1>9, <1>10, <1>11, <1>12 DEF Next, Client

\* Until it has ended the action is in the database, or on its way there, however often
\* it fails, is unloaded or loaded, up to writes that died with the process.
THEOREM DurableAlways ==
  ASSUME "saveUnloaded" \notin Disturbances
  PROVE  Spec => []Durable
<1>1. Init => Durable
  BY DEF Init, Durable
<1>2. TypeInv /\ Durable /\ [Next]_vars => Durable'
  BY DurableStep
<1> QED
  BY <1>1, <1>2, TypesAlways, PTL DEF Spec

-----------------------------------------------------------------------------
(***************************************************************************)
(* Runs of the invocation.                                                 *)
(***************************************************************************)
\* Who is out of the list keeps what waits in its objects.
LEMMA CancelKeepsTasks ==
  ASSUME Types, NEW objects \in [Gens -> Objects], CancelID(objects), NEW h \in Gens
  PROVE  /\ object'[h].tasks = objects[h].tasks
         /\ object'[h].attempting = objects[h].attempting
<1>1. CASE cur = 0
  BY <1>1 DEF CancelID
<1>2. CASE cur # 0
  <2>1. cur \in Gens
    BY <1>2, BoundAssumption DEF Types, Gens
  <2>2. object' = [objects EXCEPT ![cur] = Cancelled(@)]
    BY <1>2 DEF CancelID
  <2>3. /\ Cancelled(objects[cur]).tasks = objects[cur].tasks
        /\ Cancelled(objects[cur]).attempting = objects[cur].attempting
    BY <2>1, CancelledObject
  <2> QED
    BY <2>1, <2>2, <2>3
<1> QED
  BY <1>1, <1>2

\* attempt() is called.
LEMMA AttemptTasks ==
  ASSUME Types, NEW g \in Gens, NEW a \in Objects, NEW kind, Attempt(g, a, kind),
         a.tasks = object[g].tasks, a.attempting = object[g].attempting
  PROVE  /\ \A h \in Gens : h # g => object'[h] = object[h]
         /\ object'[g].attempting = object[g].attempting
         /\ \/ object'[g].tasks = object[g].tasks
            \/ /\ ~object[g].attempting
               /\ object'[g].tasks = [object[g].tasks EXCEPT !["skip"] = @ + 1]
               /\ object[g].tasks["skip"] > 0 => "double" \in Disturbances
<1>1. /\ Attempted(a) \in Objects
      /\ Attempted(a) = a \/ ~a.attempting
      /\ Attempted(a).attempting = a.attempting
      /\ Attempted(a).tasks \in {a.tasks, [a.tasks EXCEPT !["skip"] = @ + 1]}
  BY AttemptedObject
<1>2. /\ object'[g] = Attempted(a)
      /\ \A h \in Gens : h # g => object'[h] = object[h]
  BY <1>1 DEF Attempt, Types
<1>3. object[g].tasks["skip"] > 0 => "double" \in Disturbances
  BY DEF Attempt, Disturb
<1> QED
  BY <1>1, <1>2, <1>3

\* What each step does to the object whose turn it is: a run begins only when
\* skipCondition answers for an object that was not cancelled.
LEMMA WorkTasks ==
  ASSUME Types, NEW g \in Gens, Work(g)
  PROVE  /\ \A h \in Gens : h # g => /\ object'[h].tasks = object[h].tasks
                                    /\ object'[h].attempting = object[h].attempting
         /\ \/ /\ object'[g].attempting = object[g].attempting
               /\ \E s \in Stages \ {"run"} : 
                    object'[g].tasks = [object[g].tasks EXCEPT ![s] = @ - 1]
            \/ /\ object'[g].attempting /\ LeftOver(object[g]) /\ ~object[g].resolved
               /\ object[g].tasks["skip"] > 0
               /\ object'[g].tasks =
                    [object[g].tasks EXCEPT !["skip"] = @ - 1, !["run"] = @ + 1]
            \/ /\ ~object'[g].attempting /\ object[g].tasks["run"] > 0
               /\ object'[g].tasks["run"] = object[g].tasks["run"] - 1
               /\ object'[g].tasks["skip"] = object[g].tasks["skip"]
            \/ /\ object'[g].attempting = object[g].attempting
               /\ \/ object'[g].tasks = object[g].tasks
                  \/ /\ ~object[g].attempting
                     /\ object'[g].tasks = [object[g].tasks EXCEPT !["skip"] = @ + 1]
                     /\ object[g].tasks["skip"] > 0 => "double" \in Disturbances
<1> DEFINE a == object[g]
<1>0. /\ a \in Objects /\ object \in [Gens -> Objects]
      /\ a.tasks \in [Stages -> Nat]
      /\ {"skip", "run", "error", "last"} \subseteq Stages
  BY DEF Types, Stages, Objects
<1>1. CASE SkipAnswers(g)
  <2>1. /\ Leave(a, "skip") \in Objects /\ SameBut(Leave(a, "skip"), a) /\ LeftOver(a)
        /\ Leave(a, "skip").tasks = [a.tasks EXCEPT !["skip"] = @ - 1]
    BY <1>0, <1>1, LeaveObject DEF SkipAnswers
  <2>2. CASE object' = [object EXCEPT ![g] = Cancelled(Leave(@, "skip"))]
    <3>1. /\ Cancelled(Leave(a, "skip")).tasks = [a.tasks EXCEPT !["skip"] = @ - 1]
          /\ Cancelled(Leave(a, "skip")).attempting = a.attempting
      BY <2>1, CancelledObject DEF SameBut
    <3>2. /\ object'[g] = Cancelled(Leave(a, "skip"))
          /\ \A h \in Gens : h # g => object'[h] = object[h]
      BY <1>0, <2>2
    <3> QED
      BY <1>0, <3>1, <3>2
  <2>3. CASE object' = [object EXCEPT ![g] = Started(@)]
    <3>1. /\ object'[g] = Started(a)
          /\ \A h \in Gens : h # g => object'[h] = object[h]
      BY <1>0, <2>3
    <3>2. CASE a.resolved
      <4>1. /\ Started(a).attempting = a.attempting
            /\ Started(a).tasks = [a.tasks EXCEPT !["skip"] = @ - 1]
        BY <1>0, <1>1, <3>2, StartedObject DEF SkipAnswers
      <4> QED
        BY <1>0, <3>1, <4>1
    <3>3. CASE ~a.resolved
      <4>1. /\ Started(a).attempting
            /\ Started(a).tasks = [a.tasks EXCEPT !["skip"] = @ - 1, !["run"] = @ + 1]
        BY <1>0, <1>1, <3>3, StartedObject DEF SkipAnswers
      <4> QED
        BY <1>1, <2>1, <3>1, <3>3, <4>1 DEF SkipAnswers
    <3> QED
      BY <3>2, <3>3
  <2> QED
    BY <1>1, <2>2, <2>3 DEF SkipAnswers
<1>2. CASE Succeeds(g)
  <2> DEFINE objects == [object EXCEPT ![g] = Succeeded(@)]
  <2>1. /\ Succeeded(a) \in Objects /\ ~Succeeded(a).attempting
        /\ Succeeded(a).tasks = [a.tasks EXCEPT !["run"] = @ - 1] /\ a.tasks["run"] > 0
    BY <1>0, <1>2, SucceededObject DEF Succeeds
  <2>2. /\ objects \in [Gens -> Objects] /\ objects[g] = Succeeded(a)
        /\ \A h \in Gens : h # g => objects[h] = object[h]
    BY <1>0, <2>1
  <2>3. CancelID(objects)
    BY <1>2 DEF Succeeds
  <2> HIDE DEF objects
  <2>4. \A h \in Gens : /\ object'[h].tasks = objects[h].tasks
                       /\ object'[h].attempting = objects[h].attempting
    BY <2>2, <2>3, CancelKeepsTasks
  <2>5. /\ Succeeded(a).tasks["run"] = a.tasks["run"] - 1
        /\ Succeeded(a).tasks["skip"] = a.tasks["skip"]
    BY <1>0, <2>1
  <2> QED
    BY <2>1, <2>2, <2>4, <2>5
<1>3. CASE Fails(g)
  <2>1. PICK s \in {"error", "last"} :
          Failed(a).tasks = [a.tasks EXCEPT !["run"] = @ - 1, ![s] = @ + 1]
    BY <1>0, <1>3, FailedObject DEF Fails
  <2>2. Failed(a) \in Objects /\ ~Failed(a).attempting /\ a.tasks["run"] > 0
    BY <1>0, <1>3, FailedObject DEF Fails
  <2>3. /\ object'[g] = Failed(a)
        /\ \A h \in Gens : h # g => object'[h] = object[h]
    BY <1>0, <1>3 DEF Fails
  <2>4. /\ Failed(a).tasks["run"] = a.tasks["run"] - 1
        /\ Failed(a).tasks["skip"] = a.tasks["skip"]
    BY <1>0, <2>1
  <2> QED
    BY <2>2, <2>3, <2>4
<1>4. CASE ErrorHandled(g)
  <2> DEFINE b == Leave(a, "error")
  <2>1. /\ b \in Objects /\ SameBut(b, a)
        /\ b.tasks = [a.tasks EXCEPT !["error"] = @ - 1]
    BY <1>0, <1>4, LeaveObject DEF ErrorHandled
  <2>2. Scheduled(b).tasks = b.tasks /\ Scheduled(b).attempting = b.attempting
    BY <2>1, ScheduledObject
  <2>3. object' = [object EXCEPT ![g] = Scheduled(b)]
    BY <1>4 DEF ErrorHandled
  <2> HIDE DEF b
  <2>4. /\ object'[g] = Scheduled(b)
        /\ \A h \in Gens : h # g => object'[h] = object[h]
    BY <1>0, <2>3
  <2> QED
    BY <1>0, <2>1, <2>2, <2>4 DEF SameBut
<1>5. CASE TotalFailure(g)
  <2> DEFINE objects == [object EXCEPT ![g] = Leave(@, "last")]
  <2>1. /\ Leave(a, "last") \in Objects /\ SameBut(Leave(a, "last"), a)
        /\ Leave(a, "last").tasks = [a.tasks EXCEPT !["last"] = @ - 1]
    BY <1>0, <1>5, LeaveObject DEF TotalFailure
  <2>2. /\ objects \in [Gens -> Objects] /\ objects[g] = Leave(a, "last")
        /\ \A h \in Gens : h # g => objects[h] = object[h]
    BY <1>0, <2>1
  <2>3. CancelID(objects)
    BY <1>5 DEF TotalFailure
  <2> HIDE DEF objects
  <2>4. \A h \in Gens : /\ object'[h].tasks = objects[h].tasks
                       /\ object'[h].attempting = objects[h].attempting
    BY <2>2, <2>3, CancelKeepsTasks
  <2>5. /\ object'[g].attempting = a.attempting
        /\ object'[g].tasks = [a.tasks EXCEPT !["last"] = @ - 1]
    BY <2>1, <2>2, <2>4 DEF SameBut
  <2>6. "last" \in Stages \ {"run"}
    BY <1>0
  <2> QED
    BY <2>2, <2>4, <2>5, <2>6
<1>6. CASE TimerFires(g)
  <2> DEFINE b == [object[g] EXCEPT !.timer = FALSE]
             c == [object[g] EXCEPT !.loose = @ - 1]
  <2>1. PICK d \in Objects : /\ Attempt(g, d, "timer") /\ d.tasks = a.tasks
                             /\ d.attempting = a.attempting
    <3>1. CASE object[g].timer /\ Attempt(g, b, "timer")
      <4>1. b \in Objects /\ b.tasks = a.tasks /\ b.attempting = a.attempting
        BY <1>0 DEF Objects
      <4> QED
        BY <3>1, <4>1
    <3>2. CASE object[g].loose > 0 /\ Attempt(g, c, "timer")
      <4>1. c \in Objects /\ c.tasks = a.tasks /\ c.attempting = a.attempting
        BY <1>0, <3>2 DEF Objects
      <4> QED
        BY <3>2, <4>1
    <3> QED
      BY <1>6, <3>1, <3>2 DEF TimerFires
  <2> QED
    BY <2>1, AttemptTasks
<1> QED
  BY <1>1, <1>2, <1>3, <1>4, <1>5, <1>6 DEF Work

\* An application's call or a load starts no run; it calls attempt() for one object at
\* most.
LEMMA ClientTasks ==
  ASSUME Types, Client \/ Load \/ DbWrites, NEW h \in Gens
  PROVE  \/ /\ object'[h].attempting = object[h].attempting
            /\ \/ object'[h].tasks = object[h].tasks
               \/ /\ ~object[h].attempting
                  /\ object'[h].tasks = [object[h].tasks EXCEPT !["skip"] = @ + 1]
                  /\ object[h].tasks["skip"] > 0 => "double" \in Disturbances
         \/ /\ ~object'[h].attempting
            /\ object'[h].tasks \in {NoTasks, [NoTasks EXCEPT !["skip"] = @ + 1]}
<1>0. /\ object \in [Gens -> Objects] /\ cur \in 0 .. gen /\ gen \in 0 .. GenBound
      /\ GenBound \in Nat
  BY BoundAssumption DEF Types
<1>1. ASSUME NEW max \in {MaxAttempts, Json(MaxAttempts)}
      PROVE  /\ ~Attempted(New(max)).attempting
             /\ Attempted(New(max)).tasks \in {NoTasks, [NoTasks EXCEPT !["skip"] = @ + 1]}
  BY NewObject, AttemptedObject
<1>2. CASE Enqueue
  BY <1>0, <1>1, <1>2 DEF Enqueue
<1>3. CASE ForceRetry
  <2>1. cur \in Gens /\ object[cur] \in Objects /\ Attempt(cur, object[cur], "force")
    BY <1>0, <1>3 DEF ForceRetry, Gens
  <2> QED
    BY <2>1, AttemptTasks
<1>4. CASE Cancel
  BY <1>0, <1>4, CancelKeepsTasks DEF Cancel
<1>5. CASE SaveOthers \/ DbWrites \/ LoadReads
  BY <1>5 DEF SaveOthers, DbWrites, LoadReads
<1>6. CASE Unload
  <2>1. object' = [object EXCEPT ![cur].timer = FALSE] /\ cur \in Gens
    BY <1>0, <1>6 DEF Unload, Gens
  <2>2. CASE h = cur
    BY <1>0, <2>1, <2>2 DEF Objects
  <2>3. CASE h # cur
    BY <1>0, <2>1, <2>3
  <2> QED
    BY <2>2, <2>3
<1>7. CASE Crash
  <2>1. object'[h] = Cancelled(New(MaxAttempts))
    BY <1>7 DEF Crash
  <2> QED
    BY <2>1, NewObject, CancelledObject
<1>8. CASE LoadEnds
  BY <1>0, <1>1, <1>8 DEF LoadEnds
<1> QED
  BY <1>2, <1>3, <1>4, <1>5, <1>6, <1>7, <1>8 DEF Client, Load

\* What a step means for the calls that wait for skipCondition and for the invocation.
LEMMA Counts ==
  ASSUME TypeInv, Next, NEW h \in Gens,
         NEW skip, skip = object[h].tasks["skip"], NEW run, run = object[h].tasks["run"]
  PROVE  /\ skip \in Nat /\ run \in Nat
         /\ \/ /\ object'[h].attempting = object[h].attempting
               /\ object'[h].tasks["run"] = run /\ object'[h].tasks["skip"] \in {skip, skip - 1}
            \/ /\ object'[h].attempting = object[h].attempting /\ ~object[h].attempting
               /\ object'[h].tasks["run"] = run /\ object'[h].tasks["skip"] = skip + 1
               /\ skip > 0 => "double" \in Disturbances
            \/ /\ object'[h].attempting /\ LeftOver(object[h]) /\ ~object[h].resolved
               /\ skip > 0
               /\ object'[h].tasks["run"] = run + 1 /\ object'[h].tasks["skip"] = skip - 1
            \/ /\ ~object'[h].attempting /\ run > 0
               /\ object'[h].tasks["run"] = run - 1 /\ object'[h].tasks["skip"] = skip
            \/ /\ ~object'[h].attempting
               /\ object'[h].tasks["run"] = 0 /\ object'[h].tasks["skip"] \in {0, 1}
<1> DEFINE t == object[h].tasks
<1>0. /\ t \in [Stages -> Nat] /\ Types /\ "run" \in Stages /\ "skip" \in Stages
      /\ skip = t["skip"] /\ run = t["run"]
  BY DEF TypeInv, Types, Objects, Stages
<1>1. skip \in Nat /\ run \in Nat
  BY <1>0
<1>2. \A s \in Stages \ {"run"} :
        /\ [t EXCEPT ![s] = @ - 1]["run"] = run
        /\ [t EXCEPT ![s] = @ - 1]["skip"] \in {skip, skip - 1}
  BY <1>0
<1>3. /\ [t EXCEPT !["skip"] = @ - 1, !["run"] = @ + 1]["run"] = run + 1
      /\ [t EXCEPT !["skip"] = @ - 1, !["run"] = @ + 1]["skip"] = skip - 1
      /\ [t EXCEPT !["skip"] = @ + 1]["run"] = run
      /\ [t EXCEPT !["skip"] = @ + 1]["skip"] = skip + 1
  BY <1>0
<1>4. /\ NoTasks["run"] = 0 /\ NoTasks["skip"] = 0
      /\ [NoTasks EXCEPT !["skip"] = @ + 1]["run"] = 0
      /\ [NoTasks EXCEPT !["skip"] = @ + 1]["skip"] = 1
  BY <1>0 DEF NoTasks
<1> HIDE DEF t
<1>5. ASSUME NEW g \in Gens, Work(g), h # g
      PROVE  object'[h].tasks = t /\ object'[h].attempting = object[h].attempting
  BY <1>0, <1>5, WorkTasks DEF t
<1>6. ASSUME Work(h)
      PROVE  \/ /\ object'[h].attempting = object[h].attempting
                /\ \E s \in Stages \ {"run"} : object'[h].tasks = [t EXCEPT ![s] = @ - 1]
             \/ /\ object'[h].attempting /\ LeftOver(object[h]) /\ ~object[h].resolved
                /\ skip > 0
                /\ object'[h].tasks = [t EXCEPT !["skip"] = @ - 1, !["run"] = @ + 1]
             \/ /\ ~object'[h].attempting /\ run > 0
                /\ object'[h].tasks["run"] = run - 1
                /\ object'[h].tasks["skip"] = skip
             \/ /\ object'[h].attempting = object[h].attempting
                /\ \/ object'[h].tasks = t
                   \/ /\ ~object[h].attempting
                      /\ object'[h].tasks = [t EXCEPT !["skip"] = @ + 1]
                      /\ skip > 0 => "double" \in Disturbances
  BY <1>0, <1>6, WorkTasks DEF t
<1>7. ASSUME Client \/ Load \/ DbWrites
      PROVE  \/ /\ object'[h].attempting = object[h].attempting
                /\ \/ object'[h].tasks = t
                   \/ /\ ~object[h].attempting
                      /\ object'[h].tasks = [t EXCEPT !["skip"] = @ + 1]
                      /\ skip > 0 => "double" \in Disturbances
             \/ /\ ~object'[h].attempting
                /\ object'[h].tasks \in {NoTasks, [NoTasks EXCEPT !["skip"] = @ + 1]}
  BY <1>0, <1>7, ClientTasks DEF t
<1>8. CASE \E g \in Gens : Work(g)
  <2>1. CASE \E g \in Gens : Work(g) /\ h # g
    BY <1>0, <1>1, <1>5, <2>1
  <2>2. CASE Work(h)
    BY <1>0, <1>1, <1>2, <1>3, <1>6, <2>2
  <2> QED
    BY <1>8, <2>1, <2>2
<1>9. CASE Client \/ Load \/ DbWrites
  BY <1>0, <1>1, <1>3, <1>4, <1>7, <1>9
<1> QED
  BY <1>1, <1>8, <1>9 DEF Next

\* A run starts only for the object in the list: never once the action was cancelled, has
\* ended, or was unloaded, whatever was still awaited and whichever timers still run.
THEOREM StartsAlways ==
  ASSUME "unloadBusy" \notin Disturbances
  PROVE  Spec => StartsLoaded
<1>1. TypeInv /\ LeftInv /\ [Next]_vars =>
        [\A g \in Gens : object'[g].tasks["run"] > object[g].tasks["run"] => g = cur]_vars
  <2> SUFFICES ASSUME TypeInv, LeftInv, Next, NEW h \in Gens, h # cur,
                      object'[h].tasks["run"] > object[h].tasks["run"]
               PROVE  FALSE
    OBVIOUS
  <2>1. LeftOver(object[h]) /\ ~object[h].resolved
    BY Counts
  <2> QED
    BY <2>1 DEF LeftInv, Abandoned
<1> QED
  BY <1>1, LeftAlways, PTL DEF Spec, StartsLoaded

LEMMA RunStep ==
  ASSUME TypeInv, RunInv, "double" \notin Disturbances, [Next]_vars
  PROVE  RunInv'
<1> SUFFICES ASSUME NEW h \in Gens PROVE OneAtATime(object'[h])
  BY DEF RunInv
<1>1. OneAtATime(object[h])
  BY DEF RunInv
<1>2. CASE Next
  <2> DEFINE skip == object[h].tasks["skip"]
             run == object[h].tasks["run"]
  <2>1. /\ skip \in Nat /\ run \in Nat
        /\ \/ /\ object'[h].attempting = object[h].attempting
              /\ object'[h].tasks["run"] = run /\ object'[h].tasks["skip"] \in {skip, skip - 1}
           \/ /\ object'[h].attempting = object[h].attempting /\ ~object[h].attempting
              /\ object'[h].tasks["run"] = run /\ object'[h].tasks["skip"] = skip + 1
              /\ skip > 0 => "double" \in Disturbances
           \/ /\ object'[h].attempting /\ skip > 0
              /\ object'[h].tasks["run"] = run + 1 /\ object'[h].tasks["skip"] = skip - 1
           \/ /\ ~object'[h].attempting /\ run > 0
              /\ object'[h].tasks["run"] = run - 1 /\ object'[h].tasks["skip"] = skip
           \/ /\ ~object'[h].attempting
              /\ object'[h].tasks["run"] = 0 /\ object'[h].tasks["skip"] \in {0, 1}
    BY <1>2, Counts
  <2>2. skip + run <= 1 /\ (object[h].attempting <=> run = 1)
    BY <1>1 DEF OneAtATime
  <2> HIDE DEF skip, run
  <2> QED
    BY <2>1, <2>2 DEF OneAtATime
<1>3. CASE UNCHANGED vars
  BY <1>1, <1>3 DEF vars
<1> QED
  BY <1>2, <1>3

\* The invocation never runs twice at once, whatever retries, timers, cancellations and
\* restarts there are, if none of them comes while skipCondition is awaited.
THEOREM OneRunAlways ==
  ASSUME "double" \notin Disturbances, "unloadBusy" \notin Disturbances
  PROVE  Spec => []OneRun
<1>1. Init => RunInv
  <2>1. /\ ~New(MaxAttempts).attempting
        /\ New(MaxAttempts).tasks["skip"] = 0 /\ New(MaxAttempts).tasks["run"] = 0
    BY NewObject DEF NoTasks, Stages
  <2> QED
    BY <2>1 DEF Init, RunInv, OneAtATime
<1>2. TypeInv /\ RunInv /\ [Next]_vars => RunInv'
  BY RunStep
<1>3. TypeInv /\ LeftInv /\ RunInv => OneRun
  <2> SUFFICES ASSUME TypeInv, LeftInv, RunInv, NEW g \in Gens, NEW h \in Gens,
                      object[g].tasks["run"] > 0, object[h].tasks["run"] > 0
               PROVE  g = h /\ object[g].tasks["run"] = 1
    BY DEF OneRun
  <2>1. "run" \in Stages /\ "skip" \in Stages /\ object[g].tasks \in [Stages -> Nat]
    BY DEF Stages, TypeInv, Types, Objects
  <2>2. LeftOver(object[g]) /\ LeftOver(object[h])
    BY <2>1 DEF LeftOver, Busy
  <2>3. g = h
    BY <2>2 DEF LeftInv, Abandoned
  <2>4. OneAtATime(object[g])
    BY DEF RunInv
  <2> QED
    BY <2>1, <2>3, <2>4 DEF OneAtATime
<1> QED
  BY <1>1, <1>2, <1>3, LeftAlways, TypesAlways, PTL DEF Spec

-----------------------------------------------------------------------------
(***************************************************************************)
(* In hand: an object in the list that has not ended has a task, or its    *)
(* timer, and what it still awaits leads to one of them.  A resolved one   *)
(* is about to be given up (its task is "last"), and one that awaits       *)
(* errorInvocation with attempts left will set its timer.                  *)
(***************************************************************************)
Held(a) ==
  /\ Busy(a) \/ a.timer
  /\ a.resolved => a.tasks["last"] > 0
  /\ a.tasks["error"] > 0 => a.nextRetry \/ a.tasks["last"] > 0
  /\ a.attempting => a.tasks["run"] > 0

HeldInv == outcome = "none" /\ cur # 0 => Held(object[cur])

\* load() found the id if it is needed.
ReadInv == gen > 0 /\ outcome = "none" /\ ~torn /\ cur = 0 => reading # "empty"

HandInv == HeldInv /\ ReadInv

Unread == reading # "no" => cur = 0

\* attempt() is called for an object, perhaps by the timer it set.
LEMMA AttemptedHeld ==
  ASSUME NEW a \in Objects, NEW d \in Objects, d.tasks = a.tasks, d.attempting = a.attempting,
         d.resolved = a.resolved, d.nextRetry = a.nextRetry, Held(a)
  PROVE  Held(Attempted(d))
<1> DEFINE t == a.tasks
           more == [t EXCEPT !["skip"] = @ + 1]
<1>1. /\ t \in [Stages -> Nat] /\ {"skip", "run", "error", "last"} \subseteq Stages
      /\ t = d.tasks
  BY DEF Objects, Stages
<1>2. CASE d.attempting \/ d.resolved
  <2>1. Attempted(d) = d
    BY <1>2 DEF Attempted
  <2>2. t["run"] > 0 \/ t["last"] > 0
    BY <1>2 DEF Held
  <2> QED
    BY <1>1, <2>1, <2>2 DEF Held, Busy
<1>3. CASE ~(d.attempting \/ d.resolved)
  <2>1. /\ more \in [Stages -> Nat] /\ more["skip"] > 0
        /\ more["error"] = t["error"] /\ more["last"] = t["last"]
    BY <1>1
  <2>2. Attempted(d) = [d EXCEPT !.tasks = more]
    BY <1>1, <1>3 DEF Attempted
  <2> HIDE DEF more
  <2>3. /\ Attempted(d).tasks = more /\ Attempted(d).resolved = d.resolved
        /\ Attempted(d).attempting = d.attempting /\ Attempted(d).nextRetry = d.nextRetry
    BY <2>2 DEF Objects
  <2> HIDE DEF t
  <2>4. Busy(Attempted(d))
    BY <1>1, <2>1, <2>3 DEF Busy
  <2>5. /\ ~Attempted(d).attempting /\ ~Attempted(d).resolved
        /\ Attempted(d).tasks["error"] > 0 => Attempted(d).nextRetry \/ Attempted(d).tasks["last"] > 0
    BY <1>3, <2>1, <2>3 DEF Held, t
  <2> QED
    BY <2>4, <2>5 DEF Held
<1> QED
  BY <1>2, <1>3

LEMMA NewHeld ==
  ASSUME NEW max \in {MaxAttempts, Json(MaxAttempts)}
  PROVE  Held(Attempted(New(max)))
<1> DEFINE a == New(max)
           more == [NoTasks EXCEPT !["skip"] = @ + 1]
<1>1. a \in Objects /\ ~a.resolved /\ ~a.attempting /\ a.tasks = NoTasks
  BY NewObject
<1>2. /\ {"skip", "run", "error", "last"} \subseteq Stages
      /\ more["skip"] > 0 /\ more["error"] = 0
  BY DEF NoTasks, Stages
<1>3. Attempted(a) = [a EXCEPT !.tasks = more]
  BY <1>1 DEF Attempted
<1> HIDE DEF a, more
<1>4. /\ Attempted(a).tasks = more
      /\ ~Attempted(a).resolved /\ ~Attempted(a).attempting
  BY <1>1, <1>3 DEF Objects
<1>5. Busy(Attempted(a))
  BY <1>2, <1>4 DEF Busy
<1>6. Held(Attempted(a))
  BY <1>2, <1>4, <1>5 DEF Held
<1> QED
  BY <1>6 DEF a

\* skipCondition says no, or yes once the object is resolved.
LEMMA StartedHeld ==
  ASSUME NEW a \in Objects, a.tasks["skip"] > 0, Held(a)
  PROVE  Held(Started(a))
<1> DEFINE t == a.tasks
           less == [t EXCEPT !["skip"] = @ - 1]
           runs == [t EXCEPT !["skip"] = @ - 1, !["run"] = @ + 1]
<1>1. t \in [Stages -> Nat] /\ {"skip", "run", "error", "last"} \subseteq Stages
  BY DEF Objects, Stages
<1>2. /\ less["run"] = t["run"] /\ less["error"] = t["error"] /\ less["last"] = t["last"]
      /\ runs["run"] = t["run"] + 1 /\ runs["error"] = t["error"] /\ runs["last"] = t["last"]
      /\ t["run"] \in Nat
  BY <1>1
<1>3. Started(a).resolved = a.resolved /\ Started(a).nextRetry = a.nextRetry
  BY StartedObject
<1>4. CASE a.resolved
  <2>1. Started(a).attempting = a.attempting /\ Started(a).tasks = less
    BY <1>4, StartedObject
  <2> HIDE DEF less, runs
  <2>2. Started(a).tasks["last"] > 0
    BY <1>2, <1>4, <2>1 DEF Held
  <2>3. Busy(Started(a))
    BY <1>1, <2>2 DEF Busy
  <2>4. Started(a).attempting => Started(a).tasks["run"] > 0
    BY <1>2, <2>1 DEF Held
  <2> QED
    BY <2>2, <2>3, <2>4 DEF Held
<1>5. CASE ~a.resolved
  <2>1. Started(a).attempting /\ Started(a).tasks = runs
    BY <1>5, StartedObject
  <2> HIDE DEF less, runs
  <2>2. Started(a).tasks["run"] > 0
    BY <1>2, <2>1
  <2>3. Busy(Started(a))
    BY <1>1, <2>2 DEF Busy
  <2>4. /\ ~Started(a).resolved
        /\ Started(a).tasks["error"] > 0 => Started(a).nextRetry \/ Started(a).tasks["last"] > 0
    BY <1>2, <1>3, <1>5, <2>1 DEF Held
  <2> QED
    BY <2>2, <2>3, <2>4 DEF Held
<1> QED
  BY <1>4, <1>5

LEMMA SkippedHeld ==
  ASSUME NEW a \in Objects, a.tasks["skip"] > 0, a.resolved, Held(a)
  PROVE  Held(Cancelled(Leave(a, "skip")))
<1> DEFINE t == a.tasks
           less == [t EXCEPT !["skip"] = @ - 1]
           b == Cancelled(Leave(a, "skip"))
<1>1. t \in [Stages -> Nat] /\ {"skip", "run", "error", "last"} \subseteq Stages
  BY DEF Objects, Stages
<1>2. less["run"] = t["run"] /\ less["last"] = t["last"]
  BY <1>1
<1>3. b.tasks = less /\ b.attempting = a.attempting
  <2>1. /\ Leave(a, "skip") \in Objects /\ SameBut(Leave(a, "skip"), a)
        /\ Leave(a, "skip").tasks = less
    BY <1>1, LeaveObject
  <2> QED
    BY <2>1, CancelledObject DEF SameBut
<1> HIDE DEF less, b
<1>4. b.tasks["last"] > 0
  BY <1>2, <1>3 DEF Held
<1>5. Busy(b)
  BY <1>1, <1>4 DEF Busy
<1>6. Held(b)
  BY <1>2, <1>3, <1>4, <1>5 DEF Held
<1> QED
  BY <1>6 DEF b

\* The invocation fails: errorInvocation is called, with or without attempts left.
LEMMA FailedHeld ==
  ASSUME NEW a \in Objects, a.tasks["run"] > 0, Held(a)
  PROVE  Held(Failed(a))
<1> DEFINE left == AnyAttemptLeft(a)
           s == IF left THEN "error" ELSE "last"
           t == a.tasks
           moved == [t EXCEPT !["run"] = @ - 1, ![s] = @ + 1]
           b == Move(a, "run", s)
           res == b.resolved \/ ~left
           next == left /\ ~a.resolved
           c == [b EXCEPT !.attempting = FALSE, !.failed = b.failed + 1]
<1>1. /\ t \in [Stages -> Nat] /\ {"skip", "run", "error", "last"} \subseteq Stages
      /\ s \in Stages /\ s # "run"
  BY DEF Objects, Stages
<1>2. b \in Objects /\ SameBut(b, a) /\ b.tasks = moved
  BY <1>1, MoveObject
<1>3. /\ moved[s] > 0 /\ t["last"] \in Nat
      /\ left => moved["last"] = t["last"]
      /\ ~left => moved["last"] > 0
  BY <1>1
<1>4. Failed(a) = [c EXCEPT !.resolved = res, !.nextRetry = next]
  BY DEF Failed
<1>5. c \in Objects /\ ~c.attempting /\ c.tasks = moved
  <2>1. b \in Objects /\ b.failed + 1 \in Nat /\ b.tasks = moved
    BY <1>2 DEF Objects
  <2> HIDE DEF b, moved
  <2> QED
    BY <2>1 DEF Objects
<1>6. res = (a.resolved \/ ~left)
  BY <1>2 DEF SameBut
<1> HIDE DEF c, moved, b
<1>7. /\ Failed(a).tasks = moved /\ ~Failed(a).attempting
      /\ Failed(a).resolved = res /\ Failed(a).nextRetry = next
  BY <1>4, <1>5 DEF Objects
<1>8. Busy(Failed(a))
  BY <1>1, <1>3, <1>7 DEF Busy
<1> HIDE DEF left, s, res
<1>9. Failed(a).resolved => Failed(a).tasks["last"] > 0
  BY <1>3, <1>6, <1>7 DEF Held
<1>10. Failed(a).nextRetry \/ Failed(a).tasks["last"] > 0
  BY <1>3, <1>7 DEF Held
<1> QED
  BY <1>7, <1>8, <1>9, <1>10 DEF Held

\* errorInvocation has ended.
LEMMA ScheduledHeld ==
  ASSUME NEW a \in Objects, a.tasks["error"] > 0, Held(a)
  PROVE  Held(Scheduled(Leave(a, "error")))
<1> DEFINE t == a.tasks
           less == [t EXCEPT !["error"] = @ - 1]
           b == Leave(a, "error")
<1>1. t \in [Stages -> Nat] /\ {"skip", "run", "error", "last"} \subseteq Stages
  BY DEF Objects, Stages
<1>2. less["run"] = t["run"] /\ less["last"] = t["last"]
  BY <1>1
<1>3. b \in Objects /\ SameBut(b, a) /\ b.tasks = less
  BY <1>1, LeaveObject
<1> HIDE DEF less, b
<1>4. /\ Scheduled(b).tasks = less /\ Scheduled(b).attempting = a.attempting
      /\ Scheduled(b).resolved = a.resolved /\ Scheduled(b).nextRetry = a.nextRetry
  BY <1>3, ScheduledObject DEF SameBut
<1>5. Busy(Scheduled(b)) \/ Scheduled(b).timer
  <2>1. CASE a.nextRetry
    <3> DEFINE n == IF b.timer THEN b.loose + 1 ELSE b.loose
    <3>1. Scheduled(b) = [b EXCEPT !.timer = TRUE, !.loose = n]
      BY <1>3, <2>1 DEF Scheduled, SameBut
    <3> HIDE DEF n
    <3> QED
      BY <1>3, <3>1 DEF Objects
  <2>2. CASE ~a.nextRetry
    <3>1. Scheduled(b).tasks["last"] > 0
      BY <1>2, <1>4, <2>2 DEF Held
    <3> QED
      BY <1>1, <3>1 DEF Busy
  <2> QED
    BY <2>1, <2>2
<1>6. /\ Scheduled(b).nextRetry \/ Scheduled(b).tasks["last"] > 0
      /\ Scheduled(b).resolved => Scheduled(b).tasks["last"] > 0
      /\ Scheduled(b).attempting => Scheduled(b).tasks["run"] > 0
  BY <1>2, <1>4 DEF Held
<1>7. Held(Scheduled(b))
  BY <1>5, <1>6 DEF Held
<1> QED
  BY <1>7 DEF b

\* attempt() is called for an object of the id.
LEMMA AttemptHand ==
  ASSUME TypeInv, HandInv, NEW g \in Gens, NEW d \in Objects, NEW kind, Attempt(g, d, kind),
         d.tasks = object[g].tasks, d.attempting = object[g].attempting,
         d.resolved = object[g].resolved, d.nextRetry = object[g].nextRetry
  PROVE  HandInv'
<1>1. /\ object \in [Gens -> Objects] /\ object' = [object EXCEPT ![g] = Attempted(d)]
      /\ UNCHANGED <<gen, cur, reading, outcome, torn>>
  BY DEF TypeInv, Types, Attempt
<1>2. object'[g] = Attempted(d) /\ \A h \in Gens : h # g => object'[h] = object[h]
  BY <1>1
<1>3. cur # 0 => cur \in Gens
  BY BoundAssumption DEF TypeInv, Types, Gens
<1>4. HeldInv'
  BY <1>1, <1>2, <1>3, AttemptedHeld DEF HandInv, HeldInv
<1> QED
  BY <1>1, <1>4 DEF HandInv, ReadInv

LEMMA WorkHand ==
  ASSUME TypeInv, HandInv, NEW g \in Gens, Work(g)
  PROVE  HandInv'
<1> DEFINE a == object[g]
<1>1. /\ object \in [Gens -> Objects] /\ a \in Objects
      /\ cur # 0 => cur \in Gens
  BY BoundAssumption DEF TypeInv, Types, Gens
<1>2. ASSUME outcome' # "none" PROVE HandInv'
  BY <1>2 DEF HandInv, HeldInv, ReadInv
<1>3. ASSUME NEW b, object' = [object EXCEPT ![g] = b], Held(a) => Held(b),
             UNCHANGED <<gen, cur, reading, outcome, torn>>
      PROVE  HandInv'
  <2>1. object'[g] = b /\ \A h \in Gens : h # g => object'[h] = object[h]
    BY <1>1, <1>3
  <2>2. HeldInv'
    BY <1>1, <1>3, <2>1 DEF HandInv, HeldInv
  <2> QED
    BY <1>3, <2>2 DEF HandInv, ReadInv
<1>4. CASE SkipAnswers(g)
  <2>1. a.tasks["skip"] > 0 /\ UNCHANGED <<gen, cur, reading, torn>>
    BY <1>4 DEF SkipAnswers
  <2>2. CASE /\ object' = [object EXCEPT ![g] = Cancelled(Leave(@, "skip"))]
             /\ outcome' = IF a.resolved THEN outcome ELSE "skipped"
    <3>1. CASE a.resolved
      <4>1. object' = [object EXCEPT ![g] = Cancelled(Leave(a, "skip"))]
        BY <2>2
      <4>2. Held(a) => Held(Cancelled(Leave(a, "skip")))
        BY <1>1, <2>1, <3>1, SkippedHeld
      <4> QED
        BY <1>3, <2>1, <2>2, <3>1, <4>1, <4>2
    <3>2. CASE ~a.resolved
      BY <1>2, <2>2, <3>2
    <3> QED
      BY <3>1, <3>2
  <2>3. CASE object' = [object EXCEPT ![g] = Started(@)] /\ UNCHANGED outcome
    <3>1. object' = [object EXCEPT ![g] = Started(a)]
      BY <2>3
    <3>2. Held(a) => Held(Started(a))
      BY <1>1, <2>1, StartedHeld
    <3> QED
      BY <1>3, <2>1, <2>3, <3>1, <3>2
  <2> QED
    BY <1>4, <2>2, <2>3 DEF SkipAnswers
<1>5. CASE Succeeds(g)
  BY <1>2, <1>5 DEF Succeeds
<1>6. CASE Fails(g)
  <2>1. /\ a.tasks["run"] > 0 /\ object' = [object EXCEPT ![g] = Failed(a)]
        /\ UNCHANGED <<gen, cur, reading, outcome, torn>>
    BY <1>6 DEF Fails
  <2>2. Held(a) => Held(Failed(a))
    BY <1>1, <2>1, FailedHeld
  <2> QED
    BY <1>3, <2>1, <2>2
<1>7. CASE ErrorHandled(g)
  <2>1. /\ a.tasks["error"] > 0 /\ object' = [object EXCEPT ![g] = Scheduled(Leave(a, "error"))]
        /\ UNCHANGED <<gen, cur, reading, outcome, torn>>
    BY <1>7 DEF ErrorHandled
  <2>2. Held(a) => Held(Scheduled(Leave(a, "error")))
    BY <1>1, <2>1, ScheduledHeld
  <2> QED
    BY <1>3, <2>1, <2>2
<1>8. CASE TotalFailure(g)
  <2>1. outcome' # "none"
    BY <1>8 DEF TotalFailure
  <2> QED
    BY <1>2, <2>1
<1>9. CASE TimerFires(g)
  <2> DEFINE b == [object[g] EXCEPT !.timer = FALSE]
             c == [object[g] EXCEPT !.loose = @ - 1]
  <2>1. CASE Attempt(g, b, "timer")
    <3>1. /\ b \in Objects /\ b.tasks = a.tasks /\ b.attempting = a.attempting
          /\ b.resolved = a.resolved /\ b.nextRetry = a.nextRetry
      BY <1>1 DEF Objects
    <3> QED
      BY <2>1, <3>1, AttemptHand
  <2>2. CASE object[g].loose > 0 /\ Attempt(g, c, "timer")
    <3>1. /\ c \in Objects /\ c.tasks = a.tasks /\ c.attempting = a.attempting
          /\ c.resolved = a.resolved /\ c.nextRetry = a.nextRetry
      BY <1>1, <2>2 DEF Objects
    <3> QED
      BY <2>2, <3>1, AttemptHand
  <2> QED
    BY <1>9, <2>1, <2>2 DEF TimerFires
<1> QED
  BY <1>4, <1>5, <1>6, <1>7, <1>8, <1>9 DEF Work

LEMMA HandStep ==
  ASSUME TypeInv, Unread, Durable, HandInv, [Next]_vars
  PROVE  HandInv'
<1>1. /\ object \in [Gens -> Objects] /\ gen \in 0 .. GenBound /\ cur \in 0 .. gen
      /\ reading \in {"no", "entry", "empty"} /\ GenBound \in Nat
      /\ cur # 0 => cur \in Gens
  BY BoundAssumption DEF TypeInv, Types, Gens
<1>2. ASSUME outcome' # "none" PROVE HandInv'
  BY <1>2 DEF HandInv, HeldInv, ReadInv
<1>3. ASSUME UNCHANGED <<object, gen, cur, reading, outcome, torn>> PROVE HandInv'
  BY <1>3 DEF HandInv, HeldInv, ReadInv
<1>4. CASE UNCHANGED vars
  BY <1>3, <1>4 DEF vars
<1>5. ASSUME NEW g \in Gens, Work(g) PROVE HandInv'
  BY <1>5, WorkHand
<1>6. CASE Enqueue
  <2>1. cur' = 1 /\ object'[1] = Attempted(New(MaxAttempts))
    BY <1>1, <1>6 DEF Enqueue, Gens
  <2> QED
    BY <2>1, NewHeld DEF HandInv, HeldInv, ReadInv
<1>7. CASE ForceRetry
  BY <1>1, <1>7, AttemptHand DEF ForceRetry
<1>8. CASE Cancel
  <2>1. outcome' # "none"
    BY <1>8 DEF Cancel
  <2> QED
    BY <1>2, <2>1
<1>9. CASE SaveOthers \/ DbWrites
  BY <1>3, <1>9 DEF SaveOthers, DbWrites
<1>10. CASE Unload
  <2>1. cur # 0 /\ cur' = 0 /\ reading' = reading
    BY <1>10 DEF Unload
  <2>2. reading = "no"
    BY <2>1 DEF Unread
  <2> QED
    BY <2>1, <2>2 DEF HandInv, HeldInv, ReadInv
<1>11. CASE Crash
  BY <1>11 DEF Crash, HandInv, HeldInv, ReadInv
<1>12. CASE LoadReads
  <2>1. /\ cur' = 0 /\ reading' = (IF Persisted THEN "entry" ELSE "empty")
        /\ UNCHANGED <<gen, outcome, torn>>
    BY <1>12 DEF LoadReads
  <2>2. gen > 0 /\ outcome = "none" /\ ~torn => Persisted
    BY DEF Durable
  <2> QED
    BY <2>1, <2>2 DEF HandInv, HeldInv, ReadInv
<1>13. CASE LoadEnds
  <2>1. CASE reading = "entry"
    <3>1. gen + 1 \in Gens
      BY <1>1, <2>1 DEF TypeInv, Types, Gens
    <3>2. cur' = gen + 1 /\ object'[gen + 1] = Attempted(New(Json(MaxAttempts)))
      BY <1>1, <1>13, <2>1, <3>1 DEF LoadEnds
    <3>3. reading' = "no"
      BY <1>13 DEF LoadEnds
    <3> QED
      BY <3>2, <3>3, NewHeld DEF HandInv, HeldInv, ReadInv
  <2>2. CASE reading # "entry"
    BY <1>13, <2>2 DEF LoadEnds, HandInv, HeldInv, ReadInv
  <2> QED
    BY <2>1, <2>2
<1> QED
  BY <1>4, <1>5, <1>6, <1>7, <1>8, <1>9, <1>10, <1>11, <1>12, <1>13 DEF Next, Client, Load

\* While load() waits there is nothing in the list.
LEMMA UnreadStep ==
  ASSUME TypeInv, Unread, [Next]_vars
  PROVE  Unread'
<1>1. ASSUME cur' \in {0, cur}, reading' \in {reading, "no"} PROVE Unread'
  BY <1>1 DEF Unread
<1>2. \A objects : CancelID(objects) => cur' \in {0, cur}
  BY DEF CancelID
<1>3. ASSUME NEW g \in Gens, Work(g) PROVE Unread'
  <2>1. cur' \in {0, cur} /\ reading' = reading
    BY <1>2, <1>3 DEF Work, SkipAnswers, Succeeds, Fails, ErrorHandled, TotalFailure,
                      TimerFires, Attempt
  <2> QED
    BY <1>1, <2>1
<1>4. CASE Enqueue
  <2>1. reading = "no" /\ reading' = reading
    BY <1>4, BoundAssumption DEF Enqueue, TypeInv, Types
  <2> QED
    BY <2>1 DEF Unread
<1>5. CASE ForceRetry \/ Cancel \/ SaveOthers \/ Unload \/ Crash \/ DbWrites
  <2>1. cur' \in {0, cur} /\ reading' \in {reading, "no"}
    BY <1>2, <1>5 DEF ForceRetry, Attempt, Cancel, SaveOthers, Unload, Crash, DbWrites
  <2> QED
    BY <1>1, <2>1
<1>6. CASE Load
  BY <1>6 DEF Load, LoadReads, LoadEnds, Unread
<1>7. CASE UNCHANGED vars
  BY <1>1, <1>7 DEF vars
<1> QED
  BY <1>3, <1>4, <1>5, <1>6, <1>7 DEF Next, Client

\* Until it has ended somebody has the action in hand, whatever fails, is retried by force
\* or restarted, and also with several attempts at once: its object awaits something or
\* has set its timer, or load() finds it.
THEOREM InHandAlways ==
  ASSUME "saveUnloaded" \notin Disturbances
  PROVE  Spec => []InHand
<1>1. Init => Unread /\ HandInv /\ Durable
  BY DEF Init, Unread, HandInv, HeldInv, ReadInv, Durable
<1>2. TypeInv /\ Unread /\ HandInv /\ Durable /\ [Next]_vars => (Unread /\ HandInv /\ Durable)'
  BY UnreadStep, HandStep, DurableStep
<1>3. TypeInv /\ HandInv /\ Durable => InHand
  BY DEF InHand, TypeInv, Types, HandInv, HeldInv, ReadInv, Held, Durable
<1> QED
  BY <1>1, <1>2, <1>3, TypesAlways, PTL DEF Spec

=============================================================================
