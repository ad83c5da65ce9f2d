------------------------- MODULE ContractRefsProofs -------------------------
(***************************************************************************)
(* Theorems about ContractRefs for every set of contracts and users, every *)
(* relation of foreign keys, and every choice of faults, but for the kinds *)
(* that a theorem excludes.                                                *)
(*                                                                         *)
(* First the types and counts, then what is kept (NeedInv: who needs a     *)
(* contract has a sync of it under way), what is watched (LinkInv: a watch *)
(* is set, or on its way) and what goes (LeaveInv: a removal stands behind *)
(* every sync of a contract nobody needs).                                 *)
(***************************************************************************)
EXTENDS ContractRefs, FiniteSetTheorems, SequenceTheorems, TLAPS

USE ForeignAssumption, UserAssumption, BoundAssumption

Tasks == [op : Ops, by : Contracts, user : Users \union {Nobody}]
Stages == {"out", "waiting", "inside", "leaked"}
Open == {"waiting", "inside", "leaked"}

\* The users in q2 are those of q1, in their order, but for the first k.
Follows(q2, q1, k) ==
  \A i \in 1 .. Len(q2) : q2[i].user # Nobody =>
    i + k \in 1 .. Len(q1) /\ q2[i].user = q1[i + k].user

\* The users in the queue q of c wait, for c, and once.
Awaits(q, c, sc, o) ==
  /\ \A i \in 1 .. Len(q) : q[i].user # Nobody => sc[q[i].user] = "waiting" /\ o[q[i].user] = c
  /\ \A i, j \in 1 .. Len(q) : q[i].user # Nobody /\ q[i].user = q[j].user => i = j

QueueStep(q2, q1) ==
  /\ q2 \in Seq(Tasks)
  /\ Follows(q2, q1, 0) \/ (q1 # <<>> /\ Follows(q2, q1, 1))

AwaitInv ==
  /\ \A c \in Contracts : Awaits(queue[c], c, scope, on)
  /\ \A u \in Users : scope[u] # "out" => on[u] \in Contracts

Inv == TypeOK /\ CountsAgree /\ AwaitInv

LEMMA TaskTypes ==
  /\ \A op \in Ops, b \in Contracts : /\ Task(op, b, Nobody) \in Tasks
                                      /\ Task(op, b, Nobody).user = Nobody
                                      /\ Plain(b, op) = Task(op, b, Nobody)
  /\ \A op \in Ops, b \in Contracts, u \in Users :
       Task(op, b, u) \in Tasks /\ Task(op, b, u).user = u
  /\ {"sync", "resync", "noop", "remove", "delete", "post", "watch", "unwatch"} \subseteq Ops
BY DEF Task, Tasks, Plain, Ops

\* Staying, growing by a plain task, and losing the first task are queue steps.
LEMMA QueueSteps ==
  ASSUME NEW q \in Seq(Tasks), NEW t \in Tasks, t.user = Nobody
  PROVE  /\ QueueStep(q, q)
         /\ QueueStep(Append(q, t), q)
         /\ q # <<>> => /\ QueueStep(Tail(q), q) /\ Follows(Tail(q), q, 1)
                        /\ QueueStep(Append(Tail(q), t), q)
                        /\ Follows(Append(Tail(q), t), q, 1)
                        /\ Head(q) \in Tasks /\ Head(q) = q[1] /\ Len(q) >= 1
<1>1. QueueStep(q, q) BY DEF QueueStep, Follows
<1>2. QueueStep(Append(q, t), q)
  <2>1. Append(q, t) \in Seq(Tasks) /\ Len(Append(q, t)) = Len(q) + 1 OBVIOUS
  <2>2. \A i \in 1 .. Len(q) + 1 : Append(q, t)[i] = IF i = Len(q) + 1 THEN t ELSE q[i]
    OBVIOUS
  <2>3. Follows(Append(q, t), q, 0) BY <2>1, <2>2 DEF Follows
  <2>4. QED BY <2>1, <2>3 DEF QueueStep
<1>3. ASSUME q # <<>>
      PROVE  /\ Tail(q) \in Seq(Tasks) /\ Head(q) \in Tasks /\ Head(q) = q[1]
             /\ Len(q) >= 1 /\ Len(Tail(q)) = Len(q) - 1
             /\ \A i \in 1 .. Len(q) - 1 : Tail(q)[i] = q[i + 1]
  BY <1>3
<1>4. ASSUME q # <<>> PROVE Follows(Tail(q), q, 1)
  BY <1>3, <1>4 DEF Follows
<1>5. ASSUME q # <<>>
      PROVE  Append(Tail(q), t) \in Seq(Tasks) /\ Follows(Append(Tail(q), t), q, 1)
  <2> DEFINE r == Append(Tail(q), t)
  <2>1. r \in Seq(Tasks) /\ Len(r) = Len(q) BY <1>3, <1>5
  <2>2. \A i \in 1 .. Len(q) : r[i] = IF i = Len(q) THEN t ELSE q[i + 1]
    BY <1>3, <1>5
  <2> HIDE DEF r
  <2>5. ASSUME NEW i \in 1 .. Len(r), r[i].user # Nobody
        PROVE  i + 1 \in 1 .. Len(q) /\ r[i].user = q[i + 1].user
    <3>1. i # Len(q) BY <2>2, <2>5, <2>1, <1>3, <1>5
    <3>2. QED BY <3>1, <2>1, <2>2, <2>5
  <2>3. Follows(r, q, 1) BY <2>5 DEF Follows
  <2>4. QED BY <2>1, <2>3 DEF r
<1>6. QED BY <1>1, <1>2, <1>3, <1>4, <1>5 DEF QueueStep

\* A queue step keeps what holds of the users still in the queue.
LEMMA StepAwaits ==
  ASSUME NEW q1 \in Seq(Tasks), NEW q2 \in Seq(Tasks), NEW k \in {0, 1},
         Follows(q2, q1, k), NEW c, NEW sc1, NEW o1, NEW sc2, NEW o2,
         Awaits(q1, c, sc1, o1),
         \A i \in 1 .. Len(q2) : q2[i].user # Nobody =>
           sc2[q2[i].user] = sc1[q2[i].user] /\ o2[q2[i].user] = o1[q2[i].user]
  PROVE  Awaits(q2, c, sc2, o2)
<1>1. ASSUME NEW i \in 1 .. Len(q2), q2[i].user # Nobody
      PROVE  i + k \in 1 .. Len(q1) /\ q2[i].user = q1[i + k].user
  BY <1>1 DEF Follows
<1>2. \A i \in 1 .. Len(q2) : q2[i].user # Nobody =>
        sc2[q2[i].user] = "waiting" /\ o2[q2[i].user] = c
  BY <1>1 DEF Awaits
<1>3. ASSUME NEW i \in 1 .. Len(q2), NEW j \in 1 .. Len(q2),
             q2[i].user # Nobody, q2[i].user = q2[j].user
      PROVE  i = j
  <2>1. i + k = j + k BY <1>1, <1>3 DEF Awaits
  <2>2. QED BY <2>1
<1>4. QED BY <1>2, <1>3 DEF Awaits

QueueType == queue \in [Contracts -> Seq(Tasks)]

LEMMA QueueTyped ==
  ASSUME TypeOK
  PROVE  /\ QueueType
         /\ \A c \in Contracts : queue[c] \in Seq(Tasks)
         /\ scope \in [Users -> Stages] /\ on \in [Users -> Contracts \union {Nobody}]
BY DEF TypeOK, QueueType, Tasks, Stages

QueuesStep == QueueType' /\ \A d \in Contracts : QueueStep(queue'[d], queue[d])

\* Steps that leave the scopes alone keep AwaitInv.
LEMMA KeepAwaits ==
  ASSUME TypeOK, AwaitInv, QueuesStep, UNCHANGED <<scope, on>>
  PROVE  AwaitInv'
<1>1. ASSUME NEW d \in Contracts PROVE Awaits(queue'[d], d, scope', on')
  <2>1. queue[d] \in Seq(Tasks) /\ queue'[d] \in Seq(Tasks)
    BY QueueTyped DEF QueuesStep, QueueStep
  <2>2. PICK k \in {0, 1} : Follows(queue'[d], queue[d], k)
    BY DEF QueuesStep, QueueStep
  <2>3. Awaits(queue[d], d, scope, on) BY DEF AwaitInv
  <2>4. QED BY <2>1, <2>2, <2>3, StepAwaits
<1>2. QED BY <1>1 DEF AwaitInv

\* Steps that neither count nor open a scope keep CountsAgree.
LEMMA KeepCounts ==
  ASSUME CountsAgree, UNCHANGED <<refs, eph, held>>,
         \A d \in Contracts : row'[d] # "gone" => row[d] # "gone",
         \A d \in Contracts : Using(d, Open)' = Using(d, Open)
  PROVE  CountsAgree'
BY DEF CountsAgree, Open

LEMMA SameUsers ==
  ASSUME UNCHANGED <<scope, on>>
  PROVE  \A d \in Contracts : Using(d, Open)' = Using(d, Open)
BY DEF Using, Open

\* The task in front of the queue of c ends: its user goes on or leaks, and stays
\* among those that count.
LEMMA SettleStep ==
  ASSUME TypeOK, AwaitInv, NEW c \in Contracts, NEW ok \in BOOLEAN,
         queue[c] # <<>>, Settle(c, ok), QueuesStep,
         Follows(queue'[c], queue[c], 1)
  PROVE  /\ AwaitInv'
         /\ scope' \in [Users -> Stages] /\ on' = on
         /\ \A d \in Contracts : Using(d, Open)' = Using(d, Open)
<1> DEFINE u == Head(queue[c]).user
<1>1. /\ queue[c] \in Seq(Tasks) /\ Len(queue[c]) >= 1 /\ Head(queue[c]) = queue[c][1]
      /\ Head(queue[c]) \in Tasks
  <2>1. queue[c] \in Seq(Tasks) BY QueueTyped
  <2>2. QED BY <2>1
<1>2. u \in Users \union {Nobody} BY <1>1 DEF Tasks
<1>3. scope \in [Users -> Stages] /\ on \in [Users -> Contracts \union {Nobody}]
  BY QueueTyped
<1>4. on' = on BY DEF Settle
<1>5. CASE u = Nobody
  <2>1. UNCHANGED <<scope, on>> BY <1>5 DEF Settle
  <2>2. QED BY <2>1, <1>3, KeepAwaits, SameUsers
<1>6. CASE u # Nobody
  <2>1. u \in Users BY <1>2, <1>6
  <2>2. scope[u] = "waiting" /\ on[u] = c BY <1>1, <1>6 DEF AwaitInv, Awaits
  <2>3. PICK s \in {"inside", "leaked"} : scope' = [scope EXCEPT ![u] = s]
    BY <1>6 DEF Settle
  <2>4. scope' \in [Users -> Stages] BY <2>3, <1>3 DEF Stages
  <2>5. ASSUME NEW d \in Contracts PROVE Using(d, Open)' = Using(d, Open)
    <3>1. ASSUME NEW v \in Users
          PROVE  scope'[v] \in Open <=> scope[v] \in Open
      BY <2>2, <2>3, <1>3 DEF Open
    <3>2. QED BY <3>1, <1>4 DEF Using
  <2>6. ASSUME NEW d \in Contracts PROVE Awaits(queue'[d], d, scope', on')
    <3>1. queue[d] \in Seq(Tasks) /\ queue'[d] \in Seq(Tasks)
      BY QueueTyped DEF QueuesStep, QueueStep
    <3>2. Awaits(queue[d], d, scope, on) BY DEF AwaitInv
    <3>3. PICK k \in {0, 1} : Follows(queue'[d], queue[d], k) /\ (d = c => k = 1)
      BY DEF QueuesStep, QueueStep
    <3>4. ASSUME NEW i \in 1 .. Len(queue'[d]), queue'[d][i].user # Nobody
          PROVE  scope'[queue'[d][i].user] = scope[queue'[d][i].user]
      <4>1. /\ i + k \in 1 .. Len(queue[d])
            /\ queue'[d][i].user = queue[d][i + k].user
        BY <3>3, <3>4 DEF Follows
      <4>2. queue[d][i + k] \in Tasks BY <4>1, <3>1
      <4>3. queue'[d][i].user \in Users BY <4>1, <4>2, <3>4 DEF Tasks
      <4>4. queue'[d][i].user # u
        <5>1. CASE d # c
          <6>1. on[queue[d][i + k].user] = d BY <3>2, <4>1, <3>4 DEF Awaits
          <6>2. QED BY <6>1, <5>1, <2>2, <4>1
        <5>2. CASE d = c
          <6>1. i + k # 1 /\ 1 \in 1 .. Len(queue[c]) BY <3>3, <5>2, <1>1
          <6>2. queue[c][1].user = u BY <1>1
          <6>3. QED BY <6>1, <6>2, <5>2, <4>1, <3>2, <3>4 DEF Awaits
        <5>3. QED BY <5>1, <5>2
      <4>5. QED BY <4>3, <4>4, <2>3, <1>3
    <3>5. QED BY <3>1, <3>2, <3>3, <3>4, <1>4, StepAwaits
  <2>7. ASSUME NEW v \in Users, scope'[v] # "out" PROVE on'[v] \in Contracts
    BY <2>7, <2>2, <2>3, <1>3, <1>4 DEF AwaitInv
  <2>8. QED BY <2>4, <2>5, <2>6, <2>7, <1>4 DEF AwaitInv
<1>7. QED BY <1>5, <1>6

-----------------------------------------------------------------------------
(* What each action does to the queues. *)

LEMMA QueueSame == ASSUME TypeOK, queue' = queue PROVE QueuesStep
<1>1. QueueType BY QueueTyped
<1>2. ASSUME NEW d \in Contracts PROVE QueueStep(queue[d], queue[d])
  BY QueueTyped DEF QueueStep, Follows
<1>3. QED BY <1>1, <1>2 DEF QueuesStep, QueueType

\* A plain task is added to one queue.
LEMMA QueueGrows ==
  ASSUME TypeOK, NEW c \in Contracts, NEW t \in Tasks, t.user = Nobody,
         queue' = [queue EXCEPT ![c] = Append(@, t)]
  PROVE  QueuesStep
<1>1. QueueType /\ \A d \in Contracts : queue[d] \in Seq(Tasks) BY QueueTyped
<1>2. ASSUME NEW d \in Contracts PROVE QueueStep(queue'[d], queue[d])
  <2>1. queue'[d] = IF d = c THEN Append(queue[d], t) ELSE queue[d]
    BY <1>1 DEF QueueType
  <2>2. QED BY <2>1, <1>1, QueueSteps
<1>3. \A d \in Contracts : queue'[d] \in Seq(Tasks) BY <1>2 DEF QueueStep
<1>4. QueueType' BY <1>1, <1>3 DEF QueueType
<1>5. QED BY <1>2, <1>4 DEF QueuesStep

PlainTask == Task("sync", CHOOSE c \in Contracts : TRUE, Nobody)

LEMMA PlainTaskType == ASSUME NEW c \in Contracts PROVE PlainTask \in Tasks /\ PlainTask.user = Nobody
BY TaskTypes DEF PlainTask

\* The first task of c ends, and each queue may get a plain task.
LEMMA QueueEnds ==
  ASSUME TypeOK, NEW c \in Contracts, queue[c] # <<>>,
         NEW t \in [Contracts -> Tasks], \A d \in Contracts : t[d].user = Nobody,
         queue' = [d \in Contracts |-> queue'[d]],
         queue'[c] = Tail(queue[c]) \/ queue'[c] = Append(Tail(queue[c]), t[c]),
         \A d \in Contracts \ {c} : queue'[d] = queue[d] \/ queue'[d] = Append(queue[d], t[d])
  PROVE  QueuesStep /\ Follows(queue'[c], queue[c], 1)
<1>1. \A d \in Contracts : queue[d] \in Seq(Tasks) BY QueueTyped
<1>2. \A d \in Contracts : t[d] \in Tasks /\ t[d].user = Nobody OBVIOUS
<1>3. ASSUME NEW d \in Contracts, d # c PROVE QueueStep(queue'[d], queue[d])
  <2>1. CASE queue'[d] = queue[d] BY <2>1, <1>1, <1>2, QueueSteps
  <2>2. CASE queue'[d] = Append(queue[d], t[d]) BY <2>2, <1>1, <1>2, QueueSteps
  <2>3. QED BY <2>1, <2>2, <1>3
<1>4. QueueStep(queue'[c], queue[c]) /\ Follows(queue'[c], queue[c], 1)
  <2>1. CASE queue'[c] = Tail(queue[c]) BY <2>1, <1>1, <1>2, QueueSteps
  <2>2. CASE queue'[c] = Append(Tail(queue[c]), t[c]) BY <2>2, <1>1, <1>2, QueueSteps
  <2>3. QED BY <2>1, <2>2
<1>5. \A d \in Contracts : QueueStep(queue'[d], queue[d]) BY <1>3, <1>4
<1>6. \A d \in Contracts : queue'[d] \in Seq(Tasks) BY <1>5 DEF QueueStep
<1>7. queue' \in [Contracts -> Seq(Tasks)] BY <1>6
<1>8. QED BY <1>4, <1>5, <1>7 DEF QueuesStep, QueueType

LEMMA DoneStep ==
  ASSUME TypeOK, NEW c \in Contracts, queue[c] # <<>>, queue' = Done(c)
  PROVE  QueuesStep /\ Follows(queue'[c], queue[c], 1)
<1> DEFINE t == [d \in Contracts |-> PlainTask]
<1>1. t \in [Contracts -> Tasks] /\ \A d \in Contracts : t[d].user = Nobody
  BY PlainTaskType
<1>2. QueueType BY QueueTyped
<1>3. /\ queue' = [d \in Contracts |-> queue'[d]]
      /\ queue'[c] = Tail(queue[c])
      /\ \A d \in Contracts \ {c} : queue'[d] = queue[d]
  BY <1>2 DEF QueueType, Done
<1> HIDE DEF t
<1>4. QED BY <1>1, <1>3, QueueEnds

LEMMA ReleasedStep ==
  ASSUME TypeOK, NEW c \in Contracts, NEW r, NEW e, queue' = Released(c, r, e)
  PROVE  QueuesStep
<1>1. Plain(c, "remove") \in Tasks /\ Plain(c, "remove").user = Nobody BY TaskTypes
<1>2. CASE queue' = queue BY <1>2, QueueSame
<1>3. CASE queue' = [queue EXCEPT ![c] = Append(@, Plain(c, "remove"))]
  BY <1>1, <1>3, QueueGrows
<1>4. QED BY <1>2, <1>3 DEF Released

LEMMA RemoveStep ==
  ASSUME TypeOK, NEW c \in Contracts, queue[c] # <<>>, NEW becomes, Remove(c, becomes)
  PROVE  QueuesStep
<1>1. CASE queue' = Done(c) BY <1>1, DoneStep
<1>2. CASE queue' = ReleaseForeign(c, sub')
  <2> DEFINE t == [d \in Contracts |-> Plain(d, "remove")]
  <2>1. t \in [Contracts -> Tasks] /\ \A d \in Contracts : t[d].user = Nobody
    BY TaskTypes
  <2>2. QueueType BY QueueTyped
  <2>3. \A d \in Contracts : Done(c)[d] = IF d = c THEN Tail(queue[d]) ELSE queue[d]
    BY <2>2 DEF QueueType, Done
  <2>4. /\ queue' = [d \in Contracts |-> queue'[d]]
        /\ \A d \in Contracts : queue'[d] =
             IF d \in Foreign[c] /\ HasRow(d) /\ Collectible(d, refs, eph, watch, sub')
             THEN Append(queue[d], t[d]) ELSE Done(c)[d]
    BY <1>2 DEF ReleaseForeign
  <2>5. c \notin Foreign[c] OBVIOUS
  <2>6. /\ queue'[c] = Tail(queue[c])
        /\ \A d \in Contracts \ {c} :
             queue'[d] = queue[d] \/ queue'[d] = Append(queue[d], t[d])
    BY <2>3, <2>4, <2>5
  <2> HIDE DEF t
  <2>7. QED BY <2>1, <2>4, <2>6, QueueEnds
<1>3. QED BY <1>1, <1>2 DEF Remove

LEMMA WatchForeignKeysStep ==
  ASSUME TypeOK, NEW c \in Contracts, WatchForeignKeys(c)
  PROVE  QueuesStep
<1> DEFINE t == Task("watch", c, Nobody)
<1>1. t \in Tasks /\ t.user = Nobody BY TaskTypes
<1>2. QueueType /\ queue[c] # <<>> /\ \A d \in Contracts : queue[d] \in Seq(Tasks)
  BY QueueTyped DEF WatchForeignKeys, Starts
<1> HIDE DEF t
<1>3. \A d \in Contracts : Done(c)[d] = IF d = c THEN Tail(queue[d]) ELSE queue[d]
  BY <1>2 DEF QueueType, Done
<1>4. /\ queue' = [d \in Contracts |-> queue'[d]]
      /\ \A d \in Contracts : queue'[d] =
           IF d \in pendingWatch[c] THEN Append(queue[d], t) ELSE Done(c)[d]
  BY DEF WatchForeignKeys, t
<1>5. ASSUME NEW d \in Contracts PROVE QueueStep(queue'[d], queue[d])
  BY <1>1, <1>2, <1>3, <1>4, QueueSteps
<1>6. \A d \in Contracts : queue'[d] \in Seq(Tasks) BY <1>5 DEF QueueStep
<1>7. queue' \in [Contracts -> Seq(Tasks)] BY <1>4, <1>6
<1>8. QED BY <1>5, <1>7 DEF QueuesStep, QueueType

\* The first task of c makes place for a plain one.
LEMMA QueueTurns ==
  ASSUME TypeOK, NEW c \in Contracts, queue[c] # <<>>, NEW t \in Tasks, t.user = Nobody,
         queue' = [queue EXCEPT ![c] = Append(Tail(@), t)]
  PROVE  QueuesStep /\ Follows(queue'[c], queue[c], 1)
<1> DEFINE g == [d \in Contracts |-> t]
<1>1. g \in [Contracts -> Tasks] /\ \A d \in Contracts : g[d].user = Nobody OBVIOUS
<1>2. QueueType BY QueueTyped
<1>3. queue' = [d \in Contracts |-> IF d = c THEN Append(Tail(queue[c]), t) ELSE queue[d]]
  BY <1>2 DEF QueueType
<1>4. /\ queue' = [d \in Contracts |-> queue'[d]]
      /\ queue'[c] = Append(Tail(queue[c]), g[c])
      /\ \A d \in Contracts \ {c} : queue'[d] = queue[d]
  BY <1>3, Zenon
<1> HIDE DEF g
<1>5. QED BY <1>1, <1>4, QueueEnds

LEMMA UnwatchStep ==
  ASSUME TypeOK, NEW c \in Contracts, Unwatch(c)
  PROVE  QueuesStep
<1>1. queue[c] # <<>> BY DEF Unwatch, Starts
<1>2. Plain(c, "remove") \in Tasks /\ Plain(c, "remove").user = Nobody BY TaskTypes
<1>3. CASE queue' = Done(c) BY <1>1, <1>3, DoneStep
<1>4. CASE queue' = [queue EXCEPT ![c] = Append(Tail(@), Plain(c, "remove"))]
  BY <1>1, <1>2, <1>4, QueueTurns
<1>5. QED BY <1>3, <1>4 DEF Unwatch

-----------------------------------------------------------------------------
(* The other variables, and the invariant. *)

RowTypes ==
  /\ row \in [Contracts -> {"none", "bare", "synced", "gone"}]
  /\ sub \in [Contracts -> BOOLEAN]
WatchTypes ==
  /\ watch \in [Contracts -> SUBSET Contracts] /\ live \in [Contracts -> SUBSET Contracts]
  /\ pendingWatch \in [Contracts -> SUBSET Contracts] /\ postOp \in [Contracts -> BOOLEAN]
RunTypes ==
  /\ at \in [Contracts -> {"idle", "head", "apply"}]
  /\ found \in [Contracts -> SUBSET Contracts]
  /\ failed \in [Contracts -> BOOLEAN] /\ orphan \in [Contracts -> BOOLEAN]
BudgetTypes == calls \in 0 .. CallBound /\ budget \in 0 .. DisturbBound
CountTypes ==
  /\ refs \in [Contracts -> Nat] /\ eph \in [Contracts -> Nat] /\ held \in [Contracts -> Nat]
ScopeTypes ==
  /\ scope \in [Users -> Stages] /\ on \in [Users -> Contracts \union {Nobody}]
OtherTypes == RowTypes /\ WatchTypes /\ RunTypes /\ BudgetTypes

LEMMA TypeParts == TypeOK <=> OtherTypes /\ CountTypes /\ ScopeTypes /\ QueueType
BY DEF TypeOK, OtherTypes, RowTypes, WatchTypes, RunTypes, BudgetTypes, CountTypes,
       ScopeTypes, QueueType, Stages, Tasks

LEMMA TypePartsPrime ==
  ASSUME OtherTypes', CountTypes', ScopeTypes', QueueType'
  PROVE  TypeOK'
BY DEF TypeOK, OtherTypes, RowTypes, WatchTypes, RunTypes, BudgetTypes, CountTypes,
       ScopeTypes, QueueType, Stages, Tasks

LEMMA DisturbType == ASSUME BudgetTypes, NEW kind, Disturb(kind)
                     PROVE  budget' \in 0 .. DisturbBound
BY DEF BudgetTypes, Disturb
LEMMA CallType == ASSUME BudgetTypes, Call PROVE calls' \in 0 .. CallBound
BY DEF BudgetTypes, Call

\* A step that neither counts nor touches a scope.
Quiet == UNCHANGED <<refs, eph, held, scope, on>>
RowsStay == \A d \in Contracts : row'[d] # "gone" => row[d] # "gone"

LEMMA QuietStep ==
  ASSUME Inv, Quiet, RowsStay, QueuesStep, OtherTypes'
  PROVE  Inv'
<1>1. AwaitInv' BY KeepAwaits DEF Inv, Quiet
<1>2. CountsAgree' BY KeepCounts, SameUsers DEF Inv, Quiet, RowsStay
<1>3. CountTypes' /\ ScopeTypes' /\ QueueType'
  BY TypeParts DEF Inv, Quiet, CountTypes, ScopeTypes, QueuesStep
<1>4. QED BY <1>1, <1>2, <1>3, TypePartsPrime DEF Inv

\* A step that ends the task in front of c and the wait of its user.
LEMMA SettledStep ==
  ASSUME Inv, NEW c \in Contracts, NEW ok \in BOOLEAN, queue[c] # <<>>, Settle(c, ok),
         UNCHANGED <<refs, eph, held>>, RowsStay, QueuesStep,
         Follows(queue'[c], queue[c], 1), OtherTypes'
  PROVE  Inv'
<1>1. /\ AwaitInv' /\ scope' \in [Users -> Stages] /\ on' = on
      /\ \A d \in Contracts : Using(d, Open)' = Using(d, Open)
  BY SettleStep DEF Inv
<1>2. CountsAgree' BY <1>1, KeepCounts DEF Inv, RowsStay
<1>3. CountTypes' /\ ScopeTypes' /\ QueueType'
  BY <1>1, TypeParts DEF Inv, CountTypes, ScopeTypes, QueuesStep
<1>4. QED BY <1>1, <1>2, <1>3, TypePartsPrime DEF Inv

LEMMA QuietActions ==
  ASSUME Inv, NEW c \in Contracts,
         \/ ForceSync(c) \/ Delete(c) \/ WatchForeignKeys(c) \/ WatchStart(c)
         \/ EventsRead(c) \/ Unwatch(c) \/ \E f \in Contracts : KeyDel(c, f)
         \/ SyncStart(c)
  PROVE  Inv'
<1>1. /\ TypeOK /\ OtherTypes /\ RowTypes /\ WatchTypes /\ RunTypes /\ BudgetTypes
  BY TypeParts DEF Inv, OtherTypes
<1>2. CASE ForceSync(c)
  <2>1. PICK op \in {"sync", "resync"}, kind \in Disturbances :
          /\ queue' = [queue EXCEPT ![c] = Append(@, Plain(c, op))]
          /\ Disturb(kind)
          /\ UNCHANGED <<row, sub, refVars, watchVars, taskVars, calls>>
    BY <1>2 DEF ForceSync, Disturb
  <2>2. Plain(c, op) \in Tasks /\ Plain(c, op).user = Nobody BY TaskTypes
  <2>3. QueuesStep BY <1>1, <2>1, <2>2, QueueGrows
  <2>4. OtherTypes' BY <1>1, <2>1, DisturbType
    DEF OtherTypes, RowTypes, WatchTypes, RunTypes, BudgetTypes, refVars, watchVars, taskVars
  <2>5. Quiet /\ RowsStay BY <2>1 DEF Quiet, RowsStay, refVars
  <2>6. QED BY <2>3, <2>4, <2>5, QuietStep
<1>3. CASE Delete(c)
  <2>1. Plain(c, "delete") \in Tasks /\ Plain(c, "delete").user = Nobody BY TaskTypes
  <2>2. QueuesStep BY <1>1, <1>3, <2>1, QueueGrows DEF Delete
  <2>3. OtherTypes' BY <1>1, <1>3, DisturbType
    DEF Delete, OtherTypes, RowTypes, WatchTypes, RunTypes, BudgetTypes, refVars, watchVars,
        taskVars
  <2>4. Quiet /\ RowsStay BY <1>3 DEF Delete, Quiet, RowsStay, refVars
  <2>5. QED BY <2>2, <2>3, <2>4, QuietStep
<1>4. CASE WatchForeignKeys(c)
  <2>1. QueuesStep BY <1>1, <1>4, WatchForeignKeysStep
  <2>2. OtherTypes' BY <1>1, <1>4
    DEF WatchForeignKeys, OtherTypes, RowTypes, WatchTypes, RunTypes, BudgetTypes, refVars,
        watchVars, taskVars
  <2>3. Quiet /\ RowsStay BY <1>4 DEF WatchForeignKeys, Quiet, RowsStay, refVars
  <2>4. QED BY <2>1, <2>2, <2>3, QuietStep
<1>5. CASE WatchStart(c)
  <2>1. queue[c] # <<>> /\ (queue' = queue \/ queue' = Done(c))
    BY <1>5 DEF WatchStart, Starts
  <2>2. QueuesStep BY <1>1, <2>1, QueueSame, DoneStep
  <2>3. queue[c] \in Seq(Tasks) BY <1>1, QueueTyped
  <2>4. Head(queue[c]) \in Tasks BY <2>1, <2>3
  <2>5. Head(queue[c]).by \in Contracts BY <2>4 DEF Tasks
  <2>6. pendingWatch' \in [Contracts -> SUBSET Contracts]
    BY <1>1, <1>5 DEF WatchStart, WatchTypes
  <2>7. watch' \in [Contracts -> SUBSET Contracts]
    BY <1>1, <1>5, <2>5 DEF WatchStart, WatchTypes
  <2>8. at' \in [Contracts -> {"idle", "head", "apply"}]
    BY <1>1, <1>5 DEF WatchStart, RunTypes
  <2>9. OtherTypes' BY <1>1, <1>5, <2>6, <2>7, <2>8
    DEF WatchStart, OtherTypes, RowTypes, WatchTypes, RunTypes, BudgetTypes
  <2>10. Quiet /\ RowsStay BY <1>5 DEF WatchStart, Quiet, RowsStay, refVars
  <2>11. QED BY <2>2, <2>9, <2>10, QuietStep
<1>6. CASE EventsRead(c)
  <2>1. QueuesStep BY <1>1, <1>6, QueueSame DEF EventsRead
  <2>2. found' \in [Contracts -> SUBSET Contracts]
    BY <1>1, <1>6 DEF EventsRead, WatchTypes, RunTypes
  <2>3. postOp' \in [Contracts -> BOOLEAN] /\ at' \in [Contracts -> {"idle", "head", "apply"}]
    BY <1>1, <1>6 DEF EventsRead, WatchTypes, RunTypes
  <2>4. OtherTypes' BY <1>1, <1>6, <2>2, <2>3
    DEF EventsRead, OtherTypes, RowTypes, WatchTypes, RunTypes, BudgetTypes
  <2>5. Quiet /\ RowsStay BY <1>6 DEF EventsRead, Quiet, RowsStay, refVars
  <2>6. QED BY <2>1, <2>4, <2>5, QuietStep
<1>7. CASE Unwatch(c)
  <2>6. QueuesStep BY <1>1, <1>7, UnwatchStep
  <2>7. watch' \in [Contracts -> SUBSET Contracts] BY <1>1, <1>7 DEF Unwatch, WatchTypes
  <2>8. OtherTypes' BY <1>1, <1>7, <2>7
    DEF Unwatch, OtherTypes, RowTypes, WatchTypes, RunTypes, BudgetTypes, taskVars
  <2>9. Quiet /\ RowsStay BY <1>7 DEF Unwatch, Quiet, RowsStay, refVars
  <2>10. QED BY <2>6, <2>8, <2>9, QuietStep
<1>8. ASSUME NEW f \in Contracts, KeyDel(c, f) PROVE Inv'
  <2>1. Task("unwatch", c, Nobody) \in Tasks /\ Task("unwatch", c, Nobody).user = Nobody
    BY TaskTypes
  <2>2. QueuesStep BY <1>1, <1>8, <2>1, QueueGrows DEF KeyDel
  <2>3. /\ live' \in [Contracts -> SUBSET Contracts]
        /\ pendingWatch' \in [Contracts -> SUBSET Contracts]
    BY <1>1, <1>8 DEF KeyDel, WatchTypes
  <2>4. OtherTypes' BY <1>1, <1>8, <2>3, DisturbType
    DEF KeyDel, OtherTypes, RowTypes, WatchTypes, RunTypes, BudgetTypes, taskVars
  <2>5. Quiet /\ RowsStay BY <1>8 DEF KeyDel, Quiet, RowsStay, refVars
  <2>6. QED BY <2>2, <2>4, <2>5, QuietStep
<1>9. CASE SyncStart(c)
  <2>1. QueuesStep BY <1>1, <1>9, QueueSame DEF SyncStart
  <2>2. /\ row' = row \/ row' = [row EXCEPT ![c] = IF @ = "synced" THEN "bare" ELSE @]
        /\ sub' = sub \/ sub' = [sub EXCEPT ![c] = FALSE]
        /\ refs' = refs /\ watch' = watch
    BY <1>9 DEF SyncStart, Resynced
  <2>3. RowTypes' BY <1>1, <2>2 DEF RowTypes
  <2>4. /\ pendingWatch' \in [Contracts -> SUBSET Contracts]
        /\ at' \in [Contracts -> {"idle", "head", "apply"}]
    BY <1>1, <1>9 DEF SyncStart, WatchTypes, RunTypes
  <2>5. OtherTypes' BY <1>1, <1>9, <2>2, <2>3, <2>4
    DEF SyncStart, OtherTypes, WatchTypes, RunTypes, BudgetTypes
  <2>6. Quiet BY <1>9, <2>2 DEF SyncStart, Quiet
  <2>7. RowsStay BY <1>1, <2>2 DEF RowsStay, RowTypes
  <2>8. QED BY <2>1, <2>5, <2>6, <2>7, QuietStep
<1>10. QED BY <1>2, <1>3, <1>4, <1>5, <1>6, <1>7, <1>8, <1>9

-----------------------------------------------------------------------------
(* The calls that count. *)

LEMMA SyncOrNoopType ==
  ASSUME NEW c \in Contracts, NEW q \in Seq(Tasks), NEW v \in Users \union {Nobody},
         queue[c] = q
  PROVE  \E t \in Tasks : t.user = v /\ SyncOrNoop(c, v) = Append(q, t)
<1> DEFINE t == Task(IF sub[c] THEN "noop" ELSE "sync", c, v)
<1>1. t \in Tasks /\ t.user = v BY DEF Task, Tasks, Ops
<1>2. SyncOrNoop(c, v) = Append(q, t) BY DEF SyncOrNoop
<1>3. QED BY <1>1, <1>2

\* refs and held are counted together.
LEMMA RetainKeeps ==
  ASSUME Inv, NEW c \in Contracts, Retain(c)
  PROVE  Inv'
<1>1. /\ TypeOK /\ OtherTypes /\ RowTypes /\ WatchTypes /\ RunTypes /\ BudgetTypes
      /\ CountTypes /\ ScopeTypes /\ QueueType
  BY TypeParts DEF Inv, OtherTypes
<1>2. queue[c] \in Seq(Tasks) BY <1>1 DEF QueueType
<1>3. PICK t \in Tasks : t.user = Nobody /\ SyncOrNoop(c, Nobody) = Append(queue[c], t)
  BY <1>2, SyncOrNoopType
<1>4. queue' = [queue EXCEPT ![c] = Append(@, t)] BY <1>3 DEF Retain
<1>5. QueuesStep BY <1>1, <1>3, <1>4, QueueGrows
<1>6. AwaitInv' BY <1>1, <1>5, KeepAwaits DEF Retain, Inv
<1>7. row' = row \/ row' = [row EXCEPT ![c] = "bare"] BY DEF Retain
<1>8. row[c] # "gone" /\ RowTypes' /\ RowsStay
  BY <1>1, <1>7 DEF Retain, RowTypes, RowsStay
<1>9. /\ refs' = [refs EXCEPT ![c] = refs[c] + 1] /\ held' = [held EXCEPT ![c] = held[c] + 1]
      /\ eph' = eph /\ scope' = scope /\ on' = on
  BY DEF Retain, Add
<1>10. CountTypes' BY <1>1, <1>9 DEF CountTypes
<1>11. CountsAgree'
  <2>1. ASSUME NEW d \in Contracts, row'[d] # "gone" PROVE refs'[d] = held'[d]
    <3>1. refs[d] = held[d] BY <1>8, <2>1 DEF RowsStay, Inv, CountsAgree
    <3>2. QED BY <3>1, <1>1, <1>9 DEF CountTypes
  <2>2. ASSUME NEW d \in Contracts, row'[d] # "gone"
        PROVE  eph'[d] = Cardinality(Using(d, Open)')
    <3>1. eph[d] = Cardinality(Using(d, Open)) BY <1>8, <2>2 DEF RowsStay, Inv, CountsAgree, Open
    <3>2. QED BY <3>1, <1>9, SameUsers
  <2>3. QED BY <2>1, <2>2 DEF CountsAgree, Open
<1>12. OtherTypes' BY <1>1, <1>8, CallType
  DEF Retain, OtherTypes, RowTypes, WatchTypes, RunTypes, BudgetTypes, watchVars, taskVars
<1>13. ScopeTypes' /\ QueueType' BY <1>1, <1>5, <1>9 DEF ScopeTypes, QueuesStep
<1>14. QED BY <1>6, <1>10, <1>11, <1>12, <1>13, TypePartsPrime DEF Inv

LEMMA ReleaseKeeps ==
  ASSUME Inv, NEW c \in Contracts, Release(c)
  PROVE  Inv'
<1>1. /\ TypeOK /\ OtherTypes /\ RowTypes /\ WatchTypes /\ RunTypes /\ BudgetTypes
      /\ CountTypes /\ ScopeTypes /\ QueueType
  BY TypeParts DEF Inv, OtherTypes
<1>2. QueuesStep BY <1>1, ReleasedStep DEF Release
<1>3. AwaitInv' BY <1>1, <1>2, KeepAwaits DEF Release, Inv
<1>4. held[c] \in Nat /\ held[c] > 0 /\ refs[c] \in Nat BY <1>1 DEF Release, CountTypes
<1>5. /\ held' = [held EXCEPT ![c] = held[c] - 1]
      /\ refs' = IF row[c] = "gone" THEN refs ELSE [refs EXCEPT ![c] = refs[c] - 1]
      /\ eph' = eph /\ scope' = scope /\ on' = on /\ row' = row
  BY <1>4 DEF Release, Add
<1>6. row[c] # "gone" => refs[c] = held[c] BY DEF Inv, CountsAgree
<1>7. CountTypes' BY <1>1, <1>4, <1>5, <1>6 DEF CountTypes
<1>8. CountsAgree'
  <2>1. ASSUME NEW d \in Contracts, row'[d] # "gone" PROVE refs'[d] = held'[d]
    <3>1. refs[d] = held[d] BY <1>5, <2>1 DEF Inv, CountsAgree
    <3>2. QED BY <3>1, <2>1, <1>1, <1>5 DEF CountTypes
  <2>2. ASSUME NEW d \in Contracts, row'[d] # "gone"
        PROVE  eph'[d] = Cardinality(Using(d, Open)')
    <3>1. eph[d] = Cardinality(Using(d, Open)) BY <1>5, <2>2 DEF Inv, CountsAgree, Open
    <3>2. QED BY <3>1, <1>5, SameUsers
  <2>3. QED BY <2>1, <2>2 DEF CountsAgree, Open
<1>9. OtherTypes' BY <1>1
  DEF Release, OtherTypes, RowTypes, WatchTypes, RunTypes, BudgetTypes, watchVars, taskVars
<1>10. ScopeTypes' /\ QueueType' BY <1>1, <1>2, <1>5 DEF ScopeTypes, QueuesStep
<1>11. QED BY <1>3, <1>7, <1>8, <1>9, <1>10, TypePartsPrime DEF Inv

\* Whoever is out is in no queue.
LEMMA OutOfQueues ==
  ASSUME AwaitInv, NEW v \in Users, scope[v] # "waiting", NEW d \in Contracts
  PROVE  \A i \in 1 .. Len(queue[d]) : queue[d][i].user # v
BY DEF AwaitInv, Awaits

LEMMA WithRetainedAwaits ==
  ASSUME TypeOK, AwaitInv, NEW c \in Contracts, NEW v \in Users, WithRetained(c, v)
  PROVE  AwaitInv' /\ QueueType'
<1>1. ScopeTypes /\ QueueType BY TypeParts
<1>2. \A d \in Contracts : queue[d] \in Seq(Tasks) BY <1>1 DEF QueueType
<1>3. PICK t \in Tasks : t.user = v /\ SyncOrNoop(c, v) = Append(queue[c], t)
  BY <1>2, SyncOrNoopType
<1>4. queue' = [queue EXCEPT ![c] = Append(queue[c], t)] BY <1>3 DEF WithRetained
<1>5. /\ scope' = [scope EXCEPT ![v] = "waiting"] /\ on' = [on EXCEPT ![v] = c]
      /\ scope[v] = "out"
  BY DEF WithRetained
<1>6. \A w \in Users : w # v => scope'[w] = scope[w] /\ on'[w] = on[w]
  BY <1>1, <1>5 DEF ScopeTypes
<1>7. scope'[v] = "waiting" /\ on'[v] = c BY <1>1, <1>5 DEF ScopeTypes
<1>8. ASSUME NEW d \in Contracts
      PROVE  Awaits(queue[d], d, scope', on') /\ \A i \in 1 .. Len(queue[d]) : queue[d][i].user # v
  <2>1. \A i \in 1 .. Len(queue[d]) : queue[d][i].user # v BY <1>5, OutOfQueues
  <2>2. \A i \in 1 .. Len(queue[d]) : queue[d][i] \in Tasks BY <1>2
  <2>3. \A i \in 1 .. Len(queue[d]) : queue[d][i].user \in Users \union {Nobody}
    BY <2>2 DEF Tasks
  <2>4. Awaits(queue[d], d, scope, on) BY DEF AwaitInv
  <2>5. QED BY <2>1, <2>3, <2>4, <1>6 DEF Awaits
<1>9. queue[c] \in Seq(Tasks) BY <1>2
<1>10. /\ Append(queue[c], t) \in Seq(Tasks)
       /\ Len(Append(queue[c], t)) = Len(queue[c]) + 1
       /\ \A i \in 1 .. Len(queue[c]) + 1 :
            Append(queue[c], t)[i] = IF i = Len(queue[c]) + 1 THEN t ELSE queue[c][i]
  BY <1>9
<1>11. Awaits(Append(queue[c], t), c, scope', on')
  <2> DEFINE r == Append(queue[c], t)
  <2>1. /\ Len(r) = Len(queue[c]) + 1 /\ Len(queue[c]) \in Nat
        /\ \A i \in 1 .. Len(queue[c]) + 1 : r[i] = IF i = Len(queue[c]) + 1 THEN t ELSE queue[c][i]
    BY <1>10, <1>9
  <2> HIDE DEF r
  <2>2. ASSUME NEW i \in 1 .. Len(r), r[i].user # Nobody
        PROVE  scope'[r[i].user] = "waiting" /\ on'[r[i].user] = c
    <3>1. CASE i = Len(queue[c]) + 1 BY <3>1, <2>1, <1>3, <1>7
    <3>2. CASE i \in 1 .. Len(queue[c])
      <4>1. r[i] = queue[c][i] BY <3>2, <2>1
      <4>2. QED BY <4>1, <3>2, <2>2, <1>8 DEF Awaits
    <3>3. QED BY <3>1, <3>2, <2>1
  <2>3. ASSUME NEW i \in 1 .. Len(r), NEW j \in 1 .. Len(r),
               r[i].user # Nobody, r[i].user = r[j].user
        PROVE  i = j
    <3>1. CASE i \in 1 .. Len(queue[c]) /\ j \in 1 .. Len(queue[c])
      <4>1. r[i] = queue[c][i] /\ r[j] = queue[c][j] BY <3>1, <2>1
      <4>2. QED BY <4>1, <3>1, <2>3, <1>8 DEF Awaits
    <3>2. CASE i = Len(queue[c]) + 1 /\ j \in 1 .. Len(queue[c])
      <4>1. r[i] = t /\ r[j] = queue[c][j] BY <3>2, <2>1
      <4>2. QED BY <4>1, <3>2, <2>3, <1>8, <1>3
    <3>3. CASE j = Len(queue[c]) + 1 /\ i \in 1 .. Len(queue[c])
      <4>1. r[j] = t /\ r[i] = queue[c][i] BY <3>3, <2>1
      <4>2. QED BY <4>1, <3>3, <2>3, <1>8, <1>3
    <3>4. QED BY <3>1, <3>2, <3>3, <2>1
  <2>4. QED BY <2>2, <2>3 DEF Awaits, r
<1>12. ASSUME NEW d \in Contracts
       PROVE  Awaits(queue'[d], d, scope', on') /\ queue'[d] \in Seq(Tasks)
  <2>1. CASE d = c
    <3>1. queue'[d] = Append(queue[c], t) BY <2>1, <1>1, <1>4 DEF QueueType
    <3>2. QED BY <3>1, <2>1, <1>10, <1>11
  <2>2. CASE d # c
    <3>1. queue'[d] = queue[d] BY <2>2, <1>1, <1>4 DEF QueueType
    <3>2. QED BY <3>1, <1>2, <1>8
  <2>3. QED BY <2>1, <2>2
<1>13. QueueType' BY <1>1, <1>4, <1>12 DEF QueueType
<1>14. \A w \in Users : scope'[w] # "out" => on'[w] \in Contracts
  BY <1>6, <1>7 DEF AwaitInv
<1>15. QED BY <1>12, <1>13, <1>14 DEF AwaitInv

\* A scope opens: it is new among those that count.
LEMMA WithRetainedKeeps ==
  ASSUME Inv, NEW c \in Contracts, NEW v \in Users, WithRetained(c, v)
  PROVE  Inv'
<1>1. /\ TypeOK /\ OtherTypes /\ RowTypes /\ WatchTypes /\ RunTypes /\ BudgetTypes
      /\ CountTypes /\ ScopeTypes /\ QueueType
  BY TypeParts DEF Inv, OtherTypes
<1>2. AwaitInv' /\ QueueType' BY WithRetainedAwaits DEF Inv
<1>3. /\ eph' = [eph EXCEPT ![c] = eph[c] + 1] /\ refs' = refs /\ held' = held /\ row' = row
      /\ scope' = [scope EXCEPT ![v] = "waiting"] /\ on' = [on EXCEPT ![v] = c]
      /\ scope[v] = "out"
  BY DEF WithRetained, Add
<1>4. CountTypes' BY <1>1, <1>3 DEF CountTypes
<1>5. ScopeTypes' BY <1>1, <1>3 DEF ScopeTypes, Stages
<1>6. ASSUME NEW d \in Contracts, row'[d] # "gone"
      PROVE  eph'[d] = Cardinality(Using(d, Open)')
  <2>1. eph[d] = Cardinality(Using(d, Open)) BY <1>6, <1>3 DEF Inv, CountsAgree, Open
  <2>2. CASE d = c
    <3>1. Using(d, Open)' = Using(d, Open) \union {v}
      BY <2>2, <1>1, <1>3 DEF Using, Open, ScopeTypes
    <3>2. v \notin Using(d, Open) BY <1>3 DEF Using, Open
    <3>3. IsFiniteSet(Using(d, Open)) BY FS_Subset DEF Using
    <3>4. Cardinality(Using(d, Open) \union {v}) = Cardinality(Using(d, Open)) + 1
      BY <3>2, <3>3, FS_AddElement
    <3>5. QED BY <3>1, <3>4, <2>1, <2>2, <1>1, <1>3 DEF CountTypes
  <2>3. CASE d # c
    <3>1. Using(d, Open)' = Using(d, Open)
      BY <2>3, <1>1, <1>3 DEF Using, Open, ScopeTypes
    <3>2. QED BY <3>1, <2>1, <2>3, <1>1, <1>3 DEF CountTypes
  <2>4. QED BY <2>2, <2>3
<1>7. CountsAgree' BY <1>3, <1>6 DEF CountsAgree, Inv, Open
<1>8. OtherTypes' BY <1>1, CallType
  DEF WithRetained, OtherTypes, RowTypes, WatchTypes, RunTypes, BudgetTypes, watchVars, taskVars
<1>9. QED BY <1>2, <1>4, <1>5, <1>7, <1>8, TypePartsPrime DEF Inv

\* A scope of c closes: its user is in no queue, and no longer among those that count.
LEMMA ScopeCloses ==
  ASSUME Inv, NEW c \in Contracts, NEW v \in Users, on[v] = c, scope[v] \in Open,
         scope' = [scope EXCEPT ![v] = "out"], on' = [on EXCEPT ![v] = Nobody],
         UNCHANGED <<refs, held, row>>, eph' = Dropped(c),
         QueueType', \A d \in Contracts : Awaits(queue'[d], d, scope', on'),
         OtherTypes'
  PROVE  Inv'
<1>1. CountTypes /\ ScopeTypes BY TypeParts DEF Inv
<1>2. eph' = eph \/ eph' = [eph EXCEPT ![c] = eph[c] - 1] BY DEF Dropped, Add
<1>3. ASSUME NEW d \in Contracts
      PROVE  IsFiniteSet(Using(d, Open)) /\ Cardinality(Using(d, Open)) \in Nat
  <2>1. IsFiniteSet(Using(d, Open)) BY FS_Subset DEF Using
  <2>2. QED BY <2>1, FS_CardinalityType
<1>4. v \in Using(c, Open) BY DEF Using
<1>5. Using(c, Open)' = Using(c, Open) \ {v}
  BY <1>1 DEF Using, Open, ScopeTypes
<1>6. \A d \in Contracts : d # c => Using(d, Open)' = Using(d, Open)
  BY <1>1 DEF Using, Open, ScopeTypes
<1>7. row[c] # "gone" => eph[c] = Cardinality(Using(c, Open)) /\ eph[c] # 0
  <2>1. HAVE row[c] # "gone"
  <2>2. eph[c] = Cardinality(Using(c, Open)) BY <2>1 DEF Inv, CountsAgree, Open
  <2>3. Using(c, Open) # {} BY <1>4
  <2>4. Cardinality(Using(c, Open)) # 0 BY <2>3, <1>3, FS_EmptySet
  <2>5. QED BY <2>2, <2>4
<1>8. row[c] # "gone" => eph' = [eph EXCEPT ![c] = eph[c] - 1]
  BY <1>7 DEF Dropped, Add
<1>9. CountTypes'
  <2>1. eph[c] \in Nat BY <1>1 DEF CountTypes
  <2>2. eph' = eph \/ (eph' = [eph EXCEPT ![c] = eph[c] - 1] /\ eph[c] # 0)
    BY <2>1 DEF Dropped, Add
  <2>3. QED BY <2>1, <2>2, <1>1 DEF CountTypes
<1>10. CountsAgree'
  <2>1. ASSUME NEW d \in Contracts, row'[d] # "gone"
        PROVE  eph'[d] = Cardinality(Using(d, Open)')
    <3>1. CASE d = c
      <4>1. Cardinality(Using(c, Open) \ {v}) = Cardinality(Using(c, Open)) - 1
        BY <1>3, <1>4, FS_RemoveElement
      <4>2. QED BY <4>1, <3>1, <2>1, <1>1, <1>5, <1>7, <1>8 DEF CountTypes
    <3>2. CASE d # c
      <4>1. eph'[d] = eph[d] BY <3>2, <1>1, <1>2 DEF CountTypes
      <4>2. eph[d] = Cardinality(Using(d, Open)) BY <2>1 DEF Inv, CountsAgree, Open
      <4>3. QED BY <4>1, <4>2, <3>2, <1>6
    <3>3. QED BY <3>1, <3>2
  <2>2. QED BY <2>1 DEF CountsAgree, Inv, Open
<1>11. ScopeTypes' BY <1>1 DEF ScopeTypes, Stages
<1>12. \A w \in Users : scope'[w] # "out" => on'[w] \in Contracts
  BY <1>1 DEF ScopeTypes, Inv, AwaitInv
<1>13. AwaitInv' BY <1>12 DEF AwaitInv
<1>14. QED BY <1>9, <1>10, <1>11, <1>13, TypePartsPrime DEF Inv

LEMMA CallbackEndsKeeps ==
  ASSUME Inv, NEW v \in Users, CallbackEnds(v)
  PROVE  Inv'
<1>1. /\ TypeOK /\ OtherTypes /\ ScopeTypes /\ QueueType /\ AwaitInv
  BY TypeParts DEF Inv
<1>2. /\ scope[v] = "inside" /\ scope' = [scope EXCEPT ![v] = "out"]
      /\ on' = [on EXCEPT ![v] = Nobody] /\ UNCHANGED <<refs, held, row>>
      /\ eph' = Dropped(on[v])
  BY DEF CallbackEnds
<1>3. PICK c \in Contracts : c = on[v] BY <1>2 DEF Inv, AwaitInv
<1>4. QueuesStep BY <1>1, <1>3, ReleasedStep DEF CallbackEnds
<1>5. ASSUME NEW d \in Contracts PROVE Awaits(queue'[d], d, scope', on')
  <2>1. queue[d] \in Seq(Tasks) /\ queue'[d] \in Seq(Tasks)
    BY <1>1, <1>4, QueueTyped DEF QueuesStep, QueueStep
  <2>2. PICK k \in {0, 1} : Follows(queue'[d], queue[d], k)
    BY <1>4 DEF QueuesStep, QueueStep
  <2>3. Awaits(queue[d], d, scope, on) BY <1>1 DEF AwaitInv
  <2>4. ASSUME NEW i \in 1 .. Len(queue'[d]), queue'[d][i].user # Nobody
        PROVE  /\ scope'[queue'[d][i].user] = scope[queue'[d][i].user]
               /\ on'[queue'[d][i].user] = on[queue'[d][i].user]
    <3>1. i + k \in 1 .. Len(queue[d]) /\ queue'[d][i].user = queue[d][i + k].user
      BY <2>2, <2>4 DEF Follows
    <3>2. queue'[d][i].user # v BY <3>1, <1>1, <1>2, OutOfQueues
    <3>3. QED BY <3>2, <1>1, <1>2 DEF ScopeTypes
  <2>5. QED BY <2>1, <2>2, <2>3, <2>4, StepAwaits
<1>6. OtherTypes' BY <1>1
  DEF CallbackEnds, OtherTypes, RowTypes, WatchTypes, RunTypes, BudgetTypes, watchVars, taskVars
<1>7. scope[v] \in Open /\ QueueType' BY <1>2, <1>4 DEF Open, QueuesStep
<1>8. QED BY <1>2, <1>3, <1>5, <1>6, <1>7, ScopeCloses

LEMMA ReleaseEarlyKeeps ==
  ASSUME Inv, NEW c \in Contracts, NEW i \in DOMAIN queue[c], ReleaseEarly(c, i)
  PROVE  Inv'
<1> DEFINE v == queue[c][i].user
           q == Released(c, refs, eph')
<1>1. /\ TypeOK /\ OtherTypes /\ ScopeTypes /\ QueueType /\ AwaitInv
      /\ RowTypes /\ WatchTypes /\ RunTypes /\ BudgetTypes
  BY TypeParts DEF Inv, OtherTypes
<1>2. queue[c] \in Seq(Tasks) /\ i \in 1 .. Len(queue[c]) BY <1>1 DEF QueueType
<1>3. queue[c][i] \in Tasks /\ v # Nobody BY <1>2 DEF ReleaseEarly
<1>4. v \in Users BY <1>3 DEF Tasks
<1>5. scope[v] = "waiting" /\ on[v] = c BY <1>1, <1>2, <1>3 DEF AwaitInv, Awaits
<1>6. /\ scope' = [scope EXCEPT ![v] = "out"] /\ on' = [on EXCEPT ![v] = Nobody]
      /\ UNCHANGED <<refs, held, row>> /\ eph' = Dropped(c)
      /\ queue' = [q EXCEPT ![c][i].user = Nobody]
  BY DEF ReleaseEarly
<1>7. Plain(c, "remove") \in Tasks /\ Plain(c, "remove").user = Nobody BY TaskTypes
<1>8. /\ q \in [Contracts -> Seq(Tasks)]
      /\ \A d \in Contracts \ {c} : q[d] = queue[d]
      /\ q[c] = queue[c] \/ q[c] = Append(queue[c], Plain(c, "remove"))
  BY <1>1, <1>2, <1>7 DEF Released, QueueType
<1>9. /\ q[c] \in Seq(Tasks) /\ Len(q[c]) >= Len(queue[c])
      /\ \A j \in 1 .. Len(q[c]) : q[c][j] \in Tasks
      /\ \A j \in 1 .. Len(queue[c]) : q[c][j] = queue[c][j]
      /\ \A j \in 1 .. Len(q[c]) : j > Len(queue[c]) => q[c][j].user = Nobody
  <2>1. CASE q[c] = queue[c] BY <2>1, <1>2
  <2>2. CASE q[c] = Append(queue[c], Plain(c, "remove"))
    <3>1. /\ Append(queue[c], Plain(c, "remove")) \in Seq(Tasks)
          /\ Len(Append(queue[c], Plain(c, "remove"))) = Len(queue[c]) + 1
          /\ \A j \in 1 .. Len(queue[c]) + 1 :
               Append(queue[c], Plain(c, "remove"))[j]
                 = IF j = Len(queue[c]) + 1 THEN Plain(c, "remove") ELSE queue[c][j]
      BY <1>2, <1>7
    <3>2. \A j \in 1 .. Len(queue[c]) : queue[c][j] \in Tasks BY <1>2
    <3>3. QED BY <3>1, <3>2, <2>2, <1>2, <1>7
  <2>3. QED BY <2>1, <2>2, <1>8
<1> HIDE DEF q
<1> DEFINE r == [q[c] EXCEPT ![i] = [q[c][i] EXCEPT !.user = Nobody]]
<1>10. queue' = [q EXCEPT ![c] = r] BY <1>6
<1>11. /\ r \in Seq(Tasks) /\ Len(r) = Len(q[c]) /\ r[i].user = Nobody
       /\ \A j \in 1 .. Len(q[c]) : j # i => r[j] = q[c][j]
  <2>1. i \in 1 .. Len(q[c]) BY <1>2, <1>9
  <2>2. [q[c][i] EXCEPT !.user = Nobody] \in Tasks BY <2>1, <1>9 DEF Tasks
  <2>3. [q[c][i] EXCEPT !.user = Nobody].user = Nobody BY <2>1, <1>9 DEF Tasks
  <2> DEFINE m == [q[c][i] EXCEPT !.user = Nobody]
  <2> HIDE DEF m
  <2>4. m \in Tasks /\ m.user = Nobody BY <2>2, <2>3 DEF m
  <2>5. r = [q[c] EXCEPT ![i] = m] BY DEF m
  <2> HIDE DEF r
  <2>6. /\ r \in Seq(Tasks) /\ Len(r) = Len(q[c]) /\ r[i] = m
        /\ \A j \in 1 .. Len(q[c]) : j # i => r[j] = q[c][j]
    BY <2>1, <2>4, <2>5, <1>9
  <2>7. QED BY <2>4, <2>6
<1> HIDE DEF r
<1>12. \A d \in Contracts : queue'[d] = IF d = c THEN r ELSE queue[d] BY <1>8, <1>10
<1>13. QueueType' BY <1>8, <1>10, <1>11 DEF QueueType
<1>14. ASSUME NEW d \in Contracts
       PROVE  Follows(queue'[d], queue[d], 0) /\ \A j \in 1 .. Len(queue'[d]) : queue'[d][j].user # v
  <2>1. CASE d # c
    <3>1. queue'[d] = queue[d] /\ queue[d] \in Seq(Tasks) BY <2>1, <1>1, <1>12 DEF QueueType
    <3>2. ASSUME NEW j \in 1 .. Len(queue[d]), queue[d][j].user = v PROVE FALSE
      BY <3>2, <2>1, <1>1, <1>3, <1>5 DEF AwaitInv, Awaits
    <3>3. QED BY <3>1, <3>2 DEF Follows
  <2>2. CASE d = c
    <3>1. queue'[d] = r BY <2>2, <1>12
    <3>2. ASSUME NEW j \in 1 .. Len(r), r[j].user # Nobody
          PROVE  j \in 1 .. Len(queue[c]) /\ j # i /\ r[j].user = queue[c][j].user
      BY <3>2, <1>2, <1>9, <1>11
    <3>3. Follows(r, queue[c], 0)
      <4>1. ASSUME NEW j \in 1 .. Len(r), r[j].user # Nobody
            PROVE  j + 0 \in 1 .. Len(queue[c]) /\ r[j].user = queue[c][j + 0].user
        <5>1. j + 0 = j OBVIOUS
        <5>2. QED BY <3>2, <4>1, <5>1
      <4>2. QED BY <4>1 DEF Follows
    <3>4. ASSUME NEW j \in 1 .. Len(r), r[j].user = v PROVE FALSE
      <4>1. j \in 1 .. Len(queue[c]) /\ j # i /\ queue[c][j].user = v
        BY <3>2, <3>4, <1>3
      <4>2. QED BY <4>1, <1>1, <1>2, <1>3 DEF AwaitInv, Awaits
    <3>5. QED BY <3>1, <3>3, <3>4, <2>2
  <2>3. QED BY <2>1, <2>2
<1>15. ASSUME NEW d \in Contracts PROVE Awaits(queue'[d], d, scope', on')
  <2>1. queue[d] \in Seq(Tasks) /\ queue'[d] \in Seq(Tasks) BY <1>1, <1>13 DEF QueueType
  <2>2. Awaits(queue[d], d, scope, on) BY <1>1 DEF AwaitInv
  <2>3. ASSUME NEW j \in 1 .. Len(queue'[d]), queue'[d][j].user # Nobody
        PROVE  /\ scope'[queue'[d][j].user] = scope[queue'[d][j].user]
               /\ on'[queue'[d][j].user] = on[queue'[d][j].user]
    BY <2>3, <1>14, <1>1, <1>6 DEF ScopeTypes
  <2>4. QED BY <2>1, <2>2, <2>3, <1>14, StepAwaits
<1>16. OtherTypes' BY <1>1, DisturbType
  DEF ReleaseEarly, OtherTypes, RowTypes, WatchTypes, RunTypes, BudgetTypes, watchVars, taskVars
<1>17. scope[v] \in Open BY <1>5 DEF Open
<1> HIDE DEF v
<1>18. QED BY <1>4, <1>5, <1>6, <1>13, <1>15, <1>16, <1>17, ScopeCloses

-----------------------------------------------------------------------------
(* The tasks that end. *)

\* A sync that is under way is of the first task, and of no deleted contract.
AtInv == \A c \in Contracts : at[c] # "idle" => queue[c] # <<>> /\ row[c] # "gone"

LEMMA SettlingActions ==
  ASSUME Inv, NEW c \in Contracts, Noop(c) \/ SyncOfGone(c)
  PROVE  Inv'
<1>1. TypeOK /\ OtherTypes BY TypeParts DEF Inv
<1>2. PICK ok \in BOOLEAN : Settle(c, ok) BY DEF Noop, SyncOfGone
<1>3. queue[c] # <<>> /\ queue' = Done(c) BY DEF Noop, SyncOfGone, Starts
<1>4. QueuesStep /\ Follows(queue'[c], queue[c], 1) BY <1>1, <1>3, DoneStep
<1>5. OtherTypes' BY <1>1
  DEF Noop, SyncOfGone, OtherTypes, RowTypes, WatchTypes, RunTypes, BudgetTypes, watchVars,
      taskVars
<1>6. UNCHANGED <<refs, eph, held>> /\ RowsStay BY DEF Noop, SyncOfGone, RowsStay
<1>7. QED BY <1>2, <1>3, <1>4, <1>5, <1>6, SettledStep

LEMMA SyncFailsKeeps ==
  ASSUME Inv, AtInv, NEW c \in Contracts, SyncFails(c)
  PROVE  Inv'
<1>1. TypeOK /\ OtherTypes /\ BudgetTypes BY TypeParts DEF Inv, OtherTypes
<1>2. queue[c] # <<>> /\ queue' = Done(c) /\ Settle(c, FALSE) BY DEF SyncFails, AtInv
<1>3. QueuesStep /\ Follows(queue'[c], queue[c], 1) BY <1>1, <1>2, DoneStep
<1>4. PICK kind : Disturb(kind) BY DEF SyncFails
<1>5. OtherTypes' BY <1>1, <1>4, DisturbType
  DEF SyncFails, OtherTypes, RowTypes, WatchTypes, RunTypes, BudgetTypes, watchVars
<1>6. UNCHANGED <<refs, eph, held>> /\ RowsStay BY DEF SyncFails, RowsStay
<1>7. QED BY <1>2, <1>3, <1>5, <1>6, SettledStep

LEMMA SyncEndsTypes ==
  ASSUME Inv, NEW c \in Contracts, queue[c] # <<>>, SyncEnds(c)
  PROVE  /\ QueuesStep /\ Follows(queue'[c], queue[c], 1)
         /\ watch' \in [Contracts -> SUBSET Contracts] /\ postOp' \in [Contracts -> BOOLEAN]
         /\ RunTypes'
<1>1. /\ TypeOK /\ WatchTypes /\ RunTypes /\ RowTypes BY TypeParts DEF Inv, OtherTypes
<1>2. queue[c] \in Seq(Tasks) BY <1>1, QueueTyped
<1>3. Head(queue[c]) \in Tasks BY <1>2
<1>4. Head(queue[c]).by \in Contracts BY <1>3 DEF Tasks
<1>5. Plain(c, "post") \in Tasks /\ Plain(c, "post").user = Nobody BY TaskTypes
<1>6. QueuesStep /\ Follows(queue'[c], queue[c], 1)
  <2>1. CASE postOp[c]
    <3>1. queue' = [queue EXCEPT ![c] = Append(Tail(@), Plain(c, "post"))]
      BY <2>1 DEF SyncEnds
    <3>2. QED BY <3>1, <1>1, <1>5, QueueTurns
  <2>2. CASE ~postOp[c]
    <3>1. queue' = Done(c) BY <2>2 DEF SyncEnds, Done
    <3>2. QED BY <3>1, <1>1, DoneStep
  <2>3. QED BY <2>1, <2>2
<1>7. watch' \in [Contracts -> SUBSET Contracts] BY <1>1, <1>4 DEF SyncEnds, WatchTypes
<1>8. postOp' \in [Contracts -> BOOLEAN] BY <1>1 DEF SyncEnds, WatchTypes
<1>9. /\ at' \in [Contracts -> {"idle", "head", "apply"}]
      /\ found' \in [Contracts -> SUBSET Contracts]
      /\ failed' \in [Contracts -> BOOLEAN]
  BY <1>1 DEF SyncEnds, RunTypes
<1>10. orphan' \in [Contracts -> BOOLEAN]
  <2>1. orphan[c] \in BOOLEAN /\ sub[Head(queue[c]).by] \in BOOLEAN
    BY <1>1, <1>4 DEF RunTypes, RowTypes
  <2>2. (orphan[c] \/ (Head(queue[c]).op = "watch" /\ ~sub[Head(queue[c]).by])) \in BOOLEAN
    BY <2>1
  <2>3. QED BY <2>2, <1>1 DEF SyncEnds, RunTypes
<1>11. QED BY <1>6, <1>7, <1>8, <1>9, <1>10 DEF RunTypes

LEMMA SyncsEnd ==
  ASSUME Inv, AtInv, NEW c \in Contracts, HeadIsOurs(c) \/ EventsApplied(c)
  PROVE  Inv'
<1>1. OtherTypes /\ RowTypes /\ WatchTypes /\ RunTypes /\ BudgetTypes
  BY TypeParts DEF Inv, OtherTypes
<1>2. queue[c] # <<>> /\ SyncEnds(c) BY DEF HeadIsOurs, EventsApplied, AtInv
<1>3. /\ QueuesStep /\ Follows(queue'[c], queue[c], 1)
      /\ watch' \in [Contracts -> SUBSET Contracts] /\ postOp' \in [Contracts -> BOOLEAN]
      /\ RunTypes'
  BY <1>2, SyncEndsTypes
<1>4. UNCHANGED <<refs, eph, held, live, calls, budget>> BY DEF HeadIsOurs, EventsApplied
<1>5. /\ row' = row \/ row' = [row EXCEPT ![c] = "synced"]
      /\ sub' = [sub EXCEPT ![c] = TRUE]
      /\ pendingWatch' = pendingWatch \/ pendingWatch' = [pendingWatch EXCEPT ![c] = found[c]]
  BY DEF HeadIsOurs, EventsApplied
<1>6. RowTypes' BY <1>1, <1>5 DEF RowTypes
<1>7. WatchTypes' BY <1>1, <1>3, <1>4, <1>5 DEF WatchTypes, RunTypes
<1>8. OtherTypes' BY <1>1, <1>3, <1>4, <1>6, <1>7 DEF OtherTypes, BudgetTypes
<1>9. Settle(c, TRUE) BY <1>2 DEF SyncEnds
<1>10. row[c] # "gone" BY DEF HeadIsOurs, EventsApplied, AtInv
<1>11. RowsStay BY <1>1, <1>5, <1>10 DEF RowsStay, RowTypes
<1>12. QED BY <1>2, <1>3, <1>4, <1>8, <1>9, <1>11, SettledStep

-----------------------------------------------------------------------------
(* The removals, and a reload. *)

\* What a removal of a followed contract does to the other variables.
LEMMA RemoveTypes ==
  ASSUME Inv, NEW c \in Contracts, queue[c] # <<>>, NEW becomes \in {"none", "gone"},
         Remove(c, becomes), UNCHANGED <<at, found, failed, calls>>,
         budget' \in 0 .. DisturbBound
  PROVE  OtherTypes' /\ QueuesStep /\ UNCHANGED <<held, scope, on>>
<1>1. /\ TypeOK /\ OtherTypes /\ RowTypes /\ WatchTypes /\ RunTypes /\ BudgetTypes
  BY TypeParts DEF Inv, OtherTypes
<1>2. QueuesStep BY <1>1, RemoveStep
<1>3. CASE row[c] # "synced"
  <2>1. UNCHANGED <<row, sub, refVars, watchVars, orphan>> BY <1>3 DEF Remove
  <2>2. OtherTypes' BY <1>1, <2>1
    DEF OtherTypes, RowTypes, WatchTypes, RunTypes, BudgetTypes, watchVars
  <2>3. QED BY <1>2, <2>1, <2>2 DEF refVars
<1>4. CASE row[c] = "synced"
  <2>1. /\ row' = [row EXCEPT ![c] = becomes] /\ sub' = [sub EXCEPT ![c] = FALSE]
        /\ watch' = [watch EXCEPT ![c] = {}] /\ pendingWatch' = [pendingWatch EXCEPT ![c] = {}]
        /\ orphan' = [orphan EXCEPT ![c] = FALSE]
        /\ UNCHANGED <<held, scope, on, live, postOp>>
    BY <1>4 DEF Remove
  <2>2. RowTypes' BY <1>1, <2>1 DEF RowTypes
  <2>3. WatchTypes' BY <1>1, <2>1 DEF WatchTypes
  <2>4. RunTypes' BY <1>1, <2>1 DEF RunTypes
  <2>5. QED BY <1>1, <1>2, <2>1, <2>2, <2>3, <2>4 DEF OtherTypes, BudgetTypes
<1>5. QED BY <1>3, <1>4

\* A confirmed removal finds no reference to forget.
LEMMA RemoveConfirmedKeeps ==
  ASSUME Inv, NEW c \in Contracts, RemoveConfirmed(c)
  PROVE  Inv'
<1>1. /\ TypeOK /\ OtherTypes /\ RowTypes /\ CountTypes /\ BudgetTypes
  BY TypeParts DEF Inv, OtherTypes
<1>2. queue[c] # <<>> BY DEF RemoveConfirmed, Starts
<1>3. CASE ~Collectible(c, refs, eph, watch, sub)
  <2>1. /\ queue' = Done(c)
        /\ UNCHANGED <<row, sub, refVars, watchVars, orphan, budget>>
        /\ UNCHANGED <<at, found, failed, calls>>
    BY <1>3 DEF RemoveConfirmed
  <2>2. QueuesStep BY <1>1, <1>2, <2>1, DoneStep
  <2>3. OtherTypes' BY <1>1, <2>1
    DEF OtherTypes, RowTypes, WatchTypes, RunTypes, BudgetTypes, watchVars
  <2>4. Quiet /\ RowsStay BY <2>1 DEF Quiet, RowsStay, refVars
  <2>5. QED BY <2>2, <2>3, <2>4, QuietStep
<1>4. CASE Collectible(c, refs, eph, watch, sub)
  <2>1. Remove(c, "none") /\ UNCHANGED <<at, found, failed, calls>>
    BY <1>4 DEF RemoveConfirmed
  <2>2. (\E kind \in Kinds : Disturb(kind)) \/ budget' = budget
    BY <1>4 DEF RemoveConfirmed, Kinds
  <2>3. budget' \in 0 .. DisturbBound BY <1>1, <2>2, DisturbType DEF BudgetTypes
  <2>4. OtherTypes' /\ QueuesStep /\ UNCHANGED <<held, scope, on>>
    BY <1>2, <2>1, <2>3, RemoveTypes
  <2>5. refs[c] = 0 /\ eph[c] = 0 BY <1>4 DEF Collectible
  <2>6. refs' = refs /\ eph' = eph BY <2>1, <2>5, <1>1 DEF Remove, refVars, CountTypes
  <2>7. RowsStay BY <2>1, <1>1 DEF Remove, RowsStay, RowTypes
  <2>8. QED BY <2>4, <2>6, <2>7, QuietStep DEF Quiet
<1>5. QED BY <1>3, <1>4

LEMMA RemoveForGoodKeeps ==
  ASSUME Inv, NEW c \in Contracts, RemoveForGood(c)
  PROVE  Inv'
<1>1. /\ TypeOK /\ OtherTypes /\ RowTypes /\ CountTypes /\ ScopeTypes /\ BudgetTypes
  BY TypeParts DEF Inv, OtherTypes
<1>2. /\ queue[c] # <<>> /\ Remove(c, "gone")
      /\ UNCHANGED <<at, found, failed, calls>> /\ budget' \in 0 .. DisturbBound
  BY <1>1 DEF RemoveForGood, Starts, BudgetTypes
<1>3. OtherTypes' /\ QueuesStep /\ UNCHANGED <<held, scope, on>> BY <1>2, RemoveTypes
<1>4. \/ UNCHANGED <<row, refs, eph>>
      \/ /\ row' = [row EXCEPT ![c] = "gone"] /\ refs' = [refs EXCEPT ![c] = 0]
         /\ eph' = [eph EXCEPT ![c] = 0]
  BY <1>2 DEF Remove, refVars
<1>5. CountTypes' BY <1>1, <1>3, <1>4 DEF CountTypes
<1>6. ASSUME NEW d \in Contracts, row'[d] # "gone"
      PROVE  row[d] # "gone" /\ refs'[d] = refs[d] /\ eph'[d] = eph[d]
  BY <1>1, <1>4, <1>6 DEF RowTypes, CountTypes
<1>7. \A d \in Contracts : Using(d, Open)' = Using(d, Open) BY <1>3, SameUsers
<1>8. CountsAgree' BY <1>3, <1>6, <1>7 DEF Inv, CountsAgree, Open
<1>9. AwaitInv' BY <1>1, <1>3, KeepAwaits DEF Inv
<1>10. ScopeTypes' /\ QueueType' BY <1>1, <1>3 DEF ScopeTypes, QueuesStep
<1>11. QED BY <1>3, <1>5, <1>8, <1>9, <1>10, TypePartsPrime DEF Inv

\* Nothing survives a reload but rows and the references the application takes anew.
LEMMA ReloadKeeps ==
  ASSUME Inv, Reload
  PROVE  Inv'
<1>1. /\ OtherTypes /\ RowTypes /\ WatchTypes /\ RunTypes /\ CountTypes /\ BudgetTypes
  BY TypeParts DEF Inv, OtherTypes
<1>2. ASSUME NEW d \in Contracts
      PROVE  /\ queue'[d] \in Seq(Tasks)
             /\ \A i \in 1 .. Len(queue'[d]) : queue'[d][i].user = Nobody
  <2>1. Plain(d, "sync") \in Tasks /\ Plain(d, "sync").user = Nobody BY TaskTypes
  <2> DEFINE t == Plain(d, "sync")
  <2> HIDE DEF t
  <2>2. t \in Tasks /\ t.user = Nobody BY <2>1 DEF t
  <2>3. queue'[d] = <<t>> \/ queue'[d] = <<>> BY DEF Reload, t
  <2>4. CASE queue'[d] = <<t>>
    <3>1. <<t>> \in Seq(Tasks) /\ Len(<<t>>) = 1 /\ <<t>>[1] = t BY <2>2
    <3>2. QED BY <2>4, <3>1, <2>2
  <2>5. CASE queue'[d] = <<>> BY <2>5
  <2>6. QED BY <2>3, <2>4, <2>5
<1>3. QueueType' BY <1>2 DEF Reload, QueueType
<1>4. scope' = [u \in Users |-> "out"] /\ on' = [u \in Users |-> Nobody] BY DEF Reload
<1>5. ScopeTypes' BY <1>4 DEF ScopeTypes, Stages
<1>6. AwaitInv' BY <1>2, <1>4 DEF AwaitInv, Awaits
<1>7. refs' = held' /\ eph' = Zero /\ \A d \in Contracts : refs'[d] \in Nat
  BY <1>1 DEF Reload, CountTypes
<1>8. CountTypes' BY <1>7, <1>1 DEF Reload, CountTypes, Zero
<1>9. ASSUME NEW d \in Contracts PROVE Cardinality(Using(d, Open)') = 0
  <2>1. Using(d, Open)' = {} BY <1>4 DEF Using, Open
  <2>2. QED BY <2>1, FS_EmptySet
<1>10. CountsAgree' BY <1>7, <1>9 DEF CountsAgree, Open, Zero
<1>11. (\E kind : Disturb(kind)) BY DEF Reload
<1>12. budget' \in 0 .. DisturbBound BY <1>1, <1>11, DisturbType
<1>13. RowTypes' /\ WatchTypes' /\ RunTypes' /\ BudgetTypes'
  BY <1>1, <1>12 DEF Reload, RowTypes, WatchTypes, RunTypes, BudgetTypes, None, Nothing
<1>14. QED BY <1>3, <1>5, <1>6, <1>8, <1>10, <1>13, TypePartsPrime DEF Inv, OtherTypes

-----------------------------------------------------------------------------
(* A sync under way keeps its task, and its contract. *)

Goes(c) == at'[c] # "idle" => queue'[c] # <<>> /\ row'[c] # "gone"

\* All but one contract keep what they have, or get a task more.
LEMMA AtStep ==
  ASSUME AtInv, NEW c \in Contracts, Goes(c),
         \A d \in Contracts \ {c} :
           /\ queue[d] # <<>> => queue'[d] # <<>>
           /\ at'[d] = at[d]
           /\ row'[d] = row[d]
  PROVE  AtInv'
BY DEF AtInv, Goes

LEMMA AppendNotEmpty ==
  ASSUME NEW q \in Seq(Tasks), NEW t
  PROVE  Append(q, t) # <<>>
OBVIOUS

\* The tasks that start and end in c.
LEMMA AtTasks ==
  ASSUME Inv, AtInv, NEW c \in Contracts,
         \/ Noop(c) \/ RemoveConfirmed(c) \/ RemoveForGood(c) \/ WatchForeignKeys(c)
         \/ SyncOfGone(c) \/ Unwatch(c) \/ SyncFails(c)
         \/ HeadIsOurs(c) \/ EventsApplied(c)
  PROVE  AtInv'
<1>1. /\ QueueType /\ RowTypes /\ RunTypes /\ \A d \in Contracts : queue[d] \in Seq(Tasks)
  BY TypeParts, QueueTyped DEF Inv, OtherTypes
<1>2. at'[c] = "idle" /\ \A d \in Contracts \ {c} : at'[d] = at[d]
  BY <1>1 DEF Noop, RemoveConfirmed, RemoveForGood, WatchForeignKeys, SyncOfGone, Unwatch,
              SyncFails, HeadIsOurs, EventsApplied, SyncEnds, Starts, taskVars, RunTypes
<1>3. ASSUME NEW d \in Contracts \ {c} PROVE row'[d] = row[d]
  BY <1>1 DEF Noop, RemoveConfirmed, RemoveForGood, WatchForeignKeys, SyncOfGone, Unwatch,
              SyncFails, HeadIsOurs, EventsApplied, Remove, RowTypes
<1>4. ASSUME NEW d \in Contracts \ {c}
      PROVE  \E t : queue'[d] = queue[d] \/ queue'[d] = Append(queue[d], t)
  <2>1. Done(c)[d] = queue[d] BY <1>1 DEF Done, QueueType
  <2>2. CASE queue' = Done(c) BY <2>1, <2>2
  <2>3. CASE \E q : queue' = [queue EXCEPT ![c] = q] BY <2>3, <1>1 DEF QueueType
  <2>4. CASE queue' = ReleaseForeign(c, sub') BY <2>1, <2>4 DEF ReleaseForeign
  <2>5. CASE WatchForeignKeys(c) BY <2>1, <2>5 DEF WatchForeignKeys
  <2>6. CASE Noop(c) \/ SyncOfGone(c) \/ SyncFails(c) BY <2>2, <2>6 DEF Noop, SyncOfGone, SyncFails
  <2>7. CASE RemoveConfirmed(c) \/ RemoveForGood(c)
    BY <2>2, <2>4, <2>7 DEF RemoveConfirmed, RemoveForGood, Remove
  <2>8. CASE HeadIsOurs(c) \/ EventsApplied(c)
    BY <2>3, <2>8 DEF HeadIsOurs, EventsApplied, SyncEnds
  <2>9. CASE Unwatch(c)
    <3>1. queue' = Done(c) \/ queue' = [queue EXCEPT ![c] = Append(Tail(@), Plain(c, "remove"))]
      BY <2>9 DEF Unwatch
    <3>2. QED BY <3>1, <2>2, <2>3
  <2>10. QED BY <2>5, <2>6, <2>7, <2>8, <2>9
<1>5. \A d \in Contracts \ {c} : queue[d] # <<>> => queue'[d] # <<>>
  BY <1>1, <1>4, AppendNotEmpty
<1>6. QED BY <1>2, <1>3, <1>5, AtStep DEF Goes

\* The calls, and the steps that only start.
LEMMA AtCalls ==
  ASSUME Inv, AtInv, NEW c \in Contracts,
         \/ Retain(c) \/ Release(c) \/ ForceSync(c) \/ Delete(c)
         \/ \E v \in Users : WithRetained(c, v)
         \/ SyncStart(c) \/ WatchStart(c) \/ EventsRead(c)
         \/ \E f \in Contracts : KeyDel(c, f)
  PROVE  AtInv'
<1>1. /\ QueueType /\ RowTypes /\ RunTypes /\ \A d \in Contracts : queue[d] \in Seq(Tasks)
  BY TypeParts, QueueTyped DEF Inv, OtherTypes
<1>2. CASE Retain(c) \/ Release(c) \/ ForceSync(c) \/ Delete(c) \/ \E v \in Users : WithRetained(c, v)
  <2>1. at' = at BY <1>2 DEF Retain, Release, ForceSync, Delete, WithRetained, taskVars
  <2>2. \A d \in Contracts : row'[d] = "gone" => row[d] = "gone"
    BY <1>1, <1>2 DEF Retain, Release, ForceSync, Delete, WithRetained, RowTypes
  <2>3. \/ queue' = queue
        \/ \E t : queue' = [queue EXCEPT ![c] = Append(queue[c], t)]
    BY <1>2 DEF Retain, Release, Released, ForceSync, Delete, WithRetained, SyncOrNoop
  <2>4. \A d \in Contracts : queue[d] # <<>> => queue'[d] # <<>>
    BY <2>3, <1>1, AppendNotEmpty DEF QueueType
  <2>5. QED BY <2>1, <2>2, <2>4 DEF AtInv
<1>3. CASE SyncStart(c)
  <2>1. /\ queue' = queue /\ queue[c] # <<>> /\ at' = [at EXCEPT ![c] = "head"]
        /\ row[c] # "gone"
        /\ row' = row \/ row' = [row EXCEPT ![c] = IF @ = "synced" THEN "bare" ELSE @]
    BY <1>3 DEF SyncStart, Starts, Resynced
  <2>2. row'[c] # "gone" /\ \A d \in Contracts \ {c} : row'[d] = row[d] /\ at'[d] = at[d]
    BY <1>1, <2>1 DEF RowTypes, RunTypes
  <2>3. QED BY <2>1, <2>2, AtStep DEF Goes
<1>4. CASE WatchStart(c)
  <2>1. CASE at' = [at EXCEPT ![c] = "head"] /\ queue' = queue /\ row[c] # "gone"
    <3>1. \A d \in Contracts \ {c} : at'[d] = at[d] BY <1>1, <2>1 DEF RunTypes
    <3>2. queue[c] # <<>> /\ row' = row BY <1>4 DEF WatchStart, Starts
    <3>3. QED BY <2>1, <3>1, <3>2, AtStep DEF Goes
  <2>2. CASE at' = at /\ queue' = Done(c)
    <3>1. \A d \in Contracts \ {c} : queue'[d] = queue[d] BY <1>1, <2>2 DEF Done, QueueType
    <3>2. at[c] = "idle" /\ row' = row BY <1>4 DEF WatchStart, Starts
    <3>3. QED BY <2>2, <3>1, <3>2, AtStep DEF Goes
  <2>3. QED BY <1>4, <2>1, <2>2 DEF WatchStart
<1>5. CASE EventsRead(c)
  <2>1. /\ queue' = queue /\ row' = row /\ at[c] = "head" /\ at' = [at EXCEPT ![c] = "apply"]
    BY <1>5 DEF EventsRead
  <2>2. \A d \in Contracts \ {c} : at'[d] = at[d] BY <1>1, <2>1 DEF RunTypes
  <2>3. queue[c] # <<>> /\ row[c] # "gone" BY <2>1 DEF AtInv
  <2>4. QED BY <2>1, <2>2, <2>3, AtStep DEF Goes
<1>6. ASSUME NEW f \in Contracts, KeyDel(c, f) PROVE AtInv'
  <2>1. at' = at /\ row' = row BY <1>6 DEF KeyDel, taskVars
  <2>2. \E t : queue' = [queue EXCEPT ![f] = Append(queue[f], t)] BY <1>6 DEF KeyDel
  <2>3. \A d \in Contracts : queue[d] # <<>> => queue'[d] # <<>>
    BY <2>2, <1>1, AppendNotEmpty DEF QueueType
  <2>4. QED BY <2>1, <2>3 DEF AtInv
<1>7. QED BY <1>2, <1>3, <1>4, <1>5, <1>6

LEMMA AtReleases ==
  ASSUME Inv, AtInv,
         \/ Reload \/ \E v \in Users : CallbackEnds(v)
         \/ \E c \in Contracts : \E i \in DOMAIN queue[c] : ReleaseEarly(c, i)
  PROVE  AtInv'
<1>1. /\ QueueType /\ \A d \in Contracts : queue[d] \in Seq(Tasks)
  BY TypeParts, QueueTyped DEF Inv, OtherTypes
<1>2. CASE Reload BY <1>2 DEF Reload, AtInv
<1>3. ASSUME NEW v \in Users, CallbackEnds(v) PROVE AtInv'
  <2>1. at' = at /\ row' = row BY <1>3 DEF CallbackEnds, taskVars
  <2>2. on[v] \in Contracts BY <1>3 DEF CallbackEnds, Inv, AwaitInv
  <2>3. \/ queue' = queue
        \/ \E t : queue' = [queue EXCEPT ![on[v]] = Append(queue[on[v]], t)]
    BY <1>3 DEF CallbackEnds, Released
  <2>4. \A d \in Contracts : queue[d] # <<>> => queue'[d] # <<>>
    BY <2>2, <2>3, <1>1, AppendNotEmpty DEF QueueType
  <2>5. QED BY <2>1, <2>4 DEF AtInv
<1>4. ASSUME NEW c \in Contracts, NEW i \in DOMAIN queue[c], ReleaseEarly(c, i) PROVE AtInv'
  <2> DEFINE q == Released(c, refs, eph')
  <2>1. at' = at /\ row' = row /\ queue' = [q EXCEPT ![c][i].user = Nobody]
    BY <1>4 DEF ReleaseEarly, taskVars
  <2>2. q = queue \/ \E t : q = [queue EXCEPT ![c] = Append(queue[c], t)]
    BY DEF Released
  <2>3. /\ DOMAIN q = Contracts
        /\ \A d \in Contracts \ {c} : q[d] = queue[d]
        /\ q[c] = queue[c] \/ \E t : q[c] = Append(queue[c], t)
    BY <1>1, <2>2 DEF QueueType
  <2> HIDE DEF q
  <2>4. i \in DOMAIN q[c]
    <3>1. queue[c] \in Seq(Tasks) BY <1>1
    <3>2. ASSUME NEW t PROVE i \in DOMAIN Append(queue[c], t) BY <3>1
    <3>3. QED BY <2>3, <3>2
  <2>5. /\ queue'[c] = [q[c] EXCEPT ![i] = [q[c][i] EXCEPT !.user = Nobody]]
        /\ \A d \in Contracts \ {c} : queue'[d] = q[d]
    BY <2>1, <2>3
  <2>6. DOMAIN queue'[c] = DOMAIN q[c] BY <2>5
  <2>7. queue'[c] # <<>>
    <3>1. DOMAIN <<>> = {} OBVIOUS
    <3>2. QED BY <3>1, <2>4, <2>6
  <2>8. QED BY <2>1, <2>3, <2>5, <2>7 DEF AtInv
<1>5. QED BY <1>2, <1>3, <1>4

-----------------------------------------------------------------------------
(* The theorems. *)

\* The inductive invariant.
LEMMA Started == Init => Inv /\ AtInv
<1> SUFFICES ASSUME Init PROVE Inv /\ AtInv OBVIOUS
<1>1. OtherTypes /\ CountTypes /\ ScopeTypes
  BY DEF Init, OtherTypes, RowTypes, WatchTypes, RunTypes, BudgetTypes, CountTypes, ScopeTypes,
         Zero, Nothing, None, Stages
<1>2. QueueType
  <2>1. <<>> \in Seq(Tasks) OBVIOUS
  <2>2. QED BY <2>1 DEF Init, QueueType
<1>3. ASSUME NEW d \in Contracts PROVE Cardinality(Using(d, Open)) = 0
  <2>1. Using(d, Open) = {} BY DEF Init, Using, Open
  <2>2. QED BY <2>1, FS_EmptySet
<1>4. CountsAgree BY <1>3 DEF Init, CountsAgree, Zero, Open
<1>5. AwaitInv BY DEF Init, AwaitInv, Awaits
<1>6. AtInv BY DEF Init, AtInv
<1>7. QED BY <1>1, <1>2, <1>4, <1>5, <1>6, TypeParts DEF Inv

LEMMA Kept == Inv /\ AtInv /\ [Next]_vars => Inv' /\ AtInv'
<1> SUFFICES ASSUME Inv, AtInv, [Next]_vars PROVE Inv' /\ AtInv' OBVIOUS
<1>1. CASE UNCHANGED vars
  <2>1. QueuesStep BY <1>1, QueueSame DEF Inv, vars
  <2>2. OtherTypes' BY <1>1, TypeParts
    DEF Inv, OtherTypes, RowTypes, WatchTypes, RunTypes, BudgetTypes, vars, watchVars, taskVars
  <2>3. Quiet /\ RowsStay BY <1>1 DEF Quiet, RowsStay, vars, refVars
  <2>4. AtInv' BY <1>1 DEF AtInv, vars, taskVars
  <2>5. QED BY <2>1, <2>2, <2>3, <2>4, QuietStep
<1>2. CASE Reload BY <1>2, ReloadKeeps, AtReleases
<1>3. ASSUME NEW v \in Users, CallbackEnds(v) PROVE Inv' /\ AtInv'
  BY <1>3, CallbackEndsKeeps, AtReleases
<1>4. ASSUME NEW c \in Contracts,
             \/ Retain(c) \/ Release(c) \/ ForceSync(c) \/ Delete(c)
             \/ \E u \in Users : WithRetained(c, u)
             \/ SyncStart(c) \/ WatchStart(c) \/ EventsRead(c)
             \/ \E f \in Contracts : KeyDel(c, f)
      PROVE  Inv' /\ AtInv'
  BY <1>4, RetainKeeps, ReleaseKeeps, WithRetainedKeeps, QuietActions, AtCalls
<1>5. ASSUME NEW c \in Contracts, NEW i \in DOMAIN queue[c], ReleaseEarly(c, i)
      PROVE  Inv' /\ AtInv'
  BY <1>5, ReleaseEarlyKeeps, AtReleases
<1>6. ASSUME NEW c \in Contracts,
             \/ Noop(c) \/ RemoveConfirmed(c) \/ RemoveForGood(c) \/ WatchForeignKeys(c)
             \/ SyncOfGone(c) \/ Unwatch(c) \/ SyncFails(c)
             \/ HeadIsOurs(c) \/ EventsApplied(c)
      PROVE  Inv' /\ AtInv'
  BY <1>6, SettlingActions, RemoveConfirmedKeeps, RemoveForGoodKeeps, QuietActions,
     SyncFailsKeeps, SyncsEnd, AtTasks
<1>7. QED BY <1>1, <1>2, <1>3, <1>4, <1>5, <1>6 DEF Next, Step

\* Every variable keeps its type: in particular no count of references goes below
\* zero, whatever removals and releases cross (retain, release, removeImmediately).
THEOREM TypeCorrect == Spec => []TypeOK
<1>1. Inv => TypeOK BY DEF Inv
<1>2. QED BY <1>1, Started, Kept, PTL DEF Spec

\* The counts of a contract that has not been deleted are the references the
\* application has and the scopes that are open, through removals, new syncs, failures
\* and reloads.
THEOREM Counted == Spec => []CountsAgree
<1>1. Inv => CountsAgree BY DEF Inv
<1>2. QED BY <1>1, Started, Kept, PTL DEF Spec

\* The task of contract/remove asks again, so what it removes has no reference, no
\* open scope, and no watch of a followed contract.
LEMMA RemovedUnneeded ==
  ASSUME Inv, AtInv, [Next]_vars, NEW c \in Contracts, row[c] = "synced", row'[c] = "none"
  PROVE  held[c] = 0 /\ Using(c, {"waiting", "inside"}) = {} /\ ~Watched(c)
<1>1. RowTypes BY TypeParts DEF Inv, OtherTypes
<1>2. RemoveConfirmed(c)
  <2>1. CASE UNCHANGED vars BY <2>1 DEF vars
  <2>2. CASE Reload BY <2>2 DEF Reload
  <2>3. ASSUME NEW v \in Users, CallbackEnds(v) PROVE FALSE BY <2>3 DEF CallbackEnds
  <2>4. ASSUME NEW d \in Contracts, NEW i \in DOMAIN queue[d], ReleaseEarly(d, i) PROVE FALSE
    BY <2>4 DEF ReleaseEarly
  <2>5. ASSUME NEW d \in Contracts,
               \/ Retain(d) \/ Release(d) \/ ForceSync(d) \/ Delete(d)
               \/ \E u \in Users : WithRetained(d, u)
               \/ WatchStart(d) \/ EventsRead(d) \/ \E f \in Contracts : KeyDel(d, f)
        PROVE  FALSE
    BY <2>5, <1>1 DEF Retain, Release, ForceSync, Delete, WithRetained, WatchStart, EventsRead,
                      KeyDel, RowTypes
  <2>6. ASSUME NEW d \in Contracts, SyncStart(d) PROVE FALSE
    <3>1. row' = row \/ row' = [row EXCEPT ![d] = IF @ = "synced" THEN "bare" ELSE @]
      BY <2>6 DEF SyncStart, Resynced
    <3>2. QED BY <3>1, <1>1 DEF RowTypes
  <2>7. ASSUME NEW d \in Contracts,
               \/ Noop(d) \/ WatchForeignKeys(d) \/ SyncOfGone(d) \/ Unwatch(d)
               \/ SyncFails(d) \/ HeadIsOurs(d) \/ EventsApplied(d)
        PROVE  FALSE
    BY <2>7, <1>1 DEF Noop, WatchForeignKeys, SyncOfGone, Unwatch, SyncFails, HeadIsOurs,
                      EventsApplied, RowTypes
  <2>8. ASSUME NEW d \in Contracts, RemoveForGood(d) PROVE FALSE
    <3>1. row' = row \/ row' = [row EXCEPT ![d] = "gone"] BY <2>8 DEF RemoveForGood, Remove
    <3>2. QED BY <3>1, <1>1 DEF RowTypes
  <2>9. ASSUME NEW d \in Contracts, RemoveConfirmed(d) PROVE d = c
    <3>1. row' = row \/ row' = [row EXCEPT ![d] = "none"] BY <2>9 DEF RemoveConfirmed, Remove
    <3>2. QED BY <3>1, <1>1 DEF RowTypes
  <2>10. QED BY <2>1, <2>2, <2>3, <2>4, <2>5, <2>6, <2>7, <2>8, <2>9 DEF Next, Step
<1>3. Collectible(c, refs, eph, watch, sub) BY <1>2 DEF RemoveConfirmed
<1>4. refs[c] = 0 /\ eph[c] = 0 /\ ~Watched(c) BY <1>3 DEF Collectible, Watched
<1>5. held[c] = 0 /\ Cardinality(Using(c, Open)) = 0 BY <1>4 DEF Inv, CountsAgree, Open
<1>6. IsFiniteSet(Using(c, Open)) BY FS_Subset DEF Using
<1>7. Using(c, Open) = {} BY <1>5, <1>6, FS_EmptySet
<1>8. Using(c, {"waiting", "inside"}) \subseteq Using(c, Open) BY DEF Using, Open
<1>9. QED BY <1>4, <1>5, <1>7, <1>8

\* A contract with references, open scopes or followed watchers is never removed but
\* for good, however late the task of its removal runs.
THEOREM KeptAlways == Spec => KeptWhileNeeded
<1> DEFINE A == \A c \in Contracts : row[c] = "synced" /\ row'[c] = "none" =>
                  held[c] = 0 /\ Using(c, {"waiting", "inside"}) = {} /\ ~Watched(c)
<1>1. Inv /\ AtInv /\ [Next]_vars => [A]_vars BY RemovedUnneeded
<1> HIDE DEF A
<1>2. (Spec => [][A]_vars) BY <1>1, Started, Kept, PTL DEF Spec
<1>3. QED BY <1>2 DEF A, KeptWhileNeeded

-----------------------------------------------------------------------------
(* What is in the queues: tasks of the kinds ops, by one of bys. *)

Has(q, ops, bys) == \E i \in 1 .. Len(q) : q[i].op \in ops /\ q[i].by \in bys
Syncs == {"sync", "resync"}

LEMMA HasSteps ==
  ASSUME NEW q \in Seq(Tasks), NEW t \in Tasks, NEW ops, NEW bys
  PROVE  /\ Has(Append(q, t), ops, bys) <=> Has(q, ops, bys) \/ (t.op \in ops /\ t.by \in bys)
         /\ q # <<>> =>
              /\ Tail(q) \in Seq(Tasks)
              /\ Has(q, ops, bys) <=>
                   Has(Tail(q), ops, bys) \/ (Head(q).op \in ops /\ Head(q).by \in bys)
              /\ Has(Append(Tail(q), t), ops, bys) <=>
                   Has(Tail(q), ops, bys) \/ (t.op \in ops /\ t.by \in bys)
<1>1. ASSUME NEW p \in Seq(Tasks)
      PROVE  Has(Append(p, t), ops, bys) <=> Has(p, ops, bys) \/ (t.op \in ops /\ t.by \in bys)
  <2> DEFINE r == Append(p, t)
  <2>1. /\ Len(r) = Len(p) + 1 /\ Len(p) \in Nat
        /\ \A i \in 1 .. Len(p) : r[i] = p[i]
        /\ r[Len(p) + 1] = t
    OBVIOUS
  <2> HIDE DEF r
  <2>2. 1 .. Len(p) + 1 = 1 .. Len(p) \union {Len(p) + 1} BY <2>1
  <2>3. QED BY <2>1, <2>2 DEF Has, r
<1>2. ASSUME q # <<>>
      PROVE  /\ Tail(q) \in Seq(Tasks)
             /\ Has(q, ops, bys) <=>
                  Has(Tail(q), ops, bys) \/ (Head(q).op \in ops /\ Head(q).by \in bys)
  <2> DEFINE r == Tail(q)
  <2>1. /\ Len(q) \in Nat /\ Len(q) >= 1 /\ Len(r) = Len(q) - 1 /\ r \in Seq(Tasks)
        /\ \A i \in 1 .. Len(q) - 1 : r[i] = q[i + 1]
        /\ Head(q) = q[1]
    BY <1>2
  <2> HIDE DEF r
  <2>2. ASSUME Has(q, ops, bys) PROVE Has(r, ops, bys) \/ (Head(q).op \in ops /\ Head(q).by \in bys)
    <3>1. PICK i \in 1 .. Len(q) : q[i].op \in ops /\ q[i].by \in bys BY <2>2 DEF Has
    <3>2. CASE i = 1 BY <3>1, <3>2, <2>1
    <3>3. CASE i # 1
      <4>1. i - 1 \in 1 .. Len(r) /\ r[i - 1] = q[i] BY <3>1, <3>3, <2>1
      <4>2. QED BY <3>1, <4>1 DEF Has
    <3>4. QED BY <3>2, <3>3
  <2>3. ASSUME Has(r, ops, bys) PROVE Has(q, ops, bys)
    <3>1. PICK i \in 1 .. Len(r) : r[i].op \in ops /\ r[i].by \in bys BY <2>3 DEF Has
    <3>2. i + 1 \in 1 .. Len(q) /\ r[i] = q[i + 1] BY <3>1, <2>1
    <3>3. QED BY <3>1, <3>2 DEF Has
  <2>4. ASSUME Head(q).op \in ops, Head(q).by \in bys PROVE Has(q, ops, bys)
    <3>1. 1 \in 1 .. Len(q) BY <2>1
    <3>2. QED BY <3>1, <2>1, <2>4 DEF Has
  <2>5. QED BY <2>1, <2>2, <2>3, <2>4 DEF r
<1>3. QED BY <1>1, <1>2

LEMMA HasNothing == ASSUME NEW ops, NEW bys PROVE ~Has(<<>>, ops, bys)
BY DEF Has

\* The tasks of two queues are the same, but for the users that await them.
SameTasks(r, q) ==
  /\ Len(r) = Len(q)
  /\ \A i \in 1 .. Len(q) : /\ r[i].op = q[i].op /\ r[i].by = q[i].by
                            /\ r[i].user \in {q[i].user, Nobody}

LEMMA HasSame ==
  ASSUME NEW q, NEW r, SameTasks(r, q), NEW ops, NEW bys
  PROVE  Has(r, ops, bys) <=> Has(q, ops, bys)
BY DEF SameTasks, Has

\* A task of the queue of c runs, or a part of one.
Runs(c) ==
  \/ Noop(c) \/ RemoveConfirmed(c) \/ RemoveForGood(c) \/ WatchForeignKeys(c)
  \/ SyncStart(c) \/ SyncOfGone(c) \/ WatchStart(c) \/ HeadIsOurs(c) \/ EventsRead(c)
  \/ EventsApplied(c) \/ SyncFails(c) \/ Unwatch(c)

\* What a task of c leaves alone, of another contract d.
LEMMA OthersStay ==
  ASSUME Inv, NEW c \in Contracts, Runs(c), NEW d \in Contracts \ {c}
  PROVE  /\ row'[d] = row[d] /\ sub'[d] = sub[d] /\ refs'[d] = refs[d] /\ eph'[d] = eph[d]
         /\ watch'[d] = watch[d] /\ postOp'[d] = postOp[d]
         /\ at'[d] = at[d] /\ found'[d] = found[d] /\ failed'[d] = failed[d]
         /\ orphan'[d] = orphan[d]
<1>1. RowTypes /\ WatchTypes /\ RunTypes /\ CountTypes BY TypeParts DEF Inv, OtherTypes
<1> USE <1>1 DEF RowTypes, WatchTypes, RunTypes, CountTypes, Runs, watchVars, taskVars, refVars
<1>2. CASE RemoveConfirmed(c) \/ RemoveForGood(c)
  BY <1>2 DEF RemoveConfirmed, RemoveForGood, Remove
<1>3. CASE Noop(c) \/ WatchForeignKeys(c) \/ SyncOfGone(c) \/ SyncFails(c) \/ Unwatch(c) \/ WatchStart(c)
  BY <1>3 DEF Noop, WatchForeignKeys, SyncOfGone, SyncFails, Unwatch, WatchStart
<1>4. CASE SyncStart(c) BY <1>4 DEF SyncStart, Resynced
<1>5. CASE EventsRead(c) BY <1>5 DEF EventsRead
<1>6. CASE HeadIsOurs(c) \/ EventsApplied(c)
  <2>1. SyncEnds(c) /\ sub' = [sub EXCEPT ![c] = TRUE] /\ UNCHANGED <<refs, eph>>
    BY <1>6 DEF HeadIsOurs, EventsApplied
  <2>2. row' = row \/ row' = [row EXCEPT ![c] = "synced"]
    BY <1>6 DEF HeadIsOurs, EventsApplied
  <2>3. /\ \E o : orphan' = [orphan EXCEPT ![c] = o]
        /\ \E w : watch' = [watch EXCEPT ![c] = w]
    <3>1. watch = [watch EXCEPT ![c] = watch[c]] OBVIOUS
    <3>2. QED BY <2>1, <3>1 DEF SyncEnds
  <2>4. /\ postOp' = [postOp EXCEPT ![c] = FALSE] /\ at' = [at EXCEPT ![c] = "idle"]
        /\ found' = [found EXCEPT ![c] = {}] /\ failed' = [failed EXCEPT ![c] = FALSE]
    BY <2>1 DEF SyncEnds
  <2>5. QED BY <2>1, <2>2, <2>3, <2>4
<1>7. QED BY <1>2, <1>3, <1>4, <1>5, <1>6

\* What a task of c adds to the queue of another contract d.
LEMMA OthersGet ==
  ASSUME Inv, NEW c \in Contracts, Runs(c), NEW d \in Contracts \ {c}
  PROVE  \/ queue'[d] = queue[d] /\ (WatchForeignKeys(c) => d \notin pendingWatch[c])
         \/ /\ RemoveConfirmed(c) \/ RemoveForGood(c)
            /\ queue'[d] = Append(queue[d], Plain(d, "remove"))
         \/ /\ WatchForeignKeys(c) /\ d \in pendingWatch[c]
            /\ queue'[d] = Append(queue[d], Task("watch", c, Nobody))
<1>1. QueueType BY QueueTyped DEF Inv
<1>2. Done(c)[d] = queue[d] BY <1>1 DEF Done, QueueType
<1>3. CASE RemoveConfirmed(c) \/ RemoveForGood(c)
  <2>1. queue' = Done(c) \/ queue' = ReleaseForeign(c, sub')
    BY <1>3 DEF RemoveConfirmed, RemoveForGood, Remove
  <2>2. queue'[d] = queue[d] \/ queue'[d] = Append(queue[d], Plain(d, "remove"))
    BY <1>2, <2>1 DEF ReleaseForeign
  <2>3. ~WatchForeignKeys(c) BY <1>3 DEF RemoveConfirmed, RemoveForGood, WatchForeignKeys, Starts
  <2>4. QED BY <1>3, <2>2, <2>3
<1>4. CASE WatchForeignKeys(c) BY <1>2, <1>4 DEF WatchForeignKeys
<1>5. CASE ~(RemoveConfirmed(c) \/ RemoveForGood(c) \/ WatchForeignKeys(c))
  <2>1. \/ queue' = queue \/ queue' = Done(c)
        \/ \E t : queue' = [queue EXCEPT ![c] = t]
    BY <1>5 DEF Runs, Noop, SyncOfGone, SyncFails, SyncStart, EventsRead, WatchStart,
                HeadIsOurs, EventsApplied, SyncEnds, Unwatch
  <2>2. queue'[d] = queue[d] BY <1>1, <1>2, <2>1 DEF QueueType
  <2>3. QED BY <2>2, <1>5
<1>6. QED BY <1>3, <1>4, <1>5

LEMMA SameTasksSelf == ASSUME NEW q PROVE SameTasks(q, q)
BY DEF SameTasks

\* The queues when a release ends: those of Released, but for a user who left early.
LEMMA ErasedQueue ==
  ASSUME NEW p \in [Contracts -> Seq(Tasks)], NEW c \in Contracts, NEW i \in DOMAIN p[c],
         queue' = [p EXCEPT ![c][i].user = Nobody]
  PROVE  \A d \in Contracts : SameTasks(queue'[d], p[d])
<1>1. /\ queue'[c] = [p[c] EXCEPT ![i] = [p[c][i] EXCEPT !.user = Nobody]]
      /\ \A d \in Contracts \ {c} : queue'[d] = p[d]
  OBVIOUS
<1> DEFINE t == [p[c][i] EXCEPT !.user = Nobody]
<1>2. p[c] \in Seq(Tasks) /\ DOMAIN p[c] = 1 .. Len(p[c]) /\ Len(p[c]) \in Nat OBVIOUS
<1>3. p[c][i] \in Tasks BY <1>2
<1>4. t.op = p[c][i].op /\ t.by = p[c][i].by /\ t.user = Nobody BY <1>3 DEF Tasks
<1> HIDE DEF t
<1>5. queue'[c] = [p[c] EXCEPT ![i] = t] BY <1>1 DEF t
<1>6. /\ \A j \in 1 .. Len(p[c]) : queue'[c][j] = IF j = i THEN t ELSE p[c][j]
      /\ DOMAIN queue'[c] = 1 .. Len(p[c])
  BY <1>2, <1>5
<1>7. Len(queue'[c]) = Len(p[c])
  <2>1. t \in Tasks BY <1>3 DEF t, Tasks
  <2>2. queue'[c] \in Seq(Tasks) BY <1>2, <1>5, <2>1, ExceptSeq
  <2>3. QED BY <1>2, <1>6, <2>2
<1>8. SameTasks(queue'[c], p[c]) BY <1>4, <1>6, <1>7 DEF SameTasks
<1>9. QED BY <1>1, <1>8, SameTasksSelf

\* The application lets go of a reference or a scope of c.
LetsGo(c) ==
  \/ Release(c)
  \/ \E v \in Users : on[v] = c /\ CallbackEnds(v)
  \/ \E i \in DOMAIN queue[c] : ReleaseEarly(c, i)

\* What is in the queue of c when a release ends.
AfterRelease(c) ==
  IF Collectible(c, refs', eph', watch, sub) /\ HasRow(c)
  THEN Append(queue[c], Plain(c, "remove")) ELSE queue[c]

LEMMA DroppedTypes ==
  ASSUME CountTypes, NEW c \in Contracts, eph' = Dropped(c)
  PROVE  /\ eph' \in [Contracts -> Nat] /\ \A d \in Contracts : eph'[d] <= eph[d]
         /\ \A d \in Contracts \ {c} : eph'[d] = eph[d]
<1>1. CASE row[c] = "gone" \/ eph[c] = 0 BY <1>1 DEF Dropped, CountTypes
<1>2. CASE ~(row[c] = "gone" \/ eph[c] = 0)
  <2>1. eph[c] \in Nat /\ eph[c] # 0 BY <1>2 DEF CountTypes
  <2>2. eph' = Add(eph, c, -1) BY <1>2 DEF Dropped
  <2>3. eph' = [eph EXCEPT ![c] = eph[c] - 1] BY <2>1, <2>2 DEF Add
  <2>4. eph[c] - 1 \in Nat /\ eph[c] - 1 <= eph[c] BY <2>1
  <2>5. \A d \in Contracts : eph[d] \in Nat /\ eph[d] <= eph[d] BY DEF CountTypes
  <2>6. QED BY <2>3, <2>4, <2>5 DEF CountTypes
<1>3. QED BY <1>1, <1>2

LEMMA LetGo ==
  ASSUME Inv, NEW c \in Contracts, LetsGo(c)
  PROVE  /\ UNCHANGED <<row, sub, watchVars, taskVars>>
         /\ refs' \in [Contracts -> Nat] /\ eph' \in [Contracts -> Nat]
         /\ \A d \in Contracts : refs'[d] <= refs[d] /\ eph'[d] <= eph[d]
         /\ \A d \in Contracts \ {c} : /\ refs'[d] = refs[d] /\ eph'[d] = eph[d]
                                       /\ SameTasks(queue'[d], queue[d])
         /\ SameTasks(queue'[c], AfterRelease(c))
<1>1. CountTypes /\ QueueType BY TypeParts DEF Inv
<1> DEFINE p == Released(c, refs', eph')
<1>2. /\ p \in [Contracts -> Seq(Tasks)]
      /\ p[c] = AfterRelease(c) /\ \A d \in Contracts \ {c} : p[d] = queue[d]
      /\ \A i \in DOMAIN queue[c] : i \in DOMAIN p[c]
  <2>1. Plain(c, "remove") \in Tasks BY TaskTypes
  <2>2. queue[c] \in Seq(Tasks) BY <1>1 DEF QueueType
  <2>3. Append(queue[c], Plain(c, "remove")) \in Seq(Tasks) BY <2>1, <2>2
  <2>4. ASSUME NEW i \in DOMAIN queue[c] PROVE i \in DOMAIN Append(queue[c], Plain(c, "remove"))
    BY <2>2
  <2>5. CASE p = queue /\ AfterRelease(c) = queue[c] BY <2>5, <1>1 DEF QueueType
  <2>6. CASE p = [queue EXCEPT ![c] = Append(queue[c], Plain(c, "remove"))]
             /\ AfterRelease(c) = Append(queue[c], Plain(c, "remove"))
    <3>1. p[c] = AfterRelease(c) /\ \A d \in Contracts \ {c} : p[d] = queue[d]
      BY <2>6, <1>1 DEF QueueType
    <3>2. p \in [Contracts -> Seq(Tasks)] BY <2>3, <2>6, <1>1 DEF QueueType
    <3>3. QED BY <3>1, <3>2, <2>4, <2>6
  <2>7. QED BY <2>5, <2>6 DEF Released, AfterRelease
<1> HIDE DEF p
<1>3. ASSUME queue' = p
      PROVE  /\ \A d \in Contracts \ {c} : SameTasks(queue'[d], queue[d])
             /\ SameTasks(queue'[c], AfterRelease(c))
  BY <1>2, <1>3, SameTasksSelf
<1>4. CASE Release(c)
  <2>1. held[c] > 0 /\ (row[c] # "gone" => refs[c] = held[c])
    BY <1>4 DEF Release, Inv, CountsAgree
  <2>2. /\ refs' = IF row[c] = "gone" THEN refs ELSE [refs EXCEPT ![c] = refs[c] - 1]
        /\ eph' = eph /\ UNCHANGED <<row, sub, watchVars, taskVars>>
    BY <1>1, <1>4 DEF Release, Add, CountTypes
  <2>3. /\ refs' \in [Contracts -> Nat] /\ \A d \in Contracts : refs'[d] <= refs[d]
        /\ \A d \in Contracts \ {c} : refs'[d] = refs[d]
    BY <1>1, <2>1, <2>2 DEF CountTypes
  <2>4. eph' \in [Contracts -> Nat] /\ \A d \in Contracts : eph'[d] <= eph[d]
    BY <1>1, <2>2 DEF CountTypes
  <2>5. queue' = Released(c, refs', eph) BY <1>4 DEF Release
  <2>6. queue' = p BY <2>2, <2>5 DEF p
  <2>7. QED BY <1>3, <2>2, <2>3, <2>4, <2>6
<1>5. ASSUME NEW v \in Users, on[v] = c, CallbackEnds(v)
      PROVE  /\ eph' = Dropped(c) /\ refs' = refs /\ queue' = p
             /\ UNCHANGED <<row, sub, watchVars, taskVars>>
  BY <1>5 DEF CallbackEnds, p
<1>6. ASSUME NEW i \in DOMAIN queue[c], ReleaseEarly(c, i)
      PROVE  /\ eph' = Dropped(c) /\ refs' = refs /\ queue' = [p EXCEPT ![c][i].user = Nobody]
             /\ UNCHANGED <<row, sub, watchVars, taskVars>>
  BY <1>6 DEF ReleaseEarly, p
<1>7. CASE \/ \E v \in Users : on[v] = c /\ CallbackEnds(v)
           \/ \E i \in DOMAIN queue[c] : ReleaseEarly(c, i)
  <2>1. eph' = Dropped(c) /\ refs' = refs /\ UNCHANGED <<row, sub, watchVars, taskVars>>
    BY <1>5, <1>6, <1>7
  <2>2. refs' \in [Contracts -> Nat] /\ \A d \in Contracts : refs'[d] <= refs[d]
    BY <1>1, <2>1 DEF CountTypes
  <2>3. \A d \in Contracts : SameTasks(queue'[d], p[d])
    <3>1. CASE queue' = p BY <3>1, SameTasksSelf
    <3>2. ASSUME NEW i \in DOMAIN queue[c], queue' = [p EXCEPT ![c][i].user = Nobody]
          PROVE  \A d \in Contracts : SameTasks(queue'[d], p[d])
      BY <1>2, <3>2, ErasedQueue
    <3>3. QED BY <3>1, <3>2, <1>5, <1>6, <1>7
  <2>4. QED BY <1>1, <1>2, <2>1, <2>2, <2>3, DroppedTypes
<1>8. QED BY <1>4, <1>7 DEF LetsGo

\* The other calls.
Asks(c) ==
  \/ Retain(c) \/ ForceSync(c) \/ Delete(c)
  \/ \E v \in Users : WithRetained(c, v)
  \/ \E f \in Contracts : KeyDel(f, c)

LEMMA Asked ==
  ASSUME Inv, NEW c \in Contracts, Asks(c)
  PROVE  /\ UNCHANGED <<sub, watch, postOp, taskVars>>
         /\ \A d \in Contracts \ {c} : /\ row'[d] = row[d] /\ queue'[d] = queue[d]
                                       /\ refs'[d] = refs[d] /\ eph'[d] = eph[d]
         /\ \E t \in Tasks : queue'[c] = Append(queue[c], t)
<1>1. /\ RowTypes /\ CountTypes /\ QueueType BY TypeParts DEF Inv, OtherTypes
<1>2. UNCHANGED <<sub, watch, postOp, taskVars>>
  BY DEF Asks, Retain, ForceSync, Delete, WithRetained, KeyDel, watchVars
<1>3. \A d \in Contracts \ {c} : row'[d] = row[d] /\ refs'[d] = refs[d] /\ eph'[d] = eph[d]
  BY <1>1 DEF Asks, Retain, ForceSync, Delete, WithRetained, KeyDel, Add, RowTypes, CountTypes,
              refVars
<1>4. \E t \in Tasks : queue' = [queue EXCEPT ![c] = Append(queue[c], t)]
  <2>1. queue[c] \in Seq(Tasks) BY <1>1 DEF QueueType
  <2>2. CASE Retain(c)
    <3>1. PICK t \in Tasks : SyncOrNoop(c, Nobody) = Append(queue[c], t)
      BY <2>1, SyncOrNoopType
    <3>2. QED BY <2>2, <3>1 DEF Retain
  <2>3. ASSUME NEW v \in Users, WithRetained(c, v)
        PROVE  \E t \in Tasks : queue' = [queue EXCEPT ![c] = Append(queue[c], t)]
    <3>1. PICK t \in Tasks : SyncOrNoop(c, v) = Append(queue[c], t)
      BY <2>1, SyncOrNoopType
    <3>2. QED BY <2>3, <3>1 DEF WithRetained
  <2>4. CASE ForceSync(c) \/ Delete(c)
    <3>1. PICK op \in {"sync", "resync", "delete"} :
            queue' = [queue EXCEPT ![c] = Append(@, Plain(c, op))]
      BY <2>4 DEF ForceSync, Delete
    <3>2. QED BY <3>1, TaskTypes
  <2>5. ASSUME NEW f \in Contracts, KeyDel(f, c)
        PROVE  \E t \in Tasks : queue' = [queue EXCEPT ![c] = Append(queue[c], t)]
    BY <2>5, TaskTypes DEF KeyDel
  <2>6. QED BY <2>2, <2>3, <2>4, <2>5 DEF Asks
<1>5. QED BY <1>1, <1>2, <1>3, <1>4 DEF QueueType

LEMMA StepCases ==
  ASSUME Inv, [Next]_vars
  PROVE  \/ UNCHANGED vars \/ Reload
         \/ \E c \in Contracts : LetsGo(c) \/ Asks(c) \/ Runs(c)
<1>1. ASSUME NEW v \in Users, CallbackEnds(v) PROVE \E c \in Contracts : LetsGo(c)
  <2>1. on[v] \in Contracts BY <1>1 DEF CallbackEnds, Inv, AwaitInv
  <2>2. QED BY <1>1, <2>1 DEF LetsGo
<1>2. QED BY <1>1 DEF Next, Step, LetsGo, Asks, Runs

-----------------------------------------------------------------------------
(* What is needed is followed: a contract with references, or with a watch, *)
(* is subscribed, has failed to sync, or has a sync in its queue.           *)

Used(c) == refs[c] # 0 \/ eph[c] # 0 \/ watch[c] # {}

Rowed(c) ==
  /\ sub[c] => row[c] = "synced"
  /\ row[c] = "none" => refs[c] = 0
  /\ watch[c] # {} => row[c] # "none"

Needed(c) ==
  row[c] # "gone" /\ Used(c) => sub[c] \/ failed[c] \/ Has(queue[c], Syncs, Contracts)

NeedInv == \A c \in Contracts : Rowed(c) /\ Needed(c)

LEMMA NeedStays ==
  ASSUME NEW d \in Contracts, Rowed(d), Needed(d), row'[d] = row[d], sub'[d] = sub[d],
         refs[d] = 0 => refs'[d] = 0, eph[d] = 0 => eph'[d] = 0, watch'[d] \subseteq watch[d],
         failed'[d] = failed[d],
         Has(queue[d], Syncs, Contracts) => Has(queue'[d], Syncs, Contracts)
  PROVE  Rowed(d)' /\ Needed(d)'
BY DEF Rowed, Needed, Used

LEMMA HeadTail ==
  ASSUME NEW q \in Seq(Tasks), q # <<>>
  PROVE  /\ Head(q) \in Tasks /\ Tail(q) \in Seq(Tasks)
         /\ Head(q).by \in Contracts /\ Head(q).op \in Ops
         /\ Head(q).user \in Users \union {Nobody}
         /\ \A ops : Head(q).op \notin ops /\ Has(q, ops, Contracts) => Has(Tail(q), ops, Contracts)
<1>1. Head(q) \in Tasks /\ Tail(q) \in Seq(Tasks) OBVIOUS
<1>2. ASSUME NEW ops, Head(q).op \notin ops, Has(q, ops, Contracts)
      PROVE  Has(Tail(q), ops, Contracts)
  BY <1>1, <1>2, HasSteps
<1>3. QED BY <1>1, <1>2 DEF Tasks

\* A queue that gets a task keeps what it has.
LEMMA HasMore ==
  ASSUME NEW q \in Seq(Tasks), NEW r, NEW ops, NEW bys, Has(q, ops, bys),
         r = q \/ \E t \in Tasks : r = Append(q, t)
  PROVE  Has(r, ops, bys)
<1>1. CASE r = q BY <1>1
<1>2. ASSUME NEW t \in Tasks, r = Append(q, t) PROVE Has(r, ops, bys)
  <2>1. Has(Append(q, t), ops, bys) <=> Has(q, ops, bys) \/ (t.op \in ops /\ t.by \in bys)
    BY HasSteps
  <2>2. QED BY <2>1, <1>2, Zenon
<1>3. QED BY <1>1, <1>2

LEMMA HasAdded ==
  ASSUME NEW q \in Seq(Tasks), NEW t \in Tasks, NEW ops, NEW bys, t.op \in ops, t.by \in bys
  PROVE  Has(Append(q, t), ops, bys)
BY HasSteps

LEMMA NeedLetGo ==
  ASSUME Inv, NeedInv, NEW c \in Contracts, LetsGo(c), NEW d \in Contracts
  PROVE  Rowed(d)' /\ Needed(d)'
<1>1. Rowed(d) /\ Needed(d) /\ CountTypes /\ queue[c] \in Seq(Tasks)
  BY TypeParts, QueueTyped DEF NeedInv, Inv
<1>2. refs[d] = 0 => refs'[d] = 0 BY <1>1, LetGo DEF CountTypes
<1>3. eph[d] = 0 => eph'[d] = 0 BY <1>1, LetGo DEF CountTypes
<1>4. UNCHANGED <<row, sub, watch, failed>> BY LetGo DEF watchVars, taskVars
<1>5. Has(queue[d], Syncs, Contracts) => Has(queue'[d], Syncs, Contracts)
  <2>1. CASE d # c BY <2>1, LetGo, HasSame
  <2>2. CASE d = c
    <3>1. Plain(c, "remove") \in Tasks BY TaskTypes
    <3>2. Has(queue[c], Syncs, Contracts) => Has(AfterRelease(c), Syncs, Contracts)
      BY <3>1, <1>1, HasSteps DEF AfterRelease
    <3>3. SameTasks(queue'[c], AfterRelease(c)) BY LetGo
    <3>4. QED BY <2>2, <3>2, <3>3, HasSame
  <2>3. QED BY <2>1, <2>2
<1>6. QED BY <1>1, <1>2, <1>3, <1>4, <1>5, NeedStays

LEMMA SyncAdded ==
  ASSUME NEW c \in Contracts, NEW v \in Users \union {Nobody}, queue[c] \in Seq(Tasks)
  PROVE  sub[c] \/ Has(SyncOrNoop(c, v), Syncs, Contracts)
<1> DEFINE t == Task("sync", c, v)
<1>1. t \in Tasks /\ t.op \in Syncs /\ t.by \in Contracts BY DEF Task, Tasks, Ops, Syncs
<1> HIDE DEF t
<1>2. ~sub[c] => SyncOrNoop(c, v) = Append(queue[c], t) BY DEF SyncOrNoop, t
<1>3. Has(Append(queue[c], t), Syncs, Contracts) BY <1>1, HasAdded
<1>4. QED BY <1>2, <1>3, Zenon

LEMMA NeedAsked ==
  ASSUME Inv, NeedInv, NEW c \in Contracts, Asks(c), NEW d \in Contracts
  PROVE  Rowed(d)' /\ Needed(d)'
<1>1. /\ Rowed(d) /\ Needed(d) /\ queue[d] \in Seq(Tasks)
      /\ RowTypes /\ CountTypes /\ QueueType
  BY TypeParts, QueueTyped DEF NeedInv, Inv, OtherTypes
<1>2. UNCHANGED <<sub, watch, failed>> BY Asked DEF taskVars
<1>3. CASE d # c
  <2>1. Has(queue[d], Syncs, Contracts) => Has(queue'[d], Syncs, Contracts) BY <1>3, Asked
  <2>2. row'[d] = row[d] /\ refs'[d] = refs[d] /\ eph'[d] = eph[d] BY <1>3, Asked
  <2>3. QED BY <1>1, <1>2, <2>1, <2>2, NeedStays
<1>4. CASE d = c
  <2>1. Has(queue[c], Syncs, Contracts) => Has(queue'[c], Syncs, Contracts)
    BY <1>1, <1>4, Asked, HasMore
  <2>2. CASE Retain(c)
    <3>1. row'[c] # "none" /\ (row[c] # "none" => row'[c] = row[c])
      BY <2>2, <1>1 DEF Retain, RowTypes
    <3>2. sub[c] \/ Has(queue'[c], Syncs, Contracts)
      <4>1. queue'[c] = SyncOrNoop(c, Nobody) BY <2>2, <1>1 DEF Retain, QueueType
      <4>2. QED BY <4>1, <1>1, <1>4, SyncAdded
    <3>3. QED BY <3>1, <3>2, <1>1, <1>2, <1>4 DEF Rowed, Needed
  <2>3. ASSUME NEW v \in Users, WithRetained(c, v) PROVE Rowed(c)' /\ Needed(c)'
    <3>1. row' = row /\ refs' = refs BY <2>3 DEF WithRetained
    <3>2. sub[c] \/ Has(queue'[c], Syncs, Contracts)
      <4>1. queue'[c] = SyncOrNoop(c, v) BY <2>3, <1>1 DEF WithRetained, QueueType
      <4>2. QED BY <4>1, <1>1, <1>4, SyncAdded
    <3>3. QED BY <3>1, <3>2, <1>1, <1>2, <1>4 DEF Rowed, Needed
  <2>4. CASE ForceSync(c) \/ Delete(c) \/ \E f \in Contracts : KeyDel(f, c)
    <3>1. UNCHANGED <<row, refs, eph>> BY <2>4 DEF ForceSync, Delete, KeyDel, refVars
    <3>2. QED BY <3>1, <2>1, <1>1, <1>2, <1>4, NeedStays
  <2>5. QED BY <2>2, <2>3, <2>4, <1>4 DEF Asks
<1>5. QED BY <1>3, <1>4

LEMMA NeedRuns ==
  ASSUME Inv, AtInv, NeedInv, NEW c \in Contracts, Runs(c), NEW d \in Contracts
  PROVE  Rowed(d)' /\ Needed(d)'
<1>1. /\ Rowed(d) /\ Needed(d) /\ queue[d] \in Seq(Tasks)
      /\ RowTypes /\ CountTypes /\ QueueType /\ WatchTypes /\ RunTypes
  BY TypeParts, QueueTyped DEF NeedInv, Inv, OtherTypes
<1>2. CASE d # c
  <2>1. /\ row'[d] = row[d] /\ sub'[d] = sub[d] /\ refs'[d] = refs[d] /\ eph'[d] = eph[d]
        /\ watch'[d] = watch[d] /\ failed'[d] = failed[d]
    BY <1>2, OthersStay
  <2>2. Plain(d, "remove") \in Tasks /\ Task("watch", c, Nobody) \in Tasks BY TaskTypes
  <2>3. Has(queue[d], Syncs, Contracts) => Has(queue'[d], Syncs, Contracts)
    BY <1>1, <1>2, <2>2, OthersGet, HasMore
  <2>4. QED BY <1>1, <2>1, <2>3, NeedStays
<1>3. CASE d = c
  <2> USE <1>3
  <2>1. queue[c] # <<>> => /\ Head(queue[c]) \in Tasks /\ Tail(queue[c]) \in Seq(Tasks)
                           /\ Head(queue[c]).by \in Contracts
                           /\ Done(c)[c] = Tail(queue[c])
    BY <1>1, HeadTail DEF Done, QueueType
  <2>2. CASE RemoveConfirmed(c) \/ RemoveForGood(c)
    <3>1. /\ queue[c] # <<>> /\ Head(queue[c]).op \notin Syncs /\ failed' = failed
          /\ Remove(c, "none") \/ Remove(c, "gone")
               \/ (queue' = Done(c) /\ UNCHANGED <<row, sub, refVars, watchVars, orphan>>)
      BY <2>2 DEF RemoveConfirmed, RemoveForGood, Starts, Syncs
    <3>2. CASE queue' = Done(c) /\ UNCHANGED <<row, sub, refVars, watchVars, orphan>>
      <4>1. Has(queue[c], Syncs, Contracts) => Has(queue'[c], Syncs, Contracts)
        BY <3>1, <3>2, <2>1, <1>1, HeadTail
      <4>2. QED BY <4>1, <3>1, <3>2, <1>1, NeedStays DEF refVars, watchVars
    <3>3. CASE /\ refs' = [refs EXCEPT ![c] = 0] /\ eph' = [eph EXCEPT ![c] = 0]
               /\ watch' = [watch EXCEPT ![c] = {}] /\ sub' = [sub EXCEPT ![c] = FALSE]
      <4>1. refs'[c] = 0 /\ eph'[c] = 0 /\ watch'[c] = {} /\ ~sub'[c]
        BY <3>3, <1>1 DEF CountTypes, WatchTypes, RowTypes
      <4>2. QED BY <4>1 DEF Rowed, Needed, Used
    <3>4. QED BY <3>1, <3>2, <3>3 DEF Remove
  <2>3. CASE Noop(c) \/ WatchForeignKeys(c) \/ Unwatch(c)
    <3>1. /\ queue[c] # <<>> /\ Head(queue[c]).op \notin Syncs
          /\ UNCHANGED <<row, sub, refs, eph, failed>>
      BY <2>3 DEF Noop, WatchForeignKeys, Unwatch, Starts, Syncs, refVars, taskVars
    <3>2. watch'[c] \subseteq watch[c]
      BY <2>3, <1>1 DEF Noop, WatchForeignKeys, Unwatch, watchVars, WatchTypes
    <3>3. Has(queue[c], Syncs, Contracts) => Has(Tail(queue[c]), Syncs, Contracts)
      BY <3>1, <1>1, HeadTail
    <3>4. \/ queue'[c] = Tail(queue[c])
          \/ \E t \in Tasks : queue'[c] = Append(Tail(queue[c]), t)
          \/ \E t \in Tasks : queue'[c] = Append(queue[c], t)
      <4>1. Plain(c, "remove") \in Tasks /\ Task("watch", c, Nobody) \in Tasks BY TaskTypes
      <4>2. CASE Noop(c) BY <4>2, <3>1, <2>1 DEF Noop
      <4>3. CASE Unwatch(c)
        <5>1. \/ queue' = Done(c)
              \/ queue' = [queue EXCEPT ![c] = Append(Tail(queue[c]), Plain(c, "remove"))]
          BY <4>3 DEF Unwatch
        <5>2. QED BY <5>1, <4>1, <3>1, <2>1, <1>1 DEF QueueType
      <4>4. CASE WatchForeignKeys(c)
        <5>1. queue'[c] = IF c \in pendingWatch[c] THEN Append(queue[c], Task("watch", c, Nobody))
                          ELSE Done(c)[c]
          BY <4>4 DEF WatchForeignKeys
        <5>2. QED BY <5>1, <4>1, <3>1, <2>1
      <4>5. QED BY <2>3, <4>2, <4>3, <4>4
    <3>5. Has(queue[c], Syncs, Contracts) => Has(queue'[c], Syncs, Contracts)
      BY <3>1, <3>3, <3>4, <2>1, <1>1, HasMore
    <3>6. QED BY <1>1, <3>1, <3>2, <3>5, NeedStays
  <2>4. CASE SyncStart(c)
    <3>1. /\ queue' = queue /\ UNCHANGED <<refs, eph, failed, watch>> /\ queue[c] # <<>>
          /\ Head(queue[c]).op \in Syncs /\ row[c] # "gone"
      BY <2>4 DEF SyncStart, Resynced, Starts, Syncs
    <3>2. Has(queue[c], Syncs, Contracts) BY <3>1, <2>1, <1>1, HasSteps
    <3>3. /\ row' = row /\ sub' = sub
          \/ /\ row' = [row EXCEPT ![c] = IF @ = "synced" THEN "bare" ELSE @]
             /\ sub' = IF row[c] = "synced" THEN [sub EXCEPT ![c] = FALSE] ELSE sub
      BY <2>4 DEF SyncStart, Resynced
    <3>4. (row'[c] = "none" <=> row[c] = "none") /\ (sub'[c] => row'[c] = "synced")
      BY <3>3, <1>1 DEF RowTypes, Rowed
    <3>5. QED BY <3>1, <3>2, <3>4, <1>1 DEF Rowed, Needed
  <2>5. CASE EventsRead(c)
    <3>1. UNCHANGED <<queue, row, sub, refs, eph, watch, failed>>
      BY <2>5 DEF EventsRead, refVars
    <3>2. QED BY <3>1, <1>1, NeedStays
  <2>6. CASE HeadIsOurs(c) \/ EventsApplied(c)
    <3>1. sub'[c] /\ row'[c] = "synced"
      BY <2>6, <1>1 DEF HeadIsOurs, EventsApplied, RowTypes
    <3>2. QED BY <3>1 DEF Rowed, Needed
  <2>7. CASE SyncOfGone(c)
    <3>1. row' = row /\ row[c] = "gone" /\ sub' = sub BY <2>7 DEF SyncOfGone
    <3>2. QED BY <3>1, <1>1 DEF Rowed, Needed
  <2>8. CASE SyncFails(c)
    <3>1. failed'[c] /\ UNCHANGED <<row, sub, refs, watch>>
      BY <2>8, <1>1 DEF SyncFails, RunTypes, watchVars
    <3>2. QED BY <3>1, <1>1 DEF Rowed, Needed
  <2>9. CASE WatchStart(c)
    <3>1. /\ UNCHANGED <<row, sub, refs, eph, failed>> /\ queue[c] # <<>>
          /\ Head(queue[c]).op \notin Syncs
      BY <2>9 DEF WatchStart, Starts, Syncs, refVars
    <3>2. (queue' = queue \/ queue' = Done(c)) /\ (watch' = watch \/ sub[c])
      BY <2>9 DEF WatchStart
    <3>3. Has(queue[c], Syncs, Contracts) => Has(queue'[c], Syncs, Contracts)
      BY <3>1, <3>2, <2>1, <1>1, HeadTail
    <3>4. CASE watch' = watch BY <3>4, <3>1, <3>3, <1>1, NeedStays
    <3>5. CASE sub[c] BY <3>5, <3>1, <1>1 DEF Rowed, Needed
    <3>6. QED BY <3>2, <3>4, <3>5
  <2>10. QED BY <2>2, <2>3, <2>4, <2>5, <2>6, <2>7, <2>8, <2>9 DEF Runs
<1>4. QED BY <1>2, <1>3

LEMMA NeedReload ==
  ASSUME Inv, NeedInv, Reload, NEW d \in Contracts
  PROVE  Rowed(d)' /\ Needed(d)'
<1>1. /\ Rowed(d) /\ RowTypes /\ CountTypes BY TypeParts DEF NeedInv, Inv, OtherTypes
<1>2. /\ refs'[d] = refs[d] + IF HasRow(d) THEN 1 ELSE 0
      /\ queue'[d] = IF HasRow(d) THEN <<Plain(d, "sync")>> ELSE <<>>
      /\ ~sub'[d] /\ eph'[d] = 0 /\ UNCHANGED <<row, watch>>
  BY DEF Reload, None, Zero
<1>3. CASE HasRow(d)
  <2>1. row[d] # "none" BY <1>3 DEF HasRow
  <2>2. Has(queue'[d], Syncs, Contracts)
    <3>1. Plain(d, "sync") \in Tasks /\ Plain(d, "sync").op \in Syncs /\ Plain(d, "sync").by \in Contracts
      BY DEF Plain, Task, Tasks, Ops, Syncs
    <3>2. <<>> \in Seq(Tasks) /\ queue'[d] = Append(<<>>, Plain(d, "sync")) BY <1>2, <1>3
    <3>3. Has(Append(<<>>, Plain(d, "sync")), Syncs, Contracts) BY <3>1, <3>2, HasAdded
    <3>4. QED BY <3>2, <3>3, Zenon
  <2>3. QED BY <2>1, <2>2, <1>1, <1>2 DEF Rowed, Needed
<1>4. CASE ~HasRow(d)
  <2>1. refs'[d] = refs[d] BY <1>1, <1>2, <1>4 DEF CountTypes
  <2>2. row[d] = "none" \/ row[d] = "gone" BY <1>1, <1>4 DEF HasRow, RowTypes
  <2>3. QED BY <2>1, <2>2, <1>1, <1>2 DEF Rowed, Needed, Used
<1>5. QED BY <1>3, <1>4

LEMMA NeedStarted == Init => NeedInv
BY DEF Init, NeedInv, Rowed, Needed, Used, Zero, None, Nothing

LEMMA NeedKept == Inv /\ AtInv /\ NeedInv /\ [Next]_vars => NeedInv'
<1> SUFFICES ASSUME Inv, AtInv, NeedInv, [Next]_vars, NEW d \in Contracts
             PROVE  Rowed(d)' /\ Needed(d)'
  BY DEF NeedInv
<1>1. CASE UNCHANGED vars BY <1>1, NeedStays DEF NeedInv, vars, refVars, watchVars, taskVars
<1>2. QED BY <1>1, StepCases, NeedReload, NeedLetGo, NeedAsked, NeedRuns

\* Once the queues are empty, a contract with references or with a scope inside its
\* callback is subscribed, unless its last sync failed (retain, withRetained,
\* in/sync, removeImmediately): no removal, re-sync or restart leaves it behind.
THEOREM NeededAlways == Spec => []NeededIsFollowed
<1>1. Inv /\ NeedInv => NeededIsFollowed
  <2> SUFFICES ASSUME Inv, NeedInv, AtRest, NEW c \in Contracts,
                      held[c] > 0 \/ Using(c, {"inside"}) # {}, row[c] # "gone", ~failed[c]
               PROVE  sub[c]
    BY DEF NeededIsFollowed
  <2>1. /\ refs[c] = held[c] /\ eph[c] = Cardinality(Using(c, Open))
        /\ held[c] \in Nat
    BY TypeParts DEF Inv, CountsAgree, Open, CountTypes
  <2>2. ASSUME Using(c, {"inside"}) # {} PROVE eph[c] # 0
    <3>1. Using(c, Open) # {} BY <2>2 DEF Using, Open
    <3>2. IsFiniteSet(Using(c, Open)) BY FS_Subset DEF Using
    <3>3. QED BY <3>1, <3>2, <2>1, FS_EmptySet
  <2>3. Used(c) BY <2>1, <2>2 DEF Used
  <2>4. ~Has(queue[c], Syncs, Contracts) BY HasNothing DEF AtRest
  <2>5. QED BY <2>3, <2>4 DEF NeedInv, Needed
<1>2. QED BY <1>1, Started, Kept, NeedStarted, NeedKept, PTL DEF Spec

-----------------------------------------------------------------------------
(* The watches of foreign keys: what the queues, pendingWatch and the       *)
(* post-sync operations say of them.                                        *)

\* The tasks that the queue of c can hold.
Fit(c) ==
  {t \in Tasks : /\ t.user # Nobody => t.op \in {"sync", "noop"}
                 /\ t.op = "watch" => c \in Foreign[t.by]
                 /\ t.op = "unwatch" => c \notin live[t.by]}

Fits(c) == queue[c] \in Seq(Fit(c))

Known(c) ==
  /\ pendingWatch[c] \subseteq Foreign[c]
  /\ found[c] \subseteq Foreign[c]
  /\ live[c] \subseteq Foreign[c]
  /\ \A x \in watch[c] : c \in Foreign[x]

Busy(c) == at[c] # "idle" => Head(queue[c]).op \in {"sync", "resync", "watch"}

Posts(c) ==
  /\ found[c] # {} => postOp[c]
  /\ row[c] = "synced" => ~postOp[c]

KeysInv == \A c \in Contracts : Fits(c) /\ Known(c) /\ Busy(c) /\ Posts(c)

LEMMA SeqOf ==
  ASSUME NEW S, NEW T, NEW r \in Seq(T), \A i \in 1 .. Len(r) : r[i] \in S
  PROVE  r \in Seq(S)
OBVIOUS

\* A queue keeps fitting when its users leave, or when fewer keys are alive.
LEMMA SameFits ==
  ASSUME NEW c \in Contracts, NEW q \in Seq(Fit(c)), NEW r \in Seq(Tasks), SameTasks(r, q),
         live' \in [Contracts -> SUBSET Contracts],
         \A d \in Contracts : live'[d] \subseteq live[d]
  PROVE  r \in Seq(Fit(c)')
<1>1. ASSUME NEW i \in 1 .. Len(r) PROVE r[i] \in Fit(c)'
  <2>1. i \in 1 .. Len(q) BY DEF SameTasks
  <2>2. q[i] \in Fit(c) /\ r[i] \in Tasks BY <2>1
  <2>3. r[i].op = q[i].op /\ r[i].by = q[i].by /\ r[i].user \in {q[i].user, Nobody}
    BY <2>1 DEF SameTasks
  <2>4. r[i].by \in Contracts BY <2>2 DEF Tasks
  <2>5. QED BY <2>2, <2>3, <2>4 DEF Fit
<1>2. QED BY <1>1, SeqOf

LEMMA FitGrows ==
  ASSUME NEW c \in Contracts, NEW t \in Tasks, NEW r \in Seq(Fit(c)),
         t.user # Nobody => t.op \in {"sync", "noop"}, t.op = "watch" => c \in Foreign[t.by],
         t.op = "unwatch" => c \notin live[t.by]
  PROVE  Append(r, t) \in Seq(Fit(c))
<1>1. t \in Fit(c) BY DEF Fit
<1>2. QED BY <1>1

LEMMA FitTasks ==
  ASSUME NEW c \in Contracts, NEW q \in Seq(Fit(c))
  PROVE  /\ q \in Seq(Tasks)
         /\ q # <<>> => Head(q) \in Fit(c) /\ Tail(q) \in Seq(Fit(c))
<1>1. \A i \in 1 .. Len(q) : q[i] \in Fit(c) OBVIOUS
<1>2. \A i \in 1 .. Len(q) : q[i] \in Tasks BY <1>1 DEF Fit
<1>3. q \in Seq(Tasks) BY <1>2, SeqOf
<1>4. QED BY <1>3

LEMMA HeadStays ==
  ASSUME NEW q \in Seq(Tasks), q # <<>>, NEW r \in Seq(Tasks),
         SameTasks(r, q) \/ \E t \in Tasks : r = Append(q, t) \/ SameTasks(r, Append(q, t))
  PROVE  r # <<>> /\ Head(r).op = Head(q).op /\ Head(r).by = Head(q).by
<1>1. Len(q) \in Nat /\ Len(q) >= 1 /\ Head(q) = q[1] OBVIOUS
<1>2. ASSUME NEW p \in Seq(Tasks), SameTasks(r, p), Len(p) >= 1, p[1] = q[1]
      PROVE  r # <<>> /\ Head(r).op = Head(q).op /\ Head(r).by = Head(q).by
  <2>1. Len(r) = Len(p) /\ 1 \in 1 .. Len(p) BY <1>2 DEF SameTasks
  <2>2. r # <<>> /\ Head(r) = r[1] BY <2>1, <1>2
  <2>3. QED BY <2>1, <2>2, <1>1, <1>2 DEF SameTasks
<1>3. CASE SameTasks(r, q) BY <1>1, <1>2, <1>3
<1>4. ASSUME NEW t \in Tasks, r = Append(q, t) \/ SameTasks(r, Append(q, t))
      PROVE  r # <<>> /\ Head(r).op = Head(q).op /\ Head(r).by = Head(q).by
  <2>1. Append(q, t) \in Seq(Tasks) /\ Len(Append(q, t)) >= 1 /\ Append(q, t)[1] = q[1]
    BY <1>1
  <2>2. SameTasks(r, Append(q, t)) BY <1>4, SameTasksSelf
  <2>3. QED BY <2>1, <2>2, <1>2
<1>5. QED BY <1>3, <1>4

\* What the calls do to the watches.
LEMMA AskedWatches ==
  ASSUME Inv, NEW c \in Contracts, Asks(c)
  PROVE  /\ \A d \in Contracts : /\ pendingWatch'[d] \subseteq pendingWatch[d]
                                 /\ live'[d] \subseteq live[d]
                                 /\ pendingWatch[d] \cap live'[d] \subseteq pendingWatch'[d]
         /\ row'[c] = "synced" => row[c] = "synced"
         /\ row'[c] # "gone" => row[c] # "gone"
         /\ \E t \in Tasks : /\ queue'[c] = Append(queue[c], t)
                             /\ t.user # Nobody => t.op \in {"sync", "noop"}
                             /\ t.op # "watch"
                             /\ t.op = "unwatch" => c \notin live'[t.by]
<1>1. RowTypes /\ WatchTypes /\ QueueType BY TypeParts DEF Inv, OtherTypes
<1>2. /\ row'[c] = "synced" => row[c] = "synced"
      /\ row'[c] # "gone" => row[c] # "gone"
  BY <1>1 DEF Asks, Retain, ForceSync, Delete, WithRetained, KeyDel, RowTypes
<1>3. ASSUME NEW op \in {"sync", "noop", "resync", "delete"}, NEW v \in Users \union {Nobody},
             v # Nobody => op \in {"sync", "noop"},
             queue'[c] = Append(queue[c], Task(op, c, v))
      PROVE  \E t \in Tasks : /\ queue'[c] = Append(queue[c], t)
                              /\ t.user # Nobody => t.op \in {"sync", "noop"}
                              /\ t.op # "watch"
                              /\ t.op = "unwatch" => c \notin live'[t.by]
  <2> DEFINE t == Task(op, c, v)
  <2>1. t \in Tasks /\ t.op = op /\ t.user = v BY DEF Task, Tasks, Ops
  <2> HIDE DEF t
  <2>2. queue'[c] = Append(queue[c], t) BY <1>3 DEF t
  <2>3. QED BY <1>3, <2>1, <2>2
<1>4. CASE ~\E f \in Contracts : KeyDel(f, c)
  <2>1. UNCHANGED <<pendingWatch, live>>
    BY <1>4 DEF Asks, Retain, ForceSync, Delete, WithRetained, watchVars
  <2>2. \E op \in {"sync", "noop", "resync", "delete"}, v \in Users \union {Nobody} :
          /\ v # Nobody => op \in {"sync", "noop"}
          /\ queue'[c] = Append(queue[c], Task(op, c, v))
    <3>1. CASE Retain(c)
      BY <3>1, <1>1 DEF Retain, SyncOrNoop, QueueType
    <3>2. ASSUME NEW v \in Users, WithRetained(c, v)
          PROVE  \E op \in {"sync", "noop"} : queue'[c] = Append(queue[c], Task(op, c, v))
      BY <3>2, <1>1 DEF WithRetained, SyncOrNoop, QueueType
    <3>3. CASE ForceSync(c) \/ Delete(c)
      BY <3>3, <1>1 DEF ForceSync, Delete, Plain, QueueType
    <3>4. QED BY <3>1, <3>2, <3>3, <1>4 DEF Asks
  <2>3. QED BY <2>1, <2>2, <1>2, <1>3
<1>5. ASSUME NEW f \in Contracts, KeyDel(f, c)
      PROVE  /\ \A d \in Contracts : /\ pendingWatch'[d] \subseteq pendingWatch[d]
                                     /\ live'[d] \subseteq live[d]
                                     /\ pendingWatch[d] \cap live'[d] \subseteq pendingWatch'[d]
             /\ \E t \in Tasks : /\ queue'[c] = Append(queue[c], t)
                                 /\ t.user = Nobody /\ t.op = "unwatch"
                                 /\ c \notin live'[t.by]
  <2>1. /\ live' = [live EXCEPT ![f] = live[f] \ {c}]
        /\ pendingWatch' = [pendingWatch EXCEPT ![f] = pendingWatch[f] \ {c}]
        /\ queue' = [queue EXCEPT ![c] = Append(queue[c], Task("unwatch", f, Nobody))]
    BY <1>5 DEF KeyDel
  <2> DEFINE t == Task("unwatch", f, Nobody)
  <2>2. t \in Tasks /\ t.op = "unwatch" /\ t.by = f /\ t.user = Nobody BY DEF Task, Tasks, Ops
  <2>3. queue'[c] = Append(queue[c], t) BY <2>1, <1>1 DEF QueueType
  <2> HIDE DEF t
  <2>4. c \notin live'[t.by] BY <2>1, <2>2, <1>1 DEF WatchTypes
  <2>5. \A d \in Contracts : /\ pendingWatch'[d] \subseteq pendingWatch[d]
                             /\ live'[d] \subseteq live[d]
                             /\ pendingWatch[d] \cap live'[d] \subseteq pendingWatch'[d]
    BY <2>1, <1>1 DEF WatchTypes
  <2>6. QED BY <2>2, <2>3, <2>4, <2>5
<1>6. CASE \E f \in Contracts : KeyDel(f, c)
  <2>1. PICK f \in Contracts : KeyDel(f, c) BY <1>6
  <2>2. PICK t \in Tasks : /\ queue'[c] = Append(queue[c], t)
                           /\ t.user = Nobody /\ t.op = "unwatch"
                           /\ c \notin live'[t.by]
    BY <2>1, <1>5
  <2>3. t.op # "watch" BY <2>2
  <2>4. QED BY <2>1, <2>2, <2>3, <1>2, <1>5
<1>7. QED BY <1>4, <1>6

LEMMA NextTypes ==
  ASSUME Inv'
  PROVE  /\ \A d \in Contracts : queue'[d] \in Seq(Tasks)
         /\ live' \in [Contracts -> SUBSET Contracts]
BY DEF Inv, TypeOK, Tasks

\* What a task of c does to its own watches.
LEMMA OwnWatches ==
  ASSUME Inv, AtInv, KeysInv, NEW c \in Contracts, Runs(c)
  PROVE  /\ live' = live
         /\ pendingWatch'[c] \subseteq pendingWatch[c] \union found[c]
         /\ \A d \in Contracts \ {c} : /\ pendingWatch'[d] \subseteq pendingWatch[d]
                                       /\ pendingWatch[d] \ {c} \subseteq pendingWatch'[d]
         /\ found'[c] \subseteq found[c] \union live[c]
         /\ \A x \in watch'[c] : x \in watch[c] \/ c \in Foreign[x]
         /\ queue[c] # <<>> /\ Head(queue[c]) \in Fit(c) /\ Tail(queue[c]) \in Seq(Fit(c))
<1>1. WatchTypes /\ RunTypes BY TypeParts DEF Inv, OtherTypes
<1>2. live' = live
  BY DEF Runs, Noop, RemoveConfirmed, RemoveForGood, Remove, WatchForeignKeys, SyncStart, SyncOfGone,
         WatchStart, HeadIsOurs, EventsRead, EventsApplied, SyncFails, Unwatch, watchVars
<1>3. pendingWatch' = pendingWatch \/ \E x \in {{}, found[c]} : pendingWatch' = [pendingWatch EXCEPT ![c] = x]
        \/ \E y : pendingWatch' = [pendingWatch EXCEPT ![y] = @ \ {c}]
  <2>1. CASE RemoveConfirmed(c) \/ RemoveForGood(c) \/ SyncStart(c)
    BY <2>1 DEF RemoveConfirmed, RemoveForGood, Remove, SyncStart, watchVars
  <2>2. CASE WatchStart(c) BY <2>2 DEF WatchStart
  <2>3. CASE HeadIsOurs(c) \/ EventsApplied(c) BY <2>3 DEF HeadIsOurs, EventsApplied
  <2>4. CASE Noop(c) \/ WatchForeignKeys(c) \/ SyncOfGone(c) \/ EventsRead(c) \/ SyncFails(c) \/ Unwatch(c)
    BY <2>4 DEF Noop, WatchForeignKeys, SyncOfGone, EventsRead, SyncFails, Unwatch, watchVars
  <2>5. QED BY <2>1, <2>2, <2>3, <2>4 DEF Runs
<1>4. /\ pendingWatch'[c] \subseteq pendingWatch[c] \union found[c]
      /\ \A d \in Contracts \ {c} : /\ pendingWatch'[d] \subseteq pendingWatch[d]
                                    /\ pendingWatch[d] \ {c} \subseteq pendingWatch'[d]
  BY <1>1, <1>3 DEF WatchTypes
<1>5. found'[c] \subseteq found[c] \union live[c]
  <2>1. CASE EventsRead(c)
    <3>1. \E x \in SUBSET live[c] : found' = [found EXCEPT ![c] = x] BY <2>1 DEF EventsRead
    <3>2. QED BY <3>1, <1>1 DEF RunTypes
  <2>2. CASE HeadIsOurs(c) \/ EventsApplied(c) \/ SyncFails(c)
    <3>1. found' = [found EXCEPT ![c] = {}]
      BY <2>2 DEF HeadIsOurs, EventsApplied, SyncFails, SyncEnds
    <3>2. QED BY <3>1, <1>1 DEF RunTypes
  <2>3. CASE ~(EventsRead(c) \/ HeadIsOurs(c) \/ EventsApplied(c) \/ SyncFails(c))
    <3>1. found' = found
      BY <2>3 DEF Runs, Noop, RemoveConfirmed, RemoveForGood, WatchForeignKeys, SyncStart, SyncOfGone,
                  WatchStart, Unwatch, taskVars
    <3>2. QED BY <3>1
  <2>4. QED BY <2>1, <2>2, <2>3
<1>6. queue[c] # <<>>
  <2>1. CASE Noop(c) \/ RemoveConfirmed(c) \/ RemoveForGood(c) \/ WatchForeignKeys(c)
             \/ SyncStart(c) \/ SyncOfGone(c) \/ WatchStart(c) \/ Unwatch(c)
    BY <2>1 DEF Noop, RemoveConfirmed, RemoveForGood, WatchForeignKeys, SyncStart, SyncOfGone,
                WatchStart, Unwatch, Starts
  <2>2. CASE at[c] # "idle" BY <2>2 DEF AtInv
  <2>3. QED BY <2>1, <2>2 DEF Runs, HeadIsOurs, EventsRead, EventsApplied, SyncFails
<1>7. Head(queue[c]) \in Fit(c) /\ Tail(queue[c]) \in Seq(Fit(c))
  BY <1>6, FitTasks DEF KeysInv, Fits
<1>8. ASSUME NEW x \in watch'[c] PROVE x \in watch[c] \/ c \in Foreign[x]
  <2>1. Head(queue[c]).op = "watch" => c \in Foreign[Head(queue[c]).by] BY <1>7 DEF Fit
  <2>2. \/ watch' = watch
        \/ \E w \in SUBSET watch[c] : watch' = [watch EXCEPT ![c] = w]
        \/ /\ Head(queue[c]).op = "watch"
           /\ watch' = [watch EXCEPT ![c] = @ \union {Head(queue[c]).by}]
    <3>1. CASE RemoveConfirmed(c) \/ RemoveForGood(c)
      BY <3>1 DEF RemoveConfirmed, RemoveForGood, Remove, watchVars
    <3>2. CASE Unwatch(c) BY <3>2 DEF Unwatch
    <3>3. CASE WatchStart(c) BY <3>3 DEF WatchStart, Starts
    <3>4. CASE HeadIsOurs(c) \/ EventsApplied(c) BY <3>4 DEF HeadIsOurs, EventsApplied, SyncEnds
    <3>5. CASE SyncStart(c) BY <3>5 DEF SyncStart, Resynced
    <3>6. CASE Noop(c) \/ WatchForeignKeys(c) \/ SyncOfGone(c) \/ EventsRead(c) \/ SyncFails(c)
      BY <3>6 DEF Noop, WatchForeignKeys, SyncOfGone, EventsRead, SyncFails, watchVars
    <3>7. QED BY <3>1, <3>2, <3>3, <3>4, <3>5, <3>6 DEF Runs
  <2>3. QED BY <2>1, <2>2, <1>1, <1>8 DEF WatchTypes
<1>9. QED BY <1>2, <1>4, <1>5, <1>6, <1>7, <1>8

\* What a task of c leaves in its own queue.
LEMMA OwnQueue ==
  ASSUME Inv, AtInv, KeysInv, NEW c \in Contracts, Runs(c)
  PROVE  \/ /\ queue'[c] = queue[c]
            /\ SyncStart(c) \/ EventsRead(c) \/ (WatchStart(c) /\ at'[c] # "idle")
         \/ /\ at'[c] = "idle"
            /\ \/ queue'[c] = Tail(queue[c])
               \/ Unwatch(c) /\ queue'[c] = Append(Tail(queue[c]), Plain(c, "remove"))
               \/ postOp[c] /\ queue'[c] = Append(Tail(queue[c]), Plain(c, "post"))
<1>1. QueueType /\ RunTypes /\ WatchTypes BY TypeParts DEF Inv, OtherTypes
<1>2. Done(c)[c] = Tail(queue[c]) BY <1>1 DEF QueueType, Done
<1>3. CASE SyncStart(c) \/ EventsRead(c) BY <1>3 DEF SyncStart, EventsRead
<1>4. CASE WatchStart(c)
  <2>1. at[c] = "idle" BY <1>4 DEF WatchStart, Starts
  <2>2. CASE at' = [at EXCEPT ![c] = "head"] /\ queue' = queue
    BY <2>2, <1>1, <1>4 DEF RunTypes
  <2>3. CASE at' = at /\ queue' = Done(c) BY <2>1, <2>3, <1>2
  <2>4. QED BY <1>4, <2>2, <2>3 DEF WatchStart
<1>5. CASE HeadIsOurs(c) \/ EventsApplied(c)
  <2>1. /\ at' = [at EXCEPT ![c] = "idle"]
        /\ queue' = [queue EXCEPT ![c] = IF postOp[c] THEN Append(Tail(@), Plain(c, "post"))
                                         ELSE Tail(@)]
    BY <1>5 DEF HeadIsOurs, EventsApplied, SyncEnds
  <2>2. QED BY <2>1, <1>1 DEF QueueType, RunTypes
<1>6. CASE SyncFails(c)
  <2>1. at' = [at EXCEPT ![c] = "idle"] /\ queue' = Done(c) BY <1>6 DEF SyncFails
  <2>2. QED BY <2>1, <1>1, <1>2 DEF RunTypes
<1>7. CASE Unwatch(c)
  <2>1. at' = at /\ at[c] = "idle" BY <1>7 DEF Unwatch, Starts, taskVars
  <2>2. \/ queue' = Done(c)
        \/ queue' = [queue EXCEPT ![c] = Append(Tail(queue[c]), Plain(c, "remove"))]
    BY <1>7 DEF Unwatch
  <2>3. QED BY <2>1, <2>2, <1>1, <1>2, <1>7 DEF QueueType
<1>8. CASE WatchForeignKeys(c)
  <2>1. c \notin pendingWatch[c] BY DEF KeysInv, Known
  <2>2. at' = at /\ at[c] = "idle" /\ queue'[c] = Done(c)[c]
    BY <1>8, <2>1 DEF WatchForeignKeys, Starts, taskVars
  <2>3. QED BY <2>2, <1>2
<1>9. CASE RemoveConfirmed(c) \/ RemoveForGood(c)
  <2>1. at' = at /\ at[c] = "idle" /\ (queue' = Done(c) \/ queue' = ReleaseForeign(c, sub'))
    BY <1>9 DEF RemoveConfirmed, RemoveForGood, Remove, Starts
  <2>2. c \notin Foreign[c] OBVIOUS
  <2>3. ReleaseForeign(c, sub')[c] = Done(c)[c] BY <2>2 DEF ReleaseForeign
  <2>4. QED BY <2>1, <2>3, <1>2
<1>10. CASE Noop(c) \/ SyncOfGone(c)
  <2>1. at' = at /\ at[c] = "idle" /\ queue' = Done(c)
    BY <1>10 DEF Noop, SyncOfGone, Starts, taskVars
  <2>2. QED BY <2>1, <1>2
<1>11. QED BY <1>3, <1>4, <1>5, <1>6, <1>7, <1>8, <1>9, <1>10 DEF Runs

LEMMA KeysRuns ==
  ASSUME Inv, AtInv, KeysInv, Inv', NEW c \in Contracts, Runs(c), NEW d \in Contracts
  PROVE  Fits(d)' /\ Known(d)' /\ Busy(d)' /\ Posts(d)'
<1>1. /\ Fits(d) /\ Known(d) /\ Busy(d) /\ Posts(d) /\ Known(c)
      /\ RowTypes /\ WatchTypes /\ RunTypes /\ queue[d] \in Seq(Tasks) /\ queue'[d] \in Seq(Tasks)
  BY TypeParts, QueueTyped, NextTypes DEF KeysInv, Inv, OtherTypes
<1>2. live' = live BY OwnWatches
<1>3. Fit(d)' = Fit(d) BY <1>2 DEF Fit
<1>4. Known(d)'
  <2>1. CASE d = c BY <2>1, <1>1, <1>2, OwnWatches DEF Known
  <2>2. CASE d # c
    <3>1. pendingWatch'[d] \subseteq pendingWatch[d] BY <2>2, OwnWatches
    <3>2. found'[d] = found[d] /\ watch'[d] = watch[d] BY <2>2, OthersStay
    <3>3. QED BY <3>1, <3>2, <1>1, <1>2 DEF Known
  <2>3. QED BY <2>1, <2>2
<1>5. CASE d # c
  <2>1. Posts(d)' BY <1>1, <1>5, OthersStay DEF Posts
  <2>2. Fits(d)'
    <3>1. CASE queue'[d] = queue[d] BY <3>1, <1>1, <1>3 DEF Fits
    <3>2. CASE queue'[d] = Append(queue[d], Plain(d, "remove"))
      <4>1. Plain(d, "remove") \in Fit(d) BY DEF Plain, Task, Tasks, Ops, Fit
      <4>2. QED BY <4>1, <3>2, <1>1, <1>3 DEF Fits
    <3>3. CASE d \in pendingWatch[c] /\ queue'[d] = Append(queue[d], Task("watch", c, Nobody))
      <4>1. d \in Foreign[c] BY <3>3, <1>1 DEF Known
      <4>2. Task("watch", c, Nobody) \in Fit(d) BY <4>1 DEF Task, Tasks, Ops, Fit
      <4>3. QED BY <4>2, <3>3, <1>1, <1>3 DEF Fits
    <3>4. QED BY <1>5, <3>1, <3>2, <3>3, OthersGet
  <2>3. Busy(d)'
    <3>1. at'[d] = at[d] BY <1>5, OthersStay
    <3>2. Plain(d, "remove") \in Tasks /\ Task("watch", c, Nobody) \in Tasks BY TaskTypes
    <3>3. queue'[d] = queue[d] \/ \E t \in Tasks : queue'[d] = Append(queue[d], t)
      BY <1>5, <3>2, OthersGet
    <3>4. queue[d] # <<>> => Head(queue'[d]).op = Head(queue[d]).op
      BY <3>3, <1>1, HeadStays
    <3>5. QED BY <3>1, <3>4, <1>1 DEF Busy, AtInv
  <2>4. QED BY <1>4, <2>1, <2>2, <2>3
<1>6. CASE d = c
  <2>1. Tail(queue[c]) \in Seq(Fit(c)) BY OwnWatches
  <2>2. Plain(c, "remove") \in Fit(c) /\ Plain(c, "post") \in Fit(c)
    BY DEF Plain, Task, Tasks, Ops, Fit
  <2>3. Fits(c)'
    <3>1. /\ Append(Tail(queue[c]), Plain(c, "remove")) \in Seq(Fit(c))
          /\ Append(Tail(queue[c]), Plain(c, "post")) \in Seq(Fit(c))
      BY <2>1, <2>2
    <3>2. queue'[c] \in Seq(Fit(c)) BY <3>1, <2>1, <1>1, <1>6, OwnQueue DEF Fits
    <3>3. QED BY <3>2, <1>3, <1>6 DEF Fits
  <2>4. Busy(c)'
    <3>1. CASE at'[c] = "idle" BY <3>1 DEF Busy
    <3>2. CASE at'[c] # "idle" /\ queue'[c] = queue[c]
               /\ (SyncStart(c) \/ EventsRead(c) \/ WatchStart(c))
      <4>1. Head(queue[c]).op \in {"sync", "resync", "watch"}
        BY <3>2, <1>1, <1>6 DEF SyncStart, EventsRead, WatchStart, Starts, Busy
      <4>2. QED BY <4>1, <3>2 DEF Busy
    <3>3. QED BY <3>1, <3>2, OwnQueue
  <2>5. Posts(c)'
    <3>1. CASE EventsRead(c)
      <4> DEFINE new == {f \in live[c] : c \notin sameNames \/ c \notin watch[f]}
      <4>1. /\ found' = [found EXCEPT ![c] = new] /\ row' = row /\ row[c] # "synced"
            /\ postOp' = [postOp EXCEPT ![c] = @ \/ new # {}]
        BY <3>1 DEF EventsRead
      <4> HIDE DEF new
      <4>2. found'[c] = new BY <4>1, <1>1 DEF RunTypes
      <4>3. new # {} => postOp'[c] BY <4>1, <1>1, Zenon DEF WatchTypes
      <4>4. QED BY <4>1, <4>2, <4>3 DEF Posts
    <3>2. CASE HeadIsOurs(c) \/ EventsApplied(c)
      <4>1. found' = [found EXCEPT ![c] = {}] /\ postOp' = [postOp EXCEPT ![c] = FALSE]
        BY <3>2 DEF HeadIsOurs, EventsApplied, SyncEnds
      <4>2. found'[c] = {} /\ ~postOp'[c] BY <4>1, <1>1 DEF RunTypes, WatchTypes
      <4>3. QED BY <4>2 DEF Posts
    <3>3. CASE SyncFails(c)
      <4>1. found' = [found EXCEPT ![c] = {}] /\ UNCHANGED <<postOp, row>>
        BY <3>3 DEF SyncFails, watchVars
      <4>2. found'[c] = {} BY <4>1, <1>1 DEF RunTypes
      <4>3. QED BY <4>1, <4>2, <1>1, <1>6 DEF Posts
    <3>4. CASE ~(EventsRead(c) \/ HeadIsOurs(c) \/ EventsApplied(c) \/ SyncFails(c))
      <4>1. found' = found /\ postOp' = postOp
        BY <3>4 DEF Runs, Noop, RemoveConfirmed, RemoveForGood, Remove, WatchForeignKeys, SyncStart,
                    SyncOfGone, WatchStart, Unwatch, taskVars, watchVars
      <4>2. row'[c] = "synced" => row[c] = "synced"
        <5>1. \/ row' = row
              \/ \E x \in {"none", "gone"} : row' = [row EXCEPT ![c] = x]
              \/ row' = [row EXCEPT ![c] = IF @ = "synced" THEN "bare" ELSE @]
          BY <3>4 DEF Runs, Noop, RemoveConfirmed, RemoveForGood, Remove, WatchForeignKeys,
                      SyncStart, Resynced, SyncOfGone, WatchStart, Unwatch
        <5>2. QED BY <5>1, <1>1 DEF RowTypes
      <4>3. QED BY <4>1, <4>2, <1>1, <1>6 DEF Posts
    <3>5. QED BY <3>1, <3>2, <3>3, <3>4
  <2>6. QED BY <2>3, <2>4, <2>5, <1>4, <1>6
<1>7. QED BY <1>5, <1>6

LEMMA KeysLetGo ==
  ASSUME Inv, AtInv, KeysInv, Inv', NEW c \in Contracts, LetsGo(c), NEW d \in Contracts
  PROVE  Fits(d)' /\ Known(d)' /\ Busy(d)' /\ Posts(d)'
<1>1. /\ Fits(d) /\ Known(d) /\ Busy(d) /\ Posts(d) /\ WatchTypes
      /\ queue[d] \in Seq(Tasks) /\ queue'[d] \in Seq(Tasks)
  BY TypeParts, QueueTyped, NextTypes DEF KeysInv, Inv, OtherTypes
<1>2. UNCHANGED <<row, watch, live, pendingWatch, postOp, at, found>>
  BY LetGo DEF watchVars, taskVars
<1>3. Known(d)' /\ Posts(d)' BY <1>1, <1>2 DEF Known, Posts
<1>4. live' \in [Contracts -> SUBSET Contracts] /\ \A e \in Contracts : live'[e] \subseteq live[e]
  BY <1>1, <1>2 DEF WatchTypes
<1>5. CASE d # c
  <2>1. SameTasks(queue'[d], queue[d]) BY <1>5, LetGo
  <2>2. queue'[d] \in Seq(Fit(d)') BY <2>1, <1>1, <1>4, SameFits DEF Fits
  <2>3. queue[d] # <<>> => Head(queue'[d]).op = Head(queue[d]).op BY <2>1, <1>1, HeadStays
  <2>4. QED BY <2>2, <2>3, <1>1, <1>2, <1>3 DEF Fits, Busy, AtInv
<1>6. CASE d = c
  <2> DEFINE t == Plain(c, "remove")
             q == Append(queue[c], t)
  <2>1. t \in Fit(c) /\ t \in Tasks BY DEF Plain, Task, Tasks, Ops, Fit
  <2> HIDE DEF t
  <2>2. q \in Seq(Fit(c)) BY <2>1, <1>1, <1>6 DEF Fits
  <2>3. queue[c] # <<>> /\ SameTasks(queue'[c], q) => Head(queue'[c]).op = Head(queue[c]).op
    BY <1>1, <1>6, <2>1, HeadStays
  <2> HIDE DEF q
  <2>4. SameTasks(queue'[c], queue[c]) \/ SameTasks(queue'[c], q) BY LetGo DEF AfterRelease, q, t
  <2>5. queue'[c] \in Seq(Fit(c)') BY <2>2, <2>4, <1>1, <1>4, <1>6, SameFits DEF Fits
  <2>6. queue[c] # <<>> => Head(queue'[c]).op = Head(queue[c]).op
    BY <2>3, <2>4, <1>1, <1>6, HeadStays
  <2>7. QED BY <2>5, <2>6, <1>1, <1>2, <1>3, <1>6 DEF Fits, Busy, AtInv
<1>7. QED BY <1>5, <1>6

LEMMA KeysAsked ==
  ASSUME Inv, AtInv, KeysInv, Inv', NEW c \in Contracts, Asks(c), NEW d \in Contracts
  PROVE  Fits(d)' /\ Known(d)' /\ Busy(d)' /\ Posts(d)'
<1>1. /\ Fits(d) /\ Known(d) /\ Busy(d) /\ Posts(d)
      /\ queue[d] \in Seq(Tasks) /\ queue'[d] \in Seq(Tasks)
      /\ live' \in [Contracts -> SUBSET Contracts]
  BY TypeParts, QueueTyped, NextTypes DEF KeysInv, Inv, OtherTypes
<1>2. UNCHANGED <<watch, postOp, at, found>> BY Asked DEF taskVars
<1>3. \A e \in Contracts : pendingWatch'[e] \subseteq pendingWatch[e] /\ live'[e] \subseteq live[e]
  BY AskedWatches
<1>4. row'[d] = "synced" => row[d] = "synced" BY Asked, AskedWatches
<1>5. Known(d)' /\ Posts(d)' BY <1>1, <1>2, <1>3, <1>4 DEF Known, Posts
<1>6. queue[d] \in Seq(Fit(d)') BY <1>1, <1>3, SameFits, SameTasksSelf DEF Fits
<1>7. CASE d # c
  <2>1. queue'[d] = queue[d] BY <1>7, Asked
  <2>2. QED BY <2>1, <1>1, <1>2, <1>5, <1>6 DEF Fits, Busy
<1>8. CASE d = c
  <2>1. PICK t \in Tasks : /\ queue'[c] = Append(queue[c], t)
                           /\ t.user # Nobody => t.op \in {"sync", "noop"}
                           /\ t.op # "watch"
                           /\ t.op = "unwatch" => c \notin live'[t.by]
    BY AskedWatches
  <2>2. t \in Fit(c)' BY <2>1 DEF Fit
  <2>3. Fits(c)' BY <2>1, <2>2, <1>6, <1>8 DEF Fits
  <2>4. queue[c] # <<>> => Head(queue'[c]).op = Head(queue[c]).op
    BY <2>1, <1>1, <1>8, HeadStays
  <2>5. QED BY <2>3, <2>4, <1>1, <1>2, <1>5, <1>8 DEF Busy, AtInv
<1>9. QED BY <1>7, <1>8

LEMMA KeysReload ==
  ASSUME Inv, KeysInv, Reload, NEW d \in Contracts
  PROVE  Fits(d)' /\ Known(d)' /\ Busy(d)' /\ Posts(d)'
<1>1. /\ UNCHANGED <<watch, live, pendingWatch>> /\ found'[d] = {} /\ ~postOp'[d]
      /\ at'[d] = "idle" /\ queue'[d] = IF HasRow(d) THEN <<Plain(d, "sync")>> ELSE <<>>
  BY DEF Reload, Nothing, None
<1>2. Known(d)' /\ Busy(d)' /\ Posts(d)' BY <1>1 DEF KeysInv, Known, Busy, Posts
<1>3. Plain(d, "sync") \in Fit(d)' BY DEF Plain, Task, Tasks, Ops, Fit
<1>4. Fits(d)' BY <1>1, <1>3 DEF Fits
<1>5. QED BY <1>2, <1>4

LEMMA KeysStarted == Init => KeysInv
<1> SUFFICES ASSUME Init, NEW d \in Contracts PROVE Fits(d) /\ Known(d) /\ Busy(d) /\ Posts(d)
  BY DEF KeysInv
<1>1. <<>> \in Seq(Fit(d)) OBVIOUS
<1>2. QED BY <1>1 DEF Init, Fits, Known, Busy, Posts, Nothing, None

LEMMA KeysKept == Inv /\ AtInv /\ KeysInv /\ Inv' /\ [Next]_vars => KeysInv'
<1> SUFFICES ASSUME Inv, AtInv, KeysInv, Inv', [Next]_vars, NEW d \in Contracts
             PROVE  Fits(d)' /\ Known(d)' /\ Busy(d)' /\ Posts(d)'
  BY DEF KeysInv
<1>1. CASE UNCHANGED vars
  <2>1. UNCHANGED <<row, queue, watch, live, pendingWatch, postOp, at, found>>
    BY <1>1 DEF vars, watchVars, taskVars
  <2>2. Fit(d)' = Fit(d) BY <2>1 DEF Fit
  <2>3. QED BY <2>1, <2>2 DEF KeysInv, Fits, Known, Busy, Posts
<1>2. QED BY <1>1, StepCases, KeysReload, KeysLetGo, KeysAsked, KeysRuns

-----------------------------------------------------------------------------
(* The contracts whose keys are used: each has the watch of its users, or   *)
(* the watch is on its way.  A watch that is lost while it is on its way,   *)
(* or that goes with a contract taken for watched, is excluded.             *)

\* The task of the watch of f by c is running.
Watching(c, f) ==
  at[f] # "idle" /\ Head(queue[f]).op = "watch" /\ Head(queue[f]).by = c

Coming(c, f) ==
  \/ /\ f \in pendingWatch[c]
     /\ Has(queue[c], {"post"}, Contracts) \/ Has(queue[f], {"watch"}, {c})
  \/ Watching(c, f)

Linked(c, f) ==
  f \in live[c] /\ row[f] # "gone" =>
    /\ row[c] = "synced" => c \in watch[f] \/ Coming(c, f)
    /\ at[c] = "apply" => f \in found[c] \/ c \in watch[f]

LinkInv == \A c, f \in Contracts : Linked(c, f)

LEMMA LinkStays ==
  ASSUME NEW c \in Contracts, NEW f \in Contracts, Linked(c, f),
         live'[c] \subseteq live[c],
         row'[f] # "gone" => row[f] # "gone",
         row'[c] = "synced" => row[c] = "synced",
         at'[c] = "apply" => at[c] = "apply" /\ found'[c] = found[c],
         c \in watch[f] => c \in watch'[f],
         f \in pendingWatch[c] /\ f \in live'[c] => f \in pendingWatch'[c],
         Has(queue[c], {"post"}, Contracts) => Has(queue'[c], {"post"}, Contracts),
         Has(queue[f], {"watch"}, {c}) => Has(queue'[f], {"watch"}, {c}),
         Watching(c, f) => Watching(c, f)'
  PROVE  Linked(c, f)'
BY DEF Linked, Coming

\* A queue that grows, or whose users leave, keeps its first task and what it has.
LEMMA QueueMore ==
  ASSUME NEW d \in Contracts, AtInv, queue[d] \in Seq(Tasks), queue'[d] \in Seq(Tasks),
         at'[d] = at[d],
         \/ SameTasks(queue'[d], queue[d])
         \/ \E t \in Tasks : \/ queue'[d] = Append(queue[d], t)
                             \/ SameTasks(queue'[d], Append(queue[d], t))
  PROVE  /\ \A ops, bys : Has(queue[d], ops, bys) => Has(queue'[d], ops, bys)
         /\ \A c \in Contracts : Watching(c, d) => Watching(c, d)'
<1>1. ASSUME NEW ops, NEW bys, Has(queue[d], ops, bys) PROVE Has(queue'[d], ops, bys)
  <2>1. CASE SameTasks(queue'[d], queue[d]) BY <1>1, <2>1, HasSame
  <2>2. ASSUME NEW t \in Tasks,
               queue'[d] = Append(queue[d], t) \/ SameTasks(queue'[d], Append(queue[d], t))
        PROVE  Has(queue'[d], ops, bys)
    <3> DEFINE q == Append(queue[d], t)
    <3>1. Has(q, ops, bys) BY <1>1, HasMore
    <3>2. SameTasks(queue'[d], q) BY <2>2, SameTasksSelf
    <3> HIDE DEF q
    <3>3. QED BY <3>1, <3>2, HasSame
  <2>3. QED BY <2>1, <2>2
<1>2. queue[d] # <<>> => /\ Head(queue'[d]).op = Head(queue[d]).op
                         /\ Head(queue'[d]).by = Head(queue[d]).by
  <2>1. CASE SameTasks(queue'[d], queue[d]) BY <2>1, HeadStays
  <2>2. ASSUME NEW t \in Tasks,
               queue'[d] = Append(queue[d], t) \/ SameTasks(queue'[d], Append(queue[d], t)),
               queue[d] # <<>>
        PROVE  /\ Head(queue'[d]).op = Head(queue[d]).op
               /\ Head(queue'[d]).by = Head(queue[d]).by
    BY <2>2, HeadStays
  <2>3. QED BY <2>1, <2>2
<1>3. QED BY <1>1, <1>2 DEF Watching, AtInv

LEMMA LinkCalls ==
  ASSUME Inv, AtInv, KeysInv, LinkInv, Inv', NEW e \in Contracts, LetsGo(e) \/ Asks(e),
         NEW c \in Contracts, NEW f \in Contracts
  PROVE  Linked(c, f)'
<1>1. /\ Linked(c, f)
      /\ \A d \in Contracts : queue[d] \in Seq(Tasks) /\ queue'[d] \in Seq(Tasks)
  BY QueueTyped, NextTypes DEF LinkInv, Inv
<1>2. UNCHANGED <<watch, at, found>> BY LetGo, Asked DEF watchVars, taskVars
<1>3. \A d \in Contracts : /\ live'[d] \subseteq live[d]
                           /\ pendingWatch[d] \cap live'[d] \subseteq pendingWatch'[d]
                           /\ row'[d] = "synced" => row[d] = "synced"
                           /\ row'[d] # "gone" => row[d] # "gone"
  <2>1. CASE LetsGo(e) BY <2>1, LetGo DEF watchVars
  <2>2. CASE Asks(e) BY <2>2, Asked, AskedWatches
  <2>3. QED BY <2>1, <2>2
<1>4. ASSUME NEW d \in Contracts
      PROVE  \/ SameTasks(queue'[d], queue[d])
             \/ \E t \in Tasks : \/ queue'[d] = Append(queue[d], t)
                                 \/ SameTasks(queue'[d], Append(queue[d], t))
  <2>1. CASE LetsGo(e)
    <3>1. CASE d # e BY <2>1, <3>1, LetGo
    <3>2. CASE d = e
      <4>1. Plain(e, "remove") \in Tasks BY TaskTypes
      <4>2. SameTasks(queue'[e], AfterRelease(e)) BY <2>1, LetGo
      <4>3. CASE AfterRelease(e) = queue[e] BY <3>2, <4>2, <4>3
      <4>4. CASE AfterRelease(e) = Append(queue[e], Plain(e, "remove"))
        BY <3>2, <4>1, <4>2, <4>4
      <4>5. QED BY <4>3, <4>4 DEF AfterRelease
    <3>3. QED BY <3>1, <3>2
  <2>2. CASE Asks(e)
    <3>1. CASE d # e BY <2>2, <3>1, Asked, SameTasksSelf
    <3>2. CASE d = e BY <2>2, <3>2, Asked
    <3>3. QED BY <3>1, <3>2
  <2>3. QED BY <2>1, <2>2
<1>5. /\ Has(queue[c], {"post"}, Contracts) => Has(queue'[c], {"post"}, Contracts)
      /\ Has(queue[f], {"watch"}, {c}) => Has(queue'[f], {"watch"}, {c})
      /\ Watching(c, f) => Watching(c, f)'
  BY <1>1, <1>2, <1>4, QueueMore
<1>6. QED BY <1>1, <1>2, <1>3, <1>5, LinkStays

LEMMA LinkReload ==
  ASSUME Inv, Reload, "reloadWatch" \notin Disturbances, NEW c \in Contracts, NEW f \in Contracts
  PROVE  Linked(c, f)'
<1>1. ~\E x \in Contracts : row[x] = "synced" /\ \E y \in live[x] : x \notin watch[y]
  BY DEF Reload, Disturb
<1>2. UNCHANGED <<row, watch, live>> /\ at'[c] = "idle" BY DEF Reload
<1>3. QED BY <1>1, <1>2 DEF Linked

\* What a task of e keeps of the queue of another contract d.
LEMMA OthersMore ==
  ASSUME Inv, AtInv, Inv', NEW e \in Contracts, Runs(e), NEW d \in Contracts \ {e}
  PROVE  /\ \A ops, bys : Has(queue[d], ops, bys) => Has(queue'[d], ops, bys)
         /\ \A c \in Contracts : Watching(c, d) => Watching(c, d)'
<1>1. queue[d] \in Seq(Tasks) /\ queue'[d] \in Seq(Tasks) BY QueueTyped, NextTypes DEF Inv
<1>2. at'[d] = at[d] BY OthersStay
<1>3. Plain(d, "remove") \in Tasks /\ Task("watch", e, Nobody) \in Tasks BY TaskTypes
<1>4. queue'[d] = queue[d] \/ \E t \in Tasks : queue'[d] = Append(queue[d], t)
  BY <1>3, OthersGet
<1>5. SameTasks(queue'[d], queue[d]) \/ \E t \in Tasks : queue'[d] = Append(queue[d], t)
  BY <1>4, SameTasksSelf
<1>6. QED BY <1>1, <1>2, <1>5, QueueMore

\* What a task of e keeps of its own queue: all but what was in front.
LEMMA OwnMore ==
  ASSUME Inv, AtInv, KeysInv, NEW e \in Contracts, Runs(e), NEW ops, NEW bys,
         Has(queue[e], ops, bys),
         Head(queue[e]).op \notin ops \/ Head(queue[e]).by \notin bys
  PROVE  Has(queue'[e], ops, bys)
<1>1. queue[e] \in Seq(Tasks) /\ queue[e] # <<>> BY QueueTyped, OwnWatches DEF Inv
<1>2. Plain(e, "remove") \in Tasks /\ Plain(e, "post") \in Tasks BY TaskTypes
<1>3. Tail(queue[e]) \in Seq(Tasks) /\ Has(Tail(queue[e]), ops, bys)
  BY <1>1, <1>2, HasSteps
<1>4. \/ queue'[e] = queue[e] \/ queue'[e] = Tail(queue[e])
      \/ \E t \in Tasks : queue'[e] = Append(Tail(queue[e]), t)
  BY <1>2, OwnQueue
<1>5. QED BY <1>3, <1>4, HasMore

\* A task of a third contract.
LEMMA LinkThird ==
  ASSUME Inv, AtInv, KeysInv, LinkInv, Inv', NEW e \in Contracts, Runs(e),
         NEW c \in Contracts \ {e}, NEW f \in Contracts \ {e}
  PROVE  Linked(c, f)'
<1>1. Linked(c, f) BY DEF LinkInv
<1>2. /\ row'[c] = row[c] /\ row'[f] = row[f] /\ at'[c] = at[c] /\ found'[c] = found[c]
      /\ watch'[f] = watch[f]
  BY OthersStay
<1>3. live' = live /\ pendingWatch[c] \ {e} \subseteq pendingWatch'[c] BY OwnWatches
<1>4. /\ Has(queue[c], {"post"}, Contracts) => Has(queue'[c], {"post"}, Contracts)
      /\ Has(queue[f], {"watch"}, {c}) => Has(queue'[f], {"watch"}, {c})
      /\ Watching(c, f) => Watching(c, f)'
  BY OthersMore
<1>5. QED BY <1>1, <1>2, <1>3, <1>4, LinkStays

\* A task of the user c of the keys.
LEMMA LinkUser ==
  ASSUME Inv, AtInv, KeysInv, LinkInv, Inv', NEW c \in Contracts, Runs(c),
         NEW f \in Contracts \ {c}
  PROVE  Linked(c, f)'
<1>1. /\ Linked(c, f) /\ Posts(c) /\ Busy(c) /\ Known(c)
      /\ RowTypes /\ WatchTypes /\ RunTypes /\ QueueType
  BY TypeParts DEF LinkInv, KeysInv, Inv, OtherTypes
<1>2. row'[f] = row[f] /\ watch'[f] = watch[f] BY OthersStay
<1>3. live' = live BY OwnWatches
<1>4. /\ Has(queue[f], {"watch"}, {c}) => Has(queue'[f], {"watch"}, {c})
      /\ Watching(c, f) => Watching(c, f)'
  BY OthersMore
<1>5. Head(queue[c]).op # "post" /\ Has(queue[c], {"post"}, Contracts)
      => Has(queue'[c], {"post"}, Contracts)
  BY OwnMore
<1>6. CASE RemoveConfirmed(c) \/ RemoveForGood(c)
  <2>1. Head(queue[c]).op # "post" /\ at' = at /\ at[c] = "idle"
    BY <1>6 DEF RemoveConfirmed, RemoveForGood, Starts
  <2>2. CASE UNCHANGED <<row, watchVars>>
    BY <2>1, <2>2, <1>1, <1>2, <1>3, <1>4, <1>5, LinkStays DEF watchVars
  <2>3. CASE \E x \in {"none", "gone"} : row' = [row EXCEPT ![c] = x]
    <3>1. row'[c] # "synced" BY <2>3, <1>1 DEF RowTypes
    <3>2. QED BY <2>1, <3>1 DEF Linked
  <2>4. QED BY <1>6, <2>2, <2>3 DEF RemoveConfirmed, RemoveForGood, Remove
<1>7. CASE Noop(c) \/ Unwatch(c) \/ SyncOfGone(c) \/ WatchStart(c)
  <2>1. /\ Head(queue[c]).op # "post" /\ row' = row /\ at[c] = "idle" /\ at'[c] # "apply"
    BY <1>7, <1>1 DEF Noop, Unwatch, SyncOfGone, WatchStart, Starts, taskVars, RunTypes
  <2>2. f \in pendingWatch[c] => f \in pendingWatch'[c]
    <3>1. CASE WatchStart(c)
      <4>1. PICK y : pendingWatch' = [pendingWatch EXCEPT ![y] = @ \ {c}]
        BY <3>1 DEF WatchStart
      <4>2. QED BY <4>1, <1>1 DEF WatchTypes
    <3>2. CASE pendingWatch' = pendingWatch BY <3>2
    <3>3. QED BY <1>7, <3>1, <3>2 DEF Noop, Unwatch, SyncOfGone, watchVars
  <2>3. QED BY <2>1, <2>2, <1>1, <1>2, <1>3, <1>4, <1>5, LinkStays
<1>8. CASE WatchForeignKeys(c)
  <2>1. row' = row /\ at' = at /\ at[c] = "idle" /\ pendingWatch' = pendingWatch
    BY <1>8 DEF WatchForeignKeys, Starts, taskVars, watchVars
  <2>2. f \in pendingWatch[c] => Has(queue'[f], {"watch"}, {c})
    <3>1. /\ Task("watch", c, Nobody) \in Tasks /\ Task("watch", c, Nobody).op = "watch"
          /\ Task("watch", c, Nobody).by = c
      BY DEF Task, Tasks, Ops
    <3>2. f \in pendingWatch[c] => queue'[f] = Append(queue[f], Task("watch", c, Nobody))
      BY <1>8 DEF WatchForeignKeys
    <3>3. queue[f] \in Seq(Tasks) BY <1>1 DEF QueueType
    <3>4. Has(Append(queue[f], Task("watch", c, Nobody)), {"watch"}, {c})
      BY <3>1, <3>3, HasAdded
    <3>5. QED BY <3>2, <3>4
  <2>3. QED BY <2>1, <2>2, <1>1, <1>2, <1>3, <1>4 DEF Linked, Coming
<1>9. CASE SyncStart(c)
  <2>1. /\ Head(queue[c]).op \in Syncs /\ at' = [at EXCEPT ![c] = "head"]
        /\ \/ row' = row /\ pendingWatch' = pendingWatch
           \/ row' = [row EXCEPT ![c] = IF @ = "synced" THEN "bare" ELSE @]
    BY <1>9 DEF SyncStart, Resynced, Starts, Syncs
  <2>2. at'[c] # "apply" BY <2>1, <1>1 DEF RunTypes
  <2>3. CASE row' = row /\ pendingWatch' = pendingWatch
    <3>1. Head(queue[c]).op # "post" BY <2>1 DEF Syncs
    <3>2. QED BY <2>2, <2>3, <3>1, <1>1, <1>2, <1>3, <1>4, <1>5, LinkStays
  <2>4. CASE row' = [row EXCEPT ![c] = IF @ = "synced" THEN "bare" ELSE @]
    <3>1. row'[c] # "synced" BY <2>4, <1>1 DEF RowTypes
    <3>2. QED BY <2>2, <3>1 DEF Linked
  <2>5. QED BY <2>1, <2>3, <2>4
<1>10. CASE HeadIsOurs(c)
  <2>1. /\ at[c] = "head" /\ row' = row /\ pendingWatch' = pendingWatch
        /\ at' = [at EXCEPT ![c] = "idle"]
    BY <1>10 DEF HeadIsOurs, SyncEnds
  <2>2. at'[c] # "apply" /\ Head(queue[c]).op # "post" BY <2>1, <1>1 DEF RunTypes, Busy
  <2>3. QED BY <2>1, <2>2, <1>1, <1>2, <1>3, <1>4, <1>5, LinkStays
<1>11. CASE EventsRead(c)
  <2> DEFINE new == {g \in live[c] : c \notin sameNames \/ c \notin watch[g]}
  <2>1. row' = row /\ row[c] # "synced" /\ found' = [found EXCEPT ![c] = new]
    BY <1>11 DEF EventsRead
  <2>2. found'[c] = new BY <2>1, <1>1 DEF RunTypes
  <2>3. f \in live[c] => f \in found'[c] \/ c \in watch[f] BY <2>2
  <2> HIDE DEF new
  <2>4. QED BY <2>1, <2>3, <1>2, <1>3 DEF Linked
<1>12. CASE EventsApplied(c)
  <2>1. /\ at[c] = "apply" /\ pendingWatch' = [pendingWatch EXCEPT ![c] = found[c]]
        /\ at' = [at EXCEPT ![c] = "idle"]
        /\ queue' = [queue EXCEPT ![c] =
             IF postOp[c] THEN Append(Tail(@), Plain(c, "post")) ELSE Tail(@)]
    BY <1>12 DEF EventsApplied, SyncEnds
  <2>2. at'[c] # "apply" /\ pendingWatch'[c] = found[c] BY <2>1, <1>1 DEF RunTypes, WatchTypes
  <2>3. f \in found[c] => Has(queue'[c], {"post"}, Contracts)
    <3> DEFINE t == Plain(c, "post")
               q == Tail(queue[c])
    <3>1. f \in found[c] => queue'[c] = Append(q, t)
      BY <2>1, <1>1 DEF Posts, QueueType
    <3>2. t \in Tasks /\ t.op \in {"post"} /\ t.by \in Contracts
      BY DEF Plain, Task, Tasks, Ops
    <3>3. q \in Seq(Tasks) BY OwnWatches, FitTasks
    <3> HIDE DEF t, q
    <3>4. Has(Append(q, t), {"post"}, Contracts) BY <3>2, <3>3, HasAdded
    <3>5. QED BY <3>1, <3>4
  <2>4. QED BY <2>1, <2>2, <2>3, <1>1, <1>2, <1>3 DEF Linked, Coming
<1>13. CASE SyncFails(c)
  <2>1. /\ at[c] # "idle" /\ row' = row /\ pendingWatch' = pendingWatch
        /\ at' = [at EXCEPT ![c] = "idle"]
    BY <1>13 DEF SyncFails, watchVars
  <2>2. at'[c] # "apply" /\ Head(queue[c]).op # "post" BY <2>1, <1>1 DEF RunTypes, Busy
  <2>3. QED BY <2>1, <2>2, <1>1, <1>2, <1>3, <1>4, <1>5, LinkStays
<1>14. QED BY <1>6, <1>7, <1>8, <1>9, <1>10, <1>11, <1>12, <1>13 DEF Runs

\* A task of the contract f whose keys are used.
LEMMA LinkUsed ==
  ASSUME Inv, AtInv, KeysInv, LinkInv, Inv',
         "failWatch" \notin Disturbances, "trusted" \notin Disturbances,
         NEW f \in Contracts, Runs(f), NEW c \in Contracts \ {f}
  PROVE  Linked(c, f)'
<1>1. /\ Linked(c, f) /\ RowTypes /\ WatchTypes /\ RunTypes /\ QueueType
  BY TypeParts DEF LinkInv, Inv, OtherTypes
<1>2. row'[c] = row[c] /\ at'[c] = at[c] /\ found'[c] = found[c] BY OthersStay
<1>3. live' = live /\ pendingWatch[c] \ {f} \subseteq pendingWatch'[c] BY OwnWatches
<1>4. Has(queue[c], {"post"}, Contracts) => Has(queue'[c], {"post"}, Contracts) BY OthersMore
<1>5. /\ (Head(queue[f]).op # "watch" \/ Head(queue[f]).by # c) /\ Has(queue[f], {"watch"}, {c})
         => Has(queue'[f], {"watch"}, {c})
  BY OwnMore
<1>6. Head(queue[f]) \in Fit(f) BY OwnWatches
<1>7. row'[f] # "gone" => row[f] # "gone"
  <2>1. \/ row' = row
        \/ row[f] = "synced" /\ \E x \in {"none", "gone"} : row' = [row EXCEPT ![f] = x]
        \/ row' = [row EXCEPT ![f] = IF @ = "synced" THEN "bare" ELSE @]
        \/ at[f] = "apply"
    BY DEF Runs, Noop, RemoveConfirmed, RemoveForGood, Remove, WatchForeignKeys, SyncStart,
           Resynced, SyncOfGone, WatchStart, HeadIsOurs, EventsRead, EventsApplied, SyncFails, Unwatch
  <2>2. QED BY <2>1, <1>1 DEF RowTypes, AtInv
\* Steps that keep the watch of c, with pendingWatch and the task in front.
<1>8. ASSUME c \in watch[f] => c \in watch'[f], pendingWatch'[c] = pendingWatch[c],
             Head(queue[f]).op # "watch" \/ Head(queue[f]).by # c
      PROVE  Linked(c, f)'
  <2>1. Watching(c, f) => Watching(c, f)' BY <1>8 DEF Watching
  <2>2. QED BY <2>1, <1>1, <1>2, <1>3, <1>4, <1>5, <1>7, <1>8, LinkStays
<1>9. CASE RemoveConfirmed(f)
  <2>1. Head(queue[f]).op # "watch" BY <1>9 DEF RemoveConfirmed, Starts
  <2>2. CASE UNCHANGED watchVars BY <2>1, <2>2, <1>8 DEF watchVars
  <2>3. CASE ~UNCHANGED watchVars
    <3>1. /\ ~(c \in watch[f] /\ (row[c] = "synced" \/ (at[c] = "apply" /\ f \notin found[c])))
          /\ Remove(f, "none") /\ row[f] = "synced"
      BY <1>9, <2>3 DEF RemoveConfirmed, Remove, watchVars, Disturb
    <3>2. pendingWatch' = [pendingWatch EXCEPT ![f] = {}]
      BY <3>1 DEF Remove
    <3>3. pendingWatch'[c] = pendingWatch[c] BY <3>2, <1>1 DEF WatchTypes
    <3>4. at[f] = "idle" BY <1>9 DEF RemoveConfirmed, Starts
    <3>5. QED BY <3>1, <3>3, <3>4, <2>1, <1>1, <1>2, <1>3, <1>4, <1>5
          DEF Linked, Coming, Watching
  <2>4. QED BY <2>2, <2>3
<1>10. CASE RemoveForGood(f)
  <2>1. Head(queue[f]).op # "watch" BY <1>10 DEF RemoveForGood, Starts
  <2>2. CASE UNCHANGED watchVars BY <2>1, <2>2, <1>8 DEF watchVars
  <2>3. CASE row' = [row EXCEPT ![f] = "gone"]
    <3>1. row'[f] = "gone" BY <2>3, <1>1 DEF RowTypes
    <3>2. QED BY <3>1 DEF Linked
  <2>4. QED BY <1>10, <2>2, <2>3 DEF RemoveForGood, Remove
<1>11. CASE Noop(f) \/ SyncOfGone(f) \/ WatchForeignKeys(f)
  <2>1. Head(queue[f]).op # "watch" /\ UNCHANGED <<watch, pendingWatch>>
    BY <1>11 DEF Noop, SyncOfGone, WatchForeignKeys, Starts, watchVars
  <2>2. QED BY <2>1, <1>8
<1>12. CASE SyncStart(f)
  <2>1. /\ Head(queue[f]).op # "watch" /\ watch' = watch
        /\ pendingWatch' = pendingWatch \/ pendingWatch' = [pendingWatch EXCEPT ![f] = {}]
    BY <1>12 DEF SyncStart, Resynced, Starts
  <2>2. pendingWatch'[c] = pendingWatch[c] BY <2>1, <1>1 DEF WatchTypes
  <2>3. QED BY <2>1, <2>2, <1>8
<1>13. CASE Unwatch(f)
  <2>1. /\ Head(queue[f]).op = "unwatch" /\ pendingWatch' = pendingWatch
        /\ watch' = [watch EXCEPT ![f] = @ \ {Head(queue[f]).by}]
    BY <1>13 DEF Unwatch, Starts
  <2>2. CASE Head(queue[f]).by = c
    <3>1. f \notin live[c] BY <2>1, <2>2, <1>6 DEF Fit
    <3>2. QED BY <3>1, <1>3 DEF Linked
  <2>3. CASE Head(queue[f]).by # c
    <3>1. c \in watch[f] => c \in watch'[f] BY <2>1, <2>3, <1>1 DEF WatchTypes
    <3>2. QED BY <2>1, <3>1, <1>8
  <2>4. QED BY <2>2, <2>3
<1>14. CASE WatchStart(f)
  <2> DEFINE by == Head(queue[f]).by
             skip == row[by] # "synced" \/ f \notin pendingWatch[by] \/ f \notin live[by]
  <2>1. /\ at[f] = "idle" /\ Head(queue[f]).op = "watch" /\ row' = row
        /\ pendingWatch' = [pendingWatch EXCEPT ![by] = @ \ {f}]
        /\ IF ~skip /\ ~sub[f] /\ row[f] # "gone"
           THEN at' = [at EXCEPT ![f] = "head"] /\ queue' = queue /\ watch' = watch
           ELSE watch' = IF skip \/ ~sub[f] THEN watch
                         ELSE [watch EXCEPT ![f] = @ \union {by}]
    BY <1>14 DEF WatchStart, Starts
  <2>2. CASE by # c
    <3>1. pendingWatch'[c] = pendingWatch[c] BY <2>1, <2>2, <1>1 DEF WatchTypes
    <3>2. c \in watch[f] => c \in watch'[f] BY <2>1, <1>1 DEF WatchTypes
    <3>3. QED BY <2>2, <3>1, <3>2, <1>8
  <2>3. CASE by = c
    <3>1. c \in watch[f] => c \in watch'[f] BY <2>1, <1>1 DEF WatchTypes
    <3>2. at[c] = "apply" /\ f \in live[c] /\ row[f] # "gone" => f \in found'[c] \/ c \in watch'[f]
      BY <3>1, <1>1, <1>2 DEF Linked
    <3>3. row[c] = "synced" /\ f \in live[c] /\ row[f] # "gone" /\ c \notin watch[f] =>
            c \in watch'[f] \/ Watching(c, f)'
      <4>1. SUFFICES ASSUME row[c] = "synced", f \in live[c], row[f] # "gone", c \notin watch[f]
                     PROVE  c \in watch'[f] \/ Watching(c, f)'
        OBVIOUS
      <4>2. ~Watching(c, f) BY <2>1 DEF Watching
      <4>3. f \in pendingWatch[c] BY <4>1, <4>2, <1>1 DEF Linked, Coming
      <4>4. ~skip BY <4>1, <4>3, <2>3
      <4> HIDE DEF skip
      <4>5. CASE sub[f]
        <5>1. watch' = [watch EXCEPT ![f] = @ \union {by}] BY <4>4, <4>5, <2>1
        <5>2. QED BY <5>1, <2>3, <1>1 DEF WatchTypes
      <4>6. CASE ~sub[f]
        <5>1. at' = [at EXCEPT ![f] = "head"] /\ queue' = queue BY <4>1, <4>4, <4>6, <2>1
        <5>2. at'[f] # "idle" BY <5>1, <1>1 DEF RunTypes
        <5>3. QED BY <5>1, <5>2, <2>1, <2>3 DEF Watching
      <4>7. QED BY <4>5, <4>6
    <3>4. row'[c] = row[c] /\ row'[f] = row[f] BY <2>1
    <3>5. QED BY <3>1, <3>2, <3>3, <3>4, <1>1, <1>2, <1>3 DEF Linked, Coming
  <2>4. QED BY <2>2, <2>3
<1>15. CASE HeadIsOurs(f) \/ EventsApplied(f)
  <2>1. /\ watch' = IF Head(queue[f]).op = "watch"
                    THEN [watch EXCEPT ![f] = @ \union {Head(queue[f]).by}] ELSE watch
        /\ pendingWatch' = pendingWatch \/ pendingWatch' = [pendingWatch EXCEPT ![f] = found[f]]
    BY <1>15 DEF HeadIsOurs, EventsApplied, SyncEnds
  <2>2. /\ pendingWatch'[c] = pendingWatch[c]
        /\ c \in watch[f] => c \in watch'[f]
        /\ Head(queue[f]).op = "watch" /\ Head(queue[f]).by = c => c \in watch'[f]
    BY <2>1, <1>1 DEF WatchTypes
  <2>3. CASE Head(queue[f]).op = "watch" /\ Head(queue[f]).by = c
    BY <2>2, <2>3, <1>1, <1>2, <1>3, <1>7 DEF Linked
  <2>4. QED BY <2>2, <2>3, <1>8
<1>16. CASE EventsRead(f)
  <2>1. /\ watch' = watch /\ pendingWatch' = pendingWatch /\ queue' = queue
        /\ at' = [at EXCEPT ![f] = "apply"]
    BY <1>16 DEF EventsRead
  <2>2. at'[f] # "idle" BY <2>1, <1>1 DEF RunTypes
  <2>3. Watching(c, f) => Watching(c, f)' BY <2>1, <2>2 DEF Watching
  <2>4. QED BY <2>1, <2>3, <1>1, <1>2, <1>3, <1>4, <1>7, LinkStays
<1>17. CASE SyncFails(f)
  <2>1. UNCHANGED <<watch, pendingWatch>> BY <1>17 DEF SyncFails, watchVars
  <2>2. Head(queue[f]).op # "watch"
    <3>1. Head(queue[f]).op = "watch" => Head(queue[f]).user = Nobody
      BY <1>6 DEF Fit
    <3>2. Head(queue[f]).op = "watch" => Disturb("failWatch") BY <3>1, <1>17 DEF SyncFails
    <3>3. QED BY <3>2 DEF Disturb
  <2>3. QED BY <2>1, <2>2, <1>8
<1>18. QED BY <1>9, <1>10, <1>11, <1>12, <1>13, <1>14, <1>15, <1>16, <1>17 DEF Runs

LEMMA LinkSelf ==
  ASSUME KeysInv', NEW c \in Contracts
  PROVE  Linked(c, c)'
<1>1. c \notin Foreign[c] OBVIOUS
<1>2. live'[c] \subseteq Foreign[c] BY DEF KeysInv, Known
<1>3. QED BY <1>1, <1>2 DEF Linked

LEMMA LinkStarted == Init => LinkInv
<1>1. ASSUME Init, NEW c \in Contracts, NEW f \in Contracts PROVE Linked(c, f)
  BY <1>1 DEF Init, Linked
<1>2. QED BY <1>1 DEF LinkInv

LEMMA LinkKept ==
  ASSUME {"failWatch", "reloadWatch", "trusted"} \cap Disturbances = {}
  PROVE  Inv /\ AtInv /\ KeysInv /\ LinkInv /\ Inv' /\ KeysInv' /\ [Next]_vars => LinkInv'
<1> SUFFICES ASSUME Inv, AtInv, KeysInv, LinkInv, Inv', KeysInv', [Next]_vars,
                    NEW c \in Contracts, NEW f \in Contracts
             PROVE  Linked(c, f)'
  BY DEF LinkInv
<1>1. /\ "failWatch" \notin Disturbances /\ "reloadWatch" \notin Disturbances
      /\ "trusted" \notin Disturbances
  OBVIOUS
<1>2. CASE UNCHANGED vars
  <2>1. Linked(c, f) BY DEF LinkInv
  <2>2. UNCHANGED <<row, queue, watch, live, pendingWatch, at, found>>
    BY <1>2 DEF vars, watchVars, taskVars
  <2>3. QED BY <2>1, <2>2 DEF Linked, Coming, Watching
<1>3. CASE Reload BY <1>1, <1>3, LinkReload
<1>4. ASSUME NEW e \in Contracts, LetsGo(e) \/ Asks(e) PROVE Linked(c, f)'
  BY <1>4, LinkCalls
<1>5. ASSUME NEW e \in Contracts, Runs(e) PROVE Linked(c, f)'
  <2>1. CASE c = f BY <2>1, LinkSelf
  <2>2. CASE c # f /\ e = c BY <1>5, <2>2, LinkUser
  <2>3. CASE c # f /\ e = f BY <1>1, <1>5, <2>3, LinkUsed
  <2>4. CASE e # c /\ e # f BY <1>5, <2>4, LinkThird
  <2>5. QED BY <2>1, <2>2, <2>3, <2>4
<1>6. QED BY <1>2, <1>3, <1>4, <1>5, StepCases

\* Once the queues are empty, the contracts whose keys a followed contract uses know of
\* it and are followed, or failed to sync (subscribeToForeignKeyContracts,
\* watchForeignKeys, syncContractAndWatchKeys, OP_KEY_DEL), unless a sync with watches
\* to set fails or is lost to a restart, or a contract goes that is taken for watched.
THEOREM ForeignAlways ==
  ASSUME {"failWatch", "reloadWatch", "trusted"} \cap Disturbances = {}
  PROVE  Spec => []ForeignKeysFollowed
<1>1. Inv /\ AtInv /\ NeedInv /\ LinkInv => ForeignKeysFollowed
  <2> SUFFICES ASSUME Inv, AtInv, NeedInv, LinkInv, AtRest, NEW c \in Contracts, sub[c],
                      NEW f \in live[c], row[f] # "gone"
               PROVE  c \in watch[f] /\ (sub[f] \/ failed[f])
    BY DEF ForeignKeysFollowed
  <2>1. f \in Contracts BY TypeParts DEF Inv, OtherTypes, WatchTypes
  <2>2. row[c] = "synced" BY DEF NeedInv, Rowed
  <2>3. queue[c] = <<>> /\ queue[f] = <<>> BY <2>1 DEF AtRest
  <2>4. ~Coming(c, f)
    <3>1. ~Watching(c, f) BY <2>1, <2>3 DEF Watching, AtInv
    <3>2. QED BY <2>3, <3>1, HasNothing DEF Coming
  <2>5. c \in watch[f] BY <2>1, <2>2, <2>4 DEF LinkInv, Linked
  <2>6. sub[f] \/ failed[f]
    <3>1. ~Has(queue[f], Syncs, Contracts) BY <2>3, HasNothing
    <3>2. QED BY <2>1, <2>5, <3>1 DEF NeedInv, Needed, Used
  <2>7. QED BY <2>5, <2>6
<1>2. Inv /\ AtInv /\ KeysInv /\ LinkInv /\ [Next]_vars
      => Inv' /\ AtInv' /\ KeysInv' /\ LinkInv'
  BY Kept, KeysKept, LinkKept
<1>3. QED
  BY <1>1, <1>2, Started, Kept, NeedStarted, NeedKept, KeysStarted, LinkStarted, PTL DEF Spec

-----------------------------------------------------------------------------
(* What is not needed goes: a contract nobody needs has a removal in its    *)
(* queue behind every sync.                                                 *)

Covered(q, i) == \E j \in i + 1 .. Len(q) : q[j].op = "remove"

\* Every sync has a later removal; or every sync that follows a removal.
Closed(q) == \A i \in 1 .. Len(q) : q[i].op \in Syncs => Covered(q, i)
Reclosed(q) == \A h, i \in 1 .. Len(q) :
  h < i /\ q[h].op = "remove" /\ q[i].op \in Syncs => Covered(q, i)

LEMMA ClosedStart == Closed(<<>>) /\ Reclosed(<<>>)
BY DEF Closed, Reclosed

LEMMA ClosedSame ==
  ASSUME NEW q, NEW r, SameTasks(r, q)
  PROVE  (Closed(q) => Closed(r)) /\ (Reclosed(q) => Reclosed(r))
BY DEF SameTasks, Closed, Reclosed, Covered

LEMMA ClosedAppend ==
  ASSUME NEW q \in Seq(Tasks), NEW t \in Tasks
  PROVE  /\ t.op = "remove" => Closed(Append(q, t)) /\ Reclosed(Append(q, t))
         /\ t.op \notin Syncs => /\ Closed(q) => Closed(Append(q, t))
                                 /\ Reclosed(q) => Reclosed(Append(q, t))
         /\ t.op \in Syncs /\ ~Has(q, {"remove"}, Contracts) => Reclosed(Append(q, t))
<1> DEFINE r == Append(q, t)
<1>1. /\ Len(r) = Len(q) + 1 /\ Len(q) \in Nat
      /\ \A i \in 1 .. Len(q) : r[i] = q[i] /\ q[i] \in Tasks
      /\ r[Len(q) + 1] = t
  OBVIOUS
<1> HIDE DEF r
<1>2. ASSUME NEW i \in 1 .. Len(q), Covered(q, i) PROVE Covered(r, i)
  <2>1. PICK j \in i + 1 .. Len(q) : q[j].op = "remove" BY <1>2 DEF Covered
  <2>2. j \in 1 .. Len(q) /\ j \in i + 1 .. Len(r) BY <2>1, <1>1
  <2>3. QED BY <2>1, <2>2, <1>1 DEF Covered
<1>3. ASSUME t.op = "remove" PROVE Closed(r) /\ Reclosed(r)
  <2>1. ASSUME NEW i \in 1 .. Len(r), r[i].op \in Syncs PROVE Covered(r, i)
    <3>1. r[Len(q) + 1].op = "remove" BY <1>1, <1>3
    <3>2. i # Len(q) + 1 BY <2>1, <3>1 DEF Syncs
    <3>3. Len(q) + 1 \in i + 1 .. Len(r) BY <3>2, <1>1
    <3>4. QED BY <3>1, <3>3 DEF Covered
  <2>2. QED BY <2>1 DEF Closed, Reclosed
<1>4. ASSUME t.op \notin Syncs, Closed(q) PROVE Closed(r)
  <2>1. ASSUME NEW i \in 1 .. Len(r), r[i].op \in Syncs PROVE Covered(r, i)
    <3>1. i # Len(q) + 1 BY <2>1, <1>1, <1>4
    <3>2. i \in 1 .. Len(q) /\ r[i] = q[i] BY <3>1, <1>1
    <3>3. QED BY <3>2, <2>1, <1>2, <1>4 DEF Closed
  <2>2. QED BY <2>1 DEF Closed
<1>5. ASSUME t.op \notin Syncs, Reclosed(q) PROVE Reclosed(r)
  <2>1. ASSUME NEW h \in 1 .. Len(r), NEW i \in 1 .. Len(r), h < i, r[h].op = "remove",
               r[i].op \in Syncs
        PROVE  Covered(r, i)
    <3>1. i # Len(q) + 1 BY <2>1, <1>1, <1>5
    <3>2. i \in 1 .. Len(q) /\ r[i] = q[i] /\ h \in 1 .. Len(q) /\ r[h] = q[h]
      BY <3>1, <2>1, <1>1
    <3>3. QED BY <3>2, <2>1, <1>2, <1>5 DEF Reclosed
  <2>2. QED BY <2>1 DEF Reclosed
<1>6. ASSUME t.op \in Syncs, ~Has(q, {"remove"}, Contracts) PROVE Reclosed(r)
  <2>1. ASSUME NEW h \in 1 .. Len(r), NEW i \in 1 .. Len(r), h < i, r[h].op = "remove"
        PROVE  FALSE
    <3>1. h \in 1 .. Len(q) /\ r[h] = q[h] /\ q[h].by \in Contracts
      BY <2>1, <1>1 DEF Tasks
    <3>2. QED BY <3>1, <2>1, <1>6 DEF Has
  <2>2. QED BY <2>1 DEF Reclosed
<1>7. QED BY <1>3, <1>4, <1>5, <1>6 DEF r

LEMMA ClosedTail ==
  ASSUME NEW q \in Seq(Tasks), q # <<>>
  PROVE  /\ Closed(q) => Closed(Tail(q))
         /\ Reclosed(q) => Reclosed(Tail(q))
         /\ Reclosed(q) /\ Head(q).op = "remove" => Closed(Tail(q))
         /\ Closed(q) /\ Head(q).op \in Syncs => Has(Tail(q), {"remove"}, Contracts)
<1> DEFINE r == Tail(q)
<1>1. /\ Len(q) \in Nat /\ Len(q) >= 1 /\ Len(r) = Len(q) - 1
      /\ \A i \in 1 .. Len(q) - 1 : r[i] = q[i + 1] /\ q[i + 1] \in Tasks
      /\ Head(q) = q[1]
  OBVIOUS
<1> HIDE DEF r
<1>2. ASSUME NEW i \in 1 .. Len(r), Covered(q, i + 1) PROVE Covered(r, i)
  <2>1. PICK j \in i + 2 .. Len(q) : q[j].op = "remove" BY <1>1, <1>2 DEF Covered
  <2>2. j - 1 \in i + 1 .. Len(r) /\ j - 1 \in 1 .. Len(q) - 1 /\ (j - 1) + 1 = j
    BY <2>1, <1>1
  <2>3. r[j - 1] = q[j] BY <2>2, <1>1
  <2>4. QED BY <2>1, <2>2, <2>3 DEF Covered
<1>3. \A i \in 1 .. Len(r) : i + 1 \in 1 .. Len(q) /\ r[i] = q[i + 1] BY <1>1
<1>4. Closed(q) => Closed(r) BY <1>2, <1>3 DEF Closed
<1>5. Reclosed(q) => Reclosed(r)
  <2>1. ASSUME Reclosed(q), NEW h \in 1 .. Len(r), NEW i \in 1 .. Len(r), h < i,
               r[h].op = "remove", r[i].op \in Syncs
        PROVE  Covered(r, i)
    <3>1. h + 1 < i + 1 BY <2>1, <1>1
    <3>2. Covered(q, i + 1) BY <3>1, <2>1, <1>3 DEF Reclosed
    <3>3. QED BY <3>2, <1>2
  <2>2. QED BY <2>1 DEF Reclosed
<1>6. ASSUME Reclosed(q), Head(q).op = "remove" PROVE Closed(r)
  <2>1. ASSUME NEW i \in 1 .. Len(r), r[i].op \in Syncs PROVE Covered(r, i)
    <3>1. 1 \in 1 .. Len(q) /\ 1 < i + 1 BY <1>1
    <3>2. Covered(q, i + 1) BY <3>1, <2>1, <1>1, <1>3, <1>6 DEF Reclosed
    <3>3. QED BY <3>2, <1>2
  <2>2. QED BY <2>1 DEF Closed
<1>7. ASSUME Closed(q), Head(q).op \in Syncs PROVE Has(r, {"remove"}, Contracts)
  <2>1. 1 \in 1 .. Len(q) BY <1>1
  <2>2. Covered(q, 1) BY <2>1, <1>1, <1>7 DEF Closed
  <2>3. PICK j \in 2 .. Len(q) : q[j].op = "remove" BY <2>2, <1>1 DEF Covered
  <2>4. j - 1 \in 1 .. Len(r) /\ (j - 1) + 1 = j BY <2>3, <1>1
  <2>5. r[j - 1] = q[j] /\ q[j].by \in Contracts BY <2>4, <1>1 DEF Tasks
  <2>6. QED BY <2>3, <2>4, <2>5 DEF Has
<1>8. QED BY <1>4, <1>5, <1>6, <1>7 DEF r

\* What nobody awaits: a task that opens no scope as it ends.
NoWait == {t \in Tasks : t.op = "noop" => t.user = Nobody}

\* Of a contract with no row no scope is open but those that wait for a sync, and a
\* contract with foreign keys is not synced anew.
Opened(c) ==
  /\ row[c] = "none" => /\ queue[c] \in Seq(NoWait)
                        /\ \A u \in Users : on[u] = c => scope[u] # "inside"
  /\ Foreign[c] # {} => ~Has(queue[c], {"resync"}, Contracts)

Leaving(c) ==
  row[c] # "gone" /\ Unneeded(c) =>
    /\ Reclosed(queue[c])
    /\ ~orphan[c] => Closed(queue[c])
    /\ ~orphan[c] /\ row[c] = "synced" => Has(queue[c], {"remove"}, Contracts)

LeaveInv == \A c \in Contracts : Opened(c) /\ Leaving(c)

LEMMA SameNoWait ==
  ASSUME NEW q \in Seq(NoWait), NEW r \in Seq(Tasks), SameTasks(r, q)
  PROVE  r \in Seq(NoWait)
<1>1. ASSUME NEW i \in 1 .. Len(r) PROVE r[i] \in NoWait
  <2>1. i \in 1 .. Len(q) BY DEF SameTasks
  <2>2. q[i] \in NoWait /\ r[i] \in Tasks BY <2>1
  <2>3. r[i].op = q[i].op /\ r[i].user \in {q[i].user, Nobody} BY <2>1 DEF SameTasks
  <2>4. QED BY <2>2, <2>3 DEF NoWait
<1>2. QED BY <1>1, SeqOf

LEMMA ScopesFall ==
  ASSUME Inv, NEW c \in Contracts, LetsGo(c) \/ Asks(c), NEW u \in Users, scope'[u] = "inside"
  PROVE  scope[u] = "inside" /\ on'[u] = on[u]
<1>1. ScopeTypes BY TypeParts DEF Inv
<1>2. CASE UNCHANGED <<scope, on>> BY <1>2
<1>3. ASSUME NEW v, NEW s \in {"out", "waiting"}, NEW o, scope' = [scope EXCEPT ![v] = s],
             on' = [on EXCEPT ![v] = o]
      PROVE  scope[u] = "inside" /\ on'[u] = on[u]
  BY <1>1, <1>3 DEF ScopeTypes
<1>4. CASE LetsGo(c) BY <1>2, <1>3, <1>4 DEF LetsGo, Release, CallbackEnds, ReleaseEarly
<1>5. CASE Asks(c)
  BY <1>2, <1>3, <1>5 DEF Asks, Retain, ForceSync, Delete, WithRetained, KeyDel, refVars
<1>6. QED BY <1>4, <1>5

\* A scope opens as the task of its own contract ends, which has a row.
LEMMA ScopesOpen ==
  ASSUME Inv, AtInv, KeysInv, LeaveInv, NEW c \in Contracts, Runs(c), NEW u \in Users,
         scope'[u] = "inside"
  PROVE  on'[u] = on[u] /\ (scope[u] = "inside" \/ (on[u] = c /\ row'[c] # "none"))
<1>1. /\ ScopeTypes /\ RowTypes /\ queue[c] \in Seq(Tasks) /\ queue[c] # <<>>
  BY TypeParts, QueueTyped, OwnWatches DEF Inv, OtherTypes
<1>2. CASE UNCHANGED <<scope, on>> BY <1>2
<1>3. Settle(c, FALSE) => UNCHANGED on /\ scope[u] = "inside"
  BY <1>1 DEF Settle, ScopeTypes
<1>4. Settle(c, TRUE) => UNCHANGED on
                         /\ (scope[u] = "inside" \/ (u = Head(queue[c]).user /\ u # Nobody))
  BY <1>1 DEF Settle, ScopeTypes
<1>5. u = Head(queue[c]).user /\ u # Nobody => on[u] = c
  <2>1. Head(queue[c]) = queue[c][1] /\ 1 \in 1 .. Len(queue[c]) BY <1>1
  <2>2. QED BY <2>1 DEF Inv, AwaitInv, Awaits
<1>6. CASE Noop(c)
  <2>1. Settle(c, TRUE) /\ row' = row /\ Head(queue[c]).op = "noop" BY <1>6 DEF Noop, Starts
  <2>2. row[c] = "none" => Head(queue[c]) \in NoWait BY <1>1 DEF LeaveInv, Opened
  <2>3. u = Head(queue[c]).user /\ u # Nobody => row[c] # "none" BY <2>1, <2>2 DEF NoWait
  <2>4. QED BY <1>4, <1>5, <2>1, <2>3
<1>7. CASE HeadIsOurs(c) \/ EventsApplied(c)
  <2>1. Settle(c, TRUE) /\ row'[c] = "synced"
    BY <1>1, <1>7 DEF HeadIsOurs, EventsApplied, SyncEnds, RowTypes
  <2>2. QED BY <1>4, <1>5, <2>1
<1>8. CASE SyncOfGone(c) \/ SyncFails(c) BY <1>3, <1>8 DEF SyncOfGone, SyncFails
<1>9. CASE RemoveConfirmed(c) \/ RemoveForGood(c)
  BY <1>2, <1>9 DEF RemoveConfirmed, RemoveForGood, Remove, refVars
<1>10. CASE WatchForeignKeys(c) \/ SyncStart(c) \/ WatchStart(c) \/ EventsRead(c) \/ Unwatch(c)
  BY <1>2, <1>10 DEF WatchForeignKeys, SyncStart, WatchStart, EventsRead, Unwatch, refVars
<1>11. QED BY <1>6, <1>7, <1>8, <1>9, <1>10 DEF Runs

\* Nobody has a reference to a contract that is collectible.
LEMMA NoReferences ==
  ASSUME Inv, NEW c \in Contracts
  PROVE  /\ Collectible(c, refs, eph, watch, sub) <=> Unneeded(c)
         /\ row[c] # "gone" /\ eph[c] = 0 =>
              /\ \A i \in 1 .. Len(queue[c]) : queue[c][i].user = Nobody
              /\ \A u \in Users : on[u] = c => scope[u] # "inside"
<1>1. refs[c] \in Nat /\ eph[c] \in Nat /\ queue[c] \in Seq(Tasks)
  BY TypeParts, QueueTyped DEF Inv, CountTypes
<1>2. Collectible(c, refs, eph, watch, sub) <=> Unneeded(c)
  BY <1>1 DEF Collectible, Unneeded, Watched
<1>3. ASSUME row[c] # "gone", eph[c] = 0
      PROVE  /\ \A i \in 1 .. Len(queue[c]) : queue[c][i].user = Nobody
             /\ \A u \in Users : on[u] = c => scope[u] # "inside"
  <2>1. Cardinality(Using(c, Open)) = 0 BY <1>3 DEF Inv, CountsAgree, Open
  <2>2. IsFiniteSet(Using(c, Open)) BY FS_Subset DEF Using
  <2>3. Using(c, Open) = {} BY <2>1, <2>2, FS_EmptySet
  <2>4. \A u \in Users : on[u] = c => scope[u] # "inside" /\ scope[u] # "waiting"
    BY <2>3 DEF Using, Open
  <2>5. ASSUME NEW i \in 1 .. Len(queue[c]), queue[c][i].user # Nobody PROVE FALSE
    <3>1. queue[c][i] \in Tasks BY <1>1
    <3>2. queue[c][i].user \in Users BY <3>1, <2>5 DEF Tasks
    <3>3. QED BY <3>2, <2>4, <2>5 DEF Inv, AwaitInv, Awaits
  <2>6. QED BY <2>4, <2>5
<1>4. QED BY <1>2, <1>3

\* A forced sync, where none comes behind a removal or of a contract with foreign keys.
LEMMA ForceSyncs ==
  ASSUME Inv, NEW c \in Contracts, ForceSync(c),
         "resyncWatcher" \notin Disturbances, "forceLate" \notin Disturbances
  PROVE  \E op \in {"sync", "resync"} :
           /\ queue'[c] = Append(queue[c], Plain(c, op))
           /\ Foreign[c] # {} => op # "resync"
           /\ sub[c] \/ ~Collectible(c, refs, eph, watch, sub)
           /\ ~Removing(c)
<1>1. QueueType BY TypeParts DEF Inv
<1>2. PICK op \in {"sync", "resync"} :
        /\ sub[c] \/ ~Collectible(c, refs, eph, watch, sub)
        /\ Disturb(IF Removing(c) THEN "forceLate"
                   ELSE IF op = "sync" THEN "force"
                   ELSE IF Foreign[c] = {} THEN "resync" ELSE "resyncWatcher")
        /\ queue' = [queue EXCEPT ![c] = Append(@, Plain(c, op))]
  BY DEF ForceSync
<1>3. ~Removing(c) /\ ~(op = "resync" /\ Foreign[c] # {}) BY <1>2 DEF Disturb
<1>4. queue'[c] = Append(queue[c], Plain(c, op)) BY <1>1, <1>2 DEF QueueType
<1>5. QED BY <1>2, <1>3, <1>4

LEMMA OpenedCalls ==
  ASSUME Inv, AtInv, KeysInv, NeedInv, LeaveInv, Inv',
         "resyncWatcher" \notin Disturbances, "forceLate" \notin Disturbances,
         NEW e \in Contracts, LetsGo(e) \/ Asks(e), NEW d \in Contracts
  PROVE  Opened(d)'
<1>1. /\ Opened(d) /\ queue[d] \in Seq(Tasks) /\ queue'[d] \in Seq(Tasks)
      /\ RowTypes /\ QueueType
  BY TypeParts, QueueTyped, NextTypes DEF LeaveInv, Inv, OtherTypes
<1>2. row'[d] = "none" => row[d] = "none"
  BY <1>1, LetGo, Asked DEF Asks, Retain, ForceSync, Delete, WithRetained, KeyDel, RowTypes
<1>3. row'[d] = "none" => \A u \in Users : on'[u] = d => scope'[u] # "inside"
  BY <1>1, <1>2, ScopesFall DEF Opened
<1>4. CASE LetsGo(e)
  <2> DEFINE t == Plain(d, "remove")
             q == Append(queue[d], t)
  <2>1. t \in Tasks /\ t \in NoWait /\ t.op # "resync"
    BY DEF Plain, Task, Tasks, Ops, NoWait
  <2> HIDE DEF t
  <2>2. Has(q, {"resync"}, Contracts) <=> Has(queue[d], {"resync"}, Contracts)
    BY <1>1, <2>1, HasSteps
  <2>3. queue[d] \in Seq(NoWait) => q \in Seq(NoWait) BY <2>1
  <2> HIDE DEF q
  <2>4. SameTasks(queue'[d], queue[d]) \/ SameTasks(queue'[d], q)
    BY <1>4, LetGo DEF AfterRelease, q, t
  <2>5. Has(queue'[d], {"resync"}, Contracts) => Has(queue[d], {"resync"}, Contracts)
    BY <2>2, <2>4, HasSame
  <2>6. queue[d] \in Seq(NoWait) => queue'[d] \in Seq(NoWait)
    BY <2>3, <2>4, <1>1, SameNoWait
  <2>7. QED BY <1>1, <1>2, <1>3, <2>5, <2>6 DEF Opened
<1>5. CASE Asks(e) /\ d # e
  <2>1. queue'[d] = queue[d] BY <1>5, Asked
  <2>2. QED BY <1>1, <1>2, <1>3, <2>1 DEF Opened
<1>6. CASE Asks(e) /\ d = e
  <2>1. PICK t \in Tasks : queue'[d] = Append(queue[d], t) BY <1>6, Asked
  <2>2. t = queue'[d][Len(queue[d]) + 1] BY <2>1, <1>1
  <2>3. row'[d] = "none" => t \in NoWait
    <3>1. CASE Retain(d) BY <3>1, <1>1 DEF Retain, RowTypes
    <3>2. ASSUME NEW v \in Users, WithRetained(d, v), row'[d] = "none" PROVE t.op = "sync"
      <4>1. ~sub[d] BY <1>2, <3>2 DEF NeedInv, Rowed
      <4>2. queue'[d] = Append(queue[d], Task("sync", d, v))
        BY <4>1, <3>2, <1>1 DEF WithRetained, SyncOrNoop, QueueType
      <4>3. t = Task("sync", d, v) BY <4>2, <2>2, <1>1
      <4>4. QED BY <4>3 DEF Task
    <3>3. CASE ForceSync(d) \/ Delete(d)
      <4>1. PICK op \in {"sync", "resync", "delete"} : queue'[d] = Append(queue[d], Plain(d, op))
        BY <3>3, <1>1 DEF ForceSync, Delete, QueueType
      <4>2. t = Plain(d, op) BY <4>1, <2>2, <1>1
      <4>3. QED BY <4>2 DEF Plain, Task, NoWait
    <3>4. ASSUME NEW f \in Contracts, KeyDel(f, d) PROVE t \in NoWait
      <4>1. queue'[d] = Append(queue[d], Task("unwatch", f, Nobody))
        BY <3>4, <1>1 DEF KeyDel, QueueType
      <4>2. t = Task("unwatch", f, Nobody) BY <4>1, <2>2, <1>1
      <4>3. QED BY <4>2 DEF Task, NoWait
    <3>5. QED BY <3>1, <3>2, <3>3, <3>4, <1>6 DEF Asks, NoWait
  <2>4. Foreign[d] # {} => t.op # "resync"
    <3>1. ASSUME NEW op \in {"sync", "noop"}, NEW v, queue'[d] = Append(queue[d], Task(op, d, v))
          PROVE  t.op # "resync"
      <4>1. t = Task(op, d, v) BY <3>1, <2>2, <1>1
      <4>2. QED BY <4>1 DEF Task
    <3>2. CASE Retain(d) BY <3>1, <3>2, <1>1 DEF Retain, SyncOrNoop, QueueType
    <3>3. ASSUME NEW v \in Users, WithRetained(d, v) PROVE t.op # "resync"
      BY <3>1, <3>3, <1>1 DEF WithRetained, SyncOrNoop, QueueType
    <3>4. CASE ForceSync(d)
      <4>1. PICK op \in {"sync", "resync"} :
              /\ queue'[d] = Append(queue[d], Plain(d, op))
              /\ Foreign[d] # {} => op # "resync"
        BY <3>4, ForceSyncs
      <4>2. t = Plain(d, op) BY <4>1, <2>2, <1>1
      <4>3. QED BY <4>1, <4>2 DEF Plain, Task
    <3>5. CASE Delete(d)
      <4>1. queue'[d] = Append(queue[d], Plain(d, "delete"))
        BY <3>5, <1>1 DEF Delete, QueueType
      <4>2. t = Plain(d, "delete") BY <4>1, <2>2, <1>1
      <4>3. QED BY <4>2 DEF Plain, Task
    <3>6. ASSUME NEW f \in Contracts, KeyDel(f, d) PROVE t.op # "resync"
      <4>1. queue'[d] = Append(queue[d], Task("unwatch", f, Nobody))
        BY <3>6, <1>1 DEF KeyDel, QueueType
      <4>2. t = Task("unwatch", f, Nobody) BY <4>1, <2>2, <1>1
      <4>3. QED BY <4>2 DEF Task
    <3>7. QED BY <3>2, <3>3, <3>4, <3>5, <3>6, <1>6 DEF Asks
  <2>5. queue[d] \in Seq(NoWait) /\ t \in NoWait => Append(queue[d], t) \in Seq(NoWait)
    OBVIOUS
  <2>6. t.op # "resync" /\ ~Has(queue[d], {"resync"}, Contracts)
        => ~Has(Append(queue[d], t), {"resync"}, Contracts)
    BY <1>1, HasSteps
  <2>7. QED BY <1>1, <1>2, <1>3, <2>1, <2>3, <2>4, <2>5, <2>6 DEF Opened
<1>7. QED BY <1>4, <1>5, <1>6

\* What a task of c leaves of the queue of d, and what it adds.
LEMMA Ran ==
  ASSUME Inv, AtInv, KeysInv, NEW c \in Contracts, Runs(c), NEW d \in Contracts
  PROVE  \E p \in Seq(Tasks) :
           /\ p = queue[d] \/ (d = c /\ queue[d] # <<>> /\ p = Tail(queue[d]))
           /\ \/ queue'[d] = p
              \/ \E t \in Tasks : /\ t.user = Nobody /\ t.op \in {"remove", "watch", "post"}
                                  /\ queue'[d] = Append(p, t)
<1>1. queue[d] \in Seq(Tasks) /\ queue[c] \in Seq(Tasks) BY QueueTyped DEF Inv
<1>2. ASSUME NEW b \in Contracts, NEW op \in {"remove", "watch", "post"}
      PROVE  Task(op, b, Nobody) \in Tasks /\ Task(op, b, Nobody).user = Nobody
             /\ Task(op, b, Nobody).op = op
  BY DEF Task, Tasks, Ops
<1>3. CASE d # c
  <2>1. \/ queue'[d] = queue[d]
        \/ queue'[d] = Append(queue[d], Task("remove", d, Nobody))
        \/ queue'[d] = Append(queue[d], Task("watch", c, Nobody))
    BY <1>3, OthersGet DEF Plain
  <2>2. QED BY <1>1, <1>2, <2>1
<1>4. CASE d = c
  <2>1. queue[d] # <<>> /\ Tail(queue[d]) \in Seq(Tasks) BY <1>1, <1>4, OwnWatches
  <2>2. \/ queue'[d] = queue[d] \/ queue'[d] = Tail(queue[d])
        \/ queue'[d] = Append(Tail(queue[d]), Task("remove", d, Nobody))
        \/ queue'[d] = Append(Tail(queue[d]), Task("post", d, Nobody))
    BY <1>4, OwnQueue DEF Plain
  <2>3. QED BY <1>1, <1>2, <1>4, <2>1, <2>2
<1>5. QED BY <1>3, <1>4

\* Only a removal takes a row away.
LEMMA RowFalls ==
  ASSUME Inv, NEW c \in Contracts, Runs(c), NEW d \in Contracts,
         row'[d] = "none", row[d] # "none"
  PROVE  d = c /\ RemoveConfirmed(c) /\ row[c] = "synced"
         /\ Collectible(c, refs, eph, watch, sub)
<1>1. RowTypes /\ QueueType BY TypeParts DEF Inv, OtherTypes
<1>2. d = c BY OthersStay
<1>3. RemoveConfirmed(c)
  <2>1. CASE RemoveForGood(c) BY <1>1, <1>2, <2>1 DEF RemoveForGood, Remove, RowTypes
  <2>2. CASE SyncStart(c) BY <1>1, <1>2, <2>2 DEF SyncStart, Resynced, RowTypes
  <2>3. CASE EventsApplied(c) BY <1>1, <1>2, <2>3 DEF EventsApplied, RowTypes
  <2>4. row' = row => FALSE BY <1>2
  <2>5. QED BY <2>1, <2>2, <2>3, <2>4
    DEF Runs, Noop, WatchForeignKeys, SyncOfGone, WatchStart, HeadIsOurs, EventsRead,
        SyncFails, Unwatch
<1>4. QED BY <1>1, <1>2, <1>3 DEF RemoveConfirmed, Remove

LEMMA OpenedRuns ==
  ASSUME Inv, AtInv, KeysInv, LeaveInv, Inv', NEW c \in Contracts, Runs(c),
         NEW d \in Contracts
  PROVE  Opened(d)'
<1>1. Opened(d) /\ queue[d] \in Seq(Tasks) /\ queue'[d] \in Seq(Tasks)
  BY QueueTyped, NextTypes DEF LeaveInv, Inv
<1>2. PICK p \in Seq(Tasks) :
        /\ p = queue[d] \/ (d = c /\ queue[d] # <<>> /\ p = Tail(queue[d]))
        /\ \/ queue'[d] = p
           \/ \E t \in Tasks : /\ t.user = Nobody /\ t.op \in {"remove", "watch", "post"}
                               /\ queue'[d] = Append(p, t)
  BY Ran
<1>3. Has(queue'[d], {"resync"}, Contracts) => Has(queue[d], {"resync"}, Contracts)
  <2>1. Has(p, {"resync"}, Contracts) => Has(queue[d], {"resync"}, Contracts)
    <3>1. Task("post", d, Nobody) \in Tasks BY DEF Task, Tasks, Ops
    <3>2. queue[d] # <<>> /\ Has(Tail(queue[d]), {"resync"}, Contracts) =>
            Has(queue[d], {"resync"}, Contracts)
      BY <1>1, <3>1, HasSteps
    <3>3. QED BY <1>2, <3>2
  <2>2. ASSUME NEW t \in Tasks, t.op \in {"remove", "watch", "post"}
        PROVE  Has(Append(p, t), {"resync"}, Contracts) => Has(p, {"resync"}, Contracts)
    BY <2>2, HasSteps
  <2>3. QED BY <1>2, <2>1, <2>2
<1>4. queue[d] \in Seq(NoWait) => queue'[d] \in Seq(NoWait)
  <2>1. ASSUME queue[d] \in Seq(NoWait) PROVE p \in Seq(NoWait)
    <3>1. ASSUME NEW q \in Seq(NoWait), q # <<>> PROVE Tail(q) \in Seq(NoWait)
      BY <3>1
    <3>2. QED BY <1>2, <2>1, <3>1
  <2>2. ASSUME NEW t \in Tasks, t.user = Nobody PROVE t \in NoWait BY <2>2 DEF NoWait
  <2>3. QED BY <1>2, <2>1, <2>2
<1>5. ASSUME row'[d] = "none", row[d] = "none"
      PROVE  queue'[d] \in Seq(NoWait) /\ \A u \in Users : on'[u] = d => scope'[u] # "inside"
  BY <1>1, <1>4, <1>5, ScopesOpen DEF Opened
<1>6. ASSUME row'[d] = "none", row[d] # "none"
      PROVE  queue'[d] \in Seq(NoWait) /\ \A u \in Users : on'[u] = d => scope'[u] # "inside"
  <2>1. d = c /\ RemoveConfirmed(d) /\ row[d] = "synced" /\ eph[d] = 0
    BY <1>6, RowFalls DEF Collectible
  <2>2. /\ \A i \in 1 .. Len(queue[d]) : queue[d][i].user = Nobody
        /\ \A u \in Users : on[u] = d => scope[u] # "inside"
    BY <2>1, NoReferences
  <2>3. queue[d] \in Seq(NoWait)
    <3>1. \A i \in 1 .. Len(queue[d]) : queue[d][i] \in NoWait BY <1>1, <2>2 DEF NoWait
    <3>2. QED BY <1>1, <3>1, SeqOf
  <2>4. UNCHANGED <<scope, on>> BY <2>1 DEF RemoveConfirmed, Remove, refVars
  <2>5. QED BY <1>4, <2>2, <2>3, <2>4
<1>7. QED BY <1>1, <1>3, <1>5, <1>6 DEF Opened

LEMMA OpenedReload ==
  ASSUME Inv, LeaveInv, Reload, NEW d \in Contracts
  PROVE  Opened(d)'
<1>1. queue'[d] = IF HasRow(d) THEN <<Plain(d, "sync")>> ELSE <<>> BY DEF Reload
<1>2. \A u \in Users : scope'[u] = "out" BY DEF Reload
<1>3. row' = row BY DEF Reload
<1>4. Plain(d, "sync") \in Tasks /\ Plain(d, "sync").op = "sync" /\ <<>> \in Seq(Tasks)
  BY DEF Plain, Task, Tasks, Ops
<1>5. ~Has(<<Plain(d, "sync")>>, {"resync"}, Contracts) BY <1>4 DEF Has
<1>6. ~Has(queue'[d], {"resync"}, Contracts) BY <1>1, <1>5, HasNothing
<1>7. row'[d] = "none" => queue'[d] = <<>> BY <1>1, <1>3 DEF HasRow
<1>8. <<>> \in Seq(NoWait) OBVIOUS
<1>9. QED BY <1>2, <1>6, <1>7, <1>8 DEF Opened

\* A contract nobody came to do without, whose queue stays as it was.
LEMMA LeaveStays ==
  ASSUME NEW c \in Contracts, Leaving(c), Unneeded(c)' => Unneeded(c), orphan'[c] = orphan[c],
         row'[c] # "gone" => row[c] # "gone", row'[c] = "synced" => row[c] = "synced",
         SameTasks(queue'[c], queue[c])
  PROVE  Leaving(c)'
BY ClosedSame, HasSame DEF Leaving

\* A task that is neither a sync nor a removal comes last.
LEMMA LeaveGrows ==
  ASSUME NEW c \in Contracts, Leaving(c), Unneeded(c)' => Unneeded(c), orphan'[c] = orphan[c],
         row'[c] # "gone" => row[c] # "gone", row'[c] = "synced" => row[c] = "synced",
         queue[c] \in Seq(Tasks), NEW t \in Tasks, t.op \notin Syncs,
         queue'[c] = Append(queue[c], t)
  PROVE  Leaving(c)'
BY ClosedAppend, HasMore DEF Leaving

\* A removal comes last.
LEMMA LeaveAdds ==
  ASSUME NEW c \in Contracts, NEW q \in Seq(Tasks),
         queue'[c] = Append(q, Plain(c, "remove"))
  PROVE  Leaving(c)'
<1> DEFINE t == Plain(c, "remove")
<1>1. t \in Tasks /\ t.op = "remove" /\ t.by \in Contracts BY DEF Plain, Task, Tasks, Ops
<1> HIDE DEF t
<1>2. Closed(Append(q, t)) /\ Reclosed(Append(q, t)) BY <1>1, ClosedAppend
<1>3. Has(Append(q, t), {"remove"}, Contracts) BY <1>1, HasAdded
<1>4. QED BY <1>2, <1>3 DEF Leaving, t

\* The first task ends, which was no removal.
LEMMA LeavePops ==
  ASSUME NEW c \in Contracts, Leaving(c), Unneeded(c)' => Unneeded(c), orphan'[c] = orphan[c],
         row'[c] = row[c], queue[c] \in Seq(Tasks), queue[c] # <<>>,
         Head(queue[c]).op # "remove", queue'[c] = Tail(queue[c])
  PROVE  Leaving(c)'
<1>1. Has(queue[c], {"remove"}, Contracts) => Has(Tail(queue[c]), {"remove"}, Contracts)
  BY HeadTail
<1>2. QED BY <1>1, ClosedTail DEF Leaving

LEMMA LeaveReload ==
  ASSUME Inv, Reload, NEW d \in Contracts
  PROVE  Leaving(d)'
<1>1. /\ row' = row /\ refs' = [c \in Contracts |-> refs[c] + IF HasRow(c) THEN 1 ELSE 0]
      /\ eph' = Zero
      /\ queue'[d] = IF HasRow(d) THEN <<Plain(d, "sync")>> ELSE <<>>
  BY DEF Reload
<1>2. refs[d] \in Nat BY TypeParts DEF Inv, CountTypes
<1>3. CASE HasRow(d)
  <2>1. refs'[d] = refs[d] + 1 /\ eph'[d] = 0 BY <1>1, <1>3 DEF Zero
  <2>2. ~Unneeded(d)' BY <2>1, <1>2 DEF Unneeded
  <2>3. QED BY <2>2 DEF Leaving
<1>4. CASE ~HasRow(d)
  <2>1. queue'[d] = <<>> /\ row'[d] # "synced" BY <1>1, <1>4 DEF HasRow
  <2>2. QED BY <2>1, ClosedStart DEF Leaving
<1>5. QED BY <1>3, <1>4

LEMMA LeaveLetGo ==
  ASSUME Inv, NeedInv, LeaveInv, Inv', "earlyNew" \notin Disturbances,
         NEW c \in Contracts, LetsGo(c), NEW d \in Contracts
  PROVE  Leaving(d)'
<1>1. /\ UNCHANGED <<row, sub, watch, orphan>> /\ Leaving(d)
      /\ queue[d] \in Seq(Tasks) /\ RowTypes
  BY LetGo, QueueTyped, TypeParts DEF watchVars, taskVars, LeaveInv, Inv, OtherTypes
<1>2. CASE d # c
  <2>1. refs'[d] = refs[d] /\ eph'[d] = eph[d] /\ SameTasks(queue'[d], queue[d])
    BY <1>2, LetGo
  <2>2. Unneeded(d)' => Unneeded(d) BY <1>1, <2>1 DEF Unneeded, Watched
  <2>3. QED BY <1>1, <2>1, <2>2, LeaveStays
<1>3. CASE d = c
  <2> SUFFICES ASSUME row'[c] # "gone", Unneeded(c)'
               PROVE  Leaving(c)'
    BY <1>3 DEF Leaving
  <2>1. HasRow(c)
    <3>1. ASSUME row[c] = "none" PROVE FALSE
      <4>1. refs[c] = 0 /\ held[c] = 0
        BY <3>1 DEF NeedInv, Rowed, Inv, CountsAgree
      <4>2. ~Release(c) BY <4>1 DEF Release
      <4>3. ASSUME NEW i \in DOMAIN queue[c], ReleaseEarly(c, i) PROVE FALSE
        BY <4>3, <3>1 DEF ReleaseEarly, Disturb
      <4>4. ASSUME NEW v \in Users, on[v] = c, CallbackEnds(v) PROVE FALSE
        BY <4>4, <3>1 DEF CallbackEnds, LeaveInv, Opened
      <4>5. QED BY <4>2, <4>3, <4>4 DEF LetsGo
    <3>2. QED BY <3>1, <1>1 DEF HasRow, RowTypes
  <2>2. Collectible(c, refs', eph', watch, sub)
    <3>1. refs'[c] \in Nat /\ eph'[c] \in Nat BY LetGo
    <3>2. QED BY <3>1, <1>1 DEF Collectible, Unneeded, Watched
  <2>3. SameTasks(queue'[c], Append(queue[c], Plain(c, "remove")))
    BY <2>1, <2>2, LetGo DEF AfterRelease
  <2> DEFINE t == Plain(c, "remove")
             q == Append(queue[c], t)
  <2>4. t \in Tasks /\ t.op = "remove" /\ t.by \in Contracts BY DEF Plain, Task, Tasks, Ops
  <2> HIDE DEF t
  <2>5. Closed(q) /\ Reclosed(q) /\ Has(q, {"remove"}, Contracts)
    BY <1>1, <1>3, <2>4, ClosedAppend, HasAdded
  <2>6. SameTasks(queue'[c], q) BY <2>3 DEF t
  <2> HIDE DEF q
  <2>7. QED BY <2>5, <2>6, ClosedSame, HasSame DEF Leaving
<1>4. QED BY <1>2, <1>3

LEMMA LeaveAsked ==
  ASSUME Inv, NeedInv, LeaveInv, "resyncWatcher" \notin Disturbances,
         "forceLate" \notin Disturbances, NEW c \in Contracts, Asks(c), NEW d \in Contracts
  PROVE  Leaving(d)'
<1>1. /\ UNCHANGED <<sub, watch, orphan>> /\ Leaving(d)
      /\ queue[d] \in Seq(Tasks) /\ RowTypes /\ CountTypes /\ QueueType
  BY Asked, QueueTyped, TypeParts DEF taskVars, LeaveInv, Inv, OtherTypes
<1>2. CASE d # c
  <2>1. /\ row'[d] = row[d] /\ queue'[d] = queue[d]
        /\ refs'[d] = refs[d] /\ eph'[d] = eph[d]
    BY <1>2, Asked
  <2>2. Unneeded(d)' => Unneeded(d) BY <1>1, <2>1 DEF Unneeded, Watched
  <2>3. QED BY <1>1, <2>1, <2>2, LeaveStays, SameTasksSelf
<1>3. CASE d = c /\ Retain(c)
  <2>1. refs'[d] = refs[d] + 1 /\ eph'[d] = eph[d]
    BY <1>1, <1>3 DEF Retain, Add, CountTypes
  <2>2. ~Unneeded(d)' BY <2>1, <1>1 DEF Unneeded, CountTypes
  <2>3. QED BY <2>2 DEF Leaving
<1>4. ASSUME d = c, NEW v \in Users, WithRetained(c, v) PROVE Leaving(d)'
  <2>1. refs'[d] = refs[d] /\ eph'[d] = eph[d] + 1
    BY <1>1, <1>4 DEF WithRetained, Add, CountTypes
  <2>2. ~Unneeded(d)' BY <2>1, <1>1 DEF Unneeded, CountTypes
  <2>3. QED BY <2>2 DEF Leaving
<1>5. ASSUME UNCHANGED <<row, refs, eph>>, NEW op \in {"delete", "unwatch"}, NEW b \in Contracts,
             queue'[d] = Append(queue[d], Task(op, b, Nobody))
      PROVE  Leaving(d)'
  <2> DEFINE t == Task(op, b, Nobody)
  <2>1. t \in Tasks /\ t.op \notin Syncs BY DEF Task, Tasks, Ops, Syncs
  <2>2. queue'[d] = Append(queue[d], t) BY <1>5
  <2> HIDE DEF t
  <2>3. Unneeded(d)' => Unneeded(d) BY <1>1, <1>5 DEF Unneeded, Watched
  <2>4. QED BY <1>1, <1>5, <2>1, <2>2, <2>3, LeaveGrows
<1>6. CASE d = c /\ Delete(c)
  <2>1. UNCHANGED <<row, refs, eph>> /\ queue'[d] = Append(queue[d], Plain(d, "delete"))
    BY <1>1, <1>6 DEF Delete, refVars, QueueType
  <2>2. QED BY <1>5, <2>1 DEF Plain
<1>7. ASSUME d = c, NEW f \in Contracts, KeyDel(f, c) PROVE Leaving(d)'
  <2>1. UNCHANGED <<row, refs, eph>> /\ queue'[d] = Append(queue[d], Task("unwatch", f, Nobody))
    BY <1>1, <1>7 DEF KeyDel, refVars, QueueType
  <2>2. QED BY <1>5, <2>1
<1>8. CASE d = c /\ ForceSync(c)
  <2>1. PICK op \in {"sync", "resync"} :
          /\ queue'[d] = Append(queue[d], Plain(d, op))
          /\ sub[d] \/ ~Collectible(d, refs, eph, watch, sub)
          /\ ~Removing(d)
    BY <1>8, ForceSyncs
  <2>2. UNCHANGED <<row, refs, eph>> BY <1>8 DEF ForceSync, refVars
  <2> SUFFICES ASSUME row[d] # "gone", Unneeded(d)
               PROVE  Leaving(d)'
    BY <1>1, <2>2 DEF Leaving, Unneeded, Watched
  <2>3. row[d] = "synced" BY <2>1, NoReferences DEF NeedInv, Rowed
  <2>4. ~Has(queue[d], {"remove"}, Contracts)
    <3>1. DOMAIN queue[d] = 1 .. Len(queue[d]) BY <1>1
    <3>2. QED BY <2>1, <3>1 DEF Has, Removing
  <2>5. orphan'[d] BY <1>1, <2>3, <2>4 DEF Leaving, OtherTypes, RunTypes
  <2> DEFINE t == Plain(d, op)
  <2>6. t \in Tasks /\ t.op \in Syncs BY DEF Plain, Task, Tasks, Ops, Syncs
  <2>7. queue'[d] = Append(queue[d], t) BY <2>1
  <2> HIDE DEF t
  <2>8. Reclosed(queue'[d]) BY <1>1, <2>4, <2>6, <2>7, ClosedAppend
  <2>9. QED BY <2>5, <2>8 DEF Leaving
<1>9. QED BY <1>2, <1>3, <1>4, <1>6, <1>7, <1>8 DEF Asks

\* Of a contract that follows keys of d and is no longer subscribed, d was released.
LEMMA LeaveOther ==
  ASSUME Inv, AtInv, KeysInv, NeedInv, LeaveInv, NEW c \in Contracts, Runs(c),
         NEW d \in Contracts \ {c}
  PROVE  Leaving(d)'
<1>1. /\ row'[d] = row[d] /\ refs'[d] = refs[d] /\ eph'[d] = eph[d] /\ watch'[d] = watch[d]
      /\ orphan'[d] = orphan[d]
  BY OthersStay
<1>2. /\ Leaving(d) /\ Known(d) /\ Rowed(d) /\ queue[d] \in Seq(Tasks)
      /\ RowTypes /\ WatchTypes /\ CountTypes
  BY QueueTyped, TypeParts DEF LeaveInv, KeysInv, NeedInv, Inv, OtherTypes
<1>3. CASE Unneeded(d)' => Unneeded(d)
  <2>1. CASE queue'[d] = queue[d] BY <1>1, <1>2, <1>3, <2>1, LeaveStays, SameTasksSelf
  <2>2. CASE queue'[d] = Append(queue[d], Plain(d, "remove")) BY <1>2, <2>2, LeaveAdds
  <2>3. CASE queue'[d] = Append(queue[d], Task("watch", c, Nobody))
    <3> DEFINE t == Task("watch", c, Nobody)
    <3>1. t \in Tasks /\ t.op \notin Syncs BY DEF Task, Tasks, Ops, Syncs
    <3>2. queue'[d] = Append(queue[d], t) BY <2>3
    <3> HIDE DEF t
    <3>3. QED BY <1>1, <1>2, <1>3, <3>1, <3>2, LeaveGrows
  <2>4. QED BY <2>1, <2>2, <2>3, OthersGet
<1>4. ASSUME Unneeded(d)', ~Unneeded(d), row'[d] # "gone" PROVE Leaving(d)'
  <2>1. Watched(d) /\ ~Watched(d)' BY <1>1, <1>4 DEF Unneeded
  <2>2. PICK x \in watch[d] : sub[x] /\ ~sub'[x] BY <1>1, <2>1 DEF Watched
  <2>3. x \in Contracts BY <1>2 DEF WatchTypes
  <2>4. x = c BY <2>2, <2>3, OthersStay
  <2>5. d \in Foreign[c] /\ Foreign[c] # {} BY <1>2, <2>2, <2>4 DEF Known
  <2>6. HasRow(d) BY <1>1, <1>2, <1>4, <2>2 DEF Rowed, HasRow, RowTypes
  <2>7. Collectible(d, refs, eph, watch, sub')
    <3>1. refs[d] \in Nat /\ eph[d] \in Nat BY <1>2 DEF CountTypes
    <3>2. QED BY <1>1, <1>4, <2>1, <3>1 DEF Collectible, Unneeded, Watched
  <2>8. sub[c] = TRUE /\ sub'[c] # TRUE /\ sub' # sub BY <2>2, <2>4
  <2>9. CASE RemoveConfirmed(c) \/ RemoveForGood(c)
    <3>1. queue' = ReleaseForeign(c, sub')
      BY <2>8, <2>9 DEF RemoveConfirmed, RemoveForGood, Remove
    <3>2. queue'[d] = Append(queue[d], Plain(d, "remove"))
      BY <2>5, <2>6, <2>7, <3>1 DEF ReleaseForeign
    <3>3. QED BY <1>2, <3>2, LeaveAdds
  <2>10. CASE SyncStart(c)
    <3>1. Head(queue[c]).op = "resync" /\ queue[c] # <<>>
      BY <2>8, <2>10 DEF SyncStart, Starts
    <3>2. queue[c] \in Seq(Tasks) BY QueueTyped DEF Inv
    <3>3. Head(queue[c]) = queue[c][1] /\ 1 \in 1 .. Len(queue[c])
          /\ Head(queue[c]).by \in Contracts
      BY <3>1, <3>2, HeadTail
    <3>4. Has(queue[c], {"resync"}, Contracts) BY <3>1, <3>3 DEF Has
    <3>5. QED BY <2>5, <3>4 DEF LeaveInv, Opened
  <2>11. ~HeadIsOurs(c) /\ ~EventsApplied(c)
    BY <1>2, <2>8 DEF HeadIsOurs, EventsApplied, RowTypes
  <2>12. QED BY <2>8, <2>9, <2>10, <2>11
    DEF Runs, Noop, WatchForeignKeys, SyncOfGone, WatchStart, EventsRead, SyncFails, Unwatch
<1>5. QED BY <1>3, <1>4 DEF Leaving

\* A sync of c ends: a watch set for a contract that had gone makes it an orphan.
LEMMA LeaveEnds ==
  ASSUME Inv, AtInv, KeysInv, LeaveInv, NEW c \in Contracts,
         HeadIsOurs(c) \/ EventsApplied(c), KeysInv', Inv'
  PROVE  Leaving(c)'
<1>1. /\ Leaving(c) /\ queue[c] \in Seq(Tasks) /\ WatchTypes /\ CountTypes /\ RunTypes
      /\ QueueType /\ Runs(c)
  BY QueueTyped, TypeParts DEF LeaveInv, Inv, OtherTypes, Runs
<1>2. /\ queue[c] # <<>> /\ Head(queue[c]) \in Fit(c) /\ Tail(queue[c]) \in Seq(Tasks)
      /\ Head(queue[c]).by \in Contracts /\ at[c] # "idle" /\ row[c] # "gone"
      /\ Head(queue[c]).op \in {"sync", "resync", "watch"}
  BY <1>1, OwnWatches, HeadTail DEF HeadIsOurs, EventsApplied, AtInv, KeysInv, Busy
<1> DEFINE q == Tail(queue[c])
           t == Plain(c, "post")
           by == Head(queue[c]).by
<1>3. t \in Tasks /\ t.op \notin Syncs BY DEF Plain, Task, Tasks, Ops, Syncs
<1>4. queue'[c] = q \/ queue'[c] = Append(q, t)
  BY <1>1 DEF HeadIsOurs, EventsApplied, SyncEnds, QueueType
<1>5. /\ refs' = refs /\ eph' = eph /\ sub' = [sub EXCEPT ![c] = TRUE]
      /\ watch' = IF Head(queue[c]).op = "watch"
                  THEN [watch EXCEPT ![c] = @ \union {by}] ELSE watch
      /\ orphan' = [orphan EXCEPT ![c] = @ \/ (Head(queue[c]).op = "watch" /\ ~sub[by])]
  BY DEF HeadIsOurs, EventsApplied, SyncEnds
<1> HIDE DEF t
<1>6. SUFFICES ASSUME Unneeded(c)'
               PROVE  /\ Reclosed(queue'[c])
                      /\ ~orphan'[c] => Closed(queue'[c]) /\ Has(queue'[c], {"remove"}, Contracts)
  BY DEF Leaving
<1>7. Unneeded(c)
  <2>1. watch[c] \subseteq watch'[c] BY <1>1, <1>5 DEF WatchTypes
  <2>2. ASSUME NEW x \in watch[c] PROVE sub[x] => sub'[x]
    <3>1. x \in watch'[c] BY <2>1
    <3>2. ~sub'[x] BY <3>1, <1>6 DEF Unneeded, Watched
    <3>3. x \in Contracts BY <1>1 DEF WatchTypes
    <3>4. x # c BY DEF KeysInv, Known
    <3>5. QED BY <1>1, <3>3, <3>4, OthersStay
  <2>3. QED BY <1>5, <1>6, <2>1, <2>2 DEF Unneeded, Watched
<1>8. Reclosed(queue[c]) /\ (~orphan[c] => Closed(queue[c])) BY <1>1, <1>2, <1>7 DEF Leaving
<1>9. Reclosed(q) /\ (~orphan[c] => Closed(q)) BY <1>1, <1>2, <1>8, ClosedTail
<1>10. CASE Head(queue[c]).op = "watch"
  <2>1. by \in watch'[c] BY <1>1, <1>2, <1>5, <1>10 DEF WatchTypes
  <2>2. by # c BY <1>2, <1>10 DEF Fit
  <2>3. ~sub[by]
    <3>1. sub'[by] = sub[by] BY <1>1, <1>2, <2>2, OthersStay
    <3>2. QED BY <2>1, <3>1, <1>6 DEF Unneeded, Watched
  <2>4. orphan'[c] BY <1>1, <1>5, <1>10, <2>3 DEF RunTypes
  <2> HIDE DEF q
  <2>5. Reclosed(queue'[c])
    <3>1. q \in Seq(Tasks) BY <1>2 DEF q
    <3>2. QED BY <1>3, <1>4, <1>9, <3>1, ClosedAppend
  <2>6. QED BY <2>4, <2>5
<1>11. CASE Head(queue[c]).op \in Syncs
  <2>1. orphan'[c] = orphan[c] BY <1>1, <1>5, <1>11 DEF RunTypes, Syncs
  <2>2. ~orphan[c] => Has(q, {"remove"}, Contracts) BY <1>1, <1>2, <1>8, <1>11, ClosedTail
  <2>3. q \in Seq(Tasks) BY <1>2
  <2> HIDE DEF q
  <2>4. Reclosed(queue'[c]) /\ (~orphan[c] => Closed(queue'[c]))
    BY <1>3, <1>4, <1>9, <2>3, ClosedAppend
  <2>5. ~orphan[c] => Has(queue'[c], {"remove"}, Contracts)
    BY <1>3, <1>4, <2>2, <2>3, HasMore
  <2>6. QED BY <2>1, <2>4, <2>5
<1>12. QED BY <1>2, <1>10, <1>11 DEF Syncs

\* A removal asks whether it may go on.
LEMMA LeaveRemoves ==
  ASSUME Inv, AtInv, KeysInv, LeaveInv, Inv', NEW c \in Contracts,
         RemoveConfirmed(c) \/ RemoveForGood(c)
  PROVE  Leaving(c)'
<1>1. /\ Leaving(c) /\ queue[c] \in Seq(Tasks) /\ c \notin Foreign[c]
      /\ RowTypes /\ RunTypes /\ QueueType /\ Runs(c) /\ CountTypes
  BY QueueTyped, TypeParts DEF LeaveInv, Inv, OtherTypes, Runs
<1>2. queue[c] # <<>> /\ Tail(queue[c]) \in Seq(Tasks) BY <1>1, OwnWatches, HeadTail
<1>3. queue'[c] = Tail(queue[c])
  <2>1. queue' = Done(c) \/ queue' = ReleaseForeign(c, sub')
    BY DEF RemoveConfirmed, RemoveForGood, Remove
  <2>2. Done(c)[c] = Tail(queue[c]) BY <1>1 DEF QueueType, Done
  <2>3. ReleaseForeign(c, sub')[c] = Done(c)[c] BY <1>1 DEF ReleaseForeign
  <2>4. QED BY <2>1, <2>2, <2>3
<1>4. CASE RemoveForGood(c)
  <2>1. CASE row[c] = "synced"
    <3>1. row'[c] = "gone" BY <1>1, <1>4, <2>1 DEF RemoveForGood, Remove, RowTypes
    <3>2. QED BY <3>1 DEF Leaving
  <2>2. CASE row[c] # "synced"
    <3>1. /\ UNCHANGED <<row, sub, refs, eph, watch, orphan>>
          /\ Head(queue[c]).op = "delete"
      BY <1>4, <2>2 DEF RemoveForGood, Remove, Starts, refVars, watchVars
    <3>2. Unneeded(c)' => Unneeded(c) BY <3>1 DEF Unneeded, Watched
    <3>3. QED BY <1>1, <1>2, <1>3, <3>1, <3>2, LeavePops
  <2>3. QED BY <2>1, <2>2
<1>5. CASE RemoveConfirmed(c) /\ ~Collectible(c, refs, eph, watch, sub)
  <2>1. UNCHANGED <<sub, refs, eph, watch>>
    BY <1>5 DEF RemoveConfirmed, refVars, watchVars
  <2>2. ~Unneeded(c) BY <1>5, NoReferences
  <2>3. ~Unneeded(c)' BY <2>1, <2>2 DEF Unneeded, Watched
  <2>4. QED BY <2>3 DEF Leaving
<1>6. CASE RemoveConfirmed(c) /\ Collectible(c, refs, eph, watch, sub)
  <2>1. Remove(c, "none") /\ Head(queue[c]).op = "remove"
    BY <1>6 DEF RemoveConfirmed, Starts
  <2>2. SUFFICES ASSUME row'[c] # "gone"
                 PROVE  Leaving(c)'
    BY DEF Leaving
  <2>3. row[c] # "gone" /\ row'[c] # "synced" BY <1>1, <2>1, <2>2 DEF Remove, RowTypes
  <2>4. Unneeded(c) BY <1>6, NoReferences
  <2>5. Closed(Tail(queue[c])) /\ Reclosed(Tail(queue[c]))
    BY <1>1, <1>2, <2>1, <2>3, <2>4, ClosedTail DEF Leaving
  <2>6. QED BY <1>3, <2>3, <2>5 DEF Leaving
<1>7. QED BY <1>4, <1>5, <1>6

\* The tasks of c itself.
LEMMA LeaveOwn ==
  ASSUME Inv, AtInv, KeysInv, NeedInv, LeaveInv, Inv', KeysInv', NEW c \in Contracts, Runs(c)
  PROVE  Leaving(c)'
<1>1. /\ Leaving(c) /\ Rowed(c) /\ queue[c] \in Seq(Tasks) /\ c \notin Foreign[c]
      /\ RowTypes /\ WatchTypes /\ CountTypes /\ RunTypes /\ QueueType
  BY QueueTyped, TypeParts DEF LeaveInv, NeedInv, Inv, OtherTypes
<1>2. queue[c] # <<>> /\ Tail(queue[c]) \in Seq(Tasks) BY <1>1, OwnWatches, HeadTail
<1>3. Done(c)[c] = Tail(queue[c]) BY <1>1 DEF QueueType, Done
<1>4. ASSUME refs' = refs, eph' = eph, watch[c] \subseteq watch'[c]
      PROVE  Unneeded(c)' => Unneeded(c)
  <2>1. ASSUME NEW x \in watch[c] PROVE sub'[x] = sub[x]
    <3>1. x \in Contracts BY <1>1 DEF WatchTypes
    <3>2. x # c BY <1>1 DEF KeysInv, Known
    <3>3. QED BY <3>1, <3>2, OthersStay
  <2>2. QED BY <1>4, <2>1 DEF Unneeded, Watched
<1>5. CASE SyncStart(c) \/ EventsRead(c)
  <2>1. /\ refs' = refs /\ eph' = eph /\ watch' = watch /\ orphan' = orphan /\ queue' = queue
        /\ row' = row \/ row' = [row EXCEPT ![c] = IF @ = "synced" THEN "bare" ELSE @]
    BY <1>5 DEF SyncStart, Resynced, EventsRead, refVars
  <2>2. row'[c] # "gone" => row[c] # "gone" BY <2>1, <1>1 DEF RowTypes
  <2>3. row'[c] = "synced" => row[c] = "synced" BY <2>1, <1>1 DEF RowTypes
  <2>4. QED BY <1>1, <1>4, <2>1, <2>2, <2>3, LeaveStays, SameTasksSelf
<1>6. CASE WatchStart(c)
  <2>1. /\ refs' = refs /\ eph' = eph /\ orphan' = orphan /\ row' = row
        /\ \/ queue' = queue /\ watch' = watch
           \/ queue' = Done(c)
        /\ \/ watch' = watch \/ watch' = [watch EXCEPT ![c] = @ \union {Head(queue[c]).by}]
        /\ Head(queue[c]).op = "watch"
    BY <1>6 DEF WatchStart, Starts, refVars
  <2>2. watch[c] \subseteq watch'[c] BY <1>1, <2>1 DEF WatchTypes
  <2>3. Unneeded(c)' => Unneeded(c) BY <1>4, <2>1, <2>2
  <2>4. CASE queue' = queue BY <1>1, <2>1, <2>3, <2>4, LeaveStays, SameTasksSelf
  <2>5. CASE queue' = Done(c) BY <1>1, <1>2, <1>3, <2>1, <2>3, <2>5, LeavePops
  <2>6. QED BY <2>1, <2>4, <2>5
<1>7. CASE Noop(c) \/ WatchForeignKeys(c) \/ SyncFails(c)
  <2>1. /\ refs' = refs /\ eph' = eph /\ orphan' = orphan /\ row' = row /\ watch' = watch
        /\ queue' = Done(c) \/ WatchForeignKeys(c)
    BY <1>7 DEF Noop, WatchForeignKeys, SyncFails, refVars, watchVars, taskVars
  <2>2. Head(queue[c]).op # "remove"
    BY <1>7 DEF Noop, WatchForeignKeys, SyncFails, Starts, KeysInv, Busy
  <2>3. queue'[c] = Tail(queue[c])
    <3>1. c \notin pendingWatch[c] BY <1>1 DEF KeysInv, Known
    <3>2. WatchForeignKeys(c) => queue'[c] = Done(c)[c] BY <3>1 DEF WatchForeignKeys
    <3>3. QED BY <1>3, <2>1, <3>2
  <2>4. QED BY <1>1, <1>2, <1>4, <2>1, <2>2, <2>3, LeavePops
<1>8. CASE SyncOfGone(c) BY <1>8 DEF SyncOfGone, Leaving
<1>9. CASE Unwatch(c)
  <2>1. /\ row' = row /\ sub' = sub /\ refs' = refs /\ eph' = eph /\ orphan' = orphan
        /\ watch' = [watch EXCEPT ![c] = @ \ {Head(queue[c]).by}]
        /\ Head(queue[c]).op = "unwatch"
        /\ queue' = IF watch' # watch /\ HasRow(c) /\ Collectible(c, refs, eph, watch', sub)
                    THEN [queue EXCEPT ![c] = Append(Tail(queue[c]), Plain(c, "remove"))]
                    ELSE Done(c)
    BY <1>9 DEF Unwatch, Starts, refVars, taskVars
  <2>2. CASE watch' # watch /\ HasRow(c) /\ Collectible(c, refs, eph, watch', sub)
    <3>1. queue'[c] = Append(Tail(queue[c]), Plain(c, "remove"))
      BY <1>1, <2>1, <2>2 DEF QueueType
    <3>2. QED BY <1>2, <3>1, LeaveAdds
  <2>3. CASE ~(watch' # watch /\ HasRow(c) /\ Collectible(c, refs, eph, watch', sub))
    <3>1. queue'[c] = Tail(queue[c]) BY <1>3, <2>1, <2>3
    <3>2. SUFFICES ASSUME row'[c] # "gone", Unneeded(c)'
                   PROVE  Leaving(c)'
      BY DEF Leaving
    <3>3. Collectible(c, refs, eph, watch', sub)
      <4>1. refs[c] \in Nat /\ eph[c] \in Nat BY <1>1 DEF CountTypes
      <4>2. QED BY <2>1, <3>2, <4>1 DEF Collectible, Unneeded, Watched
    <3>4. watch' = watch
      <4>1. CASE HasRow(c) BY <2>3, <3>3, <4>1
      <4>2. CASE ~HasRow(c)
        <5>1. watch[c] = {} BY <1>1, <2>1, <3>2, <4>2 DEF HasRow, RowTypes, Rowed
        <5>2. watch' = [watch EXCEPT ![c] = watch[c]] BY <2>1, <5>1
        <5>3. QED BY <5>2, <1>1 DEF WatchTypes
      <4>3. QED BY <4>1, <4>2
    <3>5. Unneeded(c) BY <1>4, <2>1, <3>2, <3>4
    <3>6. QED BY <1>1, <1>2, <2>1, <3>1, <3>5, LeavePops
  <2>4. QED BY <2>2, <2>3
<1>10. CASE RemoveConfirmed(c) \/ RemoveForGood(c) BY <1>10, LeaveRemoves
<1>11. CASE HeadIsOurs(c) \/ EventsApplied(c) BY <1>11, LeaveEnds
<1>12. QED BY <1>5, <1>6, <1>7, <1>8, <1>9, <1>10, <1>11 DEF Runs

LEMMA LeaveStarted == Init => LeaveInv
<1>1. SUFFICES ASSUME Init, NEW c \in Contracts PROVE Opened(c) /\ Leaving(c)
  BY DEF LeaveInv
<1>2. queue[c] = <<>> /\ row[c] = "none" /\ \A u \in Users : scope[u] = "out"
  BY <1>1 DEF Init
<1>3. <<>> \in Seq(NoWait) OBVIOUS
<1>4. QED BY <1>2, <1>3, HasNothing, ClosedStart DEF Opened, Leaving

LEMMA LeaveKept ==
  ASSUME {"earlyNew", "forceLate", "resyncWatcher"} \cap Disturbances = {}
  PROVE  Inv /\ AtInv /\ KeysInv /\ NeedInv /\ LeaveInv /\ Inv' /\ KeysInv' /\ [Next]_vars
         => LeaveInv'
<1> SUFFICES ASSUME Inv, AtInv, KeysInv, NeedInv, LeaveInv, Inv', KeysInv', [Next]_vars,
                    NEW d \in Contracts
             PROVE  Opened(d)' /\ Leaving(d)'
  BY DEF LeaveInv
<1>1. /\ "earlyNew" \notin Disturbances /\ "forceLate" \notin Disturbances
      /\ "resyncWatcher" \notin Disturbances
  OBVIOUS
<1>2. CASE UNCHANGED vars
  <2>1. Opened(d) /\ Leaving(d) BY DEF LeaveInv
  <2>2. UNCHANGED <<row, sub, queue, refs, eph, scope, on, watch, orphan>>
    BY <1>2 DEF vars, refVars, watchVars, taskVars
  <2>3. QED BY <2>1, <2>2 DEF Opened, Leaving, Unneeded, Watched
<1>3. CASE Reload BY <1>3, OpenedReload, LeaveReload
<1>4. ASSUME NEW c \in Contracts, LetsGo(c) PROVE Opened(d)' /\ Leaving(d)'
  BY <1>1, <1>4, OpenedCalls, LeaveLetGo
<1>5. ASSUME NEW c \in Contracts, Asks(c) PROVE Opened(d)' /\ Leaving(d)'
  BY <1>1, <1>5, OpenedCalls, LeaveAsked
<1>6. ASSUME NEW c \in Contracts, Runs(c) PROVE Opened(d)' /\ Leaving(d)'
  <2>1. Opened(d)' BY <1>6, OpenedRuns
  <2>2. Leaving(d)'
    <3>1. CASE d = c BY <1>6, <3>1, LeaveOwn
    <3>2. CASE d # c BY <1>6, <3>2, LeaveOther
    <3>3. QED BY <3>1, <3>2
  <2>3. QED BY <2>1, <2>2
<1>7. QED BY <1>2, <1>3, <1>4, <1>5, <1>6, StepCases

\* Once the queues are empty, a contract nobody needs is neither subscribed nor kept
\* (release, contract/remove, removeImmediately, OP_KEY_DEL), unless it got a watch for a
\* contract that had gone; where no reference of a contract without a row is released
\* before its sync, and no sync is forced behind a removal or anew on a contract with
\* foreign keys.
THEOREM UnneededAlways ==
  ASSUME {"earlyNew", "forceLate", "resyncWatcher"} \cap Disturbances = {}
  PROVE  Spec => []UnneededIsRemoved
<1>1. Inv /\ NeedInv /\ LeaveInv => UnneededIsRemoved
  <2> SUFFICES ASSUME NeedInv, LeaveInv, AtRest, NEW c \in Contracts, Unneeded(c), ~orphan[c]
               PROVE  ~sub[c] /\ row[c] # "synced"
    BY DEF UnneededIsRemoved
  <2>1. ~Has(queue[c], {"remove"}, Contracts) BY HasNothing DEF AtRest
  <2>2. row[c] # "synced" BY <2>1 DEF LeaveInv, Leaving
  <2>3. QED BY <2>2 DEF NeedInv, Rowed
<1>2. Inv /\ AtInv /\ NeedInv /\ KeysInv /\ LeaveInv /\ [Next]_vars
      => Inv' /\ AtInv' /\ NeedInv' /\ KeysInv' /\ LeaveInv'
  BY Kept, NeedKept, KeysKept, LeaveKept
<1>3. QED
  BY <1>1, <1>2, Started, NeedStarted, KeysStarted, LeaveStarted, PTL DEF Spec

=============================================================================
