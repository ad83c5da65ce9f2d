--------------------------- MODULE PublishProofs ---------------------------
(***************************************************************************)
(* The publications of a client get into the log at most once, and in the  *)
(* order of its calls, whatever is refused or lost.                        *)
(*                                                                         *)
(* QueueInv is about the publish queues: they hold the publications under  *)
(* way in the order of their calls, and only the first of a queue has been *)
(* started.  LogInv is about the log and the requests; it needs QueueInv   *)
(* to know that nothing that was called later is sent before.              *)
(*                                                                         *)
(* HookInv follows the onprocessed hook of a publication, from its start   *)
(* to the event that comes back.  TriedInv follows the heights at which it *)
(* is tried: they do not decrease, and rise after a repeated one.          *)
(*                                                                         *)
(* FitInv is about what an event consists of: as long as the HEAD it       *)
(* builds on is the server's, it fits the keys there.  It needs to know    *)
(* what Run and Recreated do to a payload, part after part.                *)
(*                                                                         *)
(* DoneInv is about what an event was asked to do: a key that it is to end *)
(* and that has always been active is still in it (Carried).               *)
(*                                                                         *)
(* Last come the two halves of how publications end: TryingInv bounds what *)
(* each still has to do, which its steps take from; WaitInv is about who   *)
(* waits for whom, so that one of them has a step to take.                 *)
(***************************************************************************)
EXTENDS Publish, SequenceTheorems, WellFoundedInduction, TLAPS

Places == {"idle", "queued", "asking", "enter", "check", "made", "request", "sync", "done"}
Active == {"asking", "enter", "check", "made", "request", "sync"}
Over == {"idle", "done"}

OwnQueue(m) == queue[Owner[m]][Target[m]]
InLog(m) == \E i \in DOMAIN log[Target[m]] : log[Target[m]][i].msg = m
Rivals(m, n) ==
  Owner[m] = Owner[n] /\ Target[m] = Target[n] /\ 0 < turn[m] /\ turn[m] < turn[n]

QueueTypes ==
  /\ queue \in [Clients -> [Contracts -> Seq(Msgs)]]
  /\ pc \in [Msgs -> Places]
  /\ turn \in [Msgs -> Nat] /\ turns \in Nat

\* A publication under way is in its queue.
Queued == \A m \in Msgs :
  pc[m] \notin Over => \E i \in 1 .. Len(OwnQueue(m)) : OwnQueue(m)[i] = m

\* What a queue holds is its own and under way, and only the first has been started.
Holds == \A u \in Clients, c \in Contracts : \A i \in 1 .. Len(queue[u][c]) :
  LET m == queue[u][c][i]
  IN Owner[m] = u /\ Target[m] = c /\ pc[m] \notin Over /\ (i > 1 => pc[m] = "queued")

Sorted == \A u \in Clients, c \in Contracts : \A i, j \in 1 .. Len(queue[u][c]) :
  i < j => turn[queue[u][c][i]] < turn[queue[u][c][j]]

\* Calls are numbered.
Numbered ==
  /\ \A m \in Msgs : turn[m] <= turns
  /\ \A m \in Msgs : pc[m] = "idle" => turn[m] = 0
  /\ \A m \in Msgs : pc[m] \notin Over => turn[m] > 0
  /\ \A m, n \in Msgs : turn[m] = turn[n] /\ turn[m] > 0 => m = n

\* The event a hook publishes waits for the hook.
Befores == \A m \in Msgs :
  pc[m] \in {"idle", "queued"} /\ Before[m] # Nobody => pc[Before[m]] = "idle"

\* While a publication is not over, those called later in its queue have not started.
Fifo == \A m, n \in Msgs : Rivals(m, n) /\ pc[m] # "done" => pc[n] = "queued"

QueueInv == QueueTypes /\ Queued /\ Holds /\ Sorted /\ Numbered /\ Befores /\ Fifo

LogTypes ==
  /\ \E S : log \in [Contracts -> Seq(S)]
  /\ seen \in [Clients -> [Contracts -> Nat]]
  /\ entry = [m \in Msgs |-> entry[m]] /\ made = [m \in Msgs |-> made[m]]
  /\ request \in [Msgs -> {"none", "sent", "ok", "conflict", "error"}]
  /\ outcome \in [Msgs -> {"none", "published", "nothing", "omitted", "dropped", "failed"}]

\* Nothing builds on more than there is.
Bounded ==
  /\ \A u \in Clients, c \in Contracts : seen[u][c] <= Len(log[c])
  /\ \A m \in Msgs : entry[m].at \in Int /\ entry[m].at <= Len(log[Target[m]])
  /\ \A m \in Msgs : made[m].at \in Int /\ made[m].at <= Len(log[Target[m]])

\* Where an event is in the log, and where it cannot be.
Placed ==
  /\ \A m \in Msgs : pc[m] \notin {"request", "done"} => ~InLog(m) /\ request[m] = "none"
  /\ \A m \in Msgs : pc[m] = "request" => request[m] # "none"
  /\ \A m \in Msgs : request[m] \in {"sent", "conflict", "error"} => ~InLog(m)
  /\ \A m \in Msgs : request[m] = "ok" => InLog(m)
  /\ \A m \in Msgs : request[m] # "none" => turn[m] > 0
  /\ \A m \in Msgs : outcome[m] = "published" => InLog(m)

Unique == \A m \in Msgs : \A i, j \in DOMAIN log[Target[m]] :
  log[Target[m]][i].msg = m /\ log[Target[m]][j].msg = m => i = j

\* The events of a log are the server's or publications to it that were called.
Known == \A c \in Contracts : \A i \in DOMAIN log[c] :
  LET m == log[c][i].msg
  IN m = Nobody \/ (m \in Msgs /\ Target[m] = c /\ turn[m] > 0)

\* A request overtaken by a later one of its client builds on a HEAD that has gone.
Late == \A m, n \in Msgs :
  Rivals(m, n) /\ InLog(n) /\ request[m] = "sent" => entry[m].at < Len(log[Target[m]])

LogInv == LogTypes /\ Bounded /\ Placed /\ Unique /\ Known /\ Late /\ InCallOrder

Inv == QueueInv /\ LogInv

----------------------------------------------------------------------------
(* The publish queues.                                                      *)

\* One that is started is the first of its queue.
LEMMA First1 ==
  ASSUME QueueInv, NEW m \in Msgs, pc[m] \in Active
  PROVE  OwnQueue(m) # <<>> /\ Head(OwnQueue(m)) = m
<1>1. PICK i \in 1 .. Len(OwnQueue(m)) : OwnQueue(m)[i] = m
  BY DEF QueueInv, Queued, Active, Over
<1>2. Owner[m] \in Clients /\ Target[m] \in Contracts BY MsgsAssumption
<1>3. OwnQueue(m) \in Seq(Msgs) BY <1>2 DEF QueueInv, QueueTypes, OwnQueue
<1>4. i = 1 BY <1>1, <1>2, <1>3 DEF QueueInv, Holds, OwnQueue, Active
<1>5. QED BY <1>1, <1>3, <1>4

\* The first of a queue is nowhere else in a queue, and has no rival before it.
LEMMA HeadOnly ==
  ASSUME QueueInv, NEW m \in Msgs, OwnQueue(m) # <<>>, Head(OwnQueue(m)) = m
  PROVE  /\ \A u \in Clients, c \in Contracts : \A i \in 1 .. Len(queue[u][c]) :
              queue[u][c][i] = m => ~(i > 1)
         /\ \A n \in Msgs : Rivals(n, m) => pc[n] = "done"
<1> USE DEF QueueInv
<1>1. Owner[m] \in Clients /\ Target[m] \in Contracts BY MsgsAssumption
<1>2. OwnQueue(m) \in Seq(Msgs) BY <1>1 DEF QueueTypes, OwnQueue
<1>3. 1 \in 1 .. Len(OwnQueue(m)) /\ OwnQueue(m)[1] = m BY <1>2
<1>4. ASSUME NEW u \in Clients, NEW c \in Contracts, NEW i \in 1 .. Len(queue[u][c]),
             queue[u][c][i] = m
      PROVE  ~(i > 1)
  <2>1. u = Owner[m] /\ c = Target[m] BY <1>4 DEF Holds
  <2>2. QED BY <1>3, <1>4, <2>1 DEF Sorted, OwnQueue, QueueTypes
<1>5. ASSUME NEW n \in Msgs, Rivals(n, m), pc[n] # "done"
      PROVE  FALSE
  <2>1. pc[n] \notin Over BY <1>5 DEF Numbered, Rivals, Over, QueueTypes, Places
  <2>2. PICK i \in 1 .. Len(OwnQueue(n)) : OwnQueue(n)[i] = n BY <2>1 DEF Queued
  <2>3. OwnQueue(n) = OwnQueue(m) BY <1>5 DEF Rivals, OwnQueue
  <2>4. i = 1 \/ turn[m] < turn[n] BY <1>1, <1>2, <1>3, <2>2, <2>3 DEF Sorted, OwnQueue
  <2>5. QED BY <1>3, <1>5, <2>2, <2>3, <2>4 DEF Rivals, QueueTypes
<1>6. QED BY <1>4, <1>5

\* A step of one that is the first of its queue, to a place where it is started.
LEMMA Advance ==
  ASSUME QueueInv, NEW m \in Msgs, OwnQueue(m) # <<>>, Head(OwnQueue(m)) = m,
         pc[m] \notin Over,
         NEW p \in Active, pc' = [pc EXCEPT ![m] = p], UNCHANGED <<queue, turnVars>>
  PROVE  QueueInv'
<1> USE DEF QueueInv, turnVars
<1>1. Owner[m] \in Clients /\ Target[m] \in Contracts BY MsgsAssumption
<1>2. OwnQueue(m) \in Seq(Msgs) BY <1>1 DEF QueueTypes, OwnQueue
<1>3. 1 \in 1 .. Len(OwnQueue(m)) /\ OwnQueue(m)[1] = m BY <1>2
<1>4. QueueTypes' BY DEF QueueTypes, Places, Active
<1>5. \A n \in Msgs : pc'[n] = IF n = m THEN p ELSE pc[n] BY DEF QueueTypes
<1>6. Queued' BY <1>2, <1>3, <1>5 DEF Queued, OwnQueue
<1>7. Holds'
  <2> SUFFICES ASSUME NEW u \in Clients, NEW c \in Contracts, NEW i \in 1 .. Len(queue[u][c])
               PROVE  LET n == queue[u][c][i]
                      IN /\ Owner[n] = u /\ Target[n] = c
                         /\ pc'[n] \notin Over /\ (i > 1 => pc'[n] = "queued")
    BY DEF Holds
  <2>1. queue[u][c] \in Seq(Msgs) /\ queue[u][c][i] \in Msgs BY DEF QueueTypes
  <2>2. CASE queue[u][c][i] = m
    <3>1. u = Owner[m] /\ c = Target[m] BY <2>2 DEF Holds
    <3>2. ~(i > 1) BY <2>2, HeadOnly
    <3>3. QED BY <1>5, <2>2, <3>1, <3>2 DEF Active, Over
  <2>3. CASE queue[u][c][i] # m BY <1>5, <2>1, <2>3 DEF Holds
  <2>4. QED BY <2>2, <2>3
<1>8. Sorted' /\ Numbered' BY <1>5 DEF Sorted, Numbered, Active, Over
<1>9. Befores'
  BY <1>5, MsgsAssumption DEF Befores, Active, Over
<1>10. Fifo'
  <2> SUFFICES ASSUME NEW n \in Msgs, NEW k \in Msgs, Rivals(n, k), pc'[n] # "done"
               PROVE  pc'[k] = "queued"
    BY DEF Fifo, Rivals
  <2>1. pc[n] # "done" BY <1>5 DEF Over
  <2>2. pc[k] = "queued" BY <2>1 DEF Fifo
  <2>3. k # m BY <2>1, HeadOnly
  <2>4. QED BY <1>5, <2>2, <2>3
<1>11. QED BY <1>4, <1>6, <1>7, <1>8, <1>9, <1>10

\* The first of a queue is over.
LEMMA SettleStep ==
  ASSUME QueueInv, NEW m \in Msgs, OwnQueue(m) # <<>>, Head(OwnQueue(m)) = m,
         pc[m] \notin Over, NEW how, Settle(m, how), UNCHANGED turnVars
  PROVE  QueueInv'
<1> USE DEF QueueInv, turnVars
<1>1. Owner[m] \in Clients /\ Target[m] \in Contracts BY MsgsAssumption
<1>2. OwnQueue(m) \in Seq(Msgs) BY <1>1 DEF QueueTypes, OwnQueue
<1>3. 1 \in 1 .. Len(OwnQueue(m)) /\ OwnQueue(m)[1] = m BY <1>2
<1>4. QueueTypes' BY <1>1, <1>2 DEF QueueTypes, Places, Settle, OwnQueue
<1>5. \A n \in Msgs : pc'[n] = IF n = m THEN "done" ELSE pc[n] BY DEF QueueTypes, Settle
<1>6. \A u \in Clients, c \in Contracts :
        queue'[u][c] = IF u = Owner[m] /\ c = Target[m] THEN Tail(OwnQueue(m)) ELSE queue[u][c]
  BY <1>1 DEF QueueTypes, Settle, OwnQueue
<1>7. /\ Len(Tail(OwnQueue(m))) = Len(OwnQueue(m)) - 1
      /\ \A i \in 1 .. Len(OwnQueue(m)) - 1 : Tail(OwnQueue(m))[i] = OwnQueue(m)[i + 1]
  BY <1>2
<1>8. Queued'
  <2> SUFFICES ASSUME NEW n \in Msgs, pc'[n] \notin Over
               PROVE  \E i \in 1 .. Len(OwnQueue(n)') : OwnQueue(n)'[i] = n
    BY DEF Queued
  <2>1. n # m /\ pc[n] \notin Over BY <1>5 DEF Over
  <2>2. PICK i \in 1 .. Len(OwnQueue(n)) : OwnQueue(n)[i] = n BY <2>1 DEF Queued
  <2>3. Owner[n] \in Clients /\ Target[n] \in Contracts BY MsgsAssumption
  <2>4. CASE OwnQueue(n)' = OwnQueue(n) BY <2>2, <2>4
  <2>5. CASE Owner[n] = Owner[m] /\ Target[n] = Target[m]
    <3>1. OwnQueue(n) = OwnQueue(m) BY <2>5 DEF OwnQueue
    <3>2. OwnQueue(n)' = Tail(OwnQueue(m)) BY <1>6, <2>3, <2>5 DEF OwnQueue
    <3>3. Len(OwnQueue(m)) \in Nat /\ i \in Nat /\ i # 1 BY <1>2, <1>3, <2>1, <2>2, <3>1
    <3>4. i - 1 \in 1 .. Len(OwnQueue(m)) - 1 /\ (i - 1) + 1 = i BY <2>2, <3>1, <3>3
    <3>5. Tail(OwnQueue(m))[i - 1] = n BY <1>7, <2>2, <3>1, <3>4
    <3>6. QED BY <1>7, <3>2, <3>4, <3>5
  <2>6. QED BY <1>6, <2>3, <2>4, <2>5 DEF OwnQueue
<1>9. Holds'
  <2> SUFFICES ASSUME NEW u \in Clients, NEW c \in Contracts, NEW i \in 1 .. Len(queue'[u][c])
               PROVE  LET n == queue'[u][c][i]
                      IN /\ Owner[n] = u /\ Target[n] = c
                         /\ pc'[n] \notin Over /\ (i > 1 => pc'[n] = "queued")
    BY DEF Holds
  <2>0. queue[u][c] \in Seq(Msgs) BY DEF QueueTypes
  <2>1. CASE u = Owner[m] /\ c = Target[m]
    <3>1. queue[u][c] = OwnQueue(m) /\ queue'[u][c] = Tail(OwnQueue(m))
      BY <1>6, <2>1 DEF OwnQueue
    <3>2. Len(OwnQueue(m)) \in Nat BY <1>2
    <3>3. /\ i + 1 \in 1 .. Len(OwnQueue(m)) /\ i + 1 > 1 /\ 1 < i + 1
          /\ queue'[u][c][i] = OwnQueue(m)[i + 1]
      BY <1>7, <3>1, <3>2
    <3>4. OwnQueue(m)[i + 1] \in Msgs BY <1>2, <3>3
    <3>5. turn[m] < turn[OwnQueue(m)[i + 1]]
      BY <1>3, <3>1, <3>3 DEF Sorted
    <3>6. OwnQueue(m)[i + 1] # m BY <3>4, <3>5 DEF QueueTypes
    <3>7. LET n == OwnQueue(m)[i + 1]
          IN Owner[n] = u /\ Target[n] = c /\ pc[n] = "queued"
      BY <3>1, <3>3 DEF Holds
    <3>8. QED BY <1>5, <3>3, <3>4, <3>6, <3>7 DEF Over
  <2>2. CASE ~(u = Owner[m] /\ c = Target[m])
    <3>1. queue'[u][c] = queue[u][c] BY <1>6, <2>2
    <3>2. queue[u][c][i] \in Msgs BY <2>0, <3>1
    <3>3. queue[u][c][i] # m BY <2>2, <3>1 DEF Holds
    <3>4. QED BY <1>5, <3>1, <3>2, <3>3 DEF Holds
  <2>3. QED BY <2>1, <2>2
<1>10. Sorted'
  <2> SUFFICES ASSUME NEW u \in Clients, NEW c \in Contracts,
                      NEW i \in 1 .. Len(queue'[u][c]), NEW j \in 1 .. Len(queue'[u][c]), i < j
               PROVE  turn[queue'[u][c][i]] < turn[queue'[u][c][j]]
    BY DEF Sorted
  <2>1. CASE u = Owner[m] /\ c = Target[m]
    <3>1. queue[u][c] = OwnQueue(m) /\ queue'[u][c] = Tail(OwnQueue(m))
      BY <1>6, <2>1 DEF OwnQueue
    <3>2. Len(OwnQueue(m)) \in Nat BY <1>2
    <3>3. /\ i + 1 \in 1 .. Len(OwnQueue(m)) /\ j + 1 \in 1 .. Len(OwnQueue(m)) /\ i + 1 < j + 1
          /\ queue'[u][c][i] = OwnQueue(m)[i + 1] /\ queue'[u][c][j] = OwnQueue(m)[j + 1]
      BY <1>7, <3>1, <3>2
    <3>4. QED BY <3>1, <3>3 DEF Sorted
  <2>2. CASE ~(u = Owner[m] /\ c = Target[m]) BY <1>6, <2>2 DEF Sorted
  <2>3. QED BY <2>1, <2>2
<1>11. Numbered' /\ Befores'
  <2>1. Numbered' BY <1>5 DEF Numbered, Over
  <2>2. Befores'
    <3> SUFFICES ASSUME NEW n \in Msgs, pc'[n] \in {"idle", "queued"}, Before[n] # Nobody
                 PROVE  pc'[Before[n]] = "idle"
      BY DEF Befores
    <3>1. Before[n] \in Msgs BY MsgsAssumption
    <3>2. pc[n] \in {"idle", "queued"} BY <1>5
    <3>3. pc[Before[n]] = "idle" BY <3>2 DEF Befores
    <3>4. QED BY <1>5, <3>1, <3>3 DEF Over
  <2>3. QED BY <2>1, <2>2
<1>12. Fifo'
  <2> SUFFICES ASSUME NEW n \in Msgs, NEW k \in Msgs, Rivals(n, k), pc'[n] # "done"
               PROVE  pc'[k] = "queued"
    BY DEF Fifo, Rivals
  <2>1. pc[n] # "done" /\ n # m BY <1>5
  <2>2. pc[k] = "queued" BY <2>1 DEF Fifo
  <2>3. k # m BY <2>1, HeadOnly
  <2>4. QED BY <1>5, <2>2, <2>3
<1>13. QED BY <1>4, <1>8, <1>9, <1>10, <1>11, <1>12

\* A call joins its queue: the application's, or that of the hook of h, which is the
\* first of its own.
LEMMA EnqueueStep ==
  ASSUME QueueInv, NEW m \in Msgs, NEW parts, Enqueued(m, parts), pc[m] = "idle",
         NEW h \in Msgs \union {Nobody}, h # m,
         h # Nobody => OwnQueue(h) # <<>> /\ Head(OwnQueue(h)) = h /\ pc[h] = "queued",
         pc' \in [Msgs -> Places],
         \A n \in Msgs : pc'[n] = IF n = m THEN "queued" ELSE IF n = h THEN "asking" ELSE pc[n],
         \A b \in Msgs : Before[b] = m => b = h
  PROVE  QueueInv'
<1> USE DEF QueueInv
<1>1. Owner[m] \in Clients /\ Target[m] \in Contracts BY MsgsAssumption
<1>2. OwnQueue(m) \in Seq(Msgs) BY <1>1 DEF QueueTypes, OwnQueue
<1>3. \A n \in Msgs :
        pc'[n] = IF n = m THEN "queued" ELSE IF n = h THEN "asking" ELSE pc[n]
  OBVIOUS
<1>b. \A n \in Msgs : n = h => pc[n] = "queued" BY MsgsAssumption
<1>a. /\ \A u \in Clients, c \in Contracts : \A i \in 1 .. Len(queue[u][c]) :
           queue[u][c][i] = h /\ h \in Msgs => ~(i > 1)
      /\ \A n \in Msgs : Rivals(n, h) /\ h \in Msgs => pc[n] = "done"
  <2>1. CASE h \in Msgs
    <3>1. OwnQueue(h) # <<>> /\ Head(OwnQueue(h)) = h BY <2>1, MsgsAssumption
    <3>2. QED BY <2>1, <3>1, HeadOnly
  <2>2. CASE h \notin Msgs BY <2>2
  <2>3. QED BY <2>1, <2>2
<1>4. \A n \in Msgs : turn'[n] = IF n = m THEN turns + 1 ELSE turn[n]
  BY DEF QueueTypes, Enqueued
<1>5. turns \in Nat /\ turns' = turns + 1 BY DEF QueueTypes, Enqueued
<1>6. \A u \in Clients, c \in Contracts :
        queue'[u][c] = IF u = Owner[m] /\ c = Target[m] THEN Append(OwnQueue(m), m)
                       ELSE queue[u][c]
  BY <1>1 DEF QueueTypes, Enqueued, OwnQueue
<1>7. /\ Len(OwnQueue(m)) \in Nat
      /\ Len(Append(OwnQueue(m), m)) = Len(OwnQueue(m)) + 1
      /\ \A i \in 1 .. Len(OwnQueue(m)) : Append(OwnQueue(m), m)[i] = OwnQueue(m)[i]
      /\ Append(OwnQueue(m), m)[Len(OwnQueue(m)) + 1] = m
  BY <1>2
<1>8. QueueTypes'
  <2>1. queue' \in [Clients -> [Contracts -> Seq(Msgs)]]
    BY <1>1, <1>2 DEF QueueTypes, Enqueued, OwnQueue
  <2>2. turn' \in [Msgs -> Nat] /\ turns' \in Nat BY <1>5 DEF QueueTypes, Enqueued
  <2>3. QED BY <2>1, <2>2 DEF QueueTypes
<1>9. \A u \in Clients, c \in Contracts : \A i \in 1 .. Len(queue'[u][c]) :
        \/ /\ i \in 1 .. Len(queue[u][c]) /\ queue'[u][c][i] = queue[u][c][i]
           /\ queue'[u][c][i] \in Msgs /\ queue'[u][c][i] # m
        \/ /\ u = Owner[m] /\ c = Target[m] /\ i = Len(queue[u][c]) + 1
           /\ queue'[u][c][i] = m
  <2> SUFFICES ASSUME NEW u \in Clients, NEW c \in Contracts, NEW i \in 1 .. Len(queue'[u][c])
               PROVE  \/ /\ i \in 1 .. Len(queue[u][c]) /\ queue'[u][c][i] = queue[u][c][i]
                         /\ queue'[u][c][i] \in Msgs /\ queue'[u][c][i] # m
                      \/ /\ u = Owner[m] /\ c = Target[m] /\ i = Len(queue[u][c]) + 1
                         /\ queue'[u][c][i] = m
    OBVIOUS
  <2>1. queue[u][c] \in Seq(Msgs) BY DEF QueueTypes
  <2>2. \A j \in 1 .. Len(queue[u][c]) : queue[u][c][j] \in Msgs /\ queue[u][c][j] # m
    BY <2>1 DEF Holds, Over
  <2>3. CASE u = Owner[m] /\ c = Target[m]
    <3>1. queue[u][c] = OwnQueue(m) /\ queue'[u][c] = Append(OwnQueue(m), m)
      BY <1>6, <2>3 DEF OwnQueue
    <3>2. i \in 1 .. Len(OwnQueue(m)) \/ i = Len(OwnQueue(m)) + 1 BY <1>7, <3>1
    <3>3. QED BY <1>7, <2>2, <2>3, <3>1, <3>2
  <2>4. CASE ~(u = Owner[m] /\ c = Target[m]) BY <1>6, <2>2, <2>4
  <2>5. QED BY <2>3, <2>4
<1>10. Queued'
  <2> SUFFICES ASSUME NEW n \in Msgs, pc'[n] \notin Over
               PROVE  \E i \in 1 .. Len(OwnQueue(n)') : OwnQueue(n)'[i] = n
    BY DEF Queued
  <2>1. Owner[n] \in Clients /\ Target[n] \in Contracts BY MsgsAssumption
  <2>2. CASE n = m
    <3>1. OwnQueue(n)' = Append(OwnQueue(m), m) BY <1>6, <2>1, <2>2 DEF OwnQueue
    <3>2. Len(OwnQueue(m)) + 1 \in 1 .. Len(Append(OwnQueue(m), m)) BY <1>7
    <3>3. QED BY <1>7, <2>2, <3>1, <3>2
  <2>3. CASE n # m
    <3>1. PICK i \in 1 .. Len(OwnQueue(n)) : OwnQueue(n)[i] = n
      BY <1>b, <1>3, <2>3 DEF Queued, Over
    <3>2. CASE OwnQueue(n)' = OwnQueue(n) BY <3>1, <3>2
    <3>3. CASE OwnQueue(n) = OwnQueue(m) /\ OwnQueue(n)' = Append(OwnQueue(m), m)
      <4>1. i \in 1 .. Len(OwnQueue(n)') BY <1>7, <3>1, <3>3
      <4>2. QED BY <1>7, <3>1, <3>3, <4>1
    <3>4. QED BY <1>6, <2>1, <3>2, <3>3 DEF OwnQueue
  <2>4. QED BY <2>2, <2>3
<1>11. Holds'
  <2> SUFFICES ASSUME NEW u \in Clients, NEW c \in Contracts, NEW i \in 1 .. Len(queue'[u][c])
               PROVE  LET n == queue'[u][c][i]
                      IN /\ Owner[n] = u /\ Target[n] = c
                         /\ pc'[n] \notin Over /\ (i > 1 => pc'[n] = "queued")
    BY DEF Holds
  <2>1. CASE /\ i \in 1 .. Len(queue[u][c]) /\ queue'[u][c][i] = queue[u][c][i]
             /\ queue'[u][c][i] \in Msgs /\ queue'[u][c][i] # m
    <3>1. queue[u][c][i] = h => ~(i > 1) BY <1>a, <2>1
    <3>2. QED BY <1>3, <2>1, <3>1 DEF Holds, Over
  <2>2. CASE u = Owner[m] /\ c = Target[m] /\ queue'[u][c][i] = m
    BY <1>3, <2>2 DEF Over
  <2>3. QED BY <1>9, <2>1, <2>2
<1>12. Sorted'
  <2> SUFFICES ASSUME NEW u \in Clients, NEW c \in Contracts,
                      NEW i \in 1 .. Len(queue'[u][c]), NEW j \in 1 .. Len(queue'[u][c]), i < j
               PROVE  turn'[queue'[u][c][i]] < turn'[queue'[u][c][j]]
    BY DEF Sorted
  <2>1. queue[u][c] \in Seq(Msgs) /\ Len(queue[u][c]) \in Nat BY DEF QueueTypes
  <2>2. Len(queue'[u][c]) \in Nat BY <1>8 DEF QueueTypes
  <2>3. /\ i \in 1 .. Len(queue[u][c]) /\ queue'[u][c][i] = queue[u][c][i]
        /\ queue'[u][c][i] \in Msgs /\ queue'[u][c][i] # m
    <3>1. CASE i = Len(queue[u][c]) + 1
      <4>1. j \in 1 .. Len(queue[u][c]) \/ j = Len(queue[u][c]) + 1 BY <1>9
      <4>2. QED BY <2>1, <2>2, <3>1, <4>1
    <3>2. QED BY <1>9, <3>1
  <2>4. CASE /\ j \in 1 .. Len(queue[u][c]) /\ queue'[u][c][j] = queue[u][c][j]
             /\ queue'[u][c][j] \in Msgs /\ queue'[u][c][j] # m
    BY <1>4, <2>3, <2>4 DEF Sorted
  <2>5. CASE queue'[u][c][j] = m
    <3>1. turn[queue'[u][c][i]] \in Nat /\ turn[queue'[u][c][i]] <= turns
      BY <2>3 DEF Numbered, QueueTypes
    <3>2. turn[queue'[u][c][i]] < turns + 1 BY <1>5, <3>1
    <3>3. QED BY <1>4, <2>3, <2>5, <3>2
  <2>6. QED BY <1>9, <2>4, <2>5
<1>13. Numbered'
  <2>1. \A n \in Msgs : turn[n] \in Nat /\ turn[n] <= turns BY DEF Numbered, QueueTypes
  <2>2. \A n \in Msgs : turn'[n] <= turns' BY <1>4, <1>5, <2>1
  <2>3. \A n \in Msgs : pc'[n] = "idle" => turn'[n] = 0 BY <1>3, <1>4 DEF Numbered
  <2>4. \A n \in Msgs : pc'[n] \notin Over => turn'[n] > 0 BY <1>b, <1>3, <1>4, <1>5 DEF Numbered, Over
  <2>5. \A n, k \in Msgs : turn'[n] = turn'[k] /\ turn'[n] > 0 => n = k
    BY <1>4, <1>5, <2>1 DEF Numbered
  <2>6. QED BY <2>2, <2>3, <2>4, <2>5 DEF Numbered
<1>14. Befores'
  <2> SUFFICES ASSUME NEW n \in Msgs, pc'[n] \in {"idle", "queued"}, Before[n] # Nobody
               PROVE  pc'[Before[n]] = "idle"
    BY DEF Befores
  <2>1. Before[n] \in Msgs BY MsgsAssumption
  <2>2. n # h /\ (pc[n] \in {"idle", "queued"}) BY <1>3
  <2>3. Before[n] # m /\ pc[Before[n]] = "idle" BY <2>2 DEF Befores
  <2>4. QED BY <1>b, <1>3, <2>1, <2>3
<1>15. Fifo'
  <2> SUFFICES ASSUME NEW n \in Msgs, NEW k \in Msgs, Rivals(n, k)', pc'[n] # "done"
               PROVE  pc'[k] = "queued"
    BY DEF Fifo
  <2>1. CASE k = m BY <1>3, <2>1
  <2>2. CASE k # m /\ n = m
    <3>1. turn'[n] = turns + 1 /\ turn'[k] = turn[k] BY <1>4, <2>2
    <3>2. turn[k] \in Nat /\ turn[k] <= turns BY DEF Numbered, QueueTypes
    <3>3. QED BY <1>5, <3>1, <3>2 DEF Rivals
  <2>3. CASE k # m /\ n # m
    <3>1. Rivals(n, k) /\ pc[n] # "done" BY <1>b, <1>3, <1>4, <2>3 DEF Rivals
    <3>2. k # h BY <1>a, <3>1
    <3>3. QED BY <1>3, <2>3, <3>1, <3>2 DEF Fifo
  <2>4. QED BY <2>1, <2>2, <2>3
<1>16. QED BY <1>8, <1>10, <1>11, <1>12, <1>13, <1>14, <1>15

----------------------------------------------------------------------------
(* The log.                                                                 *)

\* What Append does, whatever the elements are.
LEMMA Appended ==
  ASSUME NEW S, NEW s \in Seq(S), NEW e
  PROVE  /\ Append(s, e) \in Seq(S \union {e})
         /\ Len(s) \in Nat /\ Len(Append(s, e)) = Len(s) + 1
         /\ DOMAIN s = 1 .. Len(s) /\ DOMAIN Append(s, e) = 1 .. Len(s) + 1
         /\ \A i \in 1 .. Len(s) : Append(s, e)[i] = s[i]
         /\ Append(s, e)[Len(s) + 1] = e
<1>1. s \in Seq(S \union {e})
  <2>1. Len(s) \in Nat /\ s \in [1 .. Len(s) -> S] OBVIOUS
  <2>2. s \in [1 .. Len(s) -> S \union {e}] BY <2>1
  <2>3. QED BY <2>1, <2>2, SeqDef
<1>2. QED BY <1>1

\* A step that appends nothing: only what is sent for the first time could be late.
LEMMA LogQuiet ==
  ASSUME LogInv, UNCHANGED log, LogTypes', Bounded', Placed',
         \A n \in Msgs : turn'[n] = turn[n] \/ (~InLog(n) /\ request'[n] # "sent"),
         \A n \in Msgs : request'[n] = "sent" =>
           \/ request[n] = "sent" /\ entry'[n].at = entry[n].at
           \/ \A k \in Msgs : Rivals(n, k) => ~InLog(k)
  PROVE  LogInv'
<1> USE DEF LogInv
<1>1. \A n \in Msgs : InLog(n)' <=> InLog(n) BY DEF InLog
<1>2. Unique' BY DEF Unique
<1>3. \A c \in Contracts : \A i \in DOMAIN log[c] :
        LET m == log[c][i].msg
        IN m = Nobody \/ (m \in Msgs /\ Target[m] = c /\ turn[m] > 0 /\ turn'[m] = turn[m])
  BY DEF Known, InLog
<1>4. Known' BY <1>3 DEF Known
<1>5. InCallOrder' BY <1>3 DEF InCallOrder
<1>6. Late'
  <2> SUFFICES ASSUME NEW m \in Msgs, NEW n \in Msgs, Rivals(m, n)', InLog(n)',
                      request'[m] = "sent"
               PROVE  entry'[m].at < Len(log'[Target[m]])
    BY DEF Late
  <2>1. InLog(n) BY <1>1
  <2>2. Rivals(m, n) BY <2>1 DEF Rivals
  <2>3. QED BY <2>1, <2>2 DEF Late
<1>7. QED BY <1>2, <1>4, <1>5, <1>6

\* The server takes an event.
LEMMA ServeLog ==
  ASSUME QueueInv, LogInv, NEW m \in Msgs, NEW e, e.msg = m,
         request[m] = "sent", entry[m].at = Len(log[Target[m]]),
         log' = [log EXCEPT ![Target[m]] = Append(@, e)],
         request' = [request EXCEPT ![m] = "ok"],
         UNCHANGED <<seen, pc, ownVars, outcome, turnVars>>
  PROVE  LogInv'
<1> USE DEF LogInv
<1>1. Target[m] \in Contracts BY MsgsAssumption
<1>2. PICK S : log \in [Contracts -> Seq(S)] BY DEF LogTypes
<1> DEFINE t == Target[m]
           L == Len(log[t])
<1>3. /\ log'[t] \in Seq(S \union {e})
      /\ L \in Nat /\ Len(log'[t]) = L + 1
      /\ DOMAIN log[t] = 1 .. L /\ DOMAIN log'[t] = 1 .. L + 1
      /\ \A i \in 1 .. L : log'[t][i] = log[t][i]
      /\ log'[t][L + 1] = e
  <2>1. log[t] \in Seq(S) /\ log'[t] = Append(log[t], e) BY <1>1, <1>2
  <2>2. QED BY <2>1, Appended
<1>4. \A c \in Contracts : c # t => log'[c] = log[c] BY <1>1, <1>2
<1>5. log' \in [Contracts -> Seq(S \union {e})]
  <2>1. ASSUME NEW c \in Contracts PROVE log'[c] \in Seq(S \union {e})
    <3>1. CASE c = t BY <1>3, <3>1
    <3>2. CASE c # t
      <4>1. log[c] \in Seq(S) BY <1>2
      <4>2. Len(log[c]) \in Nat /\ log[c] \in [1 .. Len(log[c]) -> S \union {e}] BY <4>1
      <4>3. QED BY <1>4, <3>2, <4>2, SeqDef
    <3>3. QED BY <3>1, <3>2
  <2>2. QED BY <1>2, <2>1
<1>6. LogTypes' BY <1>5 DEF LogTypes, ownVars
<1>7. \A c \in Contracts : Len(log[c]) \in Nat /\ Len(log[c]) <= Len(log'[c])
  BY <1>2, <1>3, <1>4
<1>8. Bounded'
  <2>1. \A u \in Clients, c \in Contracts : seen'[u][c] <= Len(log'[c])
    BY <1>5, <1>7 DEF Bounded, LogTypes
  <2>2. \A n \in Msgs : Target[n] \in Contracts BY MsgsAssumption
  <2>3. QED BY <1>5, <1>7, <2>1, <2>2 DEF Bounded, ownVars
<1> HIDE DEF t, L
<1>9. \A n \in Msgs : InLog(n)' <=> (InLog(n) \/ n = m)
  <2> SUFFICES ASSUME NEW n \in Msgs PROVE InLog(n)' <=> (InLog(n) \/ n = m) OBVIOUS
  <2>1. Target[n] \in Contracts BY MsgsAssumption
  <2>2. CASE Target[n] # t BY <1>4, <2>1, <2>2 DEF InLog, t
  <2>3. CASE Target[n] = t
    <3>1. InLog(n)' <=> \E i \in 1 .. L + 1 : log'[t][i].msg = n BY <1>3, <2>3 DEF InLog
    <3>2. InLog(n) <=> \E i \in 1 .. L : log[t][i].msg = n BY <1>3, <2>3 DEF InLog
    <3>3. \A i : i \in 1 .. L + 1 <=> i \in 1 .. L \/ i = L + 1 BY <1>3
    <3>4. QED BY <1>3, <3>1, <3>2, <3>3
  <2>4. QED BY <2>2, <2>3
<1>10. ~InLog(m) /\ turn[m] > 0 BY DEF Placed
<1>11. \A n \in Msgs : request'[n] = IF n = m THEN "ok" ELSE request[n] BY DEF LogTypes
<1>12. Placed'
  <2>1. pc[m] \in {"request", "done"} BY DEF Placed
  <2>2. QED BY <1>9, <1>10, <1>11, <2>1 DEF Placed, turnVars
<1>13. \A i \in 1 .. L : log[t][i].msg # m BY <1>3, <1>10 DEF InLog, t
<1>14. Unique'
  <2> SUFFICES ASSUME NEW n \in Msgs, NEW i \in DOMAIN log'[Target[n]],
                      NEW j \in DOMAIN log'[Target[n]],
                      log'[Target[n]][i].msg = n, log'[Target[n]][j].msg = n
               PROVE  i = j
    BY DEF Unique
  <2>1. Target[n] \in Contracts BY MsgsAssumption
  <2>2. CASE Target[n] # t BY <1>4, <2>1, <2>2 DEF Unique
  <2>3. CASE Target[n] = t
    <3>1. (i \in 1 .. L \/ i = L + 1) /\ (j \in 1 .. L \/ j = L + 1) BY <1>3, <2>3
    <3>2. CASE n = m BY <1>3, <1>13, <2>3, <3>1, <3>2
    <3>3. CASE n # m
      <4>1. i \in 1 .. L /\ j \in 1 .. L BY <1>3, <2>3, <3>1, <3>3
      <4>2. log[Target[n]][i].msg = n /\ log[Target[n]][j].msg = n BY <1>3, <2>3, <4>1
      <4>3. i \in DOMAIN log[Target[n]] /\ j \in DOMAIN log[Target[n]] BY <1>3, <2>3, <4>1
      <4>4. QED BY <4>2, <4>3 DEF Unique
    <3>4. QED BY <3>2, <3>3
  <2>4. QED BY <2>2, <2>3
<1>15. Known'
  <2> SUFFICES ASSUME NEW c \in Contracts, NEW i \in DOMAIN log'[c]
               PROVE  LET n == log'[c][i].msg
                      IN n = Nobody \/ (n \in Msgs /\ Target[n] = c /\ turn[n] > 0)
    BY DEF Known, turnVars
  <2>1. CASE c # t BY <1>4, <2>1 DEF Known
  <2>2. CASE c = t
    <3>1. i \in 1 .. L \/ i = L + 1 BY <1>3, <2>2
    <3>2. CASE i \in 1 .. L BY <1>3, <2>2, <3>2 DEF Known
    <3>3. CASE i = L + 1 BY <1>3, <1>10, <2>2, <3>3 DEF t
    <3>4. QED BY <3>1, <3>2, <3>3
  <2>3. QED BY <2>1, <2>2
<1>16. Late'
  <2> SUFFICES ASSUME NEW k \in Msgs, NEW n \in Msgs, Rivals(k, n), InLog(n)',
                      request'[k] = "sent"
               PROVE  entry[k].at < Len(log'[Target[k]])
    BY DEF Late, Rivals, turnVars, ownVars
  <2>1. request[k] = "sent" /\ Target[k] = Target[n] BY <1>11 DEF Rivals
  <2>2. /\ entry[k].at \in Int /\ entry[k].at <= Len(log[Target[k]])
        /\ Target[k] \in Contracts
    BY MsgsAssumption DEF Bounded
  <2>3. CASE n = m
    <3>1. Target[k] = t BY <2>1, <2>3 DEF t
    <3>2. QED BY <1>3, <2>2, <3>1 DEF L
  <2>4. CASE InLog(n)
    <3>1. entry[k].at < Len(log[Target[k]]) BY <2>1, <2>4 DEF Late
    <3>2. Len(log'[Target[k]]) \in Nat BY <1>5, <2>2
    <3>3. QED BY <1>7, <2>2, <3>1, <3>2
  <2>5. QED BY <1>9, <2>3, <2>4
<1>17. InCallOrder'
  <2> SUFFICES ASSUME NEW c \in Contracts, NEW i \in DOMAIN log'[c], NEW j \in DOMAIN log'[c],
                      i < j, log'[c][i].msg # Nobody, log'[c][j].msg # Nobody,
                      Owner[log'[c][i].msg] = Owner[log'[c][j].msg]
               PROVE  turn[log'[c][i].msg] < turn[log'[c][j].msg]
    BY DEF InCallOrder, turnVars
  <2>1. CASE c # t BY <1>4, <2>1 DEF InCallOrder
  <2>2. CASE c = t /\ j \in 1 .. L
    <3>1. i \in 1 .. L BY <1>3, <2>2
    <3>2. log'[c][i] = log[c][i] /\ log'[c][j] = log[c][j] BY <1>3, <2>2, <3>1
    <3>3. i \in DOMAIN log[c] /\ j \in DOMAIN log[c] BY <1>3, <2>2, <3>1
    <3>4. QED BY <3>2, <3>3 DEF InCallOrder
  <2>3. CASE c = t /\ j = L + 1
    <3>1. i \in 1 .. L /\ i \in DOMAIN log[t] BY <1>3, <2>3
    <3> DEFINE k == log[t][i].msg
    <3>2. log'[c][i].msg = k /\ log'[c][j].msg = m BY <1>3, <2>3, <3>1
    <3>3. k \in Msgs /\ Target[k] = t BY <1>1, <2>3, <3>1, <3>2 DEF Known, t
    <3>4. k # m /\ InLog(k) BY <1>13, <3>1, <3>3 DEF InLog
    <3> HIDE DEF k
    <3>5. turn[k] # turn[m] BY <1>10, <3>3, <3>4 DEF QueueInv, Numbered
    <3>6. ~Rivals(m, k)
      <4>1. L \in Nat /\ ~(L < L) BY <1>3
      <4>2. QED BY <3>3, <3>4, <4>1 DEF Late, L, t
    <3>7. turn[k] \in Nat /\ turn[m] \in Nat BY <3>3 DEF QueueInv, QueueTypes
    <3>8. ~(turn[m] < turn[k]) BY <1>10, <3>2, <3>3, <3>6 DEF Rivals, t
    <3>9. QED BY <3>2, <3>5, <3>7, <3>8
  <2>4. QED BY <1>3, <2>1, <2>2, <2>3
<1>18. QED BY <1>6, <1>8, <1>12, <1>14, <1>15, <1>16, <1>17

\* A publication is over: published, if it is in the log.
LEMMA SettleLog ==
  ASSUME QueueInv, LogInv, NEW m \in Msgs,
         NEW how \in {"published", "omitted", "dropped", "failed"}, Settle(m, how),
         how = "published" => InLog(m),
         UNCHANGED <<log, seen, entry, made, turnVars>>,
         request' = request \/ request' = [request EXCEPT ![m] = "none"]
  PROVE  LogInv'
<1>1. \A n \in Msgs : pc'[n] = IF n = m THEN "done" ELSE pc[n]
  BY DEF Settle, QueueInv, QueueTypes
<1>2. \A n \in Msgs : outcome'[n] = IF n = m THEN how ELSE outcome[n]
  BY DEF Settle, LogInv, LogTypes
<1>3. \A n \in Msgs : request'[n] = request[n] \/ request'[n] = "none"
  BY DEF LogInv, LogTypes
<1>4. LogTypes' BY DEF LogInv, LogTypes, Settle
<1>5. Bounded' BY DEF LogInv, Bounded
<1>6. \A n \in Msgs : InLog(n)' <=> InLog(n) BY DEF InLog
<1>7. \A n \in Msgs : n # m => request'[n] = request[n] BY DEF LogInv, LogTypes
<1>8. Placed' BY <1>1, <1>2, <1>3, <1>6, <1>7 DEF LogInv, Placed, turnVars
<1>9. QED BY <1>3, <1>4, <1>5, <1>8, LogQuiet DEF turnVars

\* A publication that is neither in the log nor at the server goes on.
LEMMA MoveLog ==
  ASSUME QueueInv, LogInv, NEW m \in Msgs, ~InLog(m),
         NEW p \in Active, p # "request", pc' = [pc EXCEPT ![m] = p],
         UNCHANGED <<log, outcome, entry, turnVars>>, LogTypes', Bounded',
         \A n \in Msgs : request'[n] = IF n = m THEN "none" ELSE request[n]
  PROVE  LogInv'
<1>1. \A n \in Msgs : pc'[n] = IF n = m THEN p ELSE pc[n]
  BY DEF QueueInv, QueueTypes
<1>2. \A n \in Msgs : InLog(n)' <=> InLog(n) BY DEF InLog
<1>3. Placed' BY <1>1, <1>2 DEF LogInv, Placed, turnVars, Active
<1>4. QED BY <1>3, LogQuiet DEF turnVars

\* A call says nothing about the log.
LEMMA EnqueueLog ==
  ASSUME QueueInv, LogInv, NEW m \in Msgs, NEW parts, Enqueued(m, parts), pc[m] = "idle",
         NEW h \in Msgs \union {Nobody}, h # Nobody => pc[h] = "queued",
         \A n \in Msgs : pc'[n] = IF n = m THEN "queued" ELSE IF n = h THEN "asking" ELSE pc[n],
         UNCHANGED <<stateVars, made, request, outcome>>
  PROVE  LogInv'
<1>1. ~InLog(m) /\ request[m] = "none" BY DEF LogInv, Placed
<1>2. \A n \in Msgs : turn'[n] = IF n = m THEN turns + 1 ELSE turn[n]
  BY DEF Enqueued, QueueInv, QueueTypes
<1>3. /\ entry' = [n \in Msgs |-> entry'[n]]
      /\ \A n \in Msgs : n # m => entry'[n] = entry[n]
      /\ entry'[m].at = 0 \/ entry'[m].at = Unset
  BY DEF Enqueued, LogInv, LogTypes
<1>4. LogTypes' BY <1>3 DEF LogInv, LogTypes, stateVars
<1>5. Bounded'
  <2>1. \A n \in Msgs : Len(log[Target[n]]) \in Nat
    BY MsgsAssumption DEF LogInv, LogTypes
  <2>2. \A n \in Msgs : entry'[n].at \in Int /\ entry'[n].at <= Len(log[Target[n]])
    BY <1>3, <2>1 DEF LogInv, Bounded, Unset
  <2>3. QED BY <2>2 DEF LogInv, Bounded, stateVars
<1>6. \A n \in Msgs : InLog(n)' <=> InLog(n) BY DEF InLog, stateVars
<1>7. \A n \in Msgs : n = h => pc[n] = "queued" BY MsgsAssumption
<1>8. \A n \in Msgs : request[n] # "none" => turn'[n] > 0
  BY <1>1, <1>2 DEF LogInv, Placed
<1>9. Placed' BY <1>1, <1>6, <1>7, <1>8 DEF LogInv, Placed
<1>10. \A n \in Msgs : turn'[n] = turn[n] \/ (~InLog(n) /\ request'[n] # "sent")
  BY <1>1, <1>2
<1>11. \A n \in Msgs : request'[n] = "sent" => request[n] = "sent" /\ entry'[n].at = entry[n].at
  BY <1>1, <1>3
<1>12. QED BY <1>4, <1>5, <1>9, <1>10, <1>11, LogQuiet DEF stateVars

----------------------------------------------------------------------------
(* The actions.                                                             *)

LEMMA CallInv ==
  ASSUME Inv, NEW m \in Msgs, Call(m)
  PROVE  Inv'
<1> USE DEF Inv
<1>1. /\ pc[m] = "idle" /\ \A b \in Msgs : Before[b] # m
      /\ UNCHANGED <<stateVars, made, request>>
  BY DEF Call
<1>2. CASE /\ pc' = [pc EXCEPT ![m] = "queued"] /\ UNCHANGED outcome
           /\ \E parts : Enqueued(m, parts)
  <2>1. PICK parts : Enqueued(m, parts) BY <1>2
  <2>2. /\ pc' \in [Msgs -> Places]
        /\ \A n \in Msgs :
             pc'[n] = IF n = m THEN "queued" ELSE IF n = Nobody THEN "asking" ELSE pc[n]
    BY <1>2, MsgsAssumption DEF QueueInv, QueueTypes, Places
  <2>3. Nobody \in Msgs \union {Nobody} /\ Nobody # m BY MsgsAssumption
  <2>4. QueueInv' BY <1>1, <2>1, <2>2, <2>3, EnqueueStep
  <2>5. LogInv' BY <1>1, <1>2, <2>1, <2>2, <2>3, EnqueueLog
  <2>6. QED BY <2>4, <2>5
<1>3. CASE /\ pc' = [pc EXCEPT ![m] = "done"] /\ outcome' = [outcome EXCEPT ![m] = "nothing"]
           /\ UNCHANGED <<entry, queue, turnVars>>
  <2>1. \A n \in Msgs : pc'[n] = IF n = m THEN "done" ELSE pc[n]
    BY <1>3 DEF QueueInv, QueueTypes
  <2>2. QueueTypes' BY <1>3 DEF QueueInv, QueueTypes, Places, turnVars
  <2>3. Queued' BY <1>3, <2>1 DEF QueueInv, Queued, OwnQueue, Over
  <2>4. Holds'
    <3>1. queue' = queue BY <1>3
    <3>2. ASSUME NEW u \in Clients, NEW c \in Contracts, NEW i \in 1 .. Len(queue[u][c])
          PROVE  LET n == queue[u][c][i]
                 IN /\ Owner[n] = u /\ Target[n] = c
                    /\ pc'[n] \notin Over /\ (i > 1 => pc'[n] = "queued")
      <4>1. queue[u][c] \in Seq(Msgs) BY DEF QueueInv, QueueTypes
      <4>2. queue[u][c][i] \in Msgs BY <4>1
      <4>3. QED BY <1>1, <2>1, <4>2 DEF QueueInv, Holds, Over
    <3>3. QED BY <3>1, <3>2 DEF Holds
  <2>5. Sorted' /\ Numbered' BY <1>3, <2>1 DEF QueueInv, Sorted, Numbered, Over, turnVars
  <2>6. Befores' BY <1>1, <2>1, MsgsAssumption DEF QueueInv, Befores
  <2>7. Fifo' BY <1>1, <1>3, <2>1 DEF QueueInv, Fifo, Rivals, turnVars
  <2>8. LogTypes' BY <1>1, <1>3 DEF LogInv, LogTypes, stateVars
  <2>9. Bounded' BY <1>1, <1>3 DEF LogInv, Bounded, stateVars
  <2>10. \A n \in Msgs : (InLog(n)' <=> InLog(n)) /\ (outcome'[n] = "published" => outcome[n] = "published")
    BY <1>1, <1>3 DEF InLog, stateVars, LogInv, LogTypes
  <2>11. Placed' BY <1>1, <1>3, <2>1, <2>10 DEF LogInv, Placed, turnVars
  <2>12. LogInv' BY <1>1, <1>3, <2>8, <2>9, <2>11, LogQuiet DEF stateVars, turnVars
  <2>13. QED BY <2>2, <2>3, <2>4, <2>5, <2>6, <2>7, <2>12 DEF QueueInv
<1>4. QED BY <1>2, <1>3 DEF Call

LEMMA StartInv ==
  ASSUME Inv, NEW m \in Msgs, Start(m)
  PROVE  Inv'
<1> USE DEF Inv
<1> DEFINE b == Before[m]
<1>1. /\ pc[m] = "queued" /\ Head(OwnQueue(m)) = m
      /\ UNCHANGED <<stateVars, made, request>>
  BY DEF Start, Prepublish, OwnQueue
<1>2. OwnQueue(m) # <<>> /\ Owner[m] \in Clients /\ Target[m] \in Contracts
  <2>1. Owner[m] \in Clients /\ Target[m] \in Contracts BY MsgsAssumption
  <2>2. OwnQueue(m) \in Seq(Msgs) BY <2>1 DEF QueueInv, QueueTypes, OwnQueue
  <2>3. QED BY <1>1, <2>1, <2>2 DEF QueueInv, Queued, Over
<1>3. ~InLog(m) /\ request[m] = "none" BY <1>1 DEF LogInv, Placed
<1>4. CASE /\ pc' = [pc EXCEPT ![m] = "enter"] /\ UNCHANGED <<entry, queue, outcome, turnVars>>
  <2>1. QueueInv' BY <1>1, <1>2, <1>4, Advance DEF Active, Over
  <2>2. LogTypes' BY <1>1, <1>4 DEF LogInv, LogTypes, stateVars
  <2>3. Bounded' BY <1>1, <1>4 DEF LogInv, Bounded, stateVars
  <2>4. LogInv' BY <1>1, <1>3, <1>4, <2>2, <2>3, MoveLog DEF Active, stateVars
  <2>5. QED BY <2>1, <2>4
<1>5. CASE /\ b # Nobody /\ \E parts : Enqueued(b, parts)
           /\ pc' = [pc EXCEPT ![m] = "asking", ![b] = "queued"] /\ UNCHANGED outcome
  <2>1. PICK parts : Enqueued(b, parts) BY <1>5
  <2>2. b \in Msgs /\ pc[b] = "idle" BY <1>1, <1>5, MsgsAssumption DEF QueueInv, Befores
  <2>3. /\ pc' \in [Msgs -> Places]
        /\ \A n \in Msgs :
             pc'[n] = IF n = b THEN "queued" ELSE IF n = m THEN "asking" ELSE pc[n]
    BY <1>5, <2>2 DEF QueueInv, QueueTypes, Places
  <2>4. m \in Msgs \union {Nobody} /\ m # b BY <1>1, <2>2
  <2>5. \A n \in Msgs : Before[n] = b => n = m BY <1>5, MsgsAssumption
  <2> HIDE DEF b
  <2>6. QueueInv' BY <1>1, <1>2, <2>1, <2>2, <2>3, <2>4, <2>5, EnqueueStep
  <2>7. LogInv' BY <1>1, <1>5, <2>1, <2>2, <2>3, <2>4, EnqueueLog
  <2>8. QED BY <2>6, <2>7
<1>6. CASE Settle(m, "failed") /\ UNCHANGED <<entry, turnVars>>
  <2>1. QueueInv' BY <1>1, <1>2, <1>6, SettleStep DEF Over
  <2>2. LogInv' BY <1>1, <1>6, SettleLog DEF stateVars
  <2>3. QED BY <2>1, <2>2
<1>7. QED BY <1>4, <1>5, <1>6 DEF Start, Prepublish

\* One that is started settles, or moves: both invariants at once.
LEMMA SettleInv ==
  ASSUME Inv, NEW m \in Msgs, pc[m] \in Active,
         NEW how \in {"published", "omitted", "dropped", "failed"}, Settle(m, how),
         how = "published" => InLog(m),
         UNCHANGED <<log, seen, entry, made, turnVars>>,
         request' = request \/ request' = [request EXCEPT ![m] = "none"]
  PROVE  Inv'
<1>1. OwnQueue(m) # <<>> /\ Head(OwnQueue(m)) = m BY First1 DEF Inv
<1>2. pc[m] \notin Over BY DEF Active, Over
<1>3. QueueInv' BY <1>1, <1>2, SettleStep DEF Inv
<1>4. LogInv' BY SettleLog DEF Inv
<1>5. QED BY <1>3, <1>4 DEF Inv

LEMMA MoveInv ==
  ASSUME Inv, NEW m \in Msgs, pc[m] \in Active, ~InLog(m),
         NEW p \in Active, p # "request", pc' = [pc EXCEPT ![m] = p],
         UNCHANGED <<log, queue, outcome, entry, turnVars>>, LogTypes', Bounded',
         \A n \in Msgs : request'[n] = IF n = m THEN "none" ELSE request[n]
  PROVE  Inv'
<1>1. OwnQueue(m) # <<>> /\ Head(OwnQueue(m)) = m BY First1 DEF Inv
<1>2. pc[m] \notin Over BY DEF Active, Over
<1>3. QueueInv' BY <1>1, <1>2, Advance DEF Inv
<1>4. LogInv' BY MoveLog DEF Inv
<1>5. QED BY <1>3, <1>4 DEF Inv

\* What a client has of a log is not more than there is.
LEMMA SeenStep ==
  ASSUME LogInv, NEW u \in Clients, NEW c \in Contracts, NEW n \in Nat, n <= Len(log[c]),
         seen' = [seen EXCEPT ![u][c] = n],
         UNCHANGED <<log, entry, made, request, outcome>>
  PROVE  LogTypes' /\ Bounded'
<1>1. seen \in [Clients -> [Contracts -> Nat]] BY DEF LogInv, LogTypes
<1>2. seen' \in [Clients -> [Contracts -> Nat]] BY <1>1
<1>3. LogTypes' BY <1>2 DEF LogInv, LogTypes
<1>4. ASSUME NEW v \in Clients, NEW d \in Contracts PROVE seen'[v][d] <= Len(log[d])
  <2>1. CASE v = u /\ d = c BY <1>1, <2>1
  <2>2. CASE ~(v = u /\ d = c)
    <3>1. seen'[v][d] = seen[v][d] BY <1>1, <2>2
    <3>2. QED BY <3>1 DEF LogInv, Bounded
  <2>3. QED BY <2>1, <2>2
<1>5. Bounded' BY <1>4 DEF LogInv, Bounded
<1>6. QED BY <1>3, <1>5

\* The publications stay where they are.
LEMMA StayInv ==
  ASSUME Inv, LogTypes', Bounded',
         UNCHANGED <<log, queue, pc, entry, request, outcome, turnVars>>
  PROVE  Inv'
<1>1. QueueTypes' BY DEF Inv, QueueInv, QueueTypes, turnVars
<1>2. Queued' /\ Holds' BY DEF Inv, QueueInv, Queued, Holds, OwnQueue
<1>3. Sorted' /\ Numbered' BY DEF Inv, QueueInv, Sorted, Numbered, turnVars
<1>4. Befores' /\ Fifo' BY DEF Inv, QueueInv, Befores, Fifo, Rivals, turnVars
<1>5. Placed' BY DEF Inv, LogInv, Placed, InLog, turnVars
<1>6. LogInv' BY <1>5, LogQuiet DEF Inv, turnVars
<1>7. QED BY <1>1, <1>2, <1>3, <1>4, <1>6 DEF Inv, QueueInv

LEMMA HookDoneInv ==
  ASSUME Inv, NEW m \in Msgs, HookDone(m)
  PROVE  Inv'
<1>1. /\ pc[m] = "asking" /\ pc[m] \in Active
      /\ UNCHANGED <<log, seen, entry, made, request, turnVars>>
  BY DEF HookDone, stateVars, ownVars, Active
<1>2. CASE Settle(m, "failed") BY <1>1, <1>2, SettleInv
<1>3. CASE pc' = [pc EXCEPT ![m] = "enter"] /\ UNCHANGED <<outcome, queue>>
  <2>1. ~InLog(m) /\ request[m] = "none" BY <1>1 DEF Inv, LogInv, Placed
  <2>2. LogTypes' /\ Bounded' BY <1>1, <1>3 DEF Inv, LogInv, LogTypes, Bounded
  <2>3. QED BY <1>1, <1>3, <2>1, <2>2, MoveInv DEF Active
<1>4. QED BY <1>2, <1>3 DEF HookDone

LEMMA EnterInv ==
  ASSUME Inv, NEW m \in Msgs, Enter(m)
  PROVE  Inv'
<1>1. /\ pc[m] = "enter" /\ pc[m] \in Active
      /\ UNCHANGED <<log, seen, entry, made, request, turnVars>>
  BY DEF Enter, stateVars, Active
<1>2. CASE Settle(m, "dropped") BY <1>1, <1>2, SettleInv
<1>3. CASE pc' = [pc EXCEPT ![m] = "check"] /\ UNCHANGED <<outcome, queue>>
  <2>1. ~InLog(m) /\ request[m] = "none" BY <1>1 DEF Inv, LogInv, Placed
  <2>2. LogTypes' /\ Bounded' BY <1>1, <1>3 DEF Inv, LogInv, LogTypes, Bounded
  <2>3. QED BY <1>1, <1>3, <2>1, <2>2, MoveInv DEF Active
<1>4. QED BY <1>2, <1>3 DEF Enter

LEMMA CheckInv ==
  ASSUME Inv, NEW m \in Msgs, Check(m)
  PROVE  Inv'
<1>1. PICK parts : Checked(m, parts) BY DEF Check
<1>2. /\ pc[m] = "check" /\ pc[m] \in Active
      /\ UNCHANGED <<log, seen, entry, request, turnVars>>
  BY <1>1 DEF Checked, stateVars, Active
<1>3. CASE Settle(m, "failed") /\ UNCHANGED made BY <1>2, <1>3, SettleInv
<1>4. CASE Settle(m, "omitted") /\ UNCHANGED made BY <1>2, <1>4, SettleInv
<1> DEFINE e == [at |-> IF m \in First THEN entry[m].at ELSE seen[Owner[m]][Target[m]],
                 parts |-> parts]
<1>5. e.at = entry[m].at \/ e.at = seen[Owner[m]][Target[m]] OBVIOUS
<1>6. \/ Settle(m, "failed") /\ UNCHANGED made
      \/ Settle(m, "omitted") /\ UNCHANGED made
      \/ /\ pc' = [pc EXCEPT ![m] = "made"] /\ UNCHANGED <<queue, outcome>>
         /\ made' = [made EXCEPT ![m] = e]
  BY <1>1 DEF Checked
<1> HIDE DEF e
<1>7. CASE /\ pc' = [pc EXCEPT ![m] = "made"] /\ UNCHANGED <<queue, outcome>>
           /\ made' = [made EXCEPT ![m] = e]
  <2>1. ~InLog(m) /\ request[m] = "none" BY <1>2 DEF Inv, LogInv, Placed
  <2>2. /\ made' = [n \in Msgs |-> made'[n]] /\ made'[m] = e
        /\ \A n \in Msgs : n # m => made'[n] = made[n]
    BY <1>7 DEF Inv, LogInv, LogTypes
  <2>3. LogTypes' BY <1>2, <1>7, <2>2 DEF Inv, LogInv, LogTypes
  <2>4. e.at \in Int /\ e.at <= Len(log[Target[m]])
    <3>1. Owner[m] \in Clients /\ Target[m] \in Contracts BY MsgsAssumption
    <3>2. seen[Owner[m]][Target[m]] \in Nat BY <3>1 DEF Inv, LogInv, LogTypes
    <3>3. QED BY <1>5, <3>1, <3>2 DEF Inv, LogInv, Bounded
  <2>5. Bounded' BY <1>2, <2>2, <2>4 DEF Inv, LogInv, Bounded
  <2>6. QED BY <1>2, <1>7, <2>1, <2>3, <2>5, MoveInv DEF Active
<1>8. QED BY <1>3, <1>4, <1>6, <1>7

LEMMA SendInv ==
  ASSUME Inv, NEW m \in Msgs, Send(m)
  PROVE  Inv'
<1>1. /\ pc[m] = "made" /\ pc[m] \in Active /\ pc' = [pc EXCEPT ![m] = "request"]
      /\ entry' = [entry EXCEPT ![m] = made[m]] /\ made' = [made EXCEPT ![m] = NoEntry]
      /\ request' = [request EXCEPT ![m] = "sent"]
      /\ UNCHANGED <<log, seen, queue, outcome, turnVars>>
  BY DEF Send, stateVars, Active
<1>2. QueueInv'
  <2>1. OwnQueue(m) # <<>> /\ Head(OwnQueue(m)) = m BY <1>1, First1 DEF Inv
  <2>2. QED BY <1>1, <2>1, Advance DEF Inv, Active, Over
<1>3. ~InLog(m) /\ turn[m] > 0
  BY <1>1 DEF Inv, LogInv, Placed, QueueInv, Numbered, Over
<1>4. \A n \in Msgs : pc'[n] = IF n = m THEN "request" ELSE pc[n]
  BY <1>1 DEF Inv, QueueInv, QueueTypes
<1>5. \A n \in Msgs : request'[n] = IF n = m THEN "sent" ELSE request[n]
  BY <1>1 DEF Inv, LogInv, LogTypes
<1>6. /\ entry' = [n \in Msgs |-> entry'[n]] /\ made' = [n \in Msgs |-> made'[n]]
      /\ \A n \in Msgs : entry'[n] = IF n = m THEN made[m] ELSE entry[n]
      /\ \A n \in Msgs : made'[n] = IF n = m THEN NoEntry ELSE made[n]
  BY <1>1 DEF Inv, LogInv, LogTypes
<1>7. LogTypes' BY <1>1, <1>6 DEF Inv, LogInv, LogTypes
<1>8. Bounded'
  <2>1. \A n \in Msgs : Len(log[Target[n]]) \in Nat
    BY MsgsAssumption DEF Inv, LogInv, LogTypes
  <2>2. NoEntry.at \in Int /\ \A n \in Msgs : NoEntry.at <= Len(log[Target[n]])
    BY <2>1 DEF NoEntry, Unset
  <2>3. QED BY <1>1, <1>6, <2>2 DEF Inv, LogInv, Bounded
<1>9. \A n \in Msgs : InLog(n)' <=> InLog(n) BY <1>1 DEF InLog
<1>10. Placed' BY <1>1, <1>3, <1>4, <1>5, <1>9 DEF Inv, LogInv, Placed, turnVars
<1>11. \A k \in Msgs : Rivals(m, k) => ~InLog(k)
  BY <1>1 DEF Inv, QueueInv, Fifo, LogInv, Placed
<1>12. \A n \in Msgs : request'[n] = "sent" =>
         \/ request[n] = "sent" /\ entry'[n].at = entry[n].at
         \/ \A k \in Msgs : Rivals(n, k) => ~InLog(k)
  BY <1>5, <1>6, <1>11
<1>13. LogInv' BY <1>1, <1>7, <1>8, <1>10, <1>12, LogQuiet DEF Inv, turnVars
<1>14. QED BY <1>2, <1>13 DEF Inv

LEMMA ServeInv ==
  ASSUME Inv, NEW m \in Msgs, Serve(m)
  PROVE  Inv'
<1>1. /\ request[m] = "sent"
      /\ UNCHANGED <<seen, queue, pc, ownVars, outcome, turnVars>>
  BY DEF Serve
<1>2. QueueInv'
  <2>1. QueueTypes' BY <1>1 DEF Inv, QueueInv, QueueTypes, turnVars
  <2>2. Queued' /\ Holds' BY <1>1 DEF Inv, QueueInv, Queued, Holds, OwnQueue
  <2>3. Sorted' /\ Numbered' BY <1>1 DEF Inv, QueueInv, Sorted, Numbered, turnVars
  <2>4. Befores' /\ Fifo' BY <1>1 DEF Inv, QueueInv, Befores, Fifo, Rivals, turnVars
  <2>5. QED BY <2>1, <2>2, <2>3, <2>4 DEF QueueInv
<1>3. ASSUME NEW a \in {"conflict", "error"}, request' = [request EXCEPT ![m] = a],
             UNCHANGED log
      PROVE  LogInv'
  <2>1. \A n \in Msgs : request'[n] = IF n = m THEN a ELSE request[n]
    BY <1>3 DEF Inv, LogInv, LogTypes
  <2>2. request' \in [Msgs -> {"none", "sent", "ok", "conflict", "error"}]
    BY <1>3 DEF Inv, LogInv, LogTypes
  <2>3. LogTypes' /\ Bounded' BY <1>1, <1>3, <2>2 DEF Inv, LogInv, LogTypes, Bounded, ownVars
  <2>4. \A n \in Msgs : InLog(n)' <=> InLog(n) BY <1>3 DEF InLog
  <2>5. Placed' BY <1>1, <2>1, <2>4 DEF Inv, LogInv, Placed, turnVars
  <2>6. QED BY <1>1, <1>3, <2>1, <2>3, <2>5, LogQuiet DEF Inv, turnVars, ownVars
<1> DEFINE r == Run(KeysAt(Target[m], Len(log[Target[m]])), entry[m].parts, m \in Atomic)
           e == [msg |-> m, at |-> entry[m].at, parts |-> entry[m].parts,
                 keys |-> IF r.ok THEN r.keys ELSE KeysAt(Target[m], Len(log[Target[m]]))]
<1>4. e.msg = m OBVIOUS
<1>5. \/ /\ entry[m].at = Len(log[Target[m]])
         /\ log' = [log EXCEPT ![Target[m]] = Append(@, e)]
         /\ request' = [request EXCEPT ![m] = "ok"]
      \/ request' = [request EXCEPT ![m] = "conflict"] /\ UNCHANGED log
      \/ request' = [request EXCEPT ![m] = "error"] /\ UNCHANGED log
  BY DEF Serve
<1> HIDE DEF e
<1>6. LogInv' BY <1>1, <1>3, <1>4, <1>5, ServeLog DEF Inv
<1>7. QED BY <1>2, <1>6 DEF Inv

LEMMA AnswerInv ==
  ASSUME Inv, NEW m \in Msgs, Answer(m)
  PROVE  Inv'
<1>1. PICK p \in {"sync", "enter"} : Answered(m, p) BY DEF Answer
<1>2. /\ pc[m] = "request" /\ pc[m] \in Active
      /\ request' = [request EXCEPT ![m] = "none"]
      /\ UNCHANGED <<log, seen, entry, made, turnVars>>
  BY <1>1 DEF Answered, stateVars, ownVars, Active
<1>3. CASE request[m] = "ok" /\ Settle(m, "published")
  <2>1. InLog(m) BY <1>3 DEF Inv, LogInv, Placed
  <2>2. QED BY <1>2, <1>3, <2>1, SettleInv
<1>4. CASE Settle(m, "failed") BY <1>2, <1>4, SettleInv
<1>5. CASE /\ request[m] = "conflict" /\ pc' = [pc EXCEPT ![m] = p]
           /\ UNCHANGED <<queue, outcome>>
  <2>1. ~InLog(m) BY <1>5 DEF Inv, LogInv, Placed
  <2>2. \A n \in Msgs : request'[n] = IF n = m THEN "none" ELSE request[n]
    BY <1>2 DEF Inv, LogInv, LogTypes
  <2>3. request' \in [Msgs -> {"none", "sent", "ok", "conflict", "error"}]
    BY <1>2 DEF Inv, LogInv, LogTypes
  <2>4. LogTypes' /\ Bounded' BY <1>2, <1>5, <2>3 DEF Inv, LogInv, LogTypes, Bounded
  <2>5. p \in Active /\ p # "request" BY DEF Active
  <2>6. QED BY <1>2, <1>5, <2>1, <2>2, <2>4, <2>5, MoveInv
<1>6. QED BY <1>1, <1>3, <1>4, <1>5 DEF Answered

LEMMA LostInv ==
  ASSUME Inv, NEW m \in Msgs, Lost(m) \/ SyncFails(m)
  PROVE  Inv'
<1>1. /\ pc[m] \in Active /\ Settle(m, "failed")
      /\ UNCHANGED <<log, seen, entry, made, request, turnVars>>
  BY DEF Lost, SyncFails, stateVars, ownVars, Active
<1>2. QED BY <1>1, SettleInv

LEMMA ForcedSyncInv ==
  ASSUME Inv, NEW m \in Msgs, ForcedSync(m)
  PROVE  Inv'
<1>1. /\ pc[m] = "sync" /\ pc[m] \in Active /\ pc' = [pc EXCEPT ![m] = "enter"]
      /\ seen' = [seen EXCEPT ![Owner[m]][Target[m]] = Len(log[Target[m]])]
      /\ UNCHANGED <<log, queue, entry, made, request, outcome, turnVars>>
  BY DEF ForcedSync, Handled, ownVars, Active
<1>2. Owner[m] \in Clients /\ Target[m] \in Contracts BY MsgsAssumption
<1>3. Len(log[Target[m]]) \in Nat BY <1>2 DEF Inv, LogInv, LogTypes
<1>4. Len(log[Target[m]]) <= Len(log[Target[m]]) BY <1>3
<1>5. LogTypes' /\ Bounded' BY <1>1, <1>2, <1>3, <1>4, SeenStep DEF Inv
<1>6. ~InLog(m) /\ request[m] = "none" BY <1>1 DEF Inv, LogInv, Placed
<1>7. QED BY <1>1, <1>5, <1>6, MoveInv DEF Active

\* What the contract's queue does on its own.
LEMMA ReceiveInv ==
  ASSUME Inv, NEW u \in Clients, NEW c \in Contracts,
         Receive(u, c) \/ Sync(u, c) \/ Drop(u, c)
  PROVE  Inv'
<1>1. UNCHANGED <<log, queue, pc, entry, made, request, outcome, turnVars>>
  BY DEF Receive, Sync, Drop, Handled, hookVars, ownVars
<1>2. Len(log[c]) \in Nat /\ seen[u][c] \in Nat BY DEF Inv, LogInv, LogTypes
<1>3. PICK n \in Nat : n <= Len(log[c]) /\ seen' = [seen EXCEPT ![u][c] = n]
  <2>1. CASE Receive(u, c)
    <3>1. seen[u][c] + 1 \in Nat /\ seen[u][c] + 1 <= Len(log[c])
      BY <1>2, <2>1 DEF Receive
    <3>2. QED BY <2>1, <3>1 DEF Receive, Handled
  <2>2. CASE Sync(u, c)
    <3>1. seen' = [seen EXCEPT ![u][c] = Len(log[c])] BY <2>2 DEF Sync, Handled
    <3>2. Len(log[c]) <= Len(log[c]) BY <1>2
    <3>3. QED BY <1>2, <3>1, <3>2
  <2>3. CASE Drop(u, c)
    <3>1. seen' = [seen EXCEPT ![u][c] = 0] BY <2>3 DEF Drop
    <3>2. 0 \in Nat /\ 0 <= Len(log[c]) BY <1>2
    <3>3. QED BY <3>1, <3>2
  <2>4. QED BY <2>1, <2>2, <2>3
<1>4. LogTypes' /\ Bounded' BY <1>1, <1>3, SeenStep DEF Inv
<1>5. QED BY <1>1, <1>4, StayInv

----------------------------------------------------------------------------
LEMMA InitInv == Init => Inv
<1> SUFFICES ASSUME Init PROVE Inv OBVIOUS
<1> USE DEF Init
<1>1. \A m \in Msgs : pc[m] = "idle" /\ turn[m] = 0 /\ request[m] = "none" /\ outcome[m] = "none"
  OBVIOUS
<1>2. QueueTypes BY DEF QueueTypes, Places
<1>3. \A u \in Clients, c \in Contracts : Len(queue[u][c]) = 0 OBVIOUS
<1>4. Queued /\ Holds /\ Sorted BY <1>1, <1>3 DEF Queued, Holds, Sorted, Over
<1>5. Numbered /\ Befores /\ Fifo
  BY <1>1, MsgsAssumption DEF Numbered, Befores, Fifo, Rivals, Over
<1>6. \A c \in Contracts : log[c] = <<>> \/ log[c] = <<Genesis>> OBVIOUS
<1> HIDE DEF Init
<1>7. /\ \A c \in Contracts : log[c] \in Seq({Genesis}) /\ Len(log[c]) \in Nat
      /\ \A c \in Contracts : \A i \in DOMAIN log[c] : i = 1 /\ log[c][i] = Genesis
  <2> SUFFICES ASSUME NEW c \in Contracts
               PROVE  /\ log[c] \in Seq({Genesis}) /\ Len(log[c]) \in Nat
                      /\ \A i \in DOMAIN log[c] : i = 1 /\ log[c][i] = Genesis
    OBVIOUS
  <2>1. CASE log[c] = <<>> BY <2>1
  <2>2. CASE log[c] = <<Genesis>>
    <3>1. /\ <<Genesis>> \in Seq({Genesis}) /\ Len(<<Genesis>>) = 1
          /\ DOMAIN <<Genesis>> = {1} /\ <<Genesis>>[1] = Genesis
      OBVIOUS
    <3>2. QED BY <2>2, <3>1
  <2>3. QED BY <1>6, <2>1, <2>2
<1>8. log \in [Contracts -> Seq({Genesis})]
  <2>1. log = [c \in Contracts |-> log[c]] BY DEF Init
  <2>2. QED BY <1>7, <2>1
<1>9. seen \in [Clients -> [Contracts -> Nat]] /\ \A u \in Clients, c \in Contracts : seen[u][c] <= Len(log[c])
  BY <1>7 DEF Init
<1>10. LogTypes BY <1>8, <1>9 DEF LogTypes, Init
<1>11. Bounded
  <2>1. \A m \in Msgs : entry[m].at = Unset /\ made[m].at = Unset BY DEF NoEntry, Init
  <2>2. \A m \in Msgs : Len(log[Target[m]]) \in Nat BY <1>7, MsgsAssumption
  <2>3. QED BY <1>9, <2>1, <2>2 DEF Bounded, Unset
<1>12. \A c \in Contracts : \A i \in DOMAIN log[c] : i = 1 /\ log[c][i].msg = Nobody
  BY <1>7 DEF Genesis
<1>13. \A m \in Msgs : ~InLog(m) BY <1>12, MsgsAssumption DEF InLog
<1>14. Placed BY <1>1, <1>13 DEF Placed
<1>15. Unique /\ Late BY <1>12, <1>13, MsgsAssumption DEF Unique, Late
<1>16. Known /\ InCallOrder BY <1>12 DEF Known, InCallOrder
<1>17. QED BY <1>2, <1>4, <1>5, <1>10, <1>11, <1>14, <1>15, <1>16 DEF Inv, QueueInv, LogInv

LEMMA StepInv == Inv /\ [Next]_vars => Inv'
<1> SUFFICES ASSUME Inv, [Next]_vars PROVE Inv' OBVIOUS
<1>1. ASSUME NEW m \in Msgs, Call(m) PROVE Inv' BY <1>1, CallInv
<1>2. ASSUME NEW m \in Msgs, Attempt(m) PROVE Inv'
  BY <1>2, StartInv, HookDoneInv, EnterInv, CheckInv, SendInv, AnswerInv, ForcedSyncInv DEF Attempt
<1>3. ASSUME NEW m \in Msgs, Serve(m) PROVE Inv' BY <1>3, ServeInv
<1>4. ASSUME NEW m \in Msgs, Lost(m) \/ SyncFails(m) PROVE Inv' BY <1>4, LostInv
<1>5. ASSUME NEW u \in Clients, NEW c \in Written(u), Receive(u, c) \/ Sync(u, c) \/ Drop(u, c)
      PROVE  Inv'
  <2>1. c \in Contracts BY MsgsAssumption DEF Written
  <2>2. QED BY <1>5, <2>1, ReceiveInv
<1>6. CASE UNCHANGED vars
  <2>1. UNCHANGED <<log, seen, queue, pc, entry, made, request, outcome, turnVars>>
    BY <1>6 DEF vars, stateVars, ownVars
  <2>2. LogTypes' /\ Bounded' BY <2>1 DEF Inv, LogInv, LogTypes, Bounded
  <2>3. QED BY <2>1, <2>2, StayInv
<1>7. QED BY <1>1, <1>2, <1>3, <1>4, <1>5, <1>6 DEF Next

THEOREM Invariant == Spec => []Inv
BY InitInv, StepInv, PTL DEF Spec

\* What a client publishes in one contract gets into the log in the order of its calls,
\* for any clients, contracts and publications, with any refused, lost or late.
THEOREM Ordered == Spec => []InCallOrder
<1>1. Inv => InCallOrder BY DEF Inv, LogInv
<1>2. QED BY <1>1, Invariant, PTL

\* An event gets into the log at most once, and it is there when the promise is kept,
\* however often it was tried.
THEOREM Once == Spec => []OnceInLog
<1>1. Inv => OnceInLog BY DEF Inv, LogInv, Unique, Placed, InLog, OnceInLog
<1>2. QED BY <1>1, Invariant, PTL

----------------------------------------------------------------------------
(* The onprocessed hook.  It is installed when a publication is started,    *)
(* and stays until the form of the event that the server took comes back:   *)
(* nothing changes that form after it was taken, and what a client has not  *)
(* seen of the log only gets longer.                                        *)

Installed == {"enter", "check", "made", "request", "sync"}

HookTypes == hook \in [Msgs -> BOOLEAN] /\ processed \in [Msgs -> Nat]

CalledOnce == \A m \in Msgs :
  /\ processed[m] = 0 \/ (processed[m] = 1 /\ ~hook[m])
  /\ processed[m] = 1 => InLog(m)

\* What is started, or published, has its hook, or has had it called.
Hooked == \A m \in Msgs \ First :
  pc[m] \in Installed \/ outcome[m] = "published" => hook[m] \/ processed[m] = 1

\* The event that a publication remembers is the one the server took.
SameForm == \A m \in Msgs : \A i \in DOMAIN log[Target[m]] :
  log[Target[m]][i].msg = m =>
    log[Target[m]][i].at = entry[m].at /\ log[Target[m]][i].parts = entry[m].parts

\* A hook that waits has its event still to come.
ToCome == \A m \in Msgs : \A i \in DOMAIN log[Target[m]] :
  hook[m] /\ log[Target[m]][i].msg = m => seen[Owner[m]][Target[m]] < i

HookInv == HookTypes /\ CalledOnce /\ Hooked /\ SameForm /\ ToCome

\* A step that takes no event and calls no hook.
LEMMA HookSame ==
  ASSUME HookInv, UNCHANGED <<log, seen, processed>>, hook' \in [Msgs -> BOOLEAN],
         \A n \in Msgs : InLog(n) => entry'[n] = entry[n] /\ (hook'[n] => hook[n]),
         \A n \in Msgs : hook'[n] => hook[n] \/ processed[n] = 0,
         \A n \in Msgs \ First : pc'[n] \in Installed \/ outcome'[n] = "published" =>
           \/ hook'[n]
           \/ (pc[n] \in Installed \/ outcome[n] = "published") /\ hook'[n] = hook[n]
  PROVE  HookInv'
<1> USE DEF HookInv
<1>1. \A n \in Msgs : InLog(n)' <=> InLog(n) BY DEF InLog
<1>2. HookTypes' BY DEF HookTypes
<1>3. CalledOnce' BY <1>1 DEF CalledOnce
<1>4. Hooked' BY DEF Hooked
<1>5. \A n \in Msgs : \A i \in DOMAIN log[Target[n]] :
        log[Target[n]][i].msg = n => entry'[n] = entry[n] /\ (hook'[n] => hook[n])
  BY DEF InLog
<1>6. SameForm' BY <1>5 DEF SameForm
<1>7. ToCome' BY <1>5 DEF ToCome
<1>8. QED BY <1>2, <1>3, <1>4, <1>6, <1>7

\* The events up to the n-th are processed.
LEMMA HookHandled ==
  ASSUME Inv, HookInv, NEW u \in Clients, NEW c \in Contracts,
         NEW n \in Nat, seen[u][c] <= n, n <= Len(log[c]), Handled(u, c, n),
         UNCHANGED <<log, entry, outcome>>,
         \A m \in Msgs : pc'[m] \in Installed => pc[m] \in Installed
  PROVE  HookInv'
<1> DEFINE A == Awaited(u, c, n)
<1>1. seen \in [Clients -> [Contracts -> Nat]] /\ \E S : log \in [Contracts -> Seq(S)]
  BY DEF Inv, LogInv, LogTypes
<1>2. \A m \in A : m \in Msgs /\ Owner[m] = u /\ Target[m] = c /\ hook[m] /\ InLog(m)
  <2> SUFFICES ASSUME NEW m \in A
               PROVE  m \in Msgs /\ Owner[m] = u /\ Target[m] = c /\ hook[m] /\ InLog(m)
    OBVIOUS
  <2>1. /\ m \in Msgs /\ Owner[m] = u /\ Target[m] = c /\ hook[m]
        /\ \E i \in seen[u][c] + 1 .. n : log[c][i].msg = m
    BY DEF Awaited
  <2>2. PICK i \in seen[u][c] + 1 .. n : log[c][i].msg = m BY <2>1
  <2>3. i \in DOMAIN log[c] BY <1>1, <2>2
  <2>4. QED BY <2>1, <2>2, <2>3 DEF InLog
<1>3. \A m \in Msgs : \A i \in DOMAIN log[Target[m]] :
        /\ hook[m] /\ log[Target[m]][i].msg = m /\ Owner[m] = u /\ Target[m] = c /\ i <= n
        => m \in A
  <2> SUFFICES ASSUME NEW m \in Msgs, NEW i \in DOMAIN log[Target[m]], hook[m],
                      log[Target[m]][i].msg = m, Owner[m] = u, Target[m] = c, i <= n
               PROVE  m \in A
    OBVIOUS
  <2>1. seen[u][c] < i BY DEF HookInv, ToCome
  <2>2. i \in Nat /\ seen[u][c] \in Nat BY <1>1
  <2>3. i \in seen[u][c] + 1 .. n BY <2>1, <2>2
  <2>4. log[c][i].msg = m /\ log[c][i].at = entry[m].at /\ log[c][i].parts = entry[m].parts
    BY DEF HookInv, SameForm
  <2>5. QED BY <2>3, <2>4 DEF Awaited
<1>4. /\ processed' = [m \in Msgs |-> processed[m] + (IF m \in A THEN 1 ELSE 0)]
      /\ hook' = [m \in Msgs |-> hook[m] /\ m \notin A]
      /\ seen' = [seen EXCEPT ![u][c] = n]
  BY DEF Handled
<1> HIDE DEF A
<1>5. \A m \in Msgs : hook'[m] <=> hook[m] /\ m \notin A BY <1>4
<1>6. \A m \in Msgs : processed'[m] = IF m \in A THEN processed[m] + 1 ELSE processed[m]
  BY <1>4 DEF HookInv, HookTypes
<1>7. HookTypes'
  <2>1. hook' \in [Msgs -> BOOLEAN] BY <1>4
  <2>2. \A m \in Msgs : processed[m] + (IF m \in A THEN 1 ELSE 0) \in Nat
    BY DEF HookInv, HookTypes
  <2>3. processed' \in [Msgs -> Nat] BY <1>4, <2>2
  <2>4. QED BY <2>1, <2>3 DEF HookTypes
<1>8. \A m \in Msgs : InLog(m)' <=> InLog(m) BY DEF InLog
<1>9. CalledOnce'
  <2> SUFFICES ASSUME NEW m \in Msgs
               PROVE  /\ processed'[m] = 0 \/ (processed'[m] = 1 /\ ~hook'[m])
                      /\ processed'[m] = 1 => InLog(m)
    BY <1>8 DEF CalledOnce
  <2>1. CASE m \in A
    <3>1. processed[m] = 0 BY <1>2, <2>1 DEF HookInv, CalledOnce
    <3>2. processed'[m] = 1 BY <1>6, <2>1, <3>1
    <3>3. ~hook'[m] BY <1>5, <2>1
    <3>4. QED BY <1>2, <2>1, <3>2, <3>3
  <2>2. CASE m \notin A
    <3>1. processed'[m] = processed[m] BY <1>6, <2>2
    <3>2. hook'[m] <=> hook[m] BY <1>5, <2>2
    <3>3. QED BY <3>1, <3>2 DEF HookInv, CalledOnce
  <2>3. QED BY <2>1, <2>2
<1>10. Hooked'
  <2> SUFFICES ASSUME NEW m \in Msgs \ First, pc'[m] \in Installed \/ outcome'[m] = "published"
               PROVE  hook'[m] \/ processed'[m] = 1
    BY DEF Hooked
  <2>1. hook[m] \/ processed[m] = 1 BY DEF HookInv, Hooked
  <2>2. CASE m \in A
    <3>1. processed[m] = 0 BY <1>2, <2>2 DEF HookInv, CalledOnce
    <3>2. QED BY <1>6, <2>2, <3>1
  <2>3. CASE m \notin A BY <1>5, <1>6, <2>1, <2>3
  <2>4. QED BY <2>2, <2>3
<1>11. SameForm' BY DEF HookInv, SameForm
<1>12. ToCome'
  <2> SUFFICES ASSUME NEW m \in Msgs, NEW i \in DOMAIN log[Target[m]], hook'[m],
                      log[Target[m]][i].msg = m
               PROVE  seen'[Owner[m]][Target[m]] < i
    BY DEF ToCome
  <2>1. hook[m] /\ m \notin A BY <1>5
  <2>2. i \in Nat /\ Owner[m] \in Clients /\ Target[m] \in Contracts BY <1>1, MsgsAssumption
  <2>3. CASE Owner[m] = u /\ Target[m] = c
    <3>1. ~(i <= n) BY <1>3, <2>1, <2>3
    <3>2. seen'[u][c] = n BY <1>1, <1>4
    <3>3. QED BY <2>2, <2>3, <3>1, <3>2
  <2>4. CASE ~(Owner[m] = u /\ Target[m] = c)
    <3>1. seen'[Owner[m]][Target[m]] = seen[Owner[m]][Target[m]] BY <1>1, <1>4, <2>2, <2>4
    <3>2. QED BY <2>1, <3>1 DEF HookInv, ToCome
  <2>5. QED BY <2>3, <2>4
<1>13. QED BY <1>7, <1>9, <1>10, <1>11, <1>12 DEF HookInv

\* The server takes an event: its client has seen less of the log.
LEMMA HookServe ==
  ASSUME Inv, HookInv, NEW m \in Msgs, Serve(m)
  PROVE  HookInv'
<1>0. UNCHANGED <<seen, pc, entry, hook, processed, outcome>>
  BY DEF Serve, ownVars, hookVars
<1>1. CASE UNCHANGED log BY <1>0, <1>1, HookSame DEF HookInv, HookTypes
<1> DEFINE t == Target[m]
           r == Run(KeysAt(t, Len(log[t])), entry[m].parts, m \in Atomic)
           e == [msg |-> m, at |-> entry[m].at, parts |-> entry[m].parts,
                 keys |-> IF r.ok THEN r.keys ELSE KeysAt(t, Len(log[t]))]
<1>2. e.msg = m /\ e.at = entry[m].at /\ e.parts = entry[m].parts OBVIOUS
<1>3. UNCHANGED log \/ log' = [log EXCEPT ![t] = Append(@, e)] BY DEF Serve
<1> HIDE DEF e
<1>4. CASE log' = [log EXCEPT ![t] = Append(@, e)]
  <2>1. t \in Contracts BY MsgsAssumption
  <2>2. PICK S : log \in [Contracts -> Seq(S)] BY DEF Inv, LogInv, LogTypes
  <2>3. \A c \in Contracts : log'[c] = IF c = t THEN Append(log[t], e) ELSE log[c]
    BY <1>4, <2>1, <2>2
  <2>a. log[t] \in Seq(S) BY <2>1, <2>2
  <2>b. /\ Len(log[t]) \in Nat /\ DOMAIN log[t] = 1 .. Len(log[t])
        /\ DOMAIN Append(log[t], e) = 1 .. Len(log[t]) + 1
        /\ \A i \in 1 .. Len(log[t]) : Append(log[t], e)[i] = log[t][i]
        /\ Append(log[t], e)[Len(log[t]) + 1] = e
    BY <2>a, Appended
  <2>4. \A c \in Contracts : \A i \in DOMAIN log'[c] :
          \/ i \in DOMAIN log[c] /\ log'[c][i] = log[c][i]
          \/ c = t /\ i = Len(log[t]) + 1 /\ log'[c][i] = e
    <3> SUFFICES ASSUME NEW c \in Contracts, NEW i \in DOMAIN log'[c]
                 PROVE  \/ i \in DOMAIN log[c] /\ log'[c][i] = log[c][i]
                        \/ c = t /\ i = Len(log[t]) + 1 /\ log'[c][i] = e
      OBVIOUS
    <3>1. CASE c = t
      <4>1. log'[c] = Append(log[t], e) BY <2>3, <3>1
      <4>2. i \in 1 .. Len(log[t]) \/ i = Len(log[t]) + 1 BY <2>b, <4>1
      <4>3. QED BY <2>b, <3>1, <4>1, <4>2
    <3>2. CASE c # t BY <2>3, <3>2
    <3>3. QED BY <3>1, <3>2
  <2>5. \A c \in Contracts : \A i \in DOMAIN log[c] : i \in DOMAIN log'[c] /\ log'[c][i] = log[c][i]
    <3> SUFFICES ASSUME NEW c \in Contracts, NEW i \in DOMAIN log[c]
                 PROVE  i \in DOMAIN log'[c] /\ log'[c][i] = log[c][i]
      OBVIOUS
    <3>1. CASE c = t
      <4>1. log'[c] = Append(log[t], e) BY <2>3, <3>1
      <4>2. i \in 1 .. Len(log[t]) BY <2>b, <3>1
      <4>3. i \in 1 .. Len(log[t]) + 1 BY <2>b, <4>2
      <4>4. QED BY <2>b, <3>1, <4>1, <4>2, <4>3
    <3>2. CASE c # t BY <2>3, <3>2
    <3>3. QED BY <3>1, <3>2
  <2>6. \A n \in Msgs : Target[n] \in Contracts /\ Owner[n] \in Clients BY MsgsAssumption
  <2>7. HookTypes' BY <1>0 DEF HookInv, HookTypes
  <2>8. \A n \in Msgs : InLog(n) => InLog(n)' BY <2>5, <2>6 DEF InLog
  <2>9. CalledOnce' BY <1>0, <2>8 DEF HookInv, CalledOnce
  <2>10. Hooked' BY <1>0 DEF HookInv, Hooked
  <2>11. SameForm'
    <3> SUFFICES ASSUME NEW n \in Msgs, NEW i \in DOMAIN log'[Target[n]],
                        log'[Target[n]][i].msg = n
                 PROVE  /\ log'[Target[n]][i].at = entry[n].at
                        /\ log'[Target[n]][i].parts = entry[n].parts
      BY <1>0 DEF SameForm
    <3>1. CASE i \in DOMAIN log[Target[n]] /\ log'[Target[n]][i] = log[Target[n]][i]
      BY <3>1 DEF HookInv, SameForm
    <3>2. CASE log'[Target[n]][i] = e BY <1>2, <3>2
    <3>3. QED BY <2>4, <2>6, <3>1, <3>2
  <2>12. ToCome'
    <3> SUFFICES ASSUME NEW n \in Msgs, NEW i \in DOMAIN log'[Target[n]], hook[n],
                        log'[Target[n]][i].msg = n
                 PROVE  seen[Owner[n]][Target[n]] < i
      BY <1>0 DEF ToCome
    <3>1. CASE i \in DOMAIN log[Target[n]] /\ log'[Target[n]][i] = log[Target[n]][i]
      BY <3>1 DEF HookInv, ToCome
    <3>2. CASE Target[n] = t /\ i = Len(log[t]) + 1
      <4>1. seen[Owner[n]][t] <= Len(log[t]) BY <2>1, <2>6 DEF Inv, LogInv, Bounded
      <4>2. seen[Owner[n]][t] \in Nat BY <2>1, <2>6 DEF Inv, LogInv, LogTypes
      <4>3. Len(log[t]) \in Nat BY <2>1, <2>2
      <4>4. QED BY <3>2, <4>1, <4>2, <4>3
    <3>3. QED BY <2>4, <2>6, <3>1, <3>2
  <2>13. QED BY <2>7, <2>9, <2>10, <2>11, <2>12 DEF HookInv
<1>5. QED BY <1>1, <1>3, <1>4

\* Where a publication can be, and its outcome, after a settlement.
LEMMA HookSettles ==
  ASSUME Inv, HookInv, NEW m \in Msgs, NEW how, Settle(m, how),
         UNCHANGED <<log, seen, processed, entry>>,
         \/ UNCHANGED hook /\ (how = "published" => pc[m] \in Installed)
         \/ how # "published" /\ hook' = [hook EXCEPT ![m] = FALSE]
  PROVE  HookInv'
<1>1. \A n \in Msgs : pc'[n] = IF n = m THEN "done" ELSE pc[n]
  BY DEF Settle, Inv, QueueInv, QueueTypes
<1>2. \A n \in Msgs : outcome'[n] = IF n = m THEN how ELSE outcome[n]
  BY DEF Settle, Inv, LogInv, LogTypes
<1>3. hook' \in [Msgs -> BOOLEAN] BY DEF HookInv, HookTypes
<1>4. \A n \in Msgs : (hook'[n] => hook[n]) /\ (n # m => hook'[n] = hook[n])
  BY DEF HookInv, HookTypes
<1>5. "done" \notin Installed BY DEF Installed
<1>6. \A n \in Msgs \ First : pc'[n] \in Installed \/ outcome'[n] = "published" =>
        \/ hook'[n]
        \/ (pc[n] \in Installed \/ outcome[n] = "published") /\ hook'[n] = hook[n]
  BY <1>1, <1>2, <1>4, <1>5
<1>7. QED BY <1>3, <1>4, <1>6, HookSame

\* A publication goes on, with the hook it has.
LEMMA HookMoves ==
  ASSUME Inv, HookInv, NEW m \in Msgs, NEW p, pc' = [pc EXCEPT ![m] = p],
         p \in Installed => pc[m] \in Installed,
         UNCHANGED <<log, seen, processed, hook, outcome>>,
         \A n \in Msgs : InLog(n) => entry'[n] = entry[n]
  PROVE  HookInv'
<1>1. \A n \in Msgs : pc'[n] = IF n = m THEN p ELSE pc[n]
  BY DEF Inv, QueueInv, QueueTypes
<1>2. QED BY <1>1, HookSame DEF HookInv, HookTypes

\* A publication is started: it is not in the log, so its hook was never called.
LEMMA HookStarts ==
  ASSUME Inv, HookInv, NEW m \in Msgs, pc[m] \in {"queued", "asking"},
         pc' = [pc EXCEPT ![m] = "enter"], hook' = [hook EXCEPT ![m] = m \notin First],
         UNCHANGED <<log, seen, processed, entry, outcome>>
  PROVE  HookInv'
<1>1. \A n \in Msgs : pc'[n] = IF n = m THEN "enter" ELSE pc[n]
  BY DEF Inv, QueueInv, QueueTypes
<1>2. /\ hook' \in [Msgs -> BOOLEAN]
      /\ \A n \in Msgs : n # m => hook'[n] = hook[n]
      /\ hook'[m] = (m \notin First)
  BY DEF HookInv, HookTypes
<1>3. ~InLog(m) BY DEF Inv, LogInv, Placed
<1>4. processed[m] = 0 BY <1>3 DEF HookInv, CalledOnce
<1>5. \A n \in Msgs : InLog(n) => entry'[n] = entry[n] /\ (hook'[n] => hook[n])
  BY <1>2, <1>3
<1>6. \A n \in Msgs : hook'[n] => hook[n] \/ processed[n] = 0 BY <1>2, <1>4
<1>7. \A n \in Msgs \ First : pc'[n] \in Installed \/ outcome'[n] = "published" =>
        \/ hook'[n]
        \/ (pc[n] \in Installed \/ outcome[n] = "published") /\ hook'[n] = hook[n]
  BY <1>1, <1>2
<1>8. QED BY <1>2, <1>5, <1>6, <1>7, HookSame

\* A call gets an event of its own.
LEMMA HookEnqueued ==
  ASSUME Inv, HookInv, NEW m \in Msgs, NEW parts, Enqueued(m, parts), pc[m] = "idle",
         UNCHANGED <<log, seen, hookVars, outcome>>,
         \A n \in Msgs : pc'[n] \in Installed => pc[n] \in Installed
  PROVE  HookInv'
<1>1. ~InLog(m) BY DEF Inv, LogInv, Placed
<1>2. \A n \in Msgs : n # m => entry'[n] = entry[n] BY DEF Enqueued, Inv, LogInv, LogTypes
<1>3. QED BY <1>1, <1>2, HookSame DEF HookInv, HookTypes, hookVars

LEMMA HookCall ==
  ASSUME Inv, HookInv, NEW m \in Msgs, Call(m)
  PROVE  HookInv'
<1>1. pc[m] = "idle" /\ UNCHANGED <<log, seen, hook, processed>>
  BY DEF Call, stateVars, hookVars
<1>2. CASE /\ pc' = [pc EXCEPT ![m] = "queued"] /\ UNCHANGED outcome
           /\ \E parts : Enqueued(m, parts)
  <2>1. PICK parts : Enqueued(m, parts) BY <1>2
  <2>2. \A n \in Msgs : pc'[n] \in Installed => pc[n] \in Installed
    BY <1>2 DEF Inv, QueueInv, QueueTypes, Installed
  <2>3. QED BY <1>1, <1>2, <2>1, <2>2, HookEnqueued DEF hookVars
<1>3. CASE /\ pc' = [pc EXCEPT ![m] = "done"] /\ outcome' = [outcome EXCEPT ![m] = "nothing"]
           /\ UNCHANGED entry
  <2>1. \A n \in Msgs : pc'[n] = IF n = m THEN "done" ELSE pc[n]
    BY <1>3 DEF Inv, QueueInv, QueueTypes
  <2>2. \A n \in Msgs : outcome'[n] = IF n = m THEN "nothing" ELSE outcome[n]
    BY <1>3 DEF Inv, LogInv, LogTypes
  <2>3. "done" \notin Installed BY DEF Installed
  <2>4. QED BY <1>1, <1>3, <2>1, <2>2, <2>3, HookSame DEF HookInv, HookTypes
<1>4. QED BY <1>2, <1>3 DEF Call

LEMMA HookStart ==
  ASSUME Inv, HookInv, NEW m \in Msgs, Start(m)
  PROVE  HookInv'
<1> DEFINE b == Before[m]
<1>1. pc[m] = "queued" /\ UNCHANGED <<log, seen, processed>>
  BY DEF Start, Prepublish, stateVars
<1>2. CASE /\ pc' = [pc EXCEPT ![m] = "enter"] /\ hook' = [hook EXCEPT ![m] = m \notin First]
           /\ UNCHANGED <<entry, outcome>>
  BY <1>1, <1>2, HookStarts
<1>3. CASE /\ b # Nobody /\ \E parts : Enqueued(b, parts)
           /\ pc' = [pc EXCEPT ![m] = "asking", ![b] = "queued"] /\ UNCHANGED <<hook, outcome>>
  <2>1. PICK parts : Enqueued(b, parts) BY <1>3
  <2>2. b \in Msgs /\ pc[b] = "idle"
    BY <1>1, <1>3, MsgsAssumption DEF Inv, QueueInv, Befores
  <2>3. \A n \in Msgs : pc'[n] \in Installed => pc[n] \in Installed
    BY <1>3, <2>2 DEF Inv, QueueInv, QueueTypes, Installed
  <2> HIDE DEF b
  <2>4. QED BY <1>1, <1>3, <2>1, <2>2, <2>3, HookEnqueued DEF hookVars
<1>4. CASE Settle(m, "failed") /\ UNCHANGED <<entry, hook>> BY <1>1, <1>4, HookSettles
<1>5. QED BY <1>2, <1>3, <1>4 DEF Start, Prepublish

LEMMA HookHookDone ==
  ASSUME Inv, HookInv, NEW m \in Msgs, HookDone(m)
  PROVE  HookInv'
<1>1. pc[m] = "asking" /\ UNCHANGED <<log, seen, processed, entry>>
  BY DEF HookDone, stateVars, ownVars
<1>2. CASE Settle(m, "failed") /\ UNCHANGED hook BY <1>1, <1>2, HookSettles
<1>3. CASE /\ pc' = [pc EXCEPT ![m] = "enter"] /\ hook' = [hook EXCEPT ![m] = m \notin First]
           /\ UNCHANGED outcome
  BY <1>1, <1>3, HookStarts
<1>4. QED BY <1>2, <1>3 DEF HookDone

LEMMA HookAttempts ==
  ASSUME Inv, HookInv, NEW m \in Msgs, Enter(m) \/ Check(m) \/ Send(m)
  PROVE  HookInv'
<1>1. CASE Enter(m)
  <2>1. pc[m] = "enter" /\ UNCHANGED <<log, seen, processed, entry, hook>>
    BY <1>1 DEF Enter, stateVars, hookVars
  <2>2. CASE Settle(m, "dropped") BY <2>1, <2>2, HookSettles
  <2>3. CASE pc' = [pc EXCEPT ![m] = "check"] /\ UNCHANGED outcome
    BY <2>1, <2>3, HookMoves DEF Installed
  <2>4. QED BY <1>1, <2>2, <2>3 DEF Enter
<1>2. CASE Check(m)
  <2>1. PICK parts : Checked(m, parts) BY <1>2 DEF Check
  <2>2. pc[m] = "check" /\ UNCHANGED <<log, seen, processed, entry, hook>>
    BY <2>1 DEF Checked, stateVars, hookVars
  <2>3. CASE Settle(m, "failed") BY <2>2, <2>3, HookSettles
  <2>4. CASE Settle(m, "omitted") BY <2>2, <2>4, HookSettles
  <2>5. CASE pc' = [pc EXCEPT ![m] = "made"] /\ UNCHANGED outcome
    BY <2>2, <2>5, HookMoves DEF Installed
  <2>6. QED BY <2>1, <2>3, <2>4, <2>5 DEF Checked
<1>3. CASE Send(m)
  <2>1. /\ pc[m] = "made" /\ pc' = [pc EXCEPT ![m] = "request"]
        /\ entry' = [entry EXCEPT ![m] = made[m]]
        /\ UNCHANGED <<log, seen, processed, hook, outcome>>
    BY <1>3 DEF Send, stateVars, hookVars
  <2>2. ~InLog(m) BY <2>1 DEF Inv, LogInv, Placed
  <2>3. \A n \in Msgs : InLog(n) => entry'[n] = entry[n]
    BY <2>1, <2>2 DEF Inv, LogInv, LogTypes
  <2>4. QED BY <2>1, <2>3, HookMoves DEF Installed
<1>4. QED BY <1>1, <1>2, <1>3

LEMMA HookAnswer ==
  ASSUME Inv, HookInv, NEW m \in Msgs, Answer(m)
  PROVE  HookInv'
<1>1. PICK p \in {"sync", "enter"} : Answered(m, p) BY DEF Answer
<1>2. pc[m] = "request" /\ UNCHANGED <<log, seen, processed, entry>>
  BY <1>1 DEF Answered, stateVars, ownVars
<1>3. CASE Settle(m, "published") /\ UNCHANGED hook
  BY <1>2, <1>3, HookSettles DEF Installed
<1>4. CASE Settle(m, "failed") /\ hook' = [hook EXCEPT ![m] = FALSE]
  BY <1>2, <1>4, HookSettles
<1>5. CASE pc' = [pc EXCEPT ![m] = p] /\ UNCHANGED <<outcome, hook>>
  BY <1>2, <1>5, HookMoves DEF Installed
<1>6. QED BY <1>1, <1>3, <1>4, <1>5 DEF Answered

LEMMA HookFailures ==
  ASSUME Inv, HookInv, NEW m \in Msgs, Lost(m) \/ SyncFails(m)
  PROVE  HookInv'
<1>1. UNCHANGED <<log, seen, processed, entry>>
  BY DEF Lost, SyncFails, stateVars, ownVars, hookVars
<1>2. Settle(m, "failed") /\ (UNCHANGED hook \/ hook' = [hook EXCEPT ![m] = FALSE])
  BY DEF Lost, SyncFails, hookVars
<1>3. QED BY <1>1, <1>2, HookSettles

LEMMA HookForcedSync ==
  ASSUME Inv, HookInv, NEW m \in Msgs, ForcedSync(m)
  PROVE  HookInv'
<1>1. /\ pc[m] = "sync" /\ pc' = [pc EXCEPT ![m] = "enter"]
      /\ Handled(Owner[m], Target[m], Len(log[Target[m]]))
      /\ UNCHANGED <<log, entry, outcome>>
  BY DEF ForcedSync, ownVars
<1>2. Owner[m] \in Clients /\ Target[m] \in Contracts BY MsgsAssumption
<1>3. Len(log[Target[m]]) \in Nat BY <1>2 DEF Inv, LogInv, LogTypes
<1>4. seen[Owner[m]][Target[m]] <= Len(log[Target[m]]) BY <1>2 DEF Inv, LogInv, Bounded
<1>5. \A n \in Msgs : pc'[n] \in Installed => pc[n] \in Installed
  BY <1>1 DEF Inv, QueueInv, QueueTypes, Installed
<1>6. Len(log[Target[m]]) <= Len(log[Target[m]]) BY <1>3
<1>7. QED BY <1>1, <1>2, <1>3, <1>4, <1>5, <1>6, HookHandled

LEMMA HookReceive ==
  ASSUME Inv, HookInv, NEW u \in Clients, NEW c \in Contracts,
         Receive(u, c) \/ Sync(u, c) \/ Drop(u, c)
  PROVE  HookInv'
<1>1. UNCHANGED <<log, pc, entry, outcome>> BY DEF Receive, Sync, Drop, ownVars
<1>2. /\ Len(log[c]) \in Nat /\ seen \in [Clients -> [Contracts -> Nat]]
      /\ seen[u][c] <= Len(log[c])
  BY DEF Inv, LogInv, LogTypes, Bounded
<1>3. CASE Receive(u, c)
  <2>1. /\ seen[u][c] + 1 \in Nat /\ seen[u][c] <= seen[u][c] + 1
        /\ seen[u][c] + 1 <= Len(log[c])
    BY <1>2, <1>3 DEF Receive
  <2>2. Handled(u, c, seen[u][c] + 1) BY <1>3 DEF Receive
  <2>3. QED BY <1>1, <2>1, <2>2, HookHandled
<1>4. CASE Sync(u, c)
  <2>1. Handled(u, c, Len(log[c])) /\ Len(log[c]) <= Len(log[c]) BY <1>2, <1>4 DEF Sync
  <2>2. QED BY <1>1, <1>2, <2>1, HookHandled
<1>5. CASE Drop(u, c)
  <2>1. seen' = [seen EXCEPT ![u][c] = 0] /\ UNCHANGED <<hook, processed>>
    BY <1>5 DEF Drop, hookVars
  <2>2. HookTypes' /\ CalledOnce' /\ Hooked' /\ SameForm'
    BY <1>1, <2>1 DEF HookInv, HookTypes, CalledOnce, Hooked, SameForm, InLog
  <2>3. ToCome'
    <3> SUFFICES ASSUME NEW m \in Msgs, NEW i \in DOMAIN log[Target[m]], hook[m],
                        log[Target[m]][i].msg = m
                 PROVE  seen'[Owner[m]][Target[m]] < i
      BY <1>1, <2>1 DEF ToCome
    <3>1. Owner[m] \in Clients /\ Target[m] \in Contracts BY MsgsAssumption
    <3>2. seen[Owner[m]][Target[m]] < i BY DEF HookInv, ToCome
    <3>3. i \in Nat /\ i # 0 BY <3>1 DEF Inv, LogInv, LogTypes
    <3>4. /\ seen'[Owner[m]][Target[m]] = 0
          \/ seen'[Owner[m]][Target[m]] = seen[Owner[m]][Target[m]]
      BY <1>2, <2>1, <3>1
    <3>5. QED BY <3>2, <3>3, <3>4
  <2>4. QED BY <2>2, <2>3 DEF HookInv
<1>6. QED BY <1>3, <1>4, <1>5

LEMMA HookInit == Init => HookInv
<1> SUFFICES ASSUME Init PROVE HookInv OBVIOUS
<1>1. Inv BY InitInv
<1>2. \A m \in Msgs : pc[m] = "idle" /\ outcome[m] = "none" /\ ~hook[m] /\ processed[m] = 0
  BY DEF Init
<1>3. \A m \in Msgs : ~InLog(m) BY <1>1, <1>2 DEF Inv, LogInv, Placed
<1>4. HookTypes BY DEF Init, HookTypes
<1>5. CalledOnce BY <1>2 DEF CalledOnce
<1>6. Hooked BY <1>2 DEF Hooked, Installed
<1>7. SameForm /\ ToCome BY <1>3 DEF SameForm, ToCome, InLog
<1>8. QED BY <1>4, <1>5, <1>6, <1>7 DEF HookInv

LEMMA HookNext == Inv /\ HookInv /\ [Next]_vars => HookInv'
<1> SUFFICES ASSUME Inv, HookInv, [Next]_vars PROVE HookInv' OBVIOUS
<1>1. ASSUME NEW m \in Msgs, Call(m) PROVE HookInv' BY <1>1, HookCall
<1>2. ASSUME NEW m \in Msgs, Attempt(m) PROVE HookInv'
  BY <1>2, HookStart, HookHookDone, HookAttempts, HookAnswer, HookForcedSync DEF Attempt
<1>3. ASSUME NEW m \in Msgs, Serve(m) PROVE HookInv' BY <1>3, HookServe
<1>4. ASSUME NEW m \in Msgs, Lost(m) \/ SyncFails(m) PROVE HookInv' BY <1>4, HookFailures
<1>5. ASSUME NEW u \in Clients, NEW c \in Written(u), Receive(u, c) \/ Sync(u, c) \/ Drop(u, c)
      PROVE  HookInv'
  <2>1. c \in Contracts BY MsgsAssumption DEF Written
  <2>2. QED BY <1>5, <2>1, HookReceive
<1>6. CASE UNCHANGED vars
  <2>1. UNCHANGED <<log, seen, pc, entry, hook, processed, outcome>>
    BY <1>6 DEF vars, stateVars, ownVars, hookVars
  <2>2. QED BY <2>1, HookSame DEF HookInv, HookTypes
<1>7. QED BY <1>1, <1>2, <1>3, <1>4, <1>5, <1>6 DEF Next

\* The onprocessed hook of a publication is called once, for the event as the server took
\* it, once that is published and has come back, and never otherwise: for any
\* clients, contracts and publications, with any of them refused, tried again, lost,
\* received late, or synced by force or anew.
THEOREM HookCalledAlways == Spec => []HookCalled
<1>1. Inv /\ HookInv => HookCalled
  <2> SUFFICES ASSUME Inv, HookInv, NEW m \in Msgs \ First
               PROVE  LET places == {i \in DOMAIN log[Target[m]] : log[Target[m]][i].msg = m}
                      IN /\ processed[m] <= 1
                         /\ processed[m] = 1 => places # {}
                         /\ \A i \in places :
                              outcome[m] = "published" /\ seen[Owner[m]][Target[m]] >= i
                              => processed[m] = 1
    BY DEF HookCalled
  <2>1. processed[m] = 0 \/ processed[m] = 1 BY DEF HookInv, CalledOnce
  <2>2. processed[m] = 1 => InLog(m) BY DEF HookInv, CalledOnce
  <2>3. ASSUME NEW i \in DOMAIN log[Target[m]], log[Target[m]][i].msg = m,
               outcome[m] = "published", seen[Owner[m]][Target[m]] >= i
        PROVE  processed[m] = 1
    <3>1. hook[m] => seen[Owner[m]][Target[m]] < i BY <2>3 DEF HookInv, ToCome
    <3>2. Owner[m] \in Clients /\ Target[m] \in Contracts BY MsgsAssumption
    <3>3. i \in Nat /\ seen[Owner[m]][Target[m]] \in Nat BY <3>2 DEF Inv, LogInv, LogTypes
    <3>4. ~hook[m] BY <2>3, <3>1, <3>3
    <3>5. QED BY <2>3, <3>4 DEF HookInv, Hooked
  <2>4. QED BY <2>1, <2>2, <2>3 DEF InLog
<1>2. Inv /\ HookInv /\ [Next]_vars => (Inv /\ HookInv)' BY StepInv, HookNext
<1>3. QED BY <1>1, <1>2, InitInv, HookInit, PTL DEF Spec

----------------------------------------------------------------------------
(* The heights a publication is tried with.  They never fall, as a client   *)
(* that has a state has all it ever had of the log, and a repeated one was  *)
(* refused: the log is longer, and the forced sync brings the client past   *)
(* it.                                                                      *)

Retrying == {"enter", "check", "made", "request", "sync"}
Got(m) == seen[Owner[m]][Target[m]]
Size(m) == Len(log[Target[m]])
Final(m) == tried[m][Len(tried[m])]
Repeated(m) == Len(tried[m]) > 1 /\ tried[m][Len(tried[m]) - 1] = Final(m)

\* No state, or one past a height, or at it.
Past(m, h) == Got(m) = 0 \/ Got(m) > h
UpTo(m, h) == Got(m) = 0 \/ Got(m) >= h

Climbs(T) ==
  /\ \A i, j \in 1 .. Len(T) : i < j => T[i] <= T[j]
  /\ \A i \in 1 .. Len(T) : i + 2 <= Len(T) => T[i] < T[i + 2]

\* The height last sent is the one of the event, and the one before it is noted.
Noted(m) ==
  /\ entry[m].at = IF tried[m] = <<>> THEN Unset ELSE Final(m)
  /\ pc[m] \in {"check", "made"} => last[m] = entry[m].at
  /\ pc[m] \in {"request", "sync"} => tried[m] # <<>>
  /\ pc[m] = "request" =>
       last[m] = IF Len(tried[m]) = 1 THEN Unset ELSE tried[m][Len(tried[m]) - 1]

\* What it builds on is in the log, and in the state of its client.
Rising(m) ==
  /\ pc[m] = "check" => Got(m) > 0
  /\ pc[m] = "made" => made[m].at \in Nat /\ UpTo(m, made[m].at)
  /\ tried[m] # <<>> =>
       /\ Final(m) <= Size(m) /\ UpTo(m, Final(m))
       /\ pc[m] = "made" => made[m].at >= Final(m)

\* A height that was refused is taken, and one tried twice is behind.
Forced(m) == tried[m] # <<>> =>
  /\ pc[m] = "sync" => Size(m) > Final(m)
  /\ pc[m] = "request" /\ request[m] = "conflict" => Size(m) > Final(m)
  /\ pc[m] \in {"enter", "check", "made"} /\ Repeated(m) =>
       /\ Size(m) > Final(m) /\ Past(m, Final(m))
       /\ pc[m] = "made" => made[m].at > Final(m)

Tries(m) ==
  /\ tried[m] \in Seq(Nat) /\ Climbs(tried[m])
  /\ pc[m] \in {"idle", "queued", "asking"} => tried[m] = <<>>
  /\ pc[m] \in {"queued", "asking"} => entry[m].at = Unset
  /\ pc[m] \in Retrying => Noted(m) /\ Rising(m) /\ Forced(m)

TriedTypes ==
  /\ tried = [m \in Msgs |-> tried[m]] /\ last = [m \in Msgs |-> last[m]]
  /\ lane \in [Clients -> [Contracts -> Msgs \union {Nobody}]]

\* What is being checked has the contract's queue.
Laned == \A m \in Msgs : pc[m] = "check" => lane[Owner[m]][Target[m]] = m

TriedInv == TriedTypes /\ Laned /\ \A m \in Msgs \ First : Tries(m)

\* A height is added that is no lower than the last, and higher if that was repeated.
LEMMA ClimbsOn ==
  ASSUME NEW T \in Seq(Nat), Climbs(T), NEW h \in Nat,
         T # <<>> => h >= T[Len(T)],
         Len(T) > 1 /\ T[Len(T) - 1] = T[Len(T)] => h > T[Len(T)]
  PROVE  Append(T, h) \in Seq(Nat) /\ Climbs(Append(T, h))
<1> DEFINE N == Len(T)
<1>1. /\ N \in Nat /\ Append(T, h) \in Seq(Nat) /\ Len(Append(T, h)) = N + 1
      /\ \A i \in 1 .. N : Append(T, h)[i] = T[i] /\ T[i] \in Nat
      /\ Append(T, h)[N + 1] = h
  OBVIOUS
<1>2. N > 0 => T # <<>> OBVIOUS
<1> DEFINE A == Append(T, h)
<1>3. \A i \in 1 .. N : T[i] <= h
  <2> SUFFICES ASSUME NEW i \in 1 .. N PROVE T[i] <= h OBVIOUS
  <2>1. h >= T[N] /\ T[N] \in Nat BY <1>1, <1>2
  <2>2. i = N \/ T[i] <= T[N] BY <1>1 DEF Climbs
  <2>3. QED BY <1>1, <2>1, <2>2
<1>4. ASSUME N > 1 PROVE T[N - 1] < h
  <2>1. /\ N - 1 \in 1 .. N /\ N \in 1 .. N /\ N - 1 < N
        /\ T[N - 1] \in Nat /\ T[N] \in Nat
    BY <1>1, <1>4
  <2>2. T[N - 1] <= T[N] BY <2>1 DEF Climbs
  <2>3. T[N - 1] = T[N] => h > T[N] BY <1>4
  <2>4. h >= T[N] BY <1>2, <1>4
  <2>5. QED BY <2>1, <2>2, <2>3, <2>4
<1>5. \A i, j \in 1 .. N + 1 : i < j => A[i] <= A[j]
  <2> SUFFICES ASSUME NEW i \in 1 .. N + 1, NEW j \in 1 .. N + 1, i < j PROVE A[i] <= A[j]
    OBVIOUS
  <2>1. i \in 1 .. N BY <1>1
  <2>2. j \in 1 .. N \/ j = N + 1 BY <1>1
  <2>3. CASE j \in 1 .. N BY <1>1, <2>1, <2>3 DEF Climbs
  <2>4. CASE j = N + 1 BY <1>1, <1>3, <2>1, <2>4
  <2>5. QED BY <2>2, <2>3, <2>4
<1>6. \A i \in 1 .. N + 1 : i + 2 <= N + 1 => A[i] < A[i + 2]
  <2> SUFFICES ASSUME NEW i \in 1 .. N + 1, i + 2 <= N + 1 PROVE A[i] < A[i + 2]
    OBVIOUS
  <2>1. i \in 1 .. N /\ (i + 2 \in 1 .. N \/ (i + 2 = N + 1 /\ i = N - 1 /\ N > 1)) BY <1>1
  <2>2. CASE i + 2 \in 1 .. N BY <1>1, <2>1, <2>2 DEF Climbs
  <2>3. CASE i + 2 = N + 1 /\ i = N - 1 /\ N > 1 BY <1>1, <1>4, <2>1, <2>3
  <2>4. QED BY <2>1, <2>2, <2>3
<1>7. QED BY <1>1, <1>5, <1>6 DEF Climbs

\* The types of what Tries speaks of.
LEMMA TryTypes ==
  ASSUME Inv, NEW m \in Msgs
  PROVE  /\ Owner[m] \in Clients /\ Target[m] \in Contracts
         /\ Got(m) \in Nat /\ Size(m) \in Nat /\ Got(m) <= Size(m)
         /\ entry[m].at \in Int /\ entry[m].at <= Size(m)
         /\ made[m].at \in Int /\ made[m].at <= Size(m)
<1>1. Owner[m] \in Clients /\ Target[m] \in Contracts BY MsgsAssumption
<1>2. QED BY <1>1 DEF Inv, LogInv, LogTypes, Bounded, Got, Size

\* The log gets longer, and the client's part of it too, unless it is dropped; but not
\* while the publication is checked.
LogGrows(m) ==
  /\ Size(m)' \in Nat /\ Size(m)' >= Size(m) /\ Got(m)' \in Nat
  /\ \/ Got(m)' = Got(m)
     \/ pc[m] # "check" /\ (Got(m)' = 0 \/ Got(m)' = Size(m)' \/ (Got(m) > 0 /\ Got(m)' > Got(m)))

LEMMA TriesSame ==
  ASSUME Inv, NEW m \in Msgs, Tries(m), LogGrows(m),
         pc'[m] = pc[m], entry'[m] = entry[m], made'[m] = made[m], last'[m] = last[m],
         tried'[m] = tried[m],
         request'[m] = request[m] \/ (request'[m] = "conflict" => entry[m].at < Size(m))
  PROVE  Tries(m)'
<1>1. /\ Got(m) \in Nat /\ Size(m) \in Nat /\ Got(m) <= Size(m)
      /\ made[m].at \in Int /\ made[m].at <= Size(m)
  BY TryTypes
<1>2. tried[m] \in Seq(Nat) /\ (tried[m] # <<>> => Final(m) \in Nat /\ Len(tried[m]) > 0)
  BY DEF Tries, Final
<1>3. Final(m)' = Final(m) /\ (Repeated(m)' <=> Repeated(m)) BY DEF Final, Repeated
<1>4. ASSUME pc[m] \in Retrying PROVE Noted(m)' /\ Rising(m)' /\ Forced(m)'
  <2>1. Noted(m) /\ Rising(m) /\ Forced(m) BY <1>4 DEF Tries
  <2>2. Noted(m)' BY <1>3, <2>1 DEF Noted
  <2>3. \A h \in Int : h <= Size(m) /\ UpTo(m, h) => UpTo(m, h)' BY <1>1 DEF UpTo, LogGrows
  <2>4. \A h \in Int : h < Size(m) /\ Past(m, h) => Past(m, h)' BY <1>1 DEF Past, LogGrows
  <2>5. /\ tried[m] # <<>> => Final(m) <= Size(m)'
        /\ tried[m] # <<>> /\ Final(m) < Size(m) => Final(m) < Size(m)'
    BY <1>1, <1>2, <2>1 DEF Rising, LogGrows
  <2>6. pc[m] = "check" => Got(m)' > 0 BY <2>1 DEF Rising, LogGrows
  <2>7. Rising(m)'
    <3>1. pc'[m] = "made" => made'[m].at \in Nat /\ UpTo(m, made[m].at)'
      BY <1>1, <2>1, <2>3 DEF Rising
    <3>2. tried[m] # <<>> => UpTo(m, Final(m))' BY <1>2, <1>3, <2>1, <2>3 DEF Rising, UpTo
    <3>3. QED BY <1>3, <2>1, <2>5, <2>6, <3>1, <3>2 DEF Rising, UpTo
  <2>8. Forced(m)'
    <3>1. /\ tried[m] # <<>> /\ pc[m] \in {"enter", "check", "made"} /\ Repeated(m)
          => Past(m, Final(m))'
      BY <1>2, <1>3, <2>1, <2>4 DEF Forced, Past
    <3>2. /\ tried[m] # <<>> /\ pc[m] = "request" /\ request'[m] = "conflict"
          => Final(m) < Size(m)
      BY <1>1, <1>2, <2>1 DEF Forced, Noted
    <3>3. QED BY <1>1, <1>2, <1>3, <2>1, <2>5, <3>1, <3>2 DEF Forced, Past
  <2>9. QED BY <2>2, <2>7, <2>8
<1>5. QED BY <1>4 DEF Tries

\* A step of one publication that the log has no part in: the others are as they were.
LEMMA TriedStep ==
  ASSUME Inv, TriedInv, TriedTypes', Laned', NEW m \in Msgs, m \notin First => Tries(m)',
         UNCHANGED <<log, seen>>,
         \A n \in Msgs : n # m => /\ pc'[n] = pc[n] /\ entry'[n] = entry[n] /\ made'[n] = made[n]
                                  /\ last'[n] = last[n] /\ tried'[n] = tried[n]
                                  /\ request'[n] = request[n]
  PROVE  TriedInv'
<1> SUFFICES ASSUME NEW n \in Msgs \ First, n # m PROVE Tries(n)' BY DEF TriedInv
<1>1. LogGrows(n)
  <2>1. Got(n) \in Nat /\ Size(n) \in Nat BY TryTypes
  <2>2. Got(n)' = Got(n) /\ Size(n)' = Size(n) BY DEF Got, Size
  <2>3. QED BY <2>1, <2>2 DEF LogGrows
<1>2. Tries(n) BY DEF TriedInv
<1>3. QED BY <1>1, <1>2, TriesSame

\* Nothing that is said about a publication that is over.
LEMMA TriesDone ==
  ASSUME NEW m \in Msgs, Tries(m), pc'[m] = "done", tried'[m] = tried[m]
  PROVE  Tries(m)'
BY DEF Tries, Retrying

\* The types of a step that sends nothing.
LEMMA TriedSame ==
  ASSUME TriedTypes, UNCHANGED <<tried, last, lane>>
  PROVE  TriedTypes'
BY DEF TriedTypes

LEMMA LanedSame ==
  ASSUME Laned, UNCHANGED lane, \A n \in Msgs : pc'[n] = "check" => pc[n] = "check"
  PROVE  Laned'
BY DEF Laned

\* A publication is over.
LEMMA TriedSettles ==
  ASSUME Inv, TriedInv, NEW m \in Msgs, NEW how, Settle(m, how), TriedTypes', Laned',
         UNCHANGED <<log, seen, entry, made, tried>>,
         \A n \in Msgs : n # m => last'[n] = last[n] /\ request'[n] = request[n]
  PROVE  TriedInv'
<1>1. \A n \in Msgs : pc'[n] = IF n = m THEN "done" ELSE pc[n]
  BY DEF Settle, Inv, QueueInv, QueueTypes
<1>2. m \notin First => Tries(m)' BY <1>1, TriesDone DEF TriedInv
<1>3. QED BY <1>1, <1>2, TriedStep

\* A publication that has not been tried is made, queued or started.
LEMMA TriesFresh ==
  ASSUME NEW m \in Msgs, Tries(m), pc[m] \in {"idle", "queued", "asking"},
         pc'[m] \in {"queued", "asking", "enter"}, tried'[m] = tried[m],
         entry'[m].at = Unset
  PROVE  Tries(m)'
<1>1. tried[m] = <<>> BY DEF Tries
<1>2. QED BY <1>1 DEF Tries, Noted, Rising, Forced

\* A call gets an event, without a height unless it is the first of its contract.
LEMMA TriedEnqueued ==
  ASSUME Inv, TriedInv, NEW m \in Msgs, NEW parts, Enqueued(m, parts), pc[m] = "idle",
         NEW h \in Msgs \union {Nobody}, h # Nobody => pc[h] = "queued",
         \A n \in Msgs : pc'[n] = IF n = m THEN "queued" ELSE IF n = h THEN "asking" ELSE pc[n],
         UNCHANGED <<log, seen, lane, made, last, tried, request>>
  PROVE  TriedInv'
<1>1. TriedTypes' BY TriedSame DEF TriedInv
<1>2. Laned' BY LanedSame DEF TriedInv
<1>3. /\ \A n \in Msgs : n # m => entry'[n] = entry[n]
      /\ m \notin First => entry'[m].at = Unset
  BY DEF Enqueued, Inv, LogInv, LogTypes
<1>4. m \notin First => Tries(m)' BY <1>3, TriesFresh DEF TriedInv
<1>5. ASSUME NEW n \in Msgs \ First, n # m PROVE Tries(n)'
  <2>1. Tries(n) BY DEF TriedInv
  <2>2. CASE n = h
    <3>1. pc[n] = "queued" /\ pc'[n] = "asking" BY <1>5, <2>2, MsgsAssumption
    <3>2. entry'[n].at = Unset BY <1>3, <1>5, <2>1, <3>1 DEF Tries
    <3>3. QED BY <2>1, <3>1, <3>2, TriesFresh
  <2>3. CASE n # h
    <3>1. Got(n) \in Nat /\ Size(n) \in Nat BY TryTypes
    <3>2. Got(n)' = Got(n) /\ Size(n)' = Size(n) BY DEF Got, Size
    <3>3. LogGrows(n) BY <3>1, <3>2 DEF LogGrows
    <3>4. QED BY <1>3, <1>5, <2>1, <2>3, <3>3, TriesSame
  <2>4. QED BY <2>2, <2>3
<1>6. QED BY <1>1, <1>2, <1>4, <1>5 DEF TriedInv

LEMMA TriedCall ==
  ASSUME Inv, TriedInv, NEW m \in Msgs, Call(m)
  PROVE  TriedInv'
<1>1. pc[m] = "idle" /\ UNCHANGED <<log, seen, lane, made, last, tried, request>>
  BY DEF Call, stateVars
<1>2. CASE pc' = [pc EXCEPT ![m] = "queued"] /\ \E parts : Enqueued(m, parts)
  <2>1. PICK parts : Enqueued(m, parts) BY <1>2
  <2>2. \A n \in Msgs :
          pc'[n] = IF n = m THEN "queued" ELSE IF n = Nobody THEN "asking" ELSE pc[n]
    BY <1>2, MsgsAssumption DEF Inv, QueueInv, QueueTypes
  <2>3. Nobody \in Msgs \union {Nobody} OBVIOUS
  <2>4. QED BY <1>1, <2>1, <2>2, <2>3, TriedEnqueued
<1>3. CASE pc' = [pc EXCEPT ![m] = "done"] /\ UNCHANGED entry
  <2>1. \A n \in Msgs : pc'[n] = IF n = m THEN "done" ELSE pc[n]
    BY <1>3 DEF Inv, QueueInv, QueueTypes
  <2>2. TriedTypes' /\ Laned' BY <1>1, <2>1, TriedSame, LanedSame DEF TriedInv
  <2>3. m \notin First => Tries(m)' BY <1>1, <2>1, TriesDone DEF TriedInv
  <2>4. QED BY <1>1, <1>3, <2>1, <2>2, <2>3, TriedStep
<1>4. QED BY <1>2, <1>3 DEF Call

\* A publication is started.
LEMMA TriedStarts ==
  ASSUME Inv, TriedInv, NEW m \in Msgs, pc[m] \in {"queued", "asking"},
         pc' = [pc EXCEPT ![m] = "enter"],
         UNCHANGED <<log, seen, lane, entry, made, last, tried, request>>
  PROVE  TriedInv'
<1>1. \A n \in Msgs : pc'[n] = IF n = m THEN "enter" ELSE pc[n]
  BY DEF Inv, QueueInv, QueueTypes
<1>2. TriedTypes' /\ Laned' BY <1>1, TriedSame, LanedSame DEF TriedInv
<1>3. m \notin First => Tries(m)'
  <2> SUFFICES ASSUME m \notin First PROVE Tries(m)' OBVIOUS
  <2>1. Tries(m) BY DEF TriedInv
  <2>2. entry'[m].at = Unset BY <2>1 DEF Tries
  <2>3. QED BY <1>1, <2>1, <2>2, TriesFresh
<1>4. QED BY <1>1, <1>2, <1>3, TriedStep

LEMMA TriedStart ==
  ASSUME Inv, TriedInv, NEW m \in Msgs, Start(m)
  PROVE  TriedInv'
<1> DEFINE b == Before[m]
<1>1. pc[m] = "queued" /\ UNCHANGED <<log, seen, lane, made, last, tried, request>>
  BY DEF Start, Prepublish, stateVars
<1>2. CASE pc' = [pc EXCEPT ![m] = "enter"] /\ UNCHANGED entry BY <1>1, <1>2, TriedStarts
<1>3. CASE /\ b # Nobody /\ \E parts : Enqueued(b, parts)
           /\ pc' = [pc EXCEPT ![m] = "asking", ![b] = "queued"]
  <2>1. PICK parts : Enqueued(b, parts) BY <1>3
  <2>2. b \in Msgs /\ pc[b] = "idle"
    BY <1>1, <1>3, MsgsAssumption DEF Inv, QueueInv, Befores
  <2>3. \A n \in Msgs : pc'[n] = IF n = b THEN "queued" ELSE IF n = m THEN "asking" ELSE pc[n]
    BY <1>3, <2>2 DEF Inv, QueueInv, QueueTypes
  <2>4. m \in Msgs \union {Nobody} OBVIOUS
  <2> HIDE DEF b
  <2>5. QED BY <1>1, <2>1, <2>2, <2>3, <2>4, TriedEnqueued
<1>4. CASE Settle(m, "failed") /\ UNCHANGED entry
  <2>1. \A n \in Msgs : pc'[n] = "check" => pc[n] = "check"
    BY <1>4 DEF Settle, Inv, QueueInv, QueueTypes
  <2>2. TriedTypes' /\ Laned' BY <1>1, <2>1, TriedSame, LanedSame DEF TriedInv
  <2>3. QED BY <1>1, <1>4, <2>2, TriedSettles
<1>5. QED BY <1>2, <1>3, <1>4 DEF Start, Prepublish

LEMMA TriedHookDone ==
  ASSUME Inv, TriedInv, NEW m \in Msgs, HookDone(m)
  PROVE  TriedInv'
<1>1. pc[m] = "asking" /\ UNCHANGED <<log, seen, lane, entry, made, last, tried, request>>
  BY DEF HookDone, stateVars, ownVars
<1>2. CASE pc' = [pc EXCEPT ![m] = "enter"] BY <1>1, <1>2, TriedStarts
<1>3. CASE Settle(m, "failed")
  <2>1. \A n \in Msgs : pc'[n] = "check" => pc[n] = "check"
    BY <1>3 DEF Settle, Inv, QueueInv, QueueTypes
  <2>2. TriedTypes' /\ Laned' BY <1>1, <2>1, TriedSame, LanedSame DEF TriedInv
  <2>3. QED BY <1>1, <1>3, <2>2, TriedSettles
<1>4. QED BY <1>2, <1>3 DEF HookDone

LEMMA TriedEnter ==
  ASSUME Inv, TriedInv, NEW m \in Msgs, Enter(m)
  PROVE  TriedInv'
<1>1. /\ pc[m] = "enter" /\ lane[Owner[m]][Target[m]] = Nobody
      /\ last' = [last EXCEPT ![m] = entry[m].at]
      /\ UNCHANGED <<log, seen, entry, made, tried, request>>
  BY DEF Enter, stateVars
<1>2. /\ last' = [n \in Msgs |-> last'[n]] /\ last'[m] = entry[m].at
      /\ \A n \in Msgs : n # m => last'[n] = last[n]
  BY <1>1 DEF TriedInv, TriedTypes
<1>3. CASE Settle(m, "dropped") /\ UNCHANGED lane
  <2>1. \A n \in Msgs : pc'[n] = "check" => pc[n] = "check"
    BY <1>3 DEF Settle, Inv, QueueInv, QueueTypes
  <2>2. Laned' BY <1>3, <2>1, LanedSame DEF TriedInv
  <2>3. TriedTypes' BY <1>1, <1>2, <1>3 DEF TriedInv, TriedTypes
  <2>4. QED BY <1>1, <1>2, <1>3, <2>2, <2>3, TriedSettles
<1>4. CASE /\ Got(m) > 0 \/ m \in First
           /\ lane' = [lane EXCEPT ![Owner[m]][Target[m]] = m]
           /\ pc' = [pc EXCEPT ![m] = "check"]
  <2>1. \A n \in Msgs : pc'[n] = IF n = m THEN "check" ELSE pc[n]
    BY <1>4 DEF Inv, QueueInv, QueueTypes
  <2>2. Owner[m] \in Clients /\ Target[m] \in Contracts BY TryTypes
  <2>3. TriedTypes'
    <3>1. lane' \in [Clients -> [Contracts -> Msgs \union {Nobody}]]
      BY <1>4, <2>2 DEF TriedInv, TriedTypes
    <3>2. QED BY <1>1, <1>2, <3>1 DEF TriedInv, TriedTypes
  <2>4. Laned'
    <3> SUFFICES ASSUME NEW n \in Msgs, pc'[n] = "check"
                 PROVE  lane'[Owner[n]][Target[n]] = n
      BY DEF Laned
    <3>1. Owner[n] \in Clients /\ Target[n] \in Contracts BY TryTypes
    <3>2. CASE n = m BY <1>4, <2>2, <3>2 DEF TriedInv, TriedTypes
    <3>3. CASE n # m
      <4>1. lane[Owner[n]][Target[n]] = n BY <2>1, <3>3 DEF TriedInv, Laned
      <4>2. ~(Owner[n] = Owner[m] /\ Target[n] = Target[m]) BY <1>1, <4>1, MsgsAssumption
      <4>3. QED BY <1>4, <2>2, <3>1, <4>1, <4>2 DEF TriedInv, TriedTypes
    <3>4. QED BY <3>2, <3>3
  <2>5. m \notin First => Tries(m)'
    <3> SUFFICES ASSUME m \notin First PROVE Tries(m)' OBVIOUS
    <3>1. Tries(m) /\ Noted(m) /\ Rising(m) /\ Forced(m)
      BY <1>1 DEF TriedInv, Tries, Retrying
    <3>2. Got(m)' = Got(m) /\ Size(m)' = Size(m) /\ Final(m)' = Final(m)
      BY <1>1 DEF Got, Size, Final
    <3>3. pc'[m] = "check" BY <2>1
    <3>4. Noted(m)' BY <1>1, <1>2, <3>1, <3>2, <3>3 DEF Noted
    <3>5. Rising(m)' BY <1>1, <1>4, <3>1, <3>2, <3>3 DEF Rising, UpTo
    <3>6. Forced(m)' BY <1>1, <3>1, <3>2, <3>3 DEF Forced, Past, Repeated
    <3>7. QED BY <1>1, <3>1, <3>3, <3>4, <3>5, <3>6 DEF Tries
  <2>6. QED BY <1>1, <1>2, <2>1, <2>3, <2>4, <2>5, TriedStep
<1>5. QED BY <1>3, <1>4 DEF Enter, Got

LEMMA TriedCheck ==
  ASSUME Inv, TriedInv, NEW m \in Msgs, Check(m)
  PROVE  TriedInv'
<1>1. PICK parts : Checked(m, parts) BY DEF Check
<1>2. /\ pc[m] = "check" /\ lane' = [lane EXCEPT ![Owner[m]][Target[m]] = Nobody]
      /\ UNCHANGED <<log, seen, entry, last, tried, request>>
  BY <1>1 DEF Checked, stateVars
<1>3. TriedTypes'
  <2>1. Owner[m] \in Clients /\ Target[m] \in Contracts BY TryTypes
  <2>2. lane' \in [Clients -> [Contracts -> Msgs \union {Nobody}]]
    BY <1>2, <2>1 DEF TriedInv, TriedTypes
  <2>3. QED BY <1>2, <2>2 DEF TriedInv, TriedTypes
<1>4. ASSUME \A n \in Msgs : pc'[n] = "check" => pc[n] = "check" /\ n # m
      PROVE  Laned'
  <2> SUFFICES ASSUME NEW n \in Msgs, pc'[n] = "check"
               PROVE  lane'[Owner[n]][Target[n]] = n
    BY DEF Laned
  <2>1. Owner[n] \in Clients /\ Target[n] \in Contracts BY TryTypes
  <2>2. /\ lane[Owner[n]][Target[n]] = n /\ lane[Owner[m]][Target[m]] = m /\ n # m
    BY <1>2, <1>4 DEF TriedInv, Laned
  <2>3. ~(Owner[n] = Owner[m] /\ Target[n] = Target[m]) BY <2>2
  <2>4. QED BY <1>2, <2>1, <2>2, <2>3 DEF TriedInv, TriedTypes
<1>5. ASSUME NEW how, Settle(m, how), UNCHANGED made PROVE TriedInv'
  <2>1. \A n \in Msgs : pc'[n] = "check" => pc[n] = "check" /\ n # m
    BY <1>5 DEF Settle, Inv, QueueInv, QueueTypes
  <2>2. Laned' BY <1>4, <2>1
  <2>3. QED BY <1>2, <1>3, <1>5, <2>2, TriedSettles
<1> DEFINE e == [at |-> IF m \in First THEN entry[m].at ELSE Got(m), parts |-> parts]
<1>6. m \notin First => e.at = Got(m) OBVIOUS
<1>7. \/ Settle(m, "failed") /\ UNCHANGED made
      \/ Settle(m, "omitted") /\ UNCHANGED made
      \/ pc' = [pc EXCEPT ![m] = "made"] /\ made' = [made EXCEPT ![m] = e]
  BY <1>1 DEF Checked, Got
<1> HIDE DEF e
<1>8. CASE pc' = [pc EXCEPT ![m] = "made"] /\ made' = [made EXCEPT ![m] = e]
  <2>1. \A n \in Msgs : pc'[n] = IF n = m THEN "made" ELSE pc[n]
    BY <1>8 DEF Inv, QueueInv, QueueTypes
  <2>2. made'[m] = e /\ \A n \in Msgs : n # m => made'[n] = made[n]
    BY <1>8 DEF Inv, LogInv, LogTypes
  <2>3. Laned' BY <1>4, <2>1
  <2>4. m \notin First => Tries(m)'
    <3> SUFFICES ASSUME m \notin First PROVE Tries(m)' OBVIOUS
    <3>1. Tries(m) /\ Noted(m) /\ Rising(m) /\ Forced(m)
      BY <1>2 DEF TriedInv, Tries, Retrying
    <3>2. Got(m)' = Got(m) /\ Size(m)' = Size(m) /\ Final(m)' = Final(m)
      BY <1>2 DEF Got, Size, Final
    <3>3. pc'[m] = "made" /\ made'[m].at = Got(m) BY <1>6, <2>1, <2>2
    <3>4. Got(m) \in Nat /\ Got(m) > 0 BY <1>2, <3>1, TryTypes DEF Rising
    <3>5. tried[m] # <<>> => Final(m) \in Nat BY <3>1 DEF Tries, Final
    <3>6. Noted(m)' BY <1>2, <3>1, <3>2, <3>3 DEF Noted
    <3>7. Rising(m)' BY <1>2, <3>1, <3>2, <3>3, <3>4, <3>5 DEF Rising, UpTo
    <3>8. Forced(m)' BY <1>2, <3>1, <3>2, <3>3, <3>4, <3>5 DEF Forced, Past, Repeated
    <3>9. QED BY <1>2, <3>1, <3>3, <3>6, <3>7, <3>8 DEF Tries
  <2>5. QED BY <1>2, <1>3, <2>1, <2>2, <2>3, <2>4, TriedStep
<1>9. QED BY <1>5, <1>7, <1>8

LEMMA TriedSend ==
  ASSUME Inv, TriedInv, NEW m \in Msgs, Send(m)
  PROVE  TriedInv'
<1>1. /\ pc[m] = "made" /\ pc' = [pc EXCEPT ![m] = "request"]
      /\ entry' = [entry EXCEPT ![m] = made[m]] /\ made' = [made EXCEPT ![m] = NoEntry]
      /\ request' = [request EXCEPT ![m] = "sent"]
      /\ tried' = [tried EXCEPT ![m] = Append(@, made[m].at)]
      /\ UNCHANGED <<log, seen, lane, last>>
  BY DEF Send, stateVars
<1>2. \A n \in Msgs : pc'[n] = IF n = m THEN "request" ELSE pc[n]
  BY <1>1 DEF Inv, QueueInv, QueueTypes
<1>3. /\ entry'[m] = made[m] /\ request'[m] = "sent"
      /\ \A n \in Msgs : n # m => /\ entry'[n] = entry[n] /\ made'[n] = made[n]
                                  /\ request'[n] = request[n]
  BY <1>1 DEF Inv, LogInv, LogTypes
<1>4. /\ tried' = [n \in Msgs |-> tried'[n]] /\ tried'[m] = Append(tried[m], made[m].at)
      /\ \A n \in Msgs : n # m => tried'[n] = tried[n]
  BY <1>1 DEF TriedInv, TriedTypes
<1>5. TriedTypes' /\ Laned'
  <2>1. TriedTypes' BY <1>1, <1>4 DEF TriedInv, TriedTypes
  <2>2. Laned' BY <1>1, <1>2, LanedSame DEF TriedInv
  <2>3. QED BY <2>1, <2>2
<1>6. m \notin First => Tries(m)'
  <2> SUFFICES ASSUME m \notin First PROVE Tries(m)' OBVIOUS
  <2> DEFINE T == tried[m]
             h == made[m].at
  <2>1. Tries(m) /\ Noted(m) /\ Rising(m) /\ Forced(m) BY <1>1 DEF TriedInv, Tries, Retrying
  <2>2. T \in Seq(Nat) /\ Climbs(T) /\ h \in Nat /\ h <= Size(m) /\ UpTo(m, h)
    BY <1>1, <2>1, TryTypes DEF Tries, Rising
  <2>3. T # <<>> => h >= T[Len(T)] BY <1>1, <2>1 DEF Rising, Final
  <2>4. Len(T) > 1 /\ T[Len(T) - 1] = T[Len(T)] => h > T[Len(T)]
    BY <1>1, <2>1, <2>2 DEF Forced, Final, Repeated
  <2>5. Append(T, h) \in Seq(Nat) /\ Climbs(Append(T, h))
    <3> HIDE DEF T, h
    <3>1. QED BY <2>2, <2>3, <2>4, ClimbsOn
  <2>6. /\ Len(T) \in Nat /\ Len(Append(T, h)) = Len(T) + 1 /\ Append(T, h) # <<>>
        /\ Append(T, h)[Len(T) + 1] = h
        /\ Len(T) > 0 => Append(T, h)[Len(T)] = T[Len(T)]
        /\ T # <<>> <=> Len(T) > 0
    BY <2>2
  <2>7. tried'[m] = Append(T, h) /\ entry'[m].at = h BY <1>3, <1>4
  <2>8. last'[m] = IF T = <<>> THEN Unset ELSE T[Len(T)]
    BY <1>1, <2>1 DEF Noted, Final
  <2> HIDE DEF T, h
  <2>9. Final(m)' = h BY <2>6, <2>7 DEF Final
  <2>10. Noted(m)'
    <3>1. last'[m] = IF Len(tried'[m]) = 1 THEN Unset ELSE tried'[m][Len(tried'[m]) - 1]
      BY <2>6, <2>7, <2>8
    <3>2. QED BY <1>2, <2>6, <2>7, <2>9, <3>1 DEF Noted
  <2>11. Got(m)' = Got(m) /\ Size(m)' = Size(m) BY <1>1 DEF Got, Size
  <2>12. Rising(m)' BY <1>2, <2>2, <2>9, <2>11 DEF Rising, UpTo
  <2>13. Forced(m)' BY <1>2, <1>3 DEF Forced
  <2>14. QED BY <1>2, <2>5, <2>7, <2>10, <2>12, <2>13 DEF Tries
<1>7. QED BY <1>1, <1>2, <1>3, <1>4, <1>5, <1>6, TriedStep

\* What the server does says something about the one it refuses only.
LEMMA TriedServe ==
  ASSUME Inv, TriedInv, NEW m \in Msgs, Serve(m)
  PROVE  TriedInv'
<1>1. UNCHANGED <<seen, lane, pc, entry, made, last, tried>> BY DEF Serve, ownVars
<1>2. TriedTypes' /\ Laned' BY <1>1, TriedSame, LanedSame DEF TriedInv
<1>3. ASSUME NEW n \in Msgs \ First PROVE Tries(n)'
  <2>1. Tries(n) BY DEF TriedInv
  <2>2. Target[n] \in Contracts /\ Got(n) \in Nat /\ Size(n) \in Nat
        /\ entry[n].at \in Int /\ entry[n].at <= Size(n)
    BY TryTypes
  <2>3. request'[n] = request[n] \/ (request'[n] = "conflict" => entry[n].at < Size(n))
    <3>1. CASE n # m BY <3>1 DEF Serve, Inv, LogInv, LogTypes
    <3>2. CASE n = m
      <4>1. \/ request'[m] = "ok" \/ request'[m] = "error"
            \/ request'[m] = "conflict" /\ entry[m].at # Size(m)
        BY DEF Serve, Inv, LogInv, LogTypes, Size
      <4>2. QED BY <2>2, <3>2, <4>1
    <3>3. QED BY <3>1, <3>2
  <2>4. Size(n)' \in Nat /\ Size(n)' >= Size(n)
    <3> DEFINE t == Target[m]
               r == Run(KeysAt(t, Len(log[t])), entry[m].parts, m \in Atomic)
               e == [msg |-> m, at |-> entry[m].at, parts |-> entry[m].parts,
                     keys |-> IF r.ok THEN r.keys ELSE KeysAt(t, Len(log[t]))]
    <3>1. UNCHANGED log \/ log' = [log EXCEPT ![t] = Append(@, e)] BY DEF Serve
    <3>2. CASE UNCHANGED log BY <2>2, <3>2 DEF Size
    <3> HIDE DEF e
    <3>3. CASE log' = [log EXCEPT ![t] = Append(@, e)]
      <4>1. PICK S : log \in [Contracts -> Seq(S)] BY DEF Inv, LogInv, LogTypes
      <4>2. t \in Contracts BY MsgsAssumption
      <4>3. \A c \in Contracts : log'[c] = IF c = t THEN Append(log[t], e) ELSE log[c]
        BY <3>3, <4>1, <4>2
      <4>4. log[t] \in Seq(S) BY <4>1, <4>2
      <4>5. Len(Append(log[t], e)) = Len(log[t]) + 1 BY <4>4, Appended
      <4>6. CASE Target[n] = t
        <5>1. Size(n)' = Size(n) + 1 BY <2>2, <4>3, <4>5, <4>6 DEF Size
        <5>2. QED BY <2>2, <5>1
      <4>7. CASE Target[n] # t
        <5>1. Size(n)' = Size(n) BY <2>2, <4>3, <4>7 DEF Size
        <5>2. QED BY <2>2, <5>1
      <4>8. QED BY <4>6, <4>7
    <3>4. QED BY <3>1, <3>2, <3>3
  <2>5. Got(n)' = Got(n) BY <1>1 DEF Got
  <2>6. LogGrows(n) BY <2>2, <2>4, <2>5 DEF LogGrows
  <2>7. QED BY <1>1, <2>1, <2>3, <2>6, TriesSame
<1>4. QED BY <1>2, <1>3 DEF TriedInv

\* After a refusal it goes to the forced sync just if the height was tried before.
LEMMA TriedAnswer ==
  ASSUME Inv, TriedInv, NEW m \in Msgs, Answer(m)
  PROVE  TriedInv'
<1> DEFINE p == IF m \notin First /\ entry[m].at = last[m] THEN "sync" ELSE "enter"
<1>1. Answered(m, p) BY DEF Answer
<1>2. /\ pc[m] = "request" /\ request' = [request EXCEPT ![m] = "none"]
      /\ UNCHANGED <<log, seen, lane, entry, made, last, tried>>
  BY <1>1 DEF Answered, stateVars, ownVars
<1>3. \A n \in Msgs : n # m => request'[n] = request[n] BY <1>2 DEF Inv, LogInv, LogTypes
<1>4. TriedTypes' BY <1>2, TriedSame DEF TriedInv
<1>5. ASSUME NEW how, Settle(m, how) PROVE TriedInv'
  <2>1. \A n \in Msgs : pc'[n] = "check" => pc[n] = "check"
    BY <1>5 DEF Settle, Inv, QueueInv, QueueTypes
  <2>2. Laned' BY <1>2, <2>1, LanedSame DEF TriedInv
  <2>3. QED BY <1>2, <1>3, <1>4, <1>5, <2>2, TriedSettles
<1>6. CASE request[m] = "conflict" /\ pc' = [pc EXCEPT ![m] = p]
  <2>1. \A n \in Msgs : pc'[n] = IF n = m THEN p ELSE pc[n]
    BY <1>6 DEF Inv, QueueInv, QueueTypes
  <2>2. p = "sync" \/ p = "enter" OBVIOUS
  <2>3. Laned' BY <1>2, <2>1, <2>2, LanedSame DEF TriedInv
  <2>4. m \notin First => Tries(m)'
    <3> SUFFICES ASSUME m \notin First PROVE Tries(m)' OBVIOUS
    <3>1. Tries(m) /\ Noted(m) /\ Rising(m) /\ Forced(m)
      BY <1>2 DEF TriedInv, Tries, Retrying
    <3>2. /\ Got(m)' = Got(m) /\ Size(m)' = Size(m) /\ Final(m)' = Final(m)
          /\ (Repeated(m)' <=> Repeated(m))
      BY <1>2 DEF Got, Size, Final, Repeated
    <3>3. tried[m] # <<>> /\ Size(m) > Final(m) BY <1>2, <1>6, <3>1 DEF Noted, Forced
    <3>4. p = "enter" => ~Repeated(m)
      <4>1. entry[m].at = Final(m) BY <1>2, <3>1, <3>3 DEF Noted
      <4>a. tried[m] \in Seq(Nat) BY <3>1 DEF Tries
      <4>b. Len(tried[m]) \in Nat BY <4>a
      <4>c. \A n \in Nat : n > 1 => n # 1 OBVIOUS
      <4>d. Len(tried[m]) > 1 => Len(tried[m]) # 1 BY <4>b, <4>c, Zenon
      <4>2. Len(tried[m]) > 1 => last[m] = tried[m][Len(tried[m]) - 1]
        BY <1>2, <3>1, <4>d DEF Noted
      <4>3. p = "enter" => entry[m].at # last[m] BY DEF p
      <4>4. QED BY <4>1, <4>2, <4>3 DEF Repeated
    <3> HIDE DEF p
    <3>5. Noted(m)' BY <1>2, <2>1, <2>2, <3>1, <3>2, <3>3 DEF Noted
    <3>6. Rising(m)' BY <1>2, <2>1, <2>2, <3>1, <3>2 DEF Rising, UpTo
    <3>7. Forced(m)' BY <2>1, <2>2, <3>2, <3>3, <3>4 DEF Forced
    <3>8. QED BY <1>2, <2>1, <2>2, <3>1, <3>5, <3>6, <3>7 DEF Tries
  <2>5. QED BY <1>2, <1>3, <1>4, <2>1, <2>3, <2>4, TriedStep
<1>7. QED BY <1>1, <1>5, <1>6 DEF Answered

LEMMA TriedFailures ==
  ASSUME Inv, TriedInv, NEW m \in Msgs, Lost(m) \/ SyncFails(m)
  PROVE  TriedInv'
<1>1. Settle(m, "failed") /\ UNCHANGED <<log, seen, lane, entry, made, last, tried, request>>
  BY DEF Lost, SyncFails, stateVars, ownVars
<1>2. \A n \in Msgs : pc'[n] = "check" => pc[n] = "check"
  BY <1>1 DEF Settle, Inv, QueueInv, QueueTypes
<1>3. TriedTypes' /\ Laned' BY <1>1, <1>2, TriedSame, LanedSame DEF TriedInv
<1>4. QED BY <1>1, <1>3, TriedSettles

\* While nothing is checked, a client gets more of the log, all of it, or loses it.
LEMMA SeenGrows ==
  ASSUME Inv, TriedInv, NEW u \in Clients, NEW c \in Contracts, lane[u][c] = Nobody,
         NEW k \in Nat, k = 0 \/ k = Len(log[c]) \/ (seen[u][c] > 0 /\ k > seen[u][c]),
         seen' = [seen EXCEPT ![u][c] = k], UNCHANGED log, NEW m \in Msgs
  PROVE  LogGrows(m)
<1>1. Owner[m] \in Clients /\ Target[m] \in Contracts /\ Got(m) \in Nat /\ Size(m) \in Nat
  BY TryTypes
<1>2. Size(m)' = Size(m) BY DEF Size
<1>3. CASE Owner[m] = u /\ Target[m] = c
  <2>1. pc[m] # "check" BY <1>3, MsgsAssumption DEF TriedInv, Laned
  <2>2. Got(m)' = k BY <1>3 DEF Got, Inv, LogInv, LogTypes
  <2>3. Got(m) = seen[u][c] /\ Size(m) = Len(log[c]) BY <1>3 DEF Got, Size
  <2>4. QED BY <1>1, <1>2, <2>1, <2>2, <2>3 DEF LogGrows
<1>4. CASE ~(Owner[m] = u /\ Target[m] = c)
  <2>1. Got(m)' = Got(m) BY <1>1, <1>4 DEF Got, Inv, LogInv, LogTypes
  <2>2. QED BY <1>1, <1>2, <2>1 DEF LogGrows
<1>5. QED BY <1>3, <1>4

LEMMA TriedForcedSync ==
  ASSUME Inv, TriedInv, NEW m \in Msgs, ForcedSync(m)
  PROVE  TriedInv'
<1>1. /\ pc[m] = "sync" /\ pc' = [pc EXCEPT ![m] = "enter"]
      /\ lane[Owner[m]][Target[m]] = Nobody
      /\ seen' = [seen EXCEPT ![Owner[m]][Target[m]] = Len(log[Target[m]])]
      /\ UNCHANGED <<log, lane, entry, made, last, tried, request>>
  BY DEF ForcedSync, Handled, ownVars
<1>2. \A n \in Msgs : pc'[n] = IF n = m THEN "enter" ELSE pc[n]
  BY <1>1 DEF Inv, QueueInv, QueueTypes
<1>3. TriedTypes' /\ Laned' BY <1>1, <1>2, TriedSame, LanedSame DEF TriedInv
<1>4. Owner[m] \in Clients /\ Target[m] \in Contracts /\ Len(log[Target[m]]) \in Nat
  BY TryTypes DEF Size
<1>5. ASSUME NEW n \in Msgs \ First, n # m PROVE Tries(n)'
  <2>1. LogGrows(n) BY <1>1, <1>4, SeenGrows
  <2>2. QED BY <1>1, <1>2, <1>5, <2>1, TriesSame DEF TriedInv
<1>6. m \notin First => Tries(m)'
  <2> SUFFICES ASSUME m \notin First PROVE Tries(m)' OBVIOUS
  <2>1. Tries(m) /\ Noted(m) /\ Rising(m) /\ Forced(m)
    BY <1>1 DEF TriedInv, Tries, Retrying
  <2>2. Size(m)' = Size(m) /\ Final(m)' = Final(m) BY <1>1 DEF Size, Final
  <2>3. Got(m)' = Size(m) BY <1>1, <1>4 DEF Got, Size, Inv, LogInv, LogTypes
  <2>4. tried[m] # <<>> /\ Size(m) > Final(m) BY <1>1, <2>1 DEF Noted, Forced
  <2>5. Size(m) \in Nat /\ Final(m) \in Nat BY <2>1, <2>4, TryTypes DEF Tries, Final
  <2>6. Noted(m)' BY <1>1, <1>2, <2>1, <2>2 DEF Noted
  <2>7. Rising(m)' BY <1>2, <2>2, <2>3, <2>4, <2>5 DEF Rising, UpTo
  <2>8. Forced(m)' BY <1>2, <2>2, <2>3, <2>4 DEF Forced, Past
  <2>9. QED BY <1>1, <1>2, <2>1, <2>6, <2>7, <2>8 DEF Tries
<1>7. QED BY <1>3, <1>5, <1>6 DEF TriedInv

LEMMA TriedReceive ==
  ASSUME Inv, TriedInv, NEW u \in Clients, NEW c \in Contracts,
         Receive(u, c) \/ Sync(u, c) \/ Drop(u, c)
  PROVE  TriedInv'
<1>1. lane[u][c] = Nobody /\ UNCHANGED <<log, lane, pc, entry, made, last, tried, request>>
  BY DEF Receive, Sync, Drop, ownVars
<1>2. Len(log[c]) \in Nat /\ seen[u][c] \in Nat BY DEF Inv, LogInv, LogTypes
<1>3. PICK k \in Nat : /\ k = 0 \/ k = Len(log[c]) \/ (seen[u][c] > 0 /\ k > seen[u][c])
                       /\ seen' = [seen EXCEPT ![u][c] = k]
  <2>1. CASE Receive(u, c)
    <3>1. seen[u][c] > 0 /\ seen[u][c] + 1 > seen[u][c] /\ seen[u][c] + 1 \in Nat
      BY <1>2, <2>1 DEF Receive
    <3>2. seen' = [seen EXCEPT ![u][c] = seen[u][c] + 1] BY <2>1 DEF Receive, Handled
    <3>3. QED BY <3>1, <3>2
  <2>2. CASE Sync(u, c)
    <3>1. seen' = [seen EXCEPT ![u][c] = Len(log[c])] BY <2>2 DEF Sync, Handled
    <3>2. QED BY <1>2, <3>1
  <2>3. CASE Drop(u, c) BY <2>3 DEF Drop
  <2>4. QED BY <2>1, <2>2, <2>3
<1>4. TriedTypes' /\ Laned' BY <1>1, TriedSame, LanedSame DEF TriedInv
<1>5. ASSUME NEW n \in Msgs \ First PROVE Tries(n)'
  <2>1. LogGrows(n) BY <1>1, <1>3, SeenGrows
  <2>2. QED BY <1>1, <2>1, TriesSame DEF TriedInv
<1>6. QED BY <1>4, <1>5 DEF TriedInv

LEMMA TriedInit == Init => TriedInv
<1> SUFFICES ASSUME Init PROVE TriedInv OBVIOUS
<1>1. \A m \in Msgs : pc[m] = "idle" /\ tried[m] = <<>> BY DEF Init
<1>2. TriedTypes BY DEF Init, TriedTypes
<1>3. Laned BY <1>1 DEF Laned
<1>4. <<>> \in Seq(Nat) /\ Climbs(<<>>) BY DEF Climbs
<1>5. \A m \in Msgs : Tries(m) BY <1>1, <1>4 DEF Tries, Retrying
<1>6. QED BY <1>2, <1>3, <1>5 DEF TriedInv

LEMMA TriedNext == Inv /\ TriedInv /\ [Next]_vars => TriedInv'
<1> SUFFICES ASSUME Inv, TriedInv, [Next]_vars PROVE TriedInv' OBVIOUS
<1>1. ASSUME NEW m \in Msgs, Call(m) PROVE TriedInv' BY <1>1, TriedCall
<1>2. ASSUME NEW m \in Msgs, Attempt(m) PROVE TriedInv'
  BY <1>2, TriedStart, TriedHookDone, TriedEnter, TriedCheck, TriedSend, TriedAnswer,
     TriedForcedSync DEF Attempt
<1>3. ASSUME NEW m \in Msgs, Serve(m) PROVE TriedInv' BY <1>3, TriedServe
<1>4. ASSUME NEW m \in Msgs, Lost(m) \/ SyncFails(m) PROVE TriedInv' BY <1>4, TriedFailures
<1>5. ASSUME NEW u \in Clients, NEW c \in Written(u), Receive(u, c) \/ Sync(u, c) \/ Drop(u, c)
      PROVE  TriedInv'
  <2>1. c \in Contracts BY MsgsAssumption DEF Written
  <2>2. QED BY <1>5, <2>1, TriedReceive
<1>6. CASE UNCHANGED vars
  <2>1. UNCHANGED <<log, seen, lane, pc, entry, made, last, tried, request>>
    BY <1>6 DEF vars, stateVars, ownVars
  <2>2. TriedTypes' /\ Laned' BY <2>1, TriedSame, LanedSame DEF TriedInv
  <2>3. ASSUME NEW n \in Msgs \ First PROVE Tries(n)'
    <3>1. Got(n) \in Nat /\ Size(n) \in Nat BY TryTypes
    <3>2. Got(n)' = Got(n) /\ Size(n)' = Size(n) BY <2>1 DEF Got, Size
    <3>3. LogGrows(n) BY <3>1, <3>2 DEF LogGrows
    <3>4. QED BY <2>1, <3>3, TriesSame DEF TriedInv
  <2>4. QED BY <2>2, <2>3 DEF TriedInv
<1>7. QED BY <1>1, <1>2, <1>3, <1>4, <1>5, <1>6 DEF Next

\* No height is tried more than twice: whatever else is written, received or dropped, the
\* second refusal of one has the client go past it.
THEOREM TwiceAlways == Spec => []TwiceAtMost
<1>1. TriedInv => TwiceAtMost
  <2> SUFFICES ASSUME TriedInv, NEW m \in Msgs \ First,
                      NEW i \in DOMAIN tried[m], NEW j \in DOMAIN tried[m], NEW k \in DOMAIN tried[m],
                      tried[m][i] = tried[m][j], tried[m][j] = tried[m][k]
               PROVE  i = j \/ j = k \/ i = k
    BY DEF TwiceAtMost
  <2>1. tried[m] \in Seq(Nat) /\ Climbs(tried[m]) BY DEF TriedInv, Tries
  <2> DEFINE T == tried[m]
  <2>2. Len(T) \in Nat /\ DOMAIN T = 1 .. Len(T) BY <2>1
  <2>3. ASSUME NEW x \in 1 .. Len(T), NEW z \in 1 .. Len(T), x + 2 <= z, T[x] = T[z]
        PROVE  FALSE
    <3>1. x + 2 \in 1 .. Len(T) /\ x + 2 <= Len(T) BY <2>2, <2>3
    <3>2. T[x] < T[x + 2] BY <2>1, <3>1 DEF Climbs
    <3>3. x + 2 = z \/ T[x + 2] <= T[z]
      <4>1. x + 2 = z \/ x + 2 < z BY <2>2, <2>3
      <4>2. x + 2 < z => T[x + 2] <= T[z] BY <2>1, <3>1 DEF Climbs
      <4>3. QED BY <4>1, <4>2
    <3>4. \A y \in 1 .. Len(T) : T[y] \in Nat BY <2>1
    <3> HIDE DEF T
    <3>5. T[x] \in Nat /\ T[x + 2] \in Nat /\ T[z] \in Nat BY <3>1, <3>4
    <3>6. QED BY <2>3, <3>2, <3>3, <3>5
  <2> HIDE DEF T
  <2>4. i \in 1 .. Len(T) /\ j \in 1 .. Len(T) /\ k \in 1 .. Len(T)
        /\ T[i] = T[j] /\ T[j] = T[k] /\ T[i] = T[k]
    BY <2>2 DEF T
  <2>5. /\ ~(i + 2 <= j) /\ ~(j + 2 <= i) /\ ~(i + 2 <= k) /\ ~(k + 2 <= i)
        /\ ~(j + 2 <= k) /\ ~(k + 2 <= j)
    BY <2>3, <2>4
  <2>6. QED BY <2>2, <2>4, <2>5
<1>2. Inv /\ TriedInv /\ [Next]_vars => (Inv /\ TriedInv)' BY StepInv, TriedNext
<1>3. QED BY <1>1, <1>2, InitInv, TriedInit, PTL DEF Spec

----------------------------------------------------------------------------
(* Folds over a payload.                                                    *)

\* Sets of numbers have a least member, and bounded ones a greatest.
LEMMA LeastNat == ASSUME NEW S \in SUBSET Nat, S # {} PROVE \E x \in S : \A y \in S : x <= y
<1> DEFINE R == {ss \in Nat \X Nat : ss[1] < ss[2]}
<1>0. OpToRel(<, Nat) = R
  BY DEF OpToRel
<1>1. PICK x \in S : \A y \in S : ~ (<<y, x>> \in R)
  BY <1>0, NatLessThanWellFounded, WFMin
<1>2. ASSUME NEW y \in S PROVE x <= y
  <2>1. x \in Nat /\ y \in Nat /\ <<y, x>> \notin R
    BY <1>1
  <2>2. <<y, x>>[1] = y /\ <<y, x>>[2] = x /\ <<y, x>> \in Nat \X Nat
    BY <2>1
  <2>3. ~(y < x)
    BY <2>1, <2>2
  <2> QED
    BY <2>1, <2>3
<1> QED
  BY <1>2

LEMMA LastOf ==
  ASSUME NEW n \in Nat, NEW s \in SUBSET (1 .. n), s # {}
  PROVE  Max(s) \in s /\ \A y \in s : y <= Max(s)
<1> DEFINE S == {n - y : y \in s}
<1>1. \A y \in s : y \in Int /\ 1 <= y /\ y <= n
  OBVIOUS
<1>2. S \in SUBSET Nat /\ S # {}
  <2>1. \A y \in s : n - y \in Nat
    BY <1>1
  <2> QED
    BY <2>1
<1>3. PICK z \in S : \A y \in S : z <= y
  BY <1>2, LeastNat
<1>4. PICK x \in s : z = n - x
  BY <1>3
<1>5. \A y \in s : x >= y
  BY <1>1, <1>3, <1>4
<1> QED
  BY <1>4, <1>5, <1>1 DEF Max

\* f[s]: what a fold with g has from b after the members of s, in their order.
IsFold(f, V, n, b, g) ==
  /\ f \in [SUBSET (1 .. n) -> V]
  /\ \A s \in SUBSET (1 .. n) :
       f[s] = IF s = {} THEN b ELSE g[<<f[s \ {Max(s)}], Max(s)>>]

\* A fold over the first n numbers has a value at each of their subsets.
LEMMA FoldExists ==
  ASSUME NEW V, NEW n \in Nat, NEW b \in V, NEW g \in [V \X (1 .. n) -> V]
  PROVE  \E f : IsFold(f, V, n, b, g)
<1> DEFINE Folds(f, k) == IsFold(f, V, k, b, g)
           S == {k \in Nat : k <= n /\ ~\E f : Folds(f, k)}
<1> HIDE DEF Folds
<1>1. S = {}
  <2> SUFFICES ASSUME S # {} PROVE FALSE
    OBVIOUS
  <2>1. PICK k \in S : \A j \in S : k <= j
    BY LeastNat
  <2>2. CASE k = 0
    <3> DEFINE f == [s \in SUBSET (1 .. 0) |-> b]
    <3>1. \A s \in SUBSET (1 .. 0) : s = {}
      OBVIOUS
    <3>2. Folds(f, 0)
      BY <3>1 DEF Folds, IsFold
    <3> HIDE DEF f
    <3> QED
      BY <2>1, <2>2, <3>2
  <2>3. CASE k # 0
    <3>1. k \in Nat /\ k - 1 \in Nat /\ k <= n /\ k - 1 \notin S
      BY <2>1, <2>3
    <3>2. PICK h : Folds(h, k - 1)
      BY <3>1
    <3> DEFINE v(s) == IF s = {} THEN b ELSE g[<<h[s \ {Max(s)}], Max(s)>>]
               f == [s \in SUBSET (1 .. k) |-> v(s)]
    <3>3. ASSUME NEW s \in SUBSET (1 .. k), s # {}
          PROVE  Max(s) \in 1 .. n /\ s \ {Max(s)} \in SUBSET (1 .. k - 1)
      <4>1. Max(s) \in s /\ \A y \in s : y <= Max(s)
        BY <3>1, <3>3, LastOf
      <4>2. \A y \in s : y \in Int /\ 1 <= y /\ y <= k
        OBVIOUS
      <4> HIDE DEF f
      <4>3. ASSUME NEW y \in s \ {Max(s)} PROVE y \in 1 .. k - 1
        <5>1. y \in Int /\ 1 <= y /\ y <= k /\ y # Max(s) /\ y <= Max(s)
          BY <4>1, <4>2
        <5>2. Max(s) \in Int /\ Max(s) <= k
          BY <4>1, <4>2
        <5> QED
          BY <5>1, <5>2, <3>1
      <4>4. Max(s) \in 1 .. n
        <5>1. Max(s) \in Int /\ 1 <= Max(s) /\ Max(s) <= k
          BY <4>1, <4>2
        <5> QED
          BY <5>1, <3>1
      <4> QED
        BY <4>3, <4>4
    <3>4. \A s \in SUBSET (1 .. k) : v(s) \in V
      BY <3>2, <3>3 DEF Folds, IsFold
    <3>5. ASSUME NEW s \in SUBSET (1 .. k - 1) PROVE v(s) = h[s] /\ f[s] = h[s]
      <4>1. s \in SUBSET (1 .. k)
        BY <3>1
      <4>2. v(s) = h[s]
        BY <3>2 DEF Folds, IsFold
      <4> HIDE DEF v
      <4> QED
        BY <4>1, <4>2
    <3> HIDE DEF v
    <3>6. f \in [SUBSET (1 .. k) -> V]
      BY <3>4
    <3>7. ASSUME NEW s \in SUBSET (1 .. k)
          PROVE  f[s] = IF s = {} THEN b ELSE g[<<f[s \ {Max(s)}], Max(s)>>]
      <4>1. f[s] = v(s)
        OBVIOUS
      <4>2. s # {} => f[s \ {Max(s)}] = h[s \ {Max(s)}]
        BY <3>3, <3>5
      <4> HIDE DEF f
      <4> QED
        BY <4>1, <4>2 DEF v
    <3>8. Folds(f, k)
      BY <3>6, <3>7 DEF Folds, IsFold
    <3> HIDE DEF f
    <3> QED
      BY <2>1, <3>8
  <2> QED
    BY <2>2, <2>3
<1>2. n \notin S
  BY <1>1
<1>3. PICK f : Folds(f, n)
  BY <1>2
<1> QED
  BY <1>3 DEF Folds, IsFold

\* The set that a fold over a sequence reaches with its k-th element.
LEMMA Prefix ==
  ASSUME NEW k \in Nat, k # 0
  PROVE  Max(1 .. k) = k /\ (1 .. k) \ {k} = 1 .. k - 1 /\ 1 .. k # {}
<1>1. k \in 1 .. k /\ 1 .. k \in SUBSET (1 .. k)
  OBVIOUS
<1>2. Max(1 .. k) \in 1 .. k /\ \A y \in 1 .. k : y <= Max(1 .. k)
  BY <1>1, LastOf
<1>3. Max(1 .. k) = k
  BY <1>1, <1>2
<1> QED
  BY <1>1, <1>3

----------------------------------------------------------------------------
(* Run, part after part.                                                    *)
KeyRings == [Keys -> Status]
Results == [ok : BOOLEAN, keys : KeyRings]
Fresh(keys) == [ok |-> TRUE, keys |-> keys]
PartRun(r, p, atomic) ==
  IF ~r.ok \/ (atomic /\ Warns(r.keys, p)) THEN r
  ELSE IF Warns(r.keys, p) \/ Fails(r.keys, p) THEN [r EXCEPT !.ok = FALSE]
  ELSE [r EXCEPT !.keys = Changed(@, p)]

Runs(f, keys, parts, atomic) ==
  f = [s \in SUBSET DOMAIN parts |->
         IF s = {} THEN Fresh(keys) ELSE PartRun(f[s \ {Max(s)}], parts[Max(s)], atomic)]

LEMMA ChangedType ==
  ASSUME NEW keys \in KeyRings, NEW p PROVE Changed(keys, p) \in KeyRings
BY DEF KeyRings, Changed, Status

LEMMA PartRunType ==
  ASSUME NEW r \in Results, NEW p, NEW atomic
  PROVE  PartRun(r, p, atomic) \in Results
<1>1. r.keys \in KeyRings /\ Changed(r.keys, p) \in KeyRings
  BY ChangedType DEF Results
<1>2. [r EXCEPT !.ok = FALSE] \in Results
  BY DEF Results
<1>3. [r EXCEPT !.keys = Changed(@, p)] \in Results
  BY <1>1 DEF Results
<1> QED
  BY <1>2, <1>3 DEF PartRun

\* What Run has after each part.
LEMMA RunSteps ==
  ASSUME NEW keys \in KeyRings, NEW parts \in Seq(Parts), NEW atomic
  PROVE  \E r \in [0 .. Len(parts) -> Results] :
           /\ r[0] = Fresh(keys)
           /\ \A k \in 1 .. Len(parts) : r[k] = PartRun(r[k - 1], parts[k], atomic)
           /\ Run(keys, parts, atomic) = r[Len(parts)]
<1> DEFINE n == Len(parts)
           g == [x \in Results \X (1 .. n) |-> PartRun(x[1], parts[x[2]], atomic)]
           F == CHOOSE f : Runs(f, keys, parts, atomic)
<1>0. n \in Nat /\ DOMAIN parts = 1 .. n /\ Fresh(keys) \in Results
  BY DEF Fresh, Results
<1>1. g \in [Results \X (1 .. n) -> Results]
  BY PartRunType
<1>2. \A v \in Results, i \in 1 .. n : g[<<v, i>>] = PartRun(v, parts[i], atomic)
  OBVIOUS
<1> HIDE DEF g
<1>3. PICK f : IsFold(f, Results, n, Fresh(keys), g)
  BY <1>0, <1>1, FoldExists
<1>4. ASSUME NEW s \in SUBSET (1 .. n)
      PROVE  f[s] = IF s = {} THEN Fresh(keys)
                    ELSE PartRun(f[s \ {Max(s)}], parts[Max(s)], atomic)
  <2>1. s # {} => Max(s) \in s
    BY <1>0, LastOf
  <2>2. s # {} => Max(s) \in 1 .. n /\ f[s \ {Max(s)}] \in Results
    BY <1>3, <2>1 DEF IsFold
  <2> QED
    BY <1>2, <1>3, <2>2 DEF IsFold
<1>5. Runs(f, keys, parts, atomic)
  <2>1. f = [s \in SUBSET (1 .. n) |-> f[s]]
    BY <1>3 DEF IsFold
  <2> HIDE DEF n
  <2> QED
    BY <1>0, <1>4, <2>1 DEF Runs
<1>6. Runs(F, keys, parts, atomic)
  BY <1>5
<1>7. Run(keys, parts, atomic) = F[1 .. n]
  <2>1. Run(keys, parts, atomic) = F[DOMAIN parts]
    BY DEF Run, FoldLeft, MapThenFoldSet, Runs, Fresh, PartRun
  <2> QED
    BY <1>0, <2>1
<1> HIDE DEF F
<1> DEFINE r == [k \in 0 .. n |-> F[1 .. k]]
<1>8. r[0] = Fresh(keys)
  <2>1. 1 .. 0 = {} /\ {} \in SUBSET (1 .. n)
    OBVIOUS
  <2>2. F[{}] = Fresh(keys)
    BY <1>0, <1>6, <2>1 DEF Runs
  <2> QED
    BY <1>0, <2>1, <2>2
<1>9. ASSUME NEW k \in 1 .. n PROVE r[k] = PartRun(r[k - 1], parts[k], atomic)
  <2>1. /\ k \in Nat /\ k # 0 /\ k \in 0 .. n /\ k - 1 \in 0 .. n
        /\ 1 .. k \in SUBSET DOMAIN parts
    BY <1>0
  <2>2. Max(1 .. k) = k /\ (1 .. k) \ {k} = 1 .. k - 1 /\ 1 .. k # {}
    BY <2>1, Prefix
  <2>3. F[1 .. k] = PartRun(F[(1 .. k) \ {Max(1 .. k)}], parts[Max(1 .. k)], atomic)
    BY <1>6, <2>1, <2>2 DEF Runs
  <2>4. F[1 .. k] = PartRun(F[1 .. k - 1], parts[k], atomic)
    BY <2>2, <2>3
  <2> QED
    BY <2>1, <2>4
<1>10. r[n] = F[1 .. n]
  BY <1>0
<1> HIDE DEF r
<1>11. \A k \in 0 .. n : r[k] \in Results
  <2> SUFFICES ASSUME NEW m \in 0 .. n, r[m] \notin Results PROVE FALSE
    OBVIOUS
  <2> DEFINE S == {k \in Nat : k <= n /\ r[k] \notin Results}
  <2>1. m \in S
    BY <1>0
  <2>2. PICK k \in S : \A j \in S : k <= j
    BY <2>1, LeastNat
  <2>3. k # 0
    BY <1>0, <1>8, <2>2
  <2>4. k \in 1 .. n /\ k - 1 \in Nat /\ k - 1 <= n /\ k - 1 \notin S
    BY <1>0, <2>2, <2>3
  <2>5. r[k - 1] \in Results
    BY <2>4
  <2> QED
    BY <1>9, <2>2, <2>4, <2>5, PartRunType
<1>12. r \in [0 .. n -> Results]
  BY <1>11 DEF r
<1> QED
  BY <1>7, <1>8, <1>9, <1>10, <1>12

----------------------------------------------------------------------------
(* What Selected leaves of a payload: its parts that are in the set, and    *)
(* if no key is in two parts of the payload, none is in two of these.       *)
KeysOf(p) == p.olds \union p.news
Apart(parts) ==
  \A i, j \in 1 .. Len(parts) : i # j => KeysOf(parts[i]) \cap KeysOf(parts[j]) = {}

Sifted(q, parts, K) ==
  /\ q \in Seq(Parts)
  /\ \A i \in 1 .. Len(q) : q[i] \in K /\ \E j \in 1 .. Len(parts) : q[i] = parts[j]
  /\ \A j \in 1 .. Len(parts) : parts[j] \in K => \E i \in 1 .. Len(q) : q[i] = parts[j]
  /\ Apart(parts) => Apart(q)

Sifts(f, parts, K) ==
  f = [s \in SUBSET DOMAIN parts |->
         IF s = {} THEN <<>>
         ELSE IF parts[Max(s)] \in K THEN Append(f[s \ {Max(s)}], parts[Max(s)])
         ELSE f[s \ {Max(s)}]]

\* There is such a fold, so the one that is chosen is one.
LEMMA SiftExists ==
  ASSUME NEW parts \in Seq(Parts), NEW K PROVE \E f : Sifts(f, parts, K)
<1> DEFINE n == Len(parts)
           V == Seq(Parts)
           h(v, i) == IF parts[i] \in K THEN Append(v, parts[i]) ELSE v
           g == [x \in V \X (1 .. n) |-> h(x[1], x[2])]
<1>0. n \in Nat /\ DOMAIN parts = 1 .. n /\ <<>> \in V /\ \A i \in 1 .. n : parts[i] \in Parts
  OBVIOUS
<1>1. \A v \in V, i \in 1 .. n : h(v, i) \in V
  BY <1>0
<1>2. g \in [V \X (1 .. n) -> V]
  <2> HIDE DEF h, V
  <2> QED
    BY <1>1
<1>3. \A v \in V, i \in 1 .. n : g[<<v, i>>] = h(v, i)
  OBVIOUS
<1> HIDE DEF g, h, V
<1>4. PICK f : IsFold(f, V, n, <<>>, g)
  BY <1>0, <1>2, FoldExists
<1>5. ASSUME NEW s \in SUBSET (1 .. n)
      PROVE  f[s] = IF s = {} THEN <<>> ELSE h(f[s \ {Max(s)}], Max(s))
  <2>1. s # {} => Max(s) \in s
    BY <1>0, LastOf
  <2>2. s # {} => Max(s) \in 1 .. n /\ f[s \ {Max(s)}] \in V
    BY <1>4, <2>1 DEF IsFold
  <2> QED
    BY <1>3, <1>4, <2>2 DEF IsFold
<1>6. f = [s \in SUBSET (1 .. n) |-> f[s]]
  BY <1>4 DEF IsFold
<1>7. Sifts(f, parts, K)
  <2> HIDE DEF n
  <2> QED
    BY <1>0, <1>5, <1>6 DEF Sifts, h
<1> QED
  BY <1>7

LEMMA ApartAppend ==
  ASSUME NEW q \in Seq(Parts), NEW p \in Parts, Apart(q),
         \A i \in 1 .. Len(q) : KeysOf(q[i]) \cap KeysOf(p) = {}
  PROVE  Apart(Append(q, p))
<1> DEFINE r == Append(q, p)
<1>1. /\ Len(q) \in Nat /\ Len(r) = Len(q) + 1 /\ r[Len(q) + 1] = p
      /\ \A i \in 1 .. Len(q) : r[i] = q[i]
  OBVIOUS
<1> HIDE DEF r
<1>2. ASSUME NEW i \in 1 .. Len(r), NEW j \in 1 .. Len(r), i # j
      PROVE  KeysOf(r[i]) \cap KeysOf(r[j]) = {}
  <2>1. CASE i \in 1 .. Len(q) /\ j \in 1 .. Len(q)
    BY <1>1, <1>2, <2>1 DEF Apart
  <2>2. CASE i = Len(q) + 1 /\ j \in 1 .. Len(q)
    BY <1>1, <2>2
  <2>3. CASE i \in 1 .. Len(q) /\ j = Len(q) + 1
    BY <1>1, <2>3
  <2> QED
    BY <1>1, <1>2, <2>1, <2>2, <2>3
<1>3. Apart(r)
  BY <1>2 DEF Apart
<1> QED
  BY <1>3 DEF r

LEMMA SiftSteps ==
  ASSUME NEW parts \in Seq(Parts), NEW K, NEW f, Sifts(f, parts, K)
  PROVE  Sifted(f[DOMAIN parts], parts, K)
<1> DEFINE n == Len(parts)
           r == [k \in 0 .. n |-> f[1 .. k]]
           Good(k) == /\ r[k] \in Seq(Parts)
                      /\ \A i \in 1 .. Len(r[k]) :
                           r[k][i] \in K /\ \E j \in 1 .. k : r[k][i] = parts[j]
                      /\ \A j \in 1 .. k :
                           parts[j] \in K => \E i \in 1 .. Len(r[k]) : r[k][i] = parts[j]
                      /\ Apart(parts) => Apart(r[k])
           S == {k \in Nat : k <= n /\ ~Good(k)}
<1>0. n \in Nat /\ DOMAIN parts = 1 .. n /\ \A i \in 1 .. n : parts[i] \in Parts
  OBVIOUS
<1>1. r[0] = <<>>
  <2>1. 1 .. 0 = {} /\ {} \in SUBSET (1 .. n)
    OBVIOUS
  <2>2. f[{}] = <<>>
    BY <1>0, <2>1 DEF Sifts
  <2> QED
    BY <1>0, <2>1, <2>2
<1>2. ASSUME NEW k \in 1 .. n
      PROVE  r[k] = IF parts[k] \in K THEN Append(r[k - 1], parts[k]) ELSE r[k - 1]
  <2>1. /\ k \in Nat /\ k # 0 /\ k \in 0 .. n /\ k - 1 \in 0 .. n
        /\ 1 .. k \in SUBSET DOMAIN parts
    BY <1>0
  <2>2. Max(1 .. k) = k /\ (1 .. k) \ {k} = 1 .. k - 1 /\ 1 .. k # {}
    BY <2>1, Prefix
  <2>3. f[1 .. k] = IF parts[Max(1 .. k)] \in K
                    THEN Append(f[(1 .. k) \ {Max(1 .. k)}], parts[Max(1 .. k)])
                    ELSE f[(1 .. k) \ {Max(1 .. k)}]
    BY <2>1, <2>2 DEF Sifts
  <2>4. f[1 .. k] = IF parts[k] \in K THEN Append(f[1 .. k - 1], parts[k]) ELSE f[1 .. k - 1]
    BY <2>2, <2>3
  <2> QED
    BY <2>1, <2>4
<1>3. r[n] = f[DOMAIN parts]
  BY <1>0
<1> HIDE DEF r
<1>4. Good(0)
  <2>1. Len(<<>>) = 0 /\ <<>> \in Seq(Parts) /\ Apart(<<>>)
    BY DEF Apart
  <2> QED
    BY <1>1, <2>1
<1>5. ASSUME NEW k \in 1 .. n, Good(k - 1) PROVE Good(k)
  <2> DEFINE q == r[k - 1]
             p == parts[k]
  <2>0. q \in Seq(Parts) /\ p \in Parts /\ k \in Nat /\ k - 1 \in Nat
    BY <1>0, <1>5
  <2>1. CASE p \notin K
    <3>1. \A j \in 1 .. k : j \in 1 .. k - 1 \/ j = k
      BY <2>0
    <3>2. 1 .. k - 1 \subseteq 1 .. k
      BY <2>0
    <3> QED
      BY <1>2, <1>5, <2>0, <2>1, <3>1, <3>2
  <2>2. CASE p \in K
    <3> DEFINE t == Append(q, p)
    <3>1. r[k] = t
      BY <1>2, <2>2
    <3>2. /\ t \in Seq(Parts) /\ Len(q) \in Nat /\ Len(t) = Len(q) + 1
          /\ t[Len(q) + 1] = p /\ \A i \in 1 .. Len(q) : t[i] = q[i]
      BY <2>0
    <3>3. ASSUME Apart(parts) PROVE Apart(t)
      <4>1. ASSUME NEW i \in 1 .. Len(q) PROVE KeysOf(q[i]) \cap KeysOf(p) = {}
        <5>1. PICK j \in 1 .. k - 1 : q[i] = parts[j]
          BY <1>5
        <5>2. j \in 1 .. n /\ j # k
          BY <1>0, <2>0
        <5> QED
          BY <3>3, <5>1, <5>2 DEF Apart
      <4>2. Apart(q)
        BY <1>5, <3>3
      <4> HIDE DEF q, p, t
      <4> QED
        BY <2>0, <4>1, <4>2, ApartAppend DEF t
    <3>4. ASSUME NEW i \in 1 .. Len(t)
          PROVE  t[i] \in K /\ \E j \in 1 .. k : t[i] = parts[j]
      <4> HIDE DEF t
      <4>1. CASE i = Len(q) + 1
        <5>1. t[i] = parts[k] /\ k \in 1 .. k
          BY <2>0, <3>2, <4>1
        <5>2. t[i] \in K
          BY <2>2, <3>2, <4>1
        <5> QED
          BY <5>1, <5>2
      <4>2. CASE i \in 1 .. Len(q)
        <5>1. q[i] \in K /\ \E j \in 1 .. k - 1 : q[i] = parts[j]
          BY <1>5, <4>2
        <5> QED
          BY <2>0, <3>2, <4>2, <5>1
      <4> QED
        BY <3>2, <4>1, <4>2
    <3>5. ASSUME NEW j \in 1 .. k, parts[j] \in K
          PROVE  \E i \in 1 .. Len(t) : t[i] = parts[j]
      <4> HIDE DEF t
      <4>1. CASE j = k
        <5>1. Len(t) \in 1 .. Len(t) /\ t[Len(t)] = parts[j]
          BY <3>2, <4>1
        <5> QED
          BY <5>1
      <4>2. CASE j \in 1 .. k - 1
        <5>1. PICK i \in 1 .. Len(q) : q[i] = parts[j]
          BY <1>5, <3>5, <4>2
        <5>2. i \in 1 .. Len(t) /\ t[i] = parts[j]
          BY <3>2, <5>1
        <5> QED
          BY <5>2
      <4> QED
        BY <2>0, <4>1, <4>2
    <3> HIDE DEF t
    <3> QED
      BY <3>1, <3>2, <3>3, <3>4, <3>5
  <2> QED
    BY <2>1, <2>2
<1> HIDE DEF Good
<1>6. S = {}
  <2> SUFFICES ASSUME S # {} PROVE FALSE
    OBVIOUS
  <2>1. PICK k \in S : \A j \in S : k <= j
    BY LeastNat
  <2>2. k # 0
    BY <1>4, <2>1
  <2>3. k \in 1 .. n /\ k - 1 \in Nat /\ k - 1 <= n /\ k - 1 \notin S
    BY <1>0, <2>1, <2>2
  <2> QED
    BY <1>5, <2>1, <2>3
<1>7. Good(n)
  BY <1>0, <1>6
<1> QED
  BY <1>3, <1>7 DEF Good, Sifted

LEMMA SelectedSifts ==
  ASSUME NEW parts \in Seq(Parts), NEW K PROVE Sifted(Selected(parts, K), parts, K)
<1> DEFINE F == CHOOSE f : Sifts(f, parts, K)
<1>1. Selected(parts, K) = F[DOMAIN parts]
  BY DEF Selected, FoldLeft, MapThenFoldSet, Sifts
<1>2. Sifts(F, parts, K)
  BY SiftExists
<1> HIDE DEF F
<1> QED
  BY <1>1, <1>2, SiftSteps

LEMMA RecreatedSifts ==
  ASSUME NEW keys, NEW parts \in Seq(Parts)
  PROVE  Sifted(Recreated(keys, parts), parts, {p \in Parts : Kept(keys, p)})
<1> DEFINE K == {p \in Range(parts) : Kept(keys, p)}
<1>1. Sifted(Recreated(keys, parts), parts, K)
  BY SelectedSifts DEF Recreated
<1>2. \A j \in 1 .. Len(parts) : parts[j] \in Range(parts) /\ parts[j] \in Parts
  BY DEF Range
<1>3. /\ K \subseteq {p \in Parts : Kept(keys, p)}
      /\ \A j \in 1 .. Len(parts) : parts[j] \in {p \in Parts : Kept(keys, p)} => parts[j] \in K
  BY <1>2 DEF Range
<1> HIDE DEF K
<1> QED
  BY <1>1, <1>3 DEF Sifted

\* What is left of a payload to be published.
LEMMA PreparedType ==
  ASSUME NEW keys, NEW p \in Parts
  PROVE  Prepared(keys, p) \in Parts /\ KeysOf(Prepared(keys, p)) \subseteq KeysOf(p)
<1>1. p.news \in SUBSET Keys /\ p.olds \in SUBSET Keys
  BY DEF Parts
<1> DEFINE N == {k \in p.news : keys[k] # "active"}
           O == {k \in p.olds : keys[k] = "active"}
<1>2. N \in SUBSET Keys /\ N \subseteq p.news /\ O \in SUBSET Keys /\ O \subseteq p.olds
  BY <1>1
<1>3. Prepared(keys, p) = IF p.t = "add" THEN [p EXCEPT !.news = N]
                          ELSE IF p.t = "del" THEN [p EXCEPT !.olds = O] ELSE p
  BY DEF Prepared
<1> HIDE DEF N, O
<1>4. /\ [p EXCEPT !.news = N] \in Parts
      /\ KeysOf([p EXCEPT !.news = N]) = p.olds \union N
  BY <1>2 DEF Parts, KeysOf
<1>5. /\ [p EXCEPT !.olds = O] \in Parts
      /\ KeysOf([p EXCEPT !.olds = O]) = O \union p.news
  BY <1>2 DEF Parts, KeysOf
<1> QED
  BY <1>2, <1>3, <1>4, <1>5 DEF KeysOf

AllPrepared(keys, parts) == [i \in DOMAIN parts |-> Prepared(keys, parts[i])]

LEMMA PayloadSifts ==
  ASSUME NEW keys, NEW parts \in Seq(Parts)
  PROVE  LET P == AllPrepared(keys, parts)
         IN /\ P \in Seq(Parts) /\ Len(P) = Len(parts)
            /\ \A i \in 1 .. Len(parts) : P[i] = Prepared(keys, parts[i])
            /\ Sifted(Payload(keys, parts), P, {p \in Range(P) : p.t = "add" => p.news # {}})
<1> DEFINE P == AllPrepared(keys, parts)
           K == {p \in Range(P) : p.t = "add" => p.news # {}}
<1>0. Len(parts) \in Nat /\ DOMAIN parts = 1 .. Len(parts)
      /\ \A i \in 1 .. Len(parts) : parts[i] \in Parts
  OBVIOUS
<1>1. P \in [1 .. Len(parts) -> Parts] /\ \A i \in 1 .. Len(parts) : P[i] = Prepared(keys, parts[i])
  BY <1>0, PreparedType DEF AllPrepared
<1>2. Payload(keys, parts) = Selected(P, K)
  BY DEF Payload, AllPrepared
<1> HIDE DEF P
<1>3. P \in Seq(Parts) /\ Len(P) = Len(parts)
  BY <1>0, <1>1
<1> HIDE DEF K
<1>4. Sifted(Payload(keys, parts), P, K)
  BY <1>2, <1>3, SelectedSifts
<1> QED
  BY <1>1, <1>3, <1>4 DEF P, K

LEMMA PayloadType ==
  ASSUME NEW keys, NEW parts \in Seq(Parts)
  PROVE  Payload(keys, parts) \in Seq(Parts) /\ (Apart(parts) => Apart(Payload(keys, parts)))
<1> DEFINE P == AllPrepared(keys, parts)
<1>1. /\ P \in Seq(Parts) /\ Len(P) = Len(parts)
      /\ \A i \in 1 .. Len(parts) : P[i] = Prepared(keys, parts[i])
      /\ Sifted(Payload(keys, parts), P, {p \in Range(P) : p.t = "add" => p.news # {}})
  BY PayloadSifts
<1>2. \A i \in 1 .. Len(parts) : parts[i] \in Parts
  OBVIOUS
<1> HIDE DEF P
<1>3. Apart(parts) => Apart(P)
  <2> SUFFICES ASSUME Apart(parts), NEW i \in 1 .. Len(P), NEW j \in 1 .. Len(P), i # j
               PROVE  KeysOf(P[i]) \cap KeysOf(P[j]) = {}
    BY DEF Apart
  <2>1. KeysOf(P[i]) \subseteq KeysOf(parts[i]) /\ KeysOf(P[j]) \subseteq KeysOf(parts[j])
    BY <1>1, <1>2, PreparedType
  <2>2. KeysOf(parts[i]) \cap KeysOf(parts[j]) = {}
    BY <1>1 DEF Apart
  <2> QED
    BY <2>1, <2>2
<1> QED
  BY <1>1, <1>3 DEF Sifted

----------------------------------------------------------------------------
(* A payload no key of which is in two parts: it runs through just if each  *)
(* of its parts would do so alone.                                          *)
PartOK(keys, p, atomic) == (atomic /\ Warns(keys, p)) \/ ~(Warns(keys, p) \/ Fails(keys, p))

LEMMA SameOnKeys ==
  ASSUME NEW p \in Parts, NEW a, NEW b, \A k \in KeysOf(p) : a[k] = b[k]
  PROVE  (Warns(a, p) <=> Warns(b, p)) /\ (Fails(a, p) <=> Fails(b, p))
BY DEF KeysOf, Warns, Fails

LEMMA RunApart ==
  ASSUME NEW keys \in KeyRings, NEW parts \in Seq(Parts), Apart(parts), NEW atomic
  PROVE  Run(keys, parts, atomic).ok
           <=> \A i \in 1 .. Len(parts) : PartOK(keys, parts[i], atomic)
<1> DEFINE n == Len(parts)
<1>0. n \in Nat /\ \A i \in 1 .. n : parts[i] \in Parts /\ KeysOf(parts[i]) \subseteq Keys
  <2>1. n \in Nat /\ \A i \in 1 .. n : parts[i] \in Parts
    OBVIOUS
  <2>2. \A p \in Parts : KeysOf(p) \subseteq Keys
    BY DEF KeysOf, Parts
  <2> QED
    BY <2>1, <2>2
<1>1. PICK r \in [0 .. n -> Results] :
           /\ r[0] = Fresh(keys)
           /\ \A k \in 1 .. n : r[k] = PartRun(r[k - 1], parts[k], atomic)
           /\ Run(keys, parts, atomic) = r[n]
  BY RunSteps
<1> DEFINE Same(k) == \A j \in k + 1 .. n : \A x \in KeysOf(parts[j]) : r[k].keys[x] = keys[x]
           OK(k) == r[k].ok <=> \A i \in 1 .. k : PartOK(keys, parts[i], atomic)
           S == {k \in Nat : k <= n /\ ~(Same(k) /\ OK(k))}
<1>2. Same(0) /\ OK(0)
  BY <1>1 DEF Fresh
<1>3. ASSUME NEW k \in 1 .. n, Same(k - 1), OK(k - 1) PROVE Same(k) /\ OK(k)
  <2> DEFINE q == r[k - 1]
             p == parts[k]
  <2>0. /\ k \in Nat /\ k - 1 \in Nat /\ k \in (k - 1) + 1 .. n /\ q \in Results
        /\ p \in Parts /\ r[k] = PartRun(q, p, atomic)
    BY <1>0, <1>1
  <2>1. (Warns(q.keys, p) <=> Warns(keys, p)) /\ (Fails(q.keys, p) <=> Fails(keys, p))
    <3>1. \A x \in KeysOf(p) : q.keys[x] = keys[x]
      BY <1>3, <2>0
    <3> HIDE DEF q, p
    <3> QED
      BY <2>0, <3>1, SameOnKeys
  <2>2. r[k].ok <=> q.ok /\ PartOK(keys, p, atomic)
    <3> HIDE DEF p, q
    <3>1. [q EXCEPT !.ok = FALSE].ok = FALSE /\ [q EXCEPT !.keys = Changed(@, p)].ok = q.ok
      BY <2>0 DEF Results
    <3> QED
      BY <2>0, <2>1, <3>1 DEF PartRun, PartOK
  <2>3. OK(k)
    <3>1. \A i \in 1 .. k : i \in 1 .. k - 1 \/ i = k
      BY <2>0
    <3>2. k \in 1 .. k /\ 1 .. k - 1 \subseteq 1 .. k
      BY <2>0
    <3> QED
      BY <1>3, <2>2, <3>1, <3>2
  <2>4. ASSUME NEW j \in k + 1 .. n, NEW x \in KeysOf(parts[j]) PROVE r[k].keys[x] = keys[x]
    <3>1. j \in 1 .. n /\ j # k /\ j \in (k - 1) + 1 .. n
      BY <2>0
    <3>2. x \notin KeysOf(p) /\ x \in Keys
      BY <1>0, <3>1, <2>4 DEF Apart
    <3>3. q.keys[x] = keys[x]
      BY <1>3, <2>4, <3>1
    <3>4. Changed(q.keys, p)[x] = q.keys[x]
      <4> HIDE DEF p, q
      <4> QED
        BY <3>2 DEF Changed, KeysOf
    <3>5. r[k].keys = q.keys \/ r[k].keys = Changed(q.keys, p)
      <4> HIDE DEF p, q
      <4>1. /\ [q EXCEPT !.ok = FALSE].keys = q.keys
            /\ [q EXCEPT !.keys = Changed(@, p)].keys = Changed(q.keys, p)
        BY <2>0 DEF Results
      <4> QED
        BY <2>0, <4>1 DEF PartRun
    <3> QED
      BY <3>3, <3>4, <3>5
  <2> QED
    BY <2>3, <2>4
<1> HIDE DEF Same, OK
<1>4. S = {}
  <2> SUFFICES ASSUME S # {} PROVE FALSE
    OBVIOUS
  <2>1. PICK k \in S : \A j \in S : k <= j
    BY LeastNat
  <2>2. k # 0
    BY <1>2, <2>1
  <2>3. k \in 1 .. n /\ k - 1 \in Nat /\ k - 1 <= n /\ k - 1 \notin S
    BY <1>0, <2>1, <2>2
  <2> QED
    BY <1>3, <2>1, <2>3
<1>5. OK(n)
  BY <1>0, <1>4
<1> QED
  BY <1>1, <1>5 DEF OK

\* So what is left of such a payload on a state it is valid in is valid there too, and
\* there is something to do for each of its parts.
LEMMA RecreatedFits ==
  ASSUME NEW keys \in KeyRings, NEW parts \in Seq(Parts), Apart(parts), NEW atomic,
         Run(keys, parts, atomic).ok
  PROVE  /\ Run(keys, Recreated(keys, parts), atomic).ok
         /\ \A p \in Range(Recreated(keys, parts)) : Kept(keys, p)
<1> DEFINE q == Recreated(keys, parts)
<1>1. Sifted(q, parts, {p \in Parts : Kept(keys, p)})
  BY RecreatedSifts
<1> HIDE DEF q
<1>2. q \in Seq(Parts) /\ Apart(q)
  BY <1>1 DEF Sifted
<1>3. \A i \in 1 .. Len(parts) : PartOK(keys, parts[i], atomic)
  BY RunApart
<1>4. \A i \in 1 .. Len(q) : PartOK(keys, q[i], atomic) /\ Kept(keys, q[i])
  BY <1>1, <1>3 DEF Sifted
<1>5. Run(keys, q, atomic).ok
  BY <1>2, <1>4, RunApart
<1>6. \A p \in Range(q) : Kept(keys, p)
  BY <1>2, <1>4 DEF Range
<1> QED
  BY <1>5, <1>6 DEF q

----------------------------------------------------------------------------
(* What is sent fits the log.                                               *)
(* Two parts of a payload for one key have an order that matters, and       *)
(* rebuilding takes them one by one: an OP_ATOMIC that adds, deletes and    *)
(* adds a key is rebuilt to one that adds it twice.                         *)
AskedApart == \A m \in Msgs : Apart(Asked[m])

RingTypes ==
  /\ log \in [Contracts -> Seq(Events)]
  /\ entry \in [Msgs -> Sent] /\ made \in [Msgs -> Sent]
  /\ last \in [Msgs -> Nat \union {Unset}]
  /\ tried \in [Msgs -> Seq(Nat)] /\ budget \in Nat

\* An OP_CONTRACT is for the beginning of a log.
Opening == \A m \in First :
  pc[m] \notin Over => entry[m].at = 0 /\ (pc[m] = "made" => made[m].at = 0)

Fits(keys, m, parts) ==
  /\ Run(keys, parts, m \in Atomic).ok
  /\ m \notin First => \A p \in Range(parts) : Kept(keys, p)

\* An event e of m fits the keys its contract has, unless it builds on another HEAD.
Ready(m, e) ==
  LET c == Target[m]
  IN e.at = Len(log[c]) => Fits(KeysAt(c, Len(log[c])), m, e.parts)

Formed == \A m \in Msgs : Apart(entry[m].parts) /\ Apart(made[m].parts)

Fitting == \A m \in Msgs :
  (pc[m] = "made" => Ready(m, made[m])) /\ (request[m] = "sent" => Ready(m, entry[m]))

FitInv == RingTypes /\ Opening /\ (AskedApart => Formed /\ Fitting /\ FitsItsPlace)

LEMMA KeysTypes ==
  ASSUME RingTypes, NEW c \in Contracts, NEW n \in 0 .. Len(log[c])
  PROVE  KeysAt(c, n) \in KeyRings
<1>1. StartKeys \in KeyRings
  BY DEF StartKeys, KeyRings, Status
<1>2. log[c] \in Seq(Events)
  BY DEF RingTypes
<1>3. n # 0 => log[c][n] \in Events
  BY <1>2
<1> QED
  BY <1>1, <1>3 DEF KeysAt, Events, KeyRings

\* A step of which only a publication that is not over takes notice.
LEMMA FitQuiet ==
  ASSUME FitInv, UNCHANGED <<log, entry, made, tried>>,
         last' \in [Msgs -> Nat \union {Unset}], budget' \in Nat,
         \A n \in Msgs : pc'[n] \in Over \/ (pc[n] \notin Over /\ pc'[n] # "made") \/ pc'[n] = pc[n],
         \A n \in Msgs : request'[n] = "sent" => request[n] = "sent"
  PROVE  FitInv'
<1>1. RingTypes'
  BY DEF FitInv, RingTypes
<1>2. \A n \in Msgs : /\ pc'[n] \notin Over => pc[n] \notin Over
                      /\ pc'[n] = "made" => pc[n] = "made"
  BY DEF Over
<1>3. Opening'
  BY <1>2, MsgsAssumption DEF FitInv, Opening
<1>4. ASSUME AskedApart PROVE (Formed /\ Fitting /\ FitsItsPlace)'
  <2>1. Formed' /\ FitsItsPlace'
    BY <1>4 DEF FitInv, Formed, FitsItsPlace, KeysAt
  <2>2. Fitting'
    BY <1>2, <1>4 DEF FitInv, Fitting, Ready, KeysAt
  <2> QED
    BY <2>1, <2>2
<1> QED
  BY <1>1, <1>3, <1>4 DEF FitInv, AskedApart

LEMMA FitEnqueued ==
  ASSUME Inv, FitInv, NEW m \in Msgs, NEW parts \in Seq(Parts), Enqueued(m, parts),
         AskedApart => Apart(parts), pc[m] = "idle",
         UNCHANGED <<log, made, last, tried, request, budget>>,
         \A n \in Msgs : pc'[n] # "made" /\ pc'[n] \notin Over => n = m \/ pc[n] \notin Over,
         \A n \in Msgs : pc'[n] = "made" => n # m /\ pc[n] = "made"
  PROVE  FitInv'
<1> DEFINE e == [at |-> IF m \in First THEN 0 ELSE Unset, parts |-> parts]
<1>1. e \in Sent /\ e.parts = parts /\ (m \in First => e.at = 0)
  BY DEF Sent
<1>2. entry' = [entry EXCEPT ![m] = e]
  BY DEF Enqueued
<1> HIDE DEF e
<1>3. RingTypes'
  BY <1>1, <1>2 DEF FitInv, RingTypes
<1>4. \A n \in Msgs : entry'[n] = IF n = m THEN e ELSE entry[n]
  BY <1>2 DEF FitInv, RingTypes
<1>5. Opening'
  <2> SUFFICES ASSUME NEW n \in First, pc'[n] \notin Over
               PROVE  entry'[n].at = 0 /\ (pc'[n] = "made" => made'[n].at = 0)
    BY DEF Opening
  <2>0. n \in Msgs
    BY MsgsAssumption
  <2>1. CASE n = m
    BY <1>1, <1>4, <2>0, <2>1
  <2>2. CASE n # m
    <3>1. pc[n] \notin Over /\ (pc'[n] = "made" => pc[n] = "made")
      BY <2>0, <2>2 DEF Over
    <3> QED
      BY <1>4, <2>0, <2>2, <3>1 DEF FitInv, Opening
  <2> QED
    BY <2>1, <2>2
<1>6. ASSUME AskedApart PROVE (Formed /\ Fitting /\ FitsItsPlace)'
  <2>1. Formed'
    BY <1>1, <1>4, <1>6 DEF FitInv, Formed
  <2>2. FitsItsPlace'
    BY <1>6 DEF FitInv, FitsItsPlace, KeysAt
  <2>3. request[m] = "none"
    BY DEF Inv, LogInv, Placed
  <2>4. Fitting'
    <3> SUFFICES ASSUME NEW n \in Msgs
                 PROVE  /\ pc'[n] = "made" => Ready(n, made[n])'
                        /\ request'[n] = "sent" => Ready(n, entry[n])'
      BY DEF Fitting
    <3>1. pc'[n] = "made" => Ready(n, made[n])'
      BY <1>6 DEF FitInv, Fitting, Ready, KeysAt
    <3>2. request'[n] = "sent" => Ready(n, entry[n])'
      BY <1>4, <1>6, <2>3 DEF FitInv, Fitting, Ready, KeysAt
    <3> QED
      BY <3>1, <3>2
  <2> QED
    BY <2>1, <2>2, <2>4
<1> QED
  BY <1>3, <1>5, <1>6 DEF FitInv, AskedApart

LEMMA AskedType ==
  ASSUME NEW m \in Msgs, NEW keys
  PROVE  /\ Asked[m] \in Seq(Parts) /\ Payload(keys, Asked[m]) \in Seq(Parts)
         /\ AskedApart => Apart(Asked[m]) /\ Apart(Payload(keys, Asked[m]))
<1>1. Asked[m] \in Seq(Parts)
  BY MsgsAssumption
<1> QED
  BY <1>1, PayloadType DEF AskedApart

LEMMA FitCall ==
  ASSUME Inv, FitInv, NEW m \in Msgs, Call(m)
  PROVE  FitInv'
<1> DEFINE parts == Payload(OwnKeys(m), Asked[m])
<1>1. /\ pc[m] = "idle" /\ UNCHANGED <<log, made, last, tried, request, budget>>
      /\ \/ Enqueued(m, parts) /\ pc' = [pc EXCEPT ![m] = "queued"]
         \/ UNCHANGED entry /\ pc' = [pc EXCEPT ![m] = "done"]
  BY DEF Call, stateVars
<1>2. parts \in Seq(Parts) /\ (AskedApart => Apart(parts))
  BY AskedType
<1> HIDE DEF parts
<1>3. CASE Enqueued(m, parts) /\ pc' = [pc EXCEPT ![m] = "queued"]
  <2>1. \A n \in Msgs : pc'[n] = IF n = m THEN "queued" ELSE pc[n]
    BY <1>3 DEF Inv, QueueInv, QueueTypes
  <2> QED
    BY <1>1, <1>2, <1>3, <2>1, FitEnqueued
<1>4. CASE UNCHANGED entry /\ pc' = [pc EXCEPT ![m] = "done"]
  <2>1. \A n \in Msgs : pc'[n] = IF n = m THEN "done" ELSE pc[n]
    BY <1>4 DEF Inv, QueueInv, QueueTypes
  <2>2. last' \in [Msgs -> Nat \union {Unset}] /\ budget' \in Nat
    BY <1>1 DEF FitInv, RingTypes
  <2>3. \A n \in Msgs : pc'[n] \in Over \/ pc'[n] = pc[n]
    BY <2>1 DEF Over
  <2> QED
    BY <1>1, <1>4, <2>2, <2>3, FitQuiet
<1> QED
  BY <1>1, <1>3, <1>4

\* A publication goes from one place to another, and is not rebuilt.
LEMMA FitMoves ==
  ASSUME Inv, FitInv, NEW m \in Msgs, pc[m] \notin Over, NEW p, p # "made",
         pc' = [pc EXCEPT ![m] = p], UNCHANGED <<log, entry, made, tried>>,
         last' \in [Msgs -> Nat \union {Unset}], UNCHANGED budget \/ budget' = budget + 1,
         \A n \in Msgs : request'[n] = "sent" => request[n] = "sent"
  PROVE  FitInv'
<1>1. \A n \in Msgs : pc'[n] = IF n = m THEN p ELSE pc[n]
  BY DEF Inv, QueueInv, QueueTypes
<1>2. budget' \in Nat
  BY DEF FitInv, RingTypes
<1>3. \A n \in Msgs :
        pc'[n] \in Over \/ (pc[n] \notin Over /\ pc'[n] # "made") \/ pc'[n] = pc[n]
  BY <1>1
<1> QED
  BY <1>2, <1>3, FitQuiet

LEMMA FitStart ==
  ASSUME Inv, FitInv, NEW m \in Msgs, Start(m)
  PROVE  FitInv'
<1> DEFINE b == Before[m]
<1>1. /\ pc[m] = "queued" /\ UNCHANGED <<log, made, last, tried, request, budget>>
      /\ \/ UNCHANGED entry /\ pc' = [pc EXCEPT ![m] = "enter"]
         \/ UNCHANGED entry /\ pc' = [pc EXCEPT ![m] = "done"]
         \/ b # Nobody /\ Enqueued(b, Asked[b]) /\ pc' = [pc EXCEPT ![m] = "asking", ![b] = "queued"]
  BY DEF Start, Prepublish, Settle, stateVars
<1>2. last' \in [Msgs -> Nat \union {Unset}]
  BY <1>1 DEF FitInv, RingTypes
<1>3. pc[m] \notin Over
  BY <1>1 DEF Over
<1>4. CASE UNCHANGED entry /\ (pc' = [pc EXCEPT ![m] = "enter"] \/ pc' = [pc EXCEPT ![m] = "done"])
  BY <1>1, <1>2, <1>3, <1>4, FitMoves
<1>5. CASE /\ b # Nobody /\ Enqueued(b, Asked[b])
           /\ pc' = [pc EXCEPT ![m] = "asking", ![b] = "queued"]
  <2>1. b \in Msgs /\ pc[b] = "idle"
    BY <1>1, <1>5, MsgsAssumption DEF Inv, QueueInv, Befores
  <2> HIDE DEF b
  <2>2. \A n \in Msgs : pc'[n] = IF n = b THEN "queued" ELSE IF n = m THEN "asking" ELSE pc[n]
    BY <1>1, <1>5, <2>1 DEF Inv, QueueInv, QueueTypes
  <2>3. Asked[b] \in Seq(Parts) /\ (AskedApart => Apart(Asked[b]))
    BY <2>1, AskedType
  <2>4. \A n \in Msgs : /\ pc'[n] \notin Over => n = b \/ pc[n] \notin Over
                        /\ pc'[n] = "made" => n # b /\ pc[n] = "made"
    BY <1>3, <2>2
  <2> QED
    BY <1>1, <1>5, <2>1, <2>3, <2>4, FitEnqueued
<1> QED
  BY <1>1, <1>4, <1>5

LEMMA FitAttempts ==
  ASSUME Inv, FitInv, NEW m \in Msgs,
         HookDone(m) \/ Enter(m) \/ Answer(m) \/ ForcedSync(m) \/ Lost(m) \/ SyncFails(m)
  PROVE  FitInv'
<1>1. /\ UNCHANGED <<log, entry, made, tried>> /\ pc[m] \notin Over
      /\ UNCHANGED last \/ last' = [last EXCEPT ![m] = entry[m].at]
  BY DEF HookDone, Enter, Answer, Answered, ForcedSync, Lost, SyncFails, stateVars, ownVars, Over
<1>2. \E p \in {"done", "enter", "check", "sync"} : pc' = [pc EXCEPT ![m] = p]
  BY DEF HookDone, Enter, Answer, Answered, ForcedSync, Lost, SyncFails, Settle
<1>3. UNCHANGED budget \/ budget' = budget + 1
  BY DEF HookDone, Enter, Answer, Answered, ForcedSync, Lost, SyncFails, Disturb
<1>4. UNCHANGED request \/ request' = [request EXCEPT ![m] = "none"]
  BY DEF HookDone, Enter, Answer, Answered, ForcedSync, Lost, SyncFails
<1>5. last' \in [Msgs -> Nat \union {Unset}]
  BY <1>1 DEF FitInv, RingTypes, Sent
<1>6. \A n \in Msgs : request'[n] = "sent" => request[n] = "sent"
  BY <1>4 DEF Inv, LogInv, LogTypes
<1> QED
  BY <1>1, <1>2, <1>3, <1>5, <1>6, FitMoves

\* What is rebuilt of an event on the latest state its client has.
LEMMA FitCheck ==
  ASSUME Inv, FitInv, NEW m \in Msgs, Check(m)
  PROVE  FitInv'
<1> DEFINE c == Target[m]
           n == seen[Owner[m]][c]
           old == entry[m].parts
           parts == IF m \in First THEN old ELSE Recreated(OwnKeys(m), old)
           e == [at |-> IF m \in First THEN entry[m].at ELSE n, parts |-> parts]
<1>1. /\ pc[m] = "check" /\ UNCHANGED <<log, entry, tried, last, request, budget>>
      /\ \/ UNCHANGED made /\ pc' = [pc EXCEPT ![m] = "done"]
         \/ /\ made' = [made EXCEPT ![m] = e] /\ pc' = [pc EXCEPT ![m] = "made"]
            /\ Run(OwnKeys(m), old, m \in Atomic).ok
  BY DEF Check, Checked, Settle, stateVars
<1>2. CASE UNCHANGED made /\ pc' = [pc EXCEPT ![m] = "done"]
  <2>1. last' \in [Msgs -> Nat \union {Unset}] /\ pc[m] \notin Over
    BY <1>1 DEF FitInv, RingTypes, Over
  <2> QED
    BY <1>1, <1>2, <2>1, FitMoves
<1>3. CASE /\ made' = [made EXCEPT ![m] = e] /\ pc' = [pc EXCEPT ![m] = "made"]
           /\ Run(OwnKeys(m), old, m \in Atomic).ok
  <2>1. /\ c \in Contracts /\ n \in Nat /\ n <= Len(log[c]) /\ Len(log[c]) \in Nat
        /\ Owner[m] \in Clients
    BY MsgsAssumption DEF Inv, LogInv, LogTypes, Bounded
  <2>2. old \in Seq(Parts) /\ entry[m].at \in Nat \union {Unset}
    BY DEF FitInv, RingTypes, Sent
  <2>3. OwnKeys(m) = KeysAt(c, n) /\ OwnKeys(m) \in KeyRings
    BY <2>1, KeysTypes DEF FitInv, OwnKeys
  <2>4. Sifted(Recreated(OwnKeys(m), old), old, {p \in Parts : Kept(OwnKeys(m), p)})
    BY <2>2, RecreatedSifts
  <2>5. parts \in Seq(Parts) /\ (Apart(old) => Apart(parts))
    BY <2>2, <2>4 DEF Sifted
  <2>6. Apart(old) => Fits(OwnKeys(m), m, parts)
    <3>1. Apart(old) =>
            /\ Run(OwnKeys(m), Recreated(OwnKeys(m), old), m \in Atomic).ok
            /\ \A p \in Range(Recreated(OwnKeys(m), old)) : Kept(OwnKeys(m), p)
      BY <1>3, <2>2, <2>3, RecreatedFits
    <3> QED
      BY <1>3, <3>1 DEF Fits
  <2>7. m \in First => entry[m].at = 0
    BY <1>1 DEF FitInv, Opening, Over
  <2>8. /\ e \in Sent /\ e.parts = parts /\ (m \in First => e.at = 0)
        /\ e.at = Len(log[c]) => OwnKeys(m) = KeysAt(c, Len(log[c]))
    <3>1. e \in Sent
      BY <2>1, <2>2, <2>5 DEF Sent
    <3>2. e.at = Len(log[c]) => n = Len(log[c])
      BY <2>1, <2>7
    <3> QED
      BY <2>3, <2>7, <3>1, <3>2
  <2> HIDE DEF e, parts, old, n
  <2>9. \A k \in Msgs : /\ made'[k] = IF k = m THEN e ELSE made[k]
                        /\ pc'[k] = IF k = m THEN "made" ELSE pc[k]
    BY <1>3 DEF Inv, QueueInv, QueueTypes, LogInv, LogTypes
  <2>10. RingTypes'
    BY <1>1, <1>3, <2>8 DEF FitInv, RingTypes
  <2>11. Opening'
    <3> SUFFICES ASSUME NEW k \in First, pc'[k] \notin Over
                 PROVE  entry'[k].at = 0 /\ (pc'[k] = "made" => made'[k].at = 0)
      BY DEF Opening
    <3>1. k \in Msgs /\ pc[k] \notin Over
      BY <1>1, <2>9, MsgsAssumption DEF Over
    <3> QED
      BY <1>1, <2>8, <2>9, <3>1 DEF FitInv, Opening
  <2>12. ASSUME AskedApart PROVE (Formed /\ Fitting /\ FitsItsPlace)'
    <3>1. Formed'
      BY <1>1, <2>5, <2>8, <2>9, <2>12 DEF FitInv, Formed, old
    <3>2. FitsItsPlace'
      BY <1>1, <2>12 DEF FitInv, FitsItsPlace, KeysAt
    <3>3. ASSUME NEW k \in Msgs
          PROVE  /\ pc'[k] = "made" => Ready(k, made[k])'
                 /\ request'[k] = "sent" => Ready(k, entry[k])'
      <4>1. request'[k] = "sent" => Ready(k, entry[k])'
        BY <1>1, <2>12 DEF FitInv, Fitting, Ready, KeysAt
      <4>2. CASE k # m
        BY <1>1, <2>9, <2>12, <4>1, <4>2 DEF FitInv, Fitting, Ready, KeysAt
      <4>3. CASE k = m
        <5>1. Apart(old)
          BY <2>12 DEF FitInv, Formed, old
        <5>2. e.at = Len(log[c]) => Fits(KeysAt(c, Len(log[c])), m, e.parts)
          BY <2>6, <2>8, <5>1
        <5>3. Ready(m, made[m])'
          BY <1>1, <2>9, <5>2 DEF Ready, KeysAt
        <5> QED
          BY <4>1, <4>3, <5>3
      <4> QED
        BY <4>2, <4>3
    <3> QED
      BY <3>1, <3>2, <3>3 DEF Fitting
  <2> QED
    BY <2>10, <2>11, <2>12 DEF FitInv, AskedApart
<1> QED
  BY <1>1, <1>2, <1>3

\* What was rebuilt is what is sent.
LEMMA FitSend ==
  ASSUME Inv, TriedInv, FitInv, NEW m \in Msgs, Send(m)
  PROVE  FitInv'
<1>1. /\ pc[m] = "made" /\ pc' = [pc EXCEPT ![m] = "request"]
      /\ entry' = [entry EXCEPT ![m] = made[m]] /\ made' = [made EXCEPT ![m] = NoEntry]
      /\ request' = [request EXCEPT ![m] = "sent"]
      /\ tried' = [tried EXCEPT ![m] = Append(@, made[m].at)]
      /\ UNCHANGED <<log, last, budget>>
  BY DEF Send, stateVars
<1>2. \A n \in Msgs : /\ pc'[n] = IF n = m THEN "request" ELSE pc[n]
                      /\ entry'[n] = IF n = m THEN made[m] ELSE entry[n]
                      /\ made'[n] = IF n = m THEN NoEntry ELSE made[n]
                      /\ n # m => request'[n] = request[n]
  BY <1>1 DEF Inv, QueueInv, QueueTypes, LogInv, LogTypes
<1>3. made[m].at \in Nat
  <2>1. CASE m \in First
    BY <1>1, <2>1 DEF FitInv, Opening, Over
  <2>2. CASE m \notin First
    BY <1>1, <2>2 DEF TriedInv, Tries, Retrying, Rising
  <2> QED
    BY <2>1, <2>2
<1>4. NoEntry \in Sent /\ NoEntry.parts = <<>> /\ Apart(<<>>)
  BY DEF NoEntry, Sent, Apart
<1>5. RingTypes'
  BY <1>1, <1>3, <1>4 DEF FitInv, RingTypes
<1>6. Opening'
  <2> SUFFICES ASSUME NEW n \in First, pc'[n] \notin Over
               PROVE  entry'[n].at = 0 /\ (pc'[n] = "made" => made'[n].at = 0)
    BY DEF Opening
  <2>1. n \in Msgs /\ pc[n] \notin Over
    BY <1>1, <1>2, MsgsAssumption DEF Over
  <2> QED
    BY <1>1, <1>2, <2>1 DEF FitInv, Opening
<1>7. ASSUME AskedApart PROVE (Formed /\ Fitting /\ FitsItsPlace)'
  <2>1. Formed'
    BY <1>2, <1>4, <1>7 DEF FitInv, Formed
  <2>2. FitsItsPlace'
    BY <1>1, <1>7 DEF FitInv, FitsItsPlace, KeysAt
  <2>3. Fitting'
    BY <1>1, <1>2, <1>7 DEF FitInv, Fitting, Ready, KeysAt
  <2> QED
    BY <2>1, <2>2, <2>3
<1> QED
  BY <1>5, <1>6, <1>7 DEF FitInv, AskedApart

\* The server takes an event that builds on its HEAD; nothing else built on that is
\* ready any more.
LEMMA FitServe ==
  ASSUME Inv, FitInv, NEW m \in Msgs, Serve(m)
  PROVE  FitInv'
<1> DEFINE t == Target[m]
           keys == KeysAt(t, Len(log[t]))
           r == Run(keys, entry[m].parts, m \in Atomic)
           e == [msg |-> m, at |-> entry[m].at, parts |-> entry[m].parts,
                 keys |-> IF r.ok THEN r.keys ELSE keys]
<1>1. /\ request[m] = "sent" /\ UNCHANGED <<pc, entry, made, tried, last>>
      /\ UNCHANGED budget \/ budget' = budget + 1
      /\ \/ log' = [log EXCEPT ![t] = Append(@, e)] /\ entry[m].at = Len(log[t])
         \/ UNCHANGED log
  BY DEF Serve, Disturb, ownVars
<1>2. \A n \in Msgs : request'[n] = "sent" => request[n] = "sent"
  BY DEF Serve, Inv, LogInv, LogTypes
<1>3. last' \in [Msgs -> Nat \union {Unset}] /\ budget' \in Nat
  BY <1>1 DEF FitInv, RingTypes
<1>4. CASE UNCHANGED log
  BY <1>1, <1>2, <1>3, <1>4, FitQuiet
<1>5. CASE log' = [log EXCEPT ![t] = Append(@, e)] /\ entry[m].at = Len(log[t])
  <2>1. t \in Contracts /\ log[t] \in Seq(Events) /\ Len(log[t]) \in Nat
        /\ entry[m].parts \in Seq(Parts)
    BY MsgsAssumption DEF FitInv, RingTypes, Sent
  <2>2. keys \in KeyRings
    BY <2>1, KeysTypes DEF FitInv
  <2>3. e \in Events /\ e.msg = m /\ e.parts = entry[m].parts
    <3>1. r \in Results
      <4> HIDE DEF keys
      <4> QED
        BY <2>1, <2>2, RunSteps
    <3>2. (IF r.ok THEN r.keys ELSE keys) \in [Keys -> Status]
      BY <2>2, <3>1 DEF Results, KeyRings
    <3> HIDE DEF r, keys
    <3> QED
      BY <1>5, <2>1, <3>2 DEF Events
  <2> HIDE DEF e, r
  <2>4. \A c \in Contracts : log'[c] = IF c = t THEN Append(log[t], e) ELSE log[c]
    BY <1>5, <2>1 DEF FitInv, RingTypes
  <2>5. /\ Len(Append(log[t], e)) = Len(log[t]) + 1
        /\ DOMAIN log[t] = 1 .. Len(log[t]) /\ DOMAIN Append(log[t], e) = 1 .. Len(log[t]) + 1
        /\ \A i \in 1 .. Len(log[t]) : Append(log[t], e)[i] = log[t][i]
        /\ Append(log[t], e)[Len(log[t]) + 1] = e
    BY <2>1, Appended
  <2>6. RingTypes'
    <3>1. Append(log[t], e) \in Seq(Events)
      BY <2>1, <2>3
    <3> QED
      BY <1>1, <1>3, <1>5, <3>1 DEF FitInv, RingTypes
  <2>7. Opening'
    BY <1>1 DEF FitInv, Opening
  <2>8. \A c \in Contracts : \A i \in 0 .. Len(log[c]) : KeysAt(c, i)' = KeysAt(c, i)
    <3> SUFFICES ASSUME NEW c \in Contracts, NEW i \in 0 .. Len(log[c])
                 PROVE  i # 0 => log'[c][i] = log[c][i]
      BY DEF KeysAt
    <3>1. i # 0 => i \in 1 .. Len(log[c])
      OBVIOUS
    <3>2. CASE c = t
      BY <2>4, <2>5, <3>1, <3>2
    <3>3. CASE c # t
      BY <2>4, <3>3
    <3> QED
      BY <3>2, <3>3
  <2>9. ASSUME AskedApart PROVE (Formed /\ Fitting /\ FitsItsPlace)'
    <3>1. Formed'
      BY <1>1, <2>9 DEF FitInv, Formed
    <3>2. ASSUME NEW n \in Msgs
          PROVE  /\ pc'[n] = "made" => Ready(n, made[n])'
                 /\ request'[n] = "sent" => Ready(n, entry[n])'
      <4>1. /\ Target[n] \in Contracts
            /\ entry[n].at \in Int /\ entry[n].at <= Len(log[Target[n]])
            /\ made[n].at \in Int /\ made[n].at <= Len(log[Target[n]])
        BY MsgsAssumption DEF Inv, LogInv, Bounded
      <4>2. CASE Target[n] = t
        <5>1. Len(log'[Target[n]]) = Len(log[t]) + 1
          BY <2>4, <2>5, <4>1, <4>2
        <5> QED
          BY <1>1, <2>1, <4>1, <4>2, <5>1 DEF Ready
      <4>3. CASE Target[n] # t
        <5>1. log'[Target[n]] = log[Target[n]]
          BY <2>4, <4>1, <4>3
        <5> QED
          BY <1>1, <1>2, <2>9, <5>1 DEF FitInv, Fitting, Ready, KeysAt
      <4> QED
        BY <4>2, <4>3
    <3>3. ASSUME NEW c \in Contracts, NEW i \in DOMAIN log'[c]
          PROVE  Fits(KeysAt(c, i - 1)', log'[c][i].msg, log'[c][i].parts)
      <4>1. CASE i \in DOMAIN log[c] /\ log'[c][i] = log[c][i]
        <5>1. i - 1 \in 0 .. Len(log[c])
          BY <4>1 DEF FitInv, RingTypes
        <5>2. KeysAt(c, i - 1)' = KeysAt(c, i - 1)
          BY <2>8, <5>1
        <5> QED
          BY <2>9, <4>1, <5>2 DEF FitInv, FitsItsPlace, Fits
      <4>2. CASE c = t /\ i = Len(log[t]) + 1
        <5>1. Ready(m, entry[m])
          BY <1>1, <2>9 DEF FitInv, Fitting
        <5>2. Fits(KeysAt(t, Len(log[t])), m, e.parts)
          BY <1>5, <2>3, <5>1 DEF Ready
        <5>3. i - 1 = Len(log[t]) /\ log'[c][i] = e
          <6>1. i - 1 = Len(log[t])
            BY <2>1, <4>2
          <6>2. log'[c] = Append(log[t], e)
            BY <2>4, <4>2
          <6> QED
            BY <2>5, <4>2, <6>1, <6>2
        <5>4. KeysAt(c, i - 1)' = KeysAt(t, Len(log[t]))
          BY <2>1, <2>8, <4>2, <5>3
        <5> QED
          BY <2>3, <5>2, <5>3, <5>4
      <4>3. CASE c = t
        <5>1. log'[c] = Append(log[t], e)
          BY <2>4, <4>3
        <5>2. i \in 1 .. Len(log[t]) + 1
          BY <2>5, <5>1
        <5>3. i \in 1 .. Len(log[t]) \/ i = Len(log[t]) + 1
          BY <2>1, <5>2
        <5>4. i \in 1 .. Len(log[t]) => i \in DOMAIN log[c] /\ log'[c][i] = log[c][i]
          BY <2>5, <4>3, <5>1
        <5> QED
          BY <4>1, <4>2, <4>3, <5>3, <5>4
      <4>4. CASE c # t
        BY <2>4, <4>1, <4>4
      <4> QED
        BY <4>3, <4>4
    <3>4. FitsItsPlace'
      BY <3>3 DEF FitsItsPlace, Fits
    <3> QED
      BY <3>1, <3>2, <3>4 DEF Fitting
  <2> QED
    BY <2>6, <2>7, <2>9 DEF FitInv, AskedApart
<1> QED
  BY <1>1, <1>4, <1>5

LEMMA FitReceive ==
  ASSUME Inv, FitInv, NEW u \in Clients, NEW c \in Contracts,
         Receive(u, c) \/ Sync(u, c) \/ Drop(u, c)
  PROVE  FitInv'
<1>1. /\ UNCHANGED <<log, pc, entry, made, tried, last, request>>
      /\ UNCHANGED budget \/ budget' = budget + 1
  BY DEF Receive, Sync, Drop, Disturb, ownVars
<1>2. last' \in [Msgs -> Nat \union {Unset}] /\ budget' \in Nat
  BY <1>1 DEF FitInv, RingTypes
<1> QED
  BY <1>1, <1>2, FitQuiet

\* Nothing to process goes well.
LEMMA EmptyRun ==
  ASSUME NEW keys \in KeyRings, NEW parts \in Seq(Parts), NEW atomic
  PROVE  parts = <<>> => Run(keys, parts, atomic).ok
<1>1. PICK r \in [0 .. Len(parts) -> Results] :
        /\ r[0] = Fresh(keys)
        /\ \A k \in 1 .. Len(parts) : r[k] = PartRun(r[k - 1], parts[k], atomic)
        /\ Run(keys, parts, atomic) = r[Len(parts)]
  BY RunSteps
<1> QED
  BY <1>1 DEF Fresh

LEMMA FitInit == Init => FitInv
<1> SUFFICES ASSUME Init PROVE FitInv
  OBVIOUS
<1>1. StartKeys \in KeyRings /\ <<>> \in Seq(Parts) /\ Len(<<>>) = 0 /\ DOMAIN <<>> = {}
  BY DEF StartKeys, KeyRings, Status
<1>2. Genesis \in Events
  BY <1>1 DEF Genesis, Events, KeyRings
<1>3. /\ \A c \in Contracts : log[c] \in {<<>>, <<Genesis>>}
      /\ \A m \in Msgs : /\ pc[m] = "idle" /\ request[m] = "none"
                         /\ entry[m] = NoEntry /\ made[m] = NoEntry
  BY DEF Init
<1>4. RingTypes
  <2>1. NoEntry \in Sent
    BY DEF NoEntry, Sent
  <2>2. <<Genesis>> \in Seq(Events) /\ <<>> \in Seq(Events)
    BY <1>2
  <2>3. log \in [Contracts -> Seq(Events)]
    BY <2>2 DEF Init
  <2>4. /\ entry \in [Msgs -> Sent] /\ made \in [Msgs -> Sent]
        /\ last \in [Msgs -> Nat \union {Unset}] /\ tried \in [Msgs -> Seq(Nat)]
        /\ budget \in Nat
    BY <2>1 DEF Init
  <2> QED
    BY <2>3, <2>4 DEF RingTypes
<1>5. Opening
  BY <1>3, MsgsAssumption DEF Opening, Over
<1>6. Formed /\ Fitting
  BY <1>1, <1>3 DEF Formed, Fitting, NoEntry, Apart
<1>7. FitsItsPlace
  <2> SUFFICES ASSUME NEW c \in Contracts, NEW i \in DOMAIN log[c]
               PROVE  Fits(KeysAt(c, i - 1), log[c][i].msg, log[c][i].parts)
    BY DEF FitsItsPlace, Fits
  <2>1. i = 1 /\ log[c][i] = Genesis
    BY <1>1, <1>3
  <2>3. Run(StartKeys, <<>>, Nobody \in Atomic).ok
    BY <1>1, EmptyRun
  <2>4. KeysAt(c, i - 1) = StartKeys
    BY <2>1 DEF KeysAt
  <2>5. Genesis.msg = Nobody /\ Genesis.parts = <<>> /\ Range(<<>>) = {}
    BY <1>1 DEF Genesis, Range
  <2> QED
    BY <2>1, <2>3, <2>4, <2>5 DEF Fits
<1> QED
  BY <1>4, <1>5, <1>6, <1>7 DEF FitInv

LEMMA FitNext == Inv /\ TriedInv /\ FitInv /\ [Next]_vars => FitInv'
<1> SUFFICES ASSUME Inv, TriedInv, FitInv, [Next]_vars PROVE FitInv'
  OBVIOUS
<1>1. ASSUME NEW m \in Msgs, Call(m) \/ Serve(m) PROVE FitInv'
  BY <1>1, FitCall, FitServe
<1>2. ASSUME NEW m \in Msgs, Attempt(m) \/ Lost(m) \/ SyncFails(m) PROVE FitInv'
  BY <1>2, FitStart, FitAttempts, FitCheck, FitSend DEF Attempt
<1>3. ASSUME NEW u \in Clients, NEW c \in Written(u), Receive(u, c) \/ Sync(u, c) \/ Drop(u, c)
      PROVE  FitInv'
  <2>1. c \in Contracts
    BY MsgsAssumption DEF Written
  <2> QED
    BY <1>3, <2>1, FitReceive
<1>4. CASE UNCHANGED vars
  <2>1. UNCHANGED <<log, pc, entry, made, tried, last, request, budget>>
    BY <1>4 DEF vars, stateVars, ownVars
  <2>2. last' \in [Msgs -> Nat \union {Unset}] /\ budget' \in Nat
    BY <2>1 DEF FitInv, RingTypes
  <2> QED
    BY <2>1, <2>2, FitQuiet
<1> QED
  BY <1>1, <1>2, <1>3, <1>4 DEF Next

\* Every event of every log is valid where it is, and every part of it has its work to do
\* there: for any keys, and any payloads that have no key in two parts, whoever else
\* writes and however often it was rebuilt.
THEOREM FitsItsPlaceAlways == AskedApart => (Spec => []FitsItsPlace)
<1> SUFFICES ASSUME AskedApart PROVE Spec => []FitsItsPlace
  OBVIOUS
<1>1. FitInv => FitsItsPlace
  BY DEF FitInv
<1>2. Inv /\ TriedInv /\ FitInv /\ [Next]_vars => (Inv /\ TriedInv /\ FitInv)'
  BY StepInv, TriedNext, FitNext
<1> QED
  BY <1>1, <1>2, InitInv, TriedInit, FitInit, PTL DEF Spec

\* Every variable keeps its type, with no assumption on the payloads.
THEOREM TypeCorrect == Spec => []TypeOK
<1>1. Inv /\ HookInv /\ TriedInv /\ FitInv => TypeOK
  BY DEF Inv, QueueInv, QueueTypes, Places, LogInv, LogTypes, HookInv, HookTypes, TriedInv,
         TriedTypes, FitInv, RingTypes, TypeOK
<1>2. Inv /\ HookInv /\ TriedInv /\ FitInv /\ [Next]_vars => (Inv /\ HookInv /\ TriedInv /\ FitInv)'
  BY StepInv, HookNext, TriedNext, FitNext
<1> QED
  BY <1>1, <1>2, InitInv, HookInit, TriedInit, FitInit, PTL DEF Spec

----------------------------------------------------------------------------
(****************************************************************************)
(* What is published has been done.                                         *)
(* Of a part that deletes several keys rebuilding leaves nothing as soon as *)
(* one of them is gone, so here every part has one key to end at most, and  *)
(* is an OP_KEY_DEL or OP_KEY_UPDATE if it has one.  The event that         *)
(* registers a contract ends no key: there are none yet.                    *)
(****************************************************************************)
Single(p) ==
  /\ p.olds \cap p.news = {} /\ \A j, k \in p.olds : j = k
  /\ p.olds # {} => p.t \in {"del", "update"}

AskedSingle == \A m \in Msgs : \A i \in 1 .. Len(Asked[m]) :
  Single(Asked[m][i]) /\ (m \in First => Asked[m][i].olds = {})

\* A key was not active at some point of a log; it is one that a payload ends.
Ended(c, k) == \E n \in 1 .. Len(log[c]) : KeysAt(c, n)[k] # "active"
Carries(parts, k) == \E i \in 1 .. Len(parts) : k \in parts[i].olds

Singles == \A m \in Msgs :
  /\ \A i \in 1 .. Len(entry[m].parts) : Single(entry[m].parts[i])
  /\ \A i \in 1 .. Len(made[m].parts) : Single(made[m].parts[i])

\* A key that is to be ended and was always active is still in the event, and the
\* event is not in the log.
Carried(m, k) ==
  /\ pc[m] \notin Over => Carries(entry[m].parts, k)
  /\ pc[m] = "made" => Carries(made[m].parts, k)
  /\ ~(pc[m] = "request" /\ request[m] = "ok")
  /\ outcome[m] \notin {"published", "omitted"}

Carrying == \A m \in Msgs : \A k \in Keys :
  Carries(Asked[m], k) => Ended(Target[m], k) \/ Carried(m, k)

Settled == \A m \in Msgs : outcome[m] \in {"published", "omitted"} => pc[m] = "done"

DoneInv == Singles /\ Carrying /\ Settled

LEMMA PartRunStep ==
  ASSUME NEW q \in Results, NEW p \in Parts, NEW atomic
  PROVE  LET r == PartRun(q, p, atomic)
         IN /\ r.ok => q.ok
            /\ r.keys = q.keys \/ r.keys = Changed(q.keys, p)
            /\ r.ok => (Warns(q.keys, p) /\ r.keys = q.keys) \/ r.keys = Changed(q.keys, p)
<1>1. /\ [q EXCEPT !.ok = FALSE].ok = FALSE /\ [q EXCEPT !.ok = FALSE].keys = q.keys
      /\ [q EXCEPT !.keys = Changed(@, p)].ok = q.ok
      /\ [q EXCEPT !.keys = Changed(@, p)].keys = Changed(q.keys, p)
  BY DEF Results
<1> QED
  BY <1>1 DEF PartRun

\* After an event that is valid, a key that it ends is not active.
LEMMA RunEnds ==
  ASSUME NEW keys \in KeyRings, NEW parts \in Seq(Parts), Apart(parts), NEW atomic,
         Run(keys, parts, atomic).ok,
         NEW i \in 1 .. Len(parts), Single(parts[i]), NEW k \in parts[i].olds
  PROVE  Run(keys, parts, atomic).keys[k] # "active"
<1> DEFINE n == Len(parts)
<1>0. /\ n \in Nat /\ i \in 1 .. n /\ \A j \in 1 .. n : parts[j] \in Parts
      /\ k \in Keys
  <2>1. n \in Nat /\ \A j \in 1 .. n : parts[j] \in Parts
    OBVIOUS
  <2>2. \A p \in Parts : p.olds \subseteq Keys
    BY DEF Parts
  <2> QED
    BY <2>1, <2>2
<1>1. PICK r \in [0 .. n -> Results] :
           /\ r[0] = Fresh(keys)
           /\ \A j \in 1 .. n : r[j] = PartRun(r[j - 1], parts[j], atomic)
           /\ Run(keys, parts, atomic) = r[n]
  BY RunSteps
<1> DEFINE Off(j) == r[j].ok /\ j >= i => r[j].keys[k] # "active"
           S == {j \in Nat : j <= n /\ ~Off(j)}
<1>2. Off(0)
  BY <1>0
<1>3. ASSUME NEW j \in 1 .. n, Off(j - 1) PROVE Off(j)
  <2> DEFINE q == r[j - 1]
             p == parts[j]
  <2>0. q \in Results /\ q.keys \in KeyRings /\ p \in Parts /\ j \in Nat /\ j - 1 \in Nat
    BY <1>0 DEF Results
  <2>1. /\ r[j].ok => q.ok
        /\ r[j].keys = q.keys \/ r[j].keys = Changed(q.keys, p)
        /\ r[j].ok => (Warns(q.keys, p) /\ r[j].keys = q.keys) \/ r[j].keys = Changed(q.keys, p)
    <3>1. r[j] = PartRun(q, p, atomic)
      BY <1>1
    <3> HIDE DEF q, p
    <3> QED
      BY <2>0, <3>1, PartRunStep
  <2>2. CASE j = i
    <3>1. k \in p.olds /\ k \notin p.news /\ \A x \in p.olds : x = k
      BY <2>2 DEF Single
    <3> HIDE DEF q, p
    <3>2. Warns(q.keys, p) => q.keys[k] = "never"
      BY <3>1 DEF Warns
    <3>3. Changed(q.keys, p)[k] # "active"
      BY <1>0, <3>1 DEF Changed
    <3> QED
      BY <2>1, <3>2, <3>3
  <2>3. CASE j # i
    <3>1. k \notin KeysOf(p)
      <4>1. k \in KeysOf(parts[i])
        BY DEF KeysOf
      <4>2. KeysOf(parts[i]) \cap KeysOf(p) = {}
        BY <1>0, <2>3 DEF Apart
      <4> QED
        BY <4>1, <4>2
    <3>2. j >= i => j - 1 >= i
      BY <1>0, <2>0, <2>3
    <3> HIDE DEF q, p
    <3>3. Changed(q.keys, p)[k] = q.keys[k]
      BY <1>0, <3>1 DEF Changed, KeysOf
    <3> QED
      BY <1>3, <2>1, <3>2, <3>3 DEF q
  <2> QED
    BY <2>2, <2>3
<1> HIDE DEF Off
<1>4. S = {}
  <2> SUFFICES ASSUME S # {} PROVE FALSE
    OBVIOUS
  <2>1. PICK j \in S : \A x \in S : j <= x
    BY LeastNat
  <2>2. j # 0
    BY <1>2, <2>1
  <2>3. j \in 1 .. n /\ j - 1 \in Nat /\ j - 1 <= n /\ j - 1 \notin S
    BY <1>0, <2>1, <2>2
  <2> QED
    BY <1>3, <2>1, <2>3
<1>5. Off(n) /\ n >= i
  BY <1>0, <1>4
<1> QED
  BY <1>1, <1>5 DEF Off

\* What is made of a payload still ends the keys that are active.
LEMMA PreparedSingle ==
  ASSUME NEW keys, NEW p \in Parts, Single(p)
  PROVE  /\ Single(Prepared(keys, p)) /\ Prepared(keys, p).t = p.t
         /\ \A k \in p.olds : keys[k] = "active" => k \in Prepared(keys, p).olds
<1> DEFINE N == {k \in p.news : keys[k] # "active"}
           O == {k \in p.olds : keys[k] = "active"}
<1>1. N \subseteq p.news /\ O \subseteq p.olds
      /\ \A k \in p.olds : keys[k] = "active" => k \in O
  OBVIOUS
<1>2. Prepared(keys, p) = IF p.t = "add" THEN [p EXCEPT !.news = N]
                          ELSE IF p.t = "del" THEN [p EXCEPT !.olds = O] ELSE p
  BY DEF Prepared
<1> HIDE DEF N, O
<1>3. /\ [p EXCEPT !.news = N].olds = p.olds /\ [p EXCEPT !.news = N].news = N
      /\ [p EXCEPT !.news = N].t = p.t
      /\ [p EXCEPT !.olds = O].olds = O /\ [p EXCEPT !.olds = O].news = p.news
      /\ [p EXCEPT !.olds = O].t = p.t
  BY DEF Parts
<1> QED
  BY <1>1, <1>2, <1>3 DEF Single

LEMMA PayloadCarries ==
  ASSUME NEW keys, NEW parts \in Seq(Parts), \A i \in 1 .. Len(parts) : Single(parts[i])
  PROVE  /\ \A i \in 1 .. Len(Payload(keys, parts)) : Single(Payload(keys, parts)[i])
         /\ \A k : Carries(parts, k) /\ keys[k] = "active" => Carries(Payload(keys, parts), k)
<1> DEFINE P == AllPrepared(keys, parts)
           q == Payload(keys, parts)
           K == {p \in Range(P) : p.t = "add" => p.news # {}}
<1>1. /\ P \in Seq(Parts) /\ Len(P) = Len(parts) /\ Sifted(q, P, K)
      /\ \A i \in 1 .. Len(parts) : P[i] = Prepared(keys, parts[i])
  BY PayloadSifts
<1>2. \A i \in 1 .. Len(parts) : parts[i] \in Parts
  OBVIOUS
<1>3. \A i \in 1 .. Len(P) : Single(P[i])
  BY <1>1, <1>2, PreparedSingle
<1>4. \A i \in 1 .. Len(P) : P[i].t # "add" => P[i] \in K
  BY <1>1 DEF Range
<1> HIDE DEF P, q, K
<1>5. \A i \in 1 .. Len(q) : Single(q[i])
  BY <1>1, <1>3 DEF Sifted
<1>6. ASSUME NEW k, Carries(parts, k), keys[k] = "active" PROVE Carries(q, k)
  <2>1. PICK i \in 1 .. Len(parts) : k \in parts[i].olds
    BY <1>6 DEF Carries
  <2>2. k \in P[i].olds /\ P[i].t = parts[i].t
    BY <1>1, <1>2, <1>6, <2>1, PreparedSingle
  <2>3. parts[i].t # "add"
    BY <2>1 DEF Single
  <2>4. PICK j \in 1 .. Len(q) : q[j] = P[i]
    BY <1>1, <1>4, <2>2, <2>3 DEF Sifted
  <2> QED
    BY <2>2, <2>4 DEF Carries
<1> QED
  BY <1>5, <1>6 DEF q

\* Rebuilding leaves out a key that is to be ended only if it is not active.
LEMMA RecreatedCarries ==
  ASSUME NEW keys, NEW parts \in Seq(Parts), \A i \in 1 .. Len(parts) : Single(parts[i])
  PROVE  /\ \A i \in 1 .. Len(Recreated(keys, parts)) : Single(Recreated(keys, parts)[i])
         /\ \A k : Carries(parts, k) /\ keys[k] = "active" => Carries(Recreated(keys, parts), k)
<1> DEFINE q == Recreated(keys, parts)
           K == {p \in Parts : Kept(keys, p)}
<1>1. Sifted(q, parts, K)
  BY RecreatedSifts
<1>2. \A i \in 1 .. Len(parts) : parts[i] \in Parts
  OBVIOUS
<1> HIDE DEF q
<1>3. \A i \in 1 .. Len(q) : Single(q[i])
  BY <1>1 DEF Sifted
<1>4. ASSUME NEW k, Carries(parts, k), keys[k] = "active" PROVE Carries(q, k)
  <2>1. PICK i \in 1 .. Len(parts) : k \in parts[i].olds
    BY <1>4 DEF Carries
  <2>2. Kept(keys, parts[i])
    <3>1. /\ parts[i].t # "add" /\ parts[i].olds \union parts[i].news # {}
          /\ \A x \in parts[i].olds : keys[x] = "active"
      BY <1>4, <2>1 DEF Single
    <3> QED
      BY <3>1 DEF Kept
  <2>3. PICK j \in 1 .. Len(q) : q[j] = parts[i]
    BY <1>1, <1>2, <2>2 DEF Sifted
  <2> QED
    BY <2>1, <2>3 DEF Carries
<1> QED
  BY <1>3, <1>4 DEF q

\* A step that sends, rebuilds and takes nothing.
LEMMA DoneQuiet ==
  ASSUME DoneInv, UNCHANGED <<log, entry, made>>,
         \A n \in Msgs :
           /\ pc'[n] \notin Over => pc[n] \notin Over
           /\ pc'[n] = "made" => pc[n] = "made"
           /\ pc'[n] = "request" /\ request'[n] = "ok" => pc[n] = "request" /\ request[n] = "ok"
           /\ outcome'[n] \in {"published", "omitted"} =>
                /\ pc'[n] = "done"
                /\ \/ outcome[n] \in {"published", "omitted"}
                   \/ \A k \in Keys : Carries(Asked[n], k) => Ended(Target[n], k)
  PROVE  DoneInv'
<1>1. Singles'
  BY DEF DoneInv, Singles
<1>2. \A c, k : Ended(c, k)' <=> Ended(c, k)
  BY DEF Ended, KeysAt
<1>3. ASSUME NEW n \in Msgs, NEW k \in Keys, Carries(Asked[n], k), ~Ended(Target[n], k)
      PROVE  Carried(n, k)'
  <2>1. Carried(n, k)
    BY <1>3 DEF DoneInv, Carrying
  <2> QED
    BY <1>3, <2>1 DEF Carried
<1>4. Carrying'
  BY <1>2, <1>3 DEF Carrying
<1> QED
  BY <1>1, <1>4 DEF DoneInv, Settled

\* A publication goes from one place to another, and is not rebuilt.
LEMMA DoneMoves ==
  ASSUME Inv, DoneInv, NEW m \in Msgs, pc[m] \notin Over,
         NEW p \in {"done", "enter", "check", "asking", "sync"},
         pc' = [pc EXCEPT ![m] = p], UNCHANGED <<log, entry, made>>,
         UNCHANGED request \/ request' = [request EXCEPT ![m] = "none"],
         UNCHANGED outcome \/ (p = "done" /\ \E how : outcome' = [outcome EXCEPT ![m] = how]),
         outcome'[m] \in {"published", "omitted"} =>
           \/ outcome[m] \in {"published", "omitted"}
           \/ \A k \in Keys : Carries(Asked[m], k) => Ended(Target[m], k)
  PROVE  DoneInv'
<1>1. \A n \in Msgs : /\ pc'[n] = IF n = m THEN p ELSE pc[n]
                      /\ n # m => request'[n] = request[n] /\ outcome'[n] = outcome[n]
  BY DEF Inv, QueueInv, QueueTypes, LogInv, LogTypes
<1>2. \A n \in Msgs :
        /\ pc'[n] \notin Over => pc[n] \notin Over
        /\ pc'[n] = "made" => pc[n] = "made"
        /\ pc'[n] = "request" /\ request'[n] = "ok" => pc[n] = "request" /\ request[n] = "ok"
  BY <1>1
<1>3. \A n \in Msgs : outcome'[n] \in {"published", "omitted"} =>
        /\ pc'[n] = "done"
        /\ \/ outcome[n] \in {"published", "omitted"}
           \/ \A k \in Keys : Carries(Asked[n], k) => Ended(Target[n], k)
  <2>1. pc[m] # "done"
    BY DEF Over
  <2> QED
    BY <1>1, <2>1 DEF DoneInv, Settled
<1> QED
  BY <1>2, <1>3, DoneQuiet

LEMMA DoneAttempts ==
  ASSUME Inv, DoneInv, NEW m \in Msgs,
         HookDone(m) \/ Enter(m) \/ Answer(m) \/ ForcedSync(m) \/ Lost(m) \/ SyncFails(m)
  PROVE  DoneInv'
<1>1. /\ UNCHANGED <<log, entry, made>> /\ pc[m] \notin Over
      /\ UNCHANGED request \/ request' = [request EXCEPT ![m] = "none"]
  BY DEF HookDone, Enter, Answer, Answered, ForcedSync, Lost, SyncFails, stateVars, ownVars, Over
<1>2. PICK p \in {"done", "enter", "check", "sync"} :
        /\ pc' = [pc EXCEPT ![m] = p]
        /\ UNCHANGED outcome \/ (p = "done" /\ \E how : outcome' = [outcome EXCEPT ![m] = how])
  BY DEF HookDone, Enter, Answer, Answered, ForcedSync, Lost, SyncFails, Settle
<1>3. \/ UNCHANGED outcome
      \/ \E how \in {"failed", "dropped"} : outcome' = [outcome EXCEPT ![m] = how]
      \/ /\ outcome' = [outcome EXCEPT ![m] = "published"]
         /\ pc[m] = "request" /\ request[m] = "ok"
  BY DEF HookDone, Enter, Answer, Answered, ForcedSync, Lost, SyncFails, Settle
<1>4. outcome'[m] \in {"published", "omitted"} =>
        \/ outcome[m] \in {"published", "omitted"}
        \/ \A k \in Keys : Carries(Asked[m], k) => Ended(Target[m], k)
  BY <1>3 DEF DoneInv, Carrying, Carried, Inv, LogInv, LogTypes
<1> QED
  BY <1>1, <1>2, <1>4, DoneMoves

\* A call: the keys it is to end are in the payload, or have been ended in the state that
\* its client has.
LEMMA DoneEnqueued ==
  ASSUME Inv, DoneInv, NEW m \in Msgs, NEW parts, Enqueued(m, parts), pc[m] = "idle",
         \A i \in 1 .. Len(parts) : Single(parts[i]),
         \A k \in Keys : Carries(Asked[m], k) => Ended(Target[m], k) \/ Carries(parts, k),
         outcome[m] \notin {"published", "omitted"},
         UNCHANGED <<log, made, request, outcome>>,
         \A n \in Msgs : n # m => /\ pc'[n] \notin Over => pc[n] \notin Over
                                  /\ pc'[n] = "made" => pc[n] = "made"
                                  /\ pc'[n] = "request" => pc[n] = "request"
                                  /\ pc[n] = "done" => pc'[n] = "done",
         pc'[m] = "queued"
  PROVE  DoneInv'
<1> DEFINE e == [at |-> IF m \in First THEN 0 ELSE Unset, parts |-> parts]
<1>1. entry' = [entry EXCEPT ![m] = e] /\ e.parts = parts
  BY DEF Enqueued
<1> HIDE DEF e
<1>2. \A n \in Msgs : entry'[n] = IF n = m THEN e ELSE entry[n]
  BY <1>1 DEF Inv, LogInv, LogTypes
<1>3. Singles'
  BY <1>1, <1>2 DEF DoneInv, Singles
<1>4. \A c, k : Ended(c, k)' <=> Ended(c, k)
  BY DEF Ended, KeysAt
<1>5. ASSUME NEW n \in Msgs, NEW k \in Keys, Carries(Asked[n], k), ~Ended(Target[n], k)
      PROVE  Carried(n, k)'
  <2>1. CASE n = m
    BY <1>1, <1>2, <1>5, <2>1 DEF Carried
  <2>2. CASE n # m
    <3>1. Carried(n, k) /\ entry'[n] = entry[n]
      BY <1>2, <1>5, <2>2 DEF DoneInv, Carrying
    <3> QED
      BY <2>2, <3>1 DEF Carried
  <2> QED
    BY <2>1, <2>2
<1>6. Carrying'
  BY <1>4, <1>5 DEF Carrying
<1>7. Settled'
  BY DEF DoneInv, Settled
<1> QED
  BY <1>3, <1>6, <1>7 DEF DoneInv

\* What is not active in a state that a client has of a contract has been ended.
LEMMA SeenEnded ==
  ASSUME Inv, NEW m \in Msgs, seen[Owner[m]][Target[m]] > 0, NEW k, OwnKeys(m)[k] # "active"
  PROVE  Ended(Target[m], k)
<1>1. /\ Owner[m] \in Clients /\ Target[m] \in Contracts
  BY MsgsAssumption
<1>2. /\ seen[Owner[m]][Target[m]] \in Nat /\ Len(log[Target[m]]) \in Nat
      /\ seen[Owner[m]][Target[m]] <= Len(log[Target[m]])
  BY <1>1 DEF Inv, LogInv, LogTypes, Bounded
<1>3. seen[Owner[m]][Target[m]] \in 1 .. Len(log[Target[m]])
  BY <1>2
<1> QED
  BY <1>3 DEF Ended, OwnKeys

LEMMA DoneCall ==
  ASSUME Inv, DoneInv, AskedSingle, NEW m \in Msgs, Call(m)
  PROVE  DoneInv'
<1> DEFINE parts == Payload(OwnKeys(m), Asked[m])
<1>1. /\ pc[m] = "idle" /\ UNCHANGED <<log, made, request>>
      /\ m \in First \/ seen[Owner[m]][Target[m]] > 0
      /\ \/ Enqueued(m, parts) /\ pc' = [pc EXCEPT ![m] = "queued"] /\ UNCHANGED outcome
         \/ /\ UNCHANGED entry /\ pc' = [pc EXCEPT ![m] = "done"]
            /\ outcome' = [outcome EXCEPT ![m] = "nothing"]
  BY DEF Call, stateVars
<1>2. Asked[m] \in Seq(Parts)
  BY MsgsAssumption
<1>3. /\ \A i \in 1 .. Len(parts) : Single(parts[i])
      /\ \A k : Carries(Asked[m], k) /\ OwnKeys(m)[k] = "active" => Carries(parts, k)
  BY <1>2, PayloadCarries DEF AskedSingle
<1>4. ASSUME NEW k \in Keys, Carries(Asked[m], k) PROVE Ended(Target[m], k) \/ Carries(parts, k)
  <2>1. m \notin First
    BY <1>4 DEF Carries, AskedSingle
  <2> QED
    BY <1>1, <1>3, <1>4, <2>1, SeenEnded
<1> HIDE DEF parts
<1>5. CASE Enqueued(m, parts) /\ pc' = [pc EXCEPT ![m] = "queued"] /\ UNCHANGED outcome
  <2>1. \A n \in Msgs : pc'[n] = IF n = m THEN "queued" ELSE pc[n]
    BY <1>5 DEF Inv, QueueInv, QueueTypes
  <2>2. outcome[m] \notin {"published", "omitted"}
    BY <1>1 DEF DoneInv, Settled
  <2> QED
    BY <1>1, <1>3, <1>4, <1>5, <2>1, <2>2, DoneEnqueued
<1>6. CASE /\ UNCHANGED entry /\ pc' = [pc EXCEPT ![m] = "done"]
           /\ outcome' = [outcome EXCEPT ![m] = "nothing"]
  <2>1. \A n \in Msgs : /\ pc'[n] = IF n = m THEN "done" ELSE pc[n]
                        /\ outcome'[n] = IF n = m THEN "nothing" ELSE outcome[n]
    BY <1>6 DEF Inv, QueueInv, QueueTypes, LogInv, LogTypes
  <2>2. \A n \in Msgs : /\ pc'[n] \notin Over => pc[n] \notin Over
                        /\ pc'[n] = "made" => pc[n] = "made"
                        /\ pc'[n] = "request" => pc[n] = "request"
                        /\ outcome'[n] \in {"published", "omitted"} =>
                             outcome'[n] = outcome[n] /\ pc'[n] = "done"
    BY <2>1 DEF Over, DoneInv, Settled
  <2> QED
    BY <1>1, <1>6, <2>2, DoneQuiet
<1> QED
  BY <1>1, <1>5, <1>6

\* A hook adds a key; whatever it publishes is carried as it is.
LEMMA DoneStart ==
  ASSUME Inv, DoneInv, AskedSingle, NEW m \in Msgs, Start(m)
  PROVE  DoneInv'
<1> DEFINE b == Before[m]
<1>1. /\ pc[m] = "queued" /\ UNCHANGED <<log, made, request>>
      /\ \/ UNCHANGED <<entry, outcome>> /\ pc' = [pc EXCEPT ![m] = "enter"]
         \/ /\ UNCHANGED entry /\ pc' = [pc EXCEPT ![m] = "done"]
            /\ outcome' = [outcome EXCEPT ![m] = "failed"]
         \/ /\ b # Nobody /\ Enqueued(b, Asked[b]) /\ UNCHANGED outcome
            /\ pc' = [pc EXCEPT ![m] = "asking", ![b] = "queued"]
  BY DEF Start, Prepublish, Settle, stateVars
<1>2. pc[m] \notin Over
  BY <1>1 DEF Over
<1>3. CASE UNCHANGED <<entry, outcome>> /\ pc' = [pc EXCEPT ![m] = "enter"]
  BY <1>1, <1>2, <1>3, DoneMoves
<1>4. CASE /\ UNCHANGED entry /\ pc' = [pc EXCEPT ![m] = "done"]
           /\ outcome' = [outcome EXCEPT ![m] = "failed"]
  <2>1. outcome'[m] = "failed"
    BY <1>4 DEF Inv, LogInv, LogTypes
  <2> QED
    BY <1>1, <1>2, <1>4, <2>1, DoneMoves
<1>5. CASE /\ b # Nobody /\ Enqueued(b, Asked[b]) /\ UNCHANGED outcome
           /\ pc' = [pc EXCEPT ![m] = "asking", ![b] = "queued"]
  <2>1. b \in Msgs /\ pc[b] = "idle"
    BY <1>1, <1>5, MsgsAssumption DEF Inv, QueueInv, Befores
  <2> HIDE DEF b
  <2>2. \A n \in Msgs : pc'[n] = IF n = b THEN "queued" ELSE IF n = m THEN "asking" ELSE pc[n]
    BY <1>1, <1>5, <2>1 DEF Inv, QueueInv, QueueTypes
  <2>3. \A i \in 1 .. Len(Asked[b]) : Single(Asked[b][i])
    BY <2>1 DEF AskedSingle
  <2>4. outcome[b] \notin {"published", "omitted"}
    BY <2>1 DEF DoneInv, Settled
  <2>5. \A n \in Msgs : n # b => /\ pc'[n] \notin Over => pc[n] \notin Over
                                 /\ pc'[n] = "made" => pc[n] = "made"
                                 /\ pc'[n] = "request" => pc[n] = "request"
                                 /\ pc[n] = "done" => pc'[n] = "done"
    BY <1>1, <1>2, <2>2
  <2>6. pc'[b] = "queued"
    BY <2>1, <2>2
  <2> QED
    BY <1>1, <1>5, <2>1, <2>3, <2>4, <2>5, <2>6, DoneEnqueued
<1> QED
  BY <1>1, <1>3, <1>4, <1>5

\* A key that rebuilding leaves out has been ended.
LEMMA DoneCheck ==
  ASSUME Inv, TriedInv, FitInv, DoneInv, AskedSingle, NEW m \in Msgs, Check(m)
  PROVE  DoneInv'
<1> DEFINE c == Target[m]
           old == entry[m].parts
           parts == IF m \in First THEN old ELSE Recreated(OwnKeys(m), old)
           e == [at |-> IF m \in First THEN entry[m].at ELSE seen[Owner[m]][c], parts |-> parts]
<1>1. /\ pc[m] = "check" /\ UNCHANGED <<log, entry, request>>
      /\ \/ /\ UNCHANGED made /\ pc' = [pc EXCEPT ![m] = "done"]
            /\ outcome' = [outcome EXCEPT ![m] = "failed"]
         \/ /\ UNCHANGED made /\ pc' = [pc EXCEPT ![m] = "done"]
            /\ outcome' = [outcome EXCEPT ![m] = "omitted"] /\ parts = <<>>
         \/ /\ made' = [made EXCEPT ![m] = e] /\ pc' = [pc EXCEPT ![m] = "made"]
            /\ UNCHANGED outcome
  BY DEF Check, Checked, Settle, stateVars
<1>2. pc[m] \notin Over
  BY <1>1 DEF Over
<1>3. old \in Seq(Parts) /\ \A i \in 1 .. Len(old) : Single(old[i])
  BY DEF FitInv, RingTypes, Sent, DoneInv, Singles
<1>4. /\ \A i \in 1 .. Len(parts) : Single(parts[i])
      /\ \A k : Carries(old, k) /\ (m \notin First => OwnKeys(m)[k] = "active")
                => Carries(parts, k)
  BY <1>3, RecreatedCarries
<1>5. e.parts = parts
  OBVIOUS
<1> HIDE DEF parts, e
<1>6. ASSUME NEW k \in Keys, Carries(Asked[m], k), ~Ended(c, k) PROVE Carries(parts, k)
  <2>1. Carries(old, k)
    BY <1>2, <1>6 DEF DoneInv, Carrying, Carried
  <2>2. m \notin First => OwnKeys(m)[k] = "active"
    <3> SUFFICES ASSUME m \notin First PROVE OwnKeys(m)[k] = "active"
      OBVIOUS
    <3>1. Got(m) > 0
      BY <1>1 DEF TriedInv, Tries, Retrying, Rising
    <3> QED
      BY <1>6, <3>1, SeenEnded DEF Got
  <2> QED
    BY <1>4, <2>1, <2>2
<1>7. CASE /\ UNCHANGED made /\ pc' = [pc EXCEPT ![m] = "done"]
           /\ outcome' = [outcome EXCEPT ![m] = "failed"]
  <2>1. outcome'[m] = "failed"
    BY <1>7 DEF Inv, LogInv, LogTypes
  <2> QED
    BY <1>1, <1>2, <1>7, <2>1, DoneMoves
<1>8. CASE /\ UNCHANGED made /\ pc' = [pc EXCEPT ![m] = "done"]
           /\ outcome' = [outcome EXCEPT ![m] = "omitted"] /\ parts = <<>>
  <2>1. \A k : ~Carries(parts, k)
    BY <1>8 DEF Carries
  <2>2. \A k \in Keys : Carries(Asked[m], k) => Ended(Target[m], k)
    BY <1>6, <2>1
  <2> QED
    BY <1>1, <1>2, <1>8, <2>2, DoneMoves
<1>9. CASE /\ made' = [made EXCEPT ![m] = e] /\ pc' = [pc EXCEPT ![m] = "made"]
           /\ UNCHANGED outcome
  <2>1. \A n \in Msgs : /\ made'[n] = IF n = m THEN e ELSE made[n]
                        /\ pc'[n] = IF n = m THEN "made" ELSE pc[n]
    BY <1>9 DEF Inv, QueueInv, QueueTypes, LogInv, LogTypes
  <2>2. Singles'
    BY <1>1, <1>4, <1>5, <2>1 DEF DoneInv, Singles
  <2>3. \A d, k : Ended(d, k)' <=> Ended(d, k)
    BY <1>1 DEF Ended, KeysAt
  <2>4. ASSUME NEW n \in Msgs, NEW k \in Keys, Carries(Asked[n], k), ~Ended(Target[n], k)
        PROVE  Carried(n, k)'
    <3>1. Carried(n, k)
      BY <2>4 DEF DoneInv, Carrying
    <3>2. CASE n # m
      BY <1>1, <1>9, <2>1, <3>1, <3>2 DEF Carried
    <3>3. CASE n = m
      <4>1. Carries(parts, k)
        BY <1>6, <2>4, <3>3
      <4> QED
        BY <1>1, <1>2, <1>5, <1>9, <2>1, <3>1, <3>3, <4>1 DEF Carried
    <3> QED
      BY <3>2, <3>3
  <2>5. Carrying' /\ Settled'
    <3>1. Carrying'
      BY <2>3, <2>4 DEF Carrying
    <3>2. Settled'
      BY <1>1, <1>9, <2>1 DEF DoneInv, Settled
    <3> QED
      BY <3>1, <3>2
  <2> QED
    BY <2>2, <2>5 DEF DoneInv
<1> QED
  BY <1>1, <1>7, <1>8, <1>9

LEMMA DoneSend ==
  ASSUME Inv, DoneInv, NEW m \in Msgs, Send(m)
  PROVE  DoneInv'
<1>1. /\ pc[m] = "made" /\ pc' = [pc EXCEPT ![m] = "request"]
      /\ entry' = [entry EXCEPT ![m] = made[m]] /\ made' = [made EXCEPT ![m] = NoEntry]
      /\ request' = [request EXCEPT ![m] = "sent"]
      /\ UNCHANGED <<log, outcome>>
  BY DEF Send, stateVars
<1>2. \A n \in Msgs : /\ pc'[n] = IF n = m THEN "request" ELSE pc[n]
                      /\ entry'[n] = IF n = m THEN made[m] ELSE entry[n]
                      /\ made'[n] = IF n = m THEN NoEntry ELSE made[n]
                      /\ request'[n] = IF n = m THEN "sent" ELSE request[n]
  BY <1>1 DEF Inv, QueueInv, QueueTypes, LogInv, LogTypes
<1>3. Len(NoEntry.parts) = 0
  BY DEF NoEntry
<1>4. Singles'
  BY <1>2, <1>3 DEF DoneInv, Singles
<1>5. \A c, k : Ended(c, k)' <=> Ended(c, k)
  BY <1>1 DEF Ended, KeysAt
<1>6. ASSUME NEW n \in Msgs, NEW k \in Keys, Carries(Asked[n], k), ~Ended(Target[n], k)
      PROVE  Carried(n, k)'
  <2>1. Carried(n, k)
    BY <1>6 DEF DoneInv, Carrying
  <2> QED
    BY <1>1, <1>2, <2>1 DEF Carried
<1>7. Carrying'
  BY <1>5, <1>6 DEF Carrying
<1>8. Settled'
  BY <1>1, <1>2 DEF DoneInv, Settled
<1> QED
  BY <1>4, <1>7, <1>8 DEF DoneInv

\* The server takes an event: every key that it ends is not active after it.
LEMMA DoneServe ==
  ASSUME Inv, FitInv, DoneInv, AskedApart, NEW m \in Msgs, Serve(m)
  PROVE  DoneInv'
<1> DEFINE t == Target[m]
           keys == KeysAt(t, Len(log[t]))
           parts == entry[m].parts
           r == Run(keys, parts, m \in Atomic)
           e == [msg |-> m, at |-> entry[m].at, parts |-> parts,
                 keys |-> IF r.ok THEN r.keys ELSE keys]
<1>1. /\ request[m] = "sent" /\ UNCHANGED <<pc, entry, made, outcome>>
      /\ \/ /\ log' = [log EXCEPT ![t] = Append(@, e)] /\ entry[m].at = Len(log[t])
            /\ request' = [request EXCEPT ![m] = "ok"]
         \/ UNCHANGED log /\ \E a \in {"conflict", "error"} : request' = [request EXCEPT ![m] = a]
  BY DEF Serve, ownVars
<1>2. CASE UNCHANGED log /\ \E a \in {"conflict", "error"} : request' = [request EXCEPT ![m] = a]
  <2>1. \A n \in Msgs : request'[n] = "ok" => request[n] = "ok"
    BY <1>2 DEF Inv, LogInv, LogTypes
  <2>2. \A n \in Msgs : outcome[n] \in {"published", "omitted"} => pc[n] = "done"
    BY DEF DoneInv, Settled
  <2> QED
    BY <1>1, <1>2, <2>1, <2>2, DoneQuiet
<1>3. CASE /\ log' = [log EXCEPT ![t] = Append(@, e)] /\ entry[m].at = Len(log[t])
           /\ request' = [request EXCEPT ![m] = "ok"]
  <2>1. t \in Contracts /\ log[t] \in Seq(Events) /\ Len(log[t]) \in Nat /\ parts \in Seq(Parts)
    BY MsgsAssumption DEF FitInv, RingTypes, Sent
  <2>2. keys \in KeyRings
    BY <2>1, KeysTypes DEF FitInv
  <2>3. Apart(parts) /\ r.ok
    <3>1. Apart(parts) /\ Ready(m, entry[m])
      BY <1>1 DEF FitInv, Formed, Fitting
    <3> QED
      BY <1>3, <3>1 DEF Ready, Fits
  <2>4. \A k : Carries(parts, k) => e.keys[k] # "active"
    <3> SUFFICES ASSUME NEW k, Carries(parts, k) PROVE e.keys[k] # "active"
      OBVIOUS
    <3>1. PICK i \in 1 .. Len(parts) : k \in parts[i].olds
      BY DEF Carries
    <3>2. Single(parts[i])
      BY <3>1 DEF DoneInv, Singles
    <3>3. r.keys[k] # "active"
      <4> HIDE DEF keys, parts
      <4> QED
        BY <2>1, <2>2, <2>3, <3>1, <3>2, RunEnds
    <3>4. e.keys = r.keys
      BY <2>3
    <3> QED
      BY <3>3, <3>4
  <2> HIDE DEF e, r
  <2>5. \A c \in Contracts : log'[c] = IF c = t THEN Append(log[t], e) ELSE log[c]
    BY <1>3, <2>1 DEF FitInv, RingTypes
  <2>6. /\ Len(Append(log[t], e)) = Len(log[t]) + 1
        /\ \A i \in 1 .. Len(log[t]) : Append(log[t], e)[i] = log[t][i]
        /\ Append(log[t], e)[Len(log[t]) + 1] = e
    BY <2>1, Appended
  <2>7. ASSUME NEW c \in Contracts, NEW k, Ended(c, k) PROVE Ended(c, k)'
    <3>1. PICK n \in 1 .. Len(log[c]) : KeysAt(c, n)[k] # "active"
      BY <2>7 DEF Ended
    <3>2. n # 0 /\ log[c][n].keys[k] # "active"
      BY <3>1 DEF KeysAt
    <3>3. n \in 1 .. Len(log'[c]) /\ log'[c][n] = log[c][n]
      <4>1. CASE c = t
        <5>1. log'[c] = Append(log[t], e) /\ n \in 1 .. Len(log[t])
          BY <2>5, <4>1
        <5>2. n \in 1 .. Len(log[t]) + 1
          BY <2>1, <5>1
        <5>3. Append(log[t], e)[n] = log[t][n]
          BY <2>6, <5>1
        <5> QED
          BY <2>6, <4>1, <5>1, <5>2, <5>3
      <4>2. CASE c # t
        BY <2>5, <4>2
      <4> QED
        BY <4>1, <4>2
    <3>4. KeysAt(c, n)'[k] # "active"
      BY <3>2, <3>3 DEF KeysAt
    <3> QED
      BY <3>3, <3>4 DEF Ended
  <2>8. ASSUME NEW k, Carries(parts, k) PROVE Ended(t, k)'
    <3>1. PICK n \in Nat : n = Len(log[t]) + 1
      BY <2>1
    <3>2. log'[t] = Append(log[t], e)
      BY <2>1, <2>5
    <3>3. log'[t][n] = e
      BY <2>6, <3>1, <3>2
    <3>4. n \in 1 .. Len(log'[t]) /\ n # 0
      <4>1. Len(log'[t]) = n
        BY <2>6, <3>1, <3>2
      <4>2. n \in 1 .. n /\ n # 0
        BY <2>1, <3>1
      <4> QED
        BY <4>1, <4>2
    <3>5. e.keys[k] # "active"
      BY <2>4, <2>8
    <3> QED
      BY <3>3, <3>4, <3>5 DEF Ended, KeysAt
  <2>9. Singles' /\ Settled'
    BY <1>1 DEF DoneInv, Singles, Settled
  <2>10. ASSUME NEW n \in Msgs, NEW k \in Keys, Carries(Asked[n], k), ~Ended(Target[n], k)'
         PROVE  Carried(n, k)'
    <3>1. Carried(n, k)
      BY <2>7, <2>10, MsgsAssumption DEF DoneInv, Carrying
    <3>2. CASE n # m
      <4>1. request'[n] = request[n]
        BY <1>3, <3>2 DEF Inv, LogInv, LogTypes
      <4> QED
        BY <1>1, <3>1, <4>1 DEF Carried
    <3>3. CASE n = m
      <4>1. ~Carries(parts, k)
        BY <2>8, <2>10, <3>3
      <4>2. pc[m] \in Over
        BY <3>1, <3>3, <4>1 DEF Carried
      <4> QED
        BY <1>1, <3>1, <3>3, <4>2 DEF Carried, Over
    <3> QED
      BY <3>2, <3>3
  <2>11. Carrying'
    BY <2>10 DEF Carrying
  <2> QED
    BY <2>9, <2>11 DEF DoneInv
<1> QED
  BY <1>1, <1>2, <1>3

LEMMA DoneInit == Init => DoneInv
<1> SUFFICES ASSUME Init PROVE DoneInv
  OBVIOUS
<1>1. \A m \in Msgs : /\ pc[m] = "idle" /\ outcome[m] = "none"
                      /\ entry[m] = NoEntry /\ made[m] = NoEntry
  BY DEF Init
<1>2. Len(NoEntry.parts) = 0
  BY DEF NoEntry
<1> QED
  BY <1>1, <1>2 DEF DoneInv, Singles, Carrying, Carried, Settled, Over

LEMMA DoneNext ==
  AskedApart /\ AskedSingle /\ Inv /\ TriedInv /\ FitInv /\ DoneInv /\ [Next]_vars => DoneInv'
<1> SUFFICES ASSUME AskedApart, AskedSingle, Inv, TriedInv, FitInv, DoneInv, [Next]_vars
             PROVE  DoneInv'
  OBVIOUS
<1>1. ASSUME NEW m \in Msgs, Call(m) \/ Serve(m) PROVE DoneInv'
  BY <1>1, DoneCall, DoneServe
<1>2. ASSUME NEW m \in Msgs, Attempt(m) \/ Lost(m) \/ SyncFails(m) PROVE DoneInv'
  BY <1>2, DoneStart, DoneAttempts, DoneCheck, DoneSend DEF Attempt
<1>3. CASE \/ \E u \in Clients : \E c \in Written(u) : Receive(u, c) \/ Sync(u, c) \/ Drop(u, c)
           \/ UNCHANGED vars
  <2>1. UNCHANGED <<log, pc, entry, made, request, outcome>>
    BY <1>3 DEF Receive, Sync, Drop, ownVars, vars, stateVars
  <2>2. \A n \in Msgs : outcome[n] \in {"published", "omitted"} => pc[n] = "done"
    BY DEF DoneInv, Settled
  <2> QED
    BY <2>1, <2>2, DoneQuiet
<1> QED
  BY <1>1, <1>2, <1>3 DEF Next

\* A publication that ends without an error has achieved what was asked of it, for any
\* payloads whose parts delete or replace one key each, and no key twice: with more of
\* them in a part the code drops the rest (MCPublishKeys.cfg).
THEOREM DoneAsAskedAlways == AskedApart /\ AskedSingle => (Spec => []DoneAsAsked)
<1> SUFFICES ASSUME AskedApart, AskedSingle PROVE Spec => []DoneAsAsked
  OBVIOUS
<1>1. DoneInv => DoneAsAsked
  <2> SUFFICES ASSUME DoneInv, NEW m \in Msgs, outcome[m] \in {"published", "omitted"},
                      NEW p \in Range(Asked[m]), NEW k \in p.olds
               PROVE  Ended(Target[m], k)
    BY DEF DoneAsAsked, Ended
  <2>1. Asked[m] \in Seq(Parts)
    BY MsgsAssumption
  <2>2. PICK i \in 1 .. Len(Asked[m]) : Asked[m][i] = p
    BY <2>1 DEF Range
  <2>3. k \in Keys
    <3>1. p \in Parts
      BY <2>1, <2>2
    <3>2. p.olds \subseteq Keys
      BY <3>1 DEF Parts
    <3> QED
      BY <3>2
  <2>4. Carries(Asked[m], k)
    BY <2>2 DEF Carries
  <2> QED
    BY <2>3, <2>4 DEF DoneInv, Carrying, Carried
<1>2. /\ Inv /\ TriedInv /\ FitInv /\ DoneInv /\ [Next]_vars
      => (Inv /\ TriedInv /\ FitInv /\ DoneInv)'
  BY StepInv, TriedNext, FitNext, DoneNext
<1> QED
  BY <1>1, <1>2, InitInv, TriedInit, FitInit, DoneInit, PTL DEF Spec

----------------------------------------------------------------------------
(* Getting on.  Trying bounds the attempts; each step of a publication      *)
(* brings it lower, or adds an attempt.                                     *)

\* The attempts so far, with one to come unless it is sent or over.
Trying(m) ==
  /\ tried[m] \in Seq(Int) /\ Len(tried[m]) <= MaxAttempts
  /\ pc[m] \notin {"request", "done"} => Len(tried[m]) < MaxAttempts
TryingInv == \A m \in Msgs : Trying(m)

Rests(n) == pc'[n] = pc[n] /\ tried'[n] = tried[n] /\ request'[n] = request[n]

\* A step within an attempt, or to another one if there is one left.
Lower(n) ==
  /\ tried'[n] = tried[n] /\ pc'[n] \in Places /\ Stage(pc'[n]) < Stage(pc[n])
  /\ request'[n] = "sent" => request[n] = "sent"
  /\ pc'[n] \notin {"request", "done"} => Len(tried[n]) < MaxAttempts

Sends(n) ==
  /\ pc[n] = "made" /\ pc'[n] = "request"
  /\ \E h \in Int : tried'[n] = Append(tried[n], h)

Served(n) ==
  /\ tried'[n] = tried[n] /\ pc'[n] = pc[n]
  /\ request[n] = "sent" /\ request'[n] # "sent"

Nearer(n) == Lower(n) \/ Sends(n) \/ Served(n)

\* The stages in their order.
LEMMA Stages ==
  /\ Stage("idle") = 8 /\ Stage("queued") = 7 /\ Stage("asking") = 6
  /\ Stage("request") = 5 /\ Stage("sync") = 4 /\ Stage("enter") = 3
  /\ Stage("check") = 2 /\ Stage("made") = 1 /\ Stage("done") = 0
BY DEF Stage

LEMMA StageType == ASSUME NEW p \in Places PROVE Stage(p) \in 0 .. 8
BY Stages DEF Places

LEMMA Nearing ==
  ASSUME NEW M \in Nat, NEW l \in Nat, l <= M, NEW a \in 0 .. 8, NEW b \in 0 .. 8,
         NEW x \in 0 .. 1, NEW y \in 0 .. 1, b < a, y <= x
  PROVE  0 <= 10 * (M - l) + b + y /\ 10 * (M - l) + b + y < 10 * (M - l) + a + x
OBVIOUS

\* A publication that gets nearer its end keeps its bound and has less to do.
LEMMA NearerStep ==
  ASSUME NEW n \in Msgs, pc[n] \in Places, Trying(n), Nearer(n)
  PROVE  Trying(n)' /\ 0 <= Effort(n)' /\ Effort(n)' < Effort(n)
<1>1. MaxAttempts \in Nat /\ Len(tried[n]) \in Nat /\ Len(tried[n]) <= MaxAttempts
  BY BoundAssumption DEF Trying
<1>2. Stage(pc[n]) \in 0 .. 8
  BY StageType
<1>3. PICK l \in Nat : l = Len(tried[n]) /\ l <= MaxAttempts
  BY <1>1
<1>4. CASE Lower(n)
  <2>1. /\ tried'[n] = tried[n] /\ Stage(pc'[n]) \in 0 .. 8 /\ Stage(pc'[n]) < Stage(pc[n])
        /\ request'[n] = "sent" => request[n] = "sent"
    BY <1>4, StageType DEF Lower
  <2>2. Trying(n)'
    BY <1>4 DEF Lower, Trying
  <2>3. PICK a \in 0 .. 8, b \in 0 .. 8 : a = Stage(pc[n]) /\ b = Stage(pc'[n]) /\ b < a
    BY <1>2, <2>1
  <2>4. PICK x \in 0 .. 1, y \in 0 .. 1 :
          /\ x = (IF request[n] = "sent" THEN 1 ELSE 0)
          /\ y = (IF request'[n] = "sent" THEN 1 ELSE 0) /\ y <= x
    BY <2>1
  <2>5. Effort(n) = 10 * (MaxAttempts - l) + a + x
    BY <1>3, <2>3, <2>4 DEF Effort
  <2>6. Effort(n)' = 10 * (MaxAttempts - l) + b + y
    BY <1>3, <2>1, <2>3, <2>4 DEF Effort
  <2>7. MaxAttempts \in Nat /\ l <= MaxAttempts /\ b < a /\ y <= x
    BY <1>3, <2>3, <2>4, BoundAssumption
  <2>8. 0 <= Effort(n)' /\ Effort(n)' < Effort(n)
    BY <2>5, <2>6, <2>7, Nearing
  <2> QED
    BY <2>2, <2>8
<1>5. CASE Sends(n)
  <2>1. /\ tried'[n] \in Seq(Int) /\ Len(tried'[n]) = Len(tried[n]) + 1
        /\ pc[n] = "made" /\ pc'[n] = "request"
    BY <1>5 DEF Sends, Trying
  <2>2. Stage(pc[n]) = 1 /\ Stage(pc'[n]) = 5
    BY <2>1, Stages
  <2>3. Trying(n)'
    BY <1>1, <2>1 DEF Trying
  <2> QED
    BY <1>1, <2>1, <2>2, <2>3 DEF Effort, Trying
<1>6. CASE Served(n)
  <2>1. tried'[n] = tried[n] /\ pc'[n] = pc[n] /\ request[n] = "sent" /\ request'[n] # "sent"
    BY <1>6 DEF Served
  <2>2. Trying(n)'
    BY <2>1 DEF Trying
  <2> QED
    BY <1>1, <1>2, <2>1, <2>2 DEF Effort, Trying
<1> QED
  BY <1>4, <1>5, <1>6 DEF Nearer

LEMMA RestsStep ==
  ASSUME NEW n \in Msgs, pc[n] \in Places, Trying(n), Rests(n)
  PROVE  Trying(n)' /\ 0 <= Effort(n)' /\ Effort(n)' <= Effort(n)
<1>1. MaxAttempts \in Nat /\ Len(tried[n]) \in Nat /\ Stage(pc[n]) \in 0 .. 8
  BY BoundAssumption, StageType DEF Trying
<1>2. tried'[n] = tried[n] /\ pc'[n] = pc[n] /\ request'[n] = request[n]
  BY DEF Rests
<1> QED
  BY <1>1, <1>2 DEF Effort, Trying

\* One publication moves, and nothing else does.
LEMMA OneMoves ==
  ASSUME Inv, TriedTypes, TryingInv, NEW m \in Msgs, NEW p \in Places,
         \A n \in Msgs : pc'[n] = IF n = m THEN p ELSE pc[n],
         UNCHANGED tried, Stage(p) < Stage(pc[m]),
         p \in {"request", "done"} \/ pc[m] \notin {"request", "done"}
           \/ Len(tried[m]) < MaxAttempts,
         \A n \in Msgs : request'[n] = request[n] \/ (n = m /\ request'[n] # "sent")
  PROVE  Nearer(m) /\ \A n \in Msgs : n = m \/ Rests(n)
<1>1. Lower(m)
  BY DEF Lower, TryingInv, Trying
<1> QED
  BY <1>1 DEF Nearer, Rests

\* Everybody but m rests, or m is started and the one its hook publishes with it.
Alone(m) == Nearer(m) /\ \A n \in Msgs : Rests(n) \/ Nearer(n)

LEMMA MovesAlone ==
  ASSUME Inv, TriedTypes, TryingInv, NEW m \in Msgs, NEW p \in Places, pc' = [pc EXCEPT ![m] = p],
         UNCHANGED tried, Stage(p) < Stage(pc[m]),
         p \in {"request", "done"} \/ pc[m] \notin {"request", "done"}
           \/ Len(tried[m]) < MaxAttempts,
         \A n \in Msgs : request'[n] = request[n] \/ (n = m /\ request'[n] # "sent")
  PROVE  Alone(m)
<1>1. pc \in [Msgs -> Places]
  BY DEF Inv, QueueInv, QueueTypes
<1>2. \A n \in Msgs : pc'[n] = IF n = m THEN p ELSE pc[n]
  BY <1>1
<1> QED
  BY <1>2, OneMoves DEF Alone

LEMMA SettlesAlone ==
  ASSUME Inv, TriedTypes, TryingInv, NEW m \in Msgs, NEW how, Settle(m, how), pc[m] # "done",
         UNCHANGED tried,
         \A n \in Msgs : request'[n] = request[n] \/ (n = m /\ request'[n] # "sent")
  PROVE  Alone(m)
<1>1. pc' = [pc EXCEPT ![m] = "done"] /\ "done" \in Places
  BY DEF Settle, Places
<1>2. Stage("done") < Stage(pc[m])
  <2>1. pc[m] \in Places
    BY DEF Inv, QueueInv, QueueTypes
  <2> QED
    BY <2>1, Stages DEF Places
<1> QED
  BY <1>1, <1>2, MovesAlone

LEMMA CallMoves ==
  ASSUME Inv, TriedTypes, TryingInv, NEW m \in Msgs, Call(m)
  PROVE  Alone(m)
<1>1. UNCHANGED <<tried, request>> /\ pc[m] = "idle"
  BY DEF Call
<1>2. PICK p \in {"queued", "done"} : pc' = [pc EXCEPT ![m] = p]
  BY DEF Call
<1>3. p \in Places /\ Stage(p) < Stage(pc[m])
  BY <1>1, Stages DEF Places
<1> QED
  BY <1>1, <1>2, <1>3, MovesAlone

LEMMA StartMoves ==
  ASSUME Inv, TriedTypes, TryingInv, NEW m \in Msgs, Start(m)
  PROVE  Alone(m)
<1> DEFINE b == Before[m]
<1>1. UNCHANGED <<tried, request>> /\ pc[m] = "queued"
  BY DEF Start, Prepublish, Enqueued
<1>2. CASE pc' = [pc EXCEPT ![m] = "enter"]
  <2>1. "enter" \in Places /\ Stage("enter") < Stage(pc[m])
    BY <1>1, Stages DEF Places
  <2> QED
    BY <1>1, <1>2, <2>1, MovesAlone
<1>3. CASE b # Nobody /\ pc' = [pc EXCEPT ![m] = "asking", ![b] = "queued"]
  <2>1. b \in Msgs /\ pc[b] = "idle" /\ b # m
    BY <1>1, <1>3, MsgsAssumption DEF Inv, QueueInv, Befores
  <2>2. pc \in [Msgs -> Places]
    BY DEF Inv, QueueInv, QueueTypes
  <2>3. \A n \in Msgs : pc'[n] = IF n = b THEN "queued" ELSE IF n = m THEN "asking" ELSE pc[n]
    BY <1>3, <2>1, <2>2
  <2> HIDE DEF b
  <2>4. \A n \in Msgs : n = m \/ n = b \/ Rests(n)
    BY <1>1, <2>3 DEF Rests
  <2>5. Len(tried[m]) < MaxAttempts /\ Len(tried[b]) < MaxAttempts
    BY <1>1, <2>1 DEF TryingInv, Trying
  <2>6. pc'[m] = "asking" /\ pc'[b] = "queued"
    BY <2>1, <2>3
  <2>7. Lower(m) /\ Lower(b)
    BY <1>1, <2>1, <2>5, <2>6, Stages DEF Lower, Places
  <2> QED
    BY <2>4, <2>7 DEF Alone, Nearer
<1>4. CASE Settle(m, "failed")
  BY <1>1, <1>4, SettlesAlone
<1> QED
  BY <1>2, <1>3, <1>4 DEF Start, Prepublish

LEMMA HookDoneMoves ==
  ASSUME Inv, TriedTypes, TryingInv, NEW m \in Msgs, HookDone(m)
  PROVE  Alone(m)
<1>1. UNCHANGED <<tried, request>> /\ pc[m] = "asking"
  BY DEF HookDone, ownVars
<1>2. CASE pc' = [pc EXCEPT ![m] = "enter"]
  <2>1. "enter" \in Places /\ Stage("enter") < Stage(pc[m])
    BY <1>1, Stages DEF Places
  <2> QED
    BY <1>1, <1>2, <2>1, MovesAlone
<1>3. CASE Settle(m, "failed")
  BY <1>1, <1>3, SettlesAlone
<1> QED
  BY <1>2, <1>3 DEF HookDone

LEMMA AttemptMoves ==
  ASSUME Inv, TriedTypes, TryingInv, NEW m \in Msgs, Enter(m) \/ Check(m) \/ ForcedSync(m)
  PROVE  Alone(m)
<1>1. UNCHANGED <<tried, request>> /\ pc[m] \in {"enter", "check", "sync"}
  BY DEF Enter, Check, Checked, ForcedSync, ownVars
<1>2. ASSUME Settle(m, "dropped") \/ Settle(m, "failed") \/ Settle(m, "omitted") PROVE Alone(m)
  BY <1>1, <1>2, SettlesAlone
<1>3. ASSUME NEW p \in {"check", "made", "enter"}, pc' = [pc EXCEPT ![m] = p],
             Stage(p) < Stage(pc[m])
      PROVE  Alone(m)
  <2>1. p \in Places
    BY DEF Places
  <2> QED
    BY <1>1, <1>3, <2>1, MovesAlone
<1>4. CASE Enter(m)
  <2>1. pc[m] = "enter" /\ Stage("check") < Stage("enter")
    BY <1>4, Stages DEF Enter
  <2>2. Settle(m, "dropped") \/ pc' = [pc EXCEPT ![m] = "check"]
    BY <1>4 DEF Enter
  <2> QED
    BY <1>2, <1>3, <2>1, <2>2
<1>5. CASE Check(m)
  <2>1. pc[m] = "check" /\ Stage("made") < Stage("check")
    BY <1>5, Stages DEF Check, Checked
  <2>2. Settle(m, "failed") \/ Settle(m, "omitted") \/ pc' = [pc EXCEPT ![m] = "made"]
    BY <1>5 DEF Check, Checked
  <2> QED
    BY <1>2, <1>3, <2>1, <2>2
<1>6. CASE ForcedSync(m)
  <2>1. pc[m] = "sync" /\ Stage("enter") < Stage("sync") /\ pc' = [pc EXCEPT ![m] = "enter"]
    BY <1>6, Stages DEF ForcedSync
  <2> QED
    BY <1>3, <2>1
<1> QED
  BY <1>4, <1>5, <1>6

LEMMA SendMoves ==
  ASSUME Inv, TriedTypes, TryingInv, NEW m \in Msgs, Send(m)
  PROVE  Alone(m)
<1>1. /\ pc[m] = "made" /\ pc' = [pc EXCEPT ![m] = "request"]
      /\ request' = [request EXCEPT ![m] = "sent"]
      /\ tried' = [tried EXCEPT ![m] = Append(@, made[m].at)]
  BY DEF Send
<1>2. /\ pc \in [Msgs -> Places] /\ request = [n \in Msgs |-> request[n]]
      /\ tried = [n \in Msgs |-> tried[n]] /\ made[m].at \in Int
  BY DEF Inv, QueueInv, QueueTypes, LogInv, LogTypes, Bounded, TriedTypes
<1>3. pc'[m] = "request"
  BY <1>1, <1>2
<1>4. tried'[m] = Append(tried[m], made[m].at)
  BY <1>1, <1>2, Zenon
<1>5. ASSUME NEW n \in Msgs, n # m PROVE Rests(n)
  <2>1. pc'[n] = pc[n] /\ request'[n] = request[n]
    BY <1>1, <1>2, <1>5
  <2>2. tried'[n] = tried[n]
    BY <1>1, <1>2, <1>5, Zenon
  <2> QED
    BY <2>1, <2>2 DEF Rests
<1>6. Sends(m)
  BY <1>1, <1>2, <1>3, <1>4 DEF Sends
<1> QED
  BY <1>5, <1>6 DEF Alone, Nearer

LEMMA ServeMoves ==
  ASSUME Inv, TriedTypes, TryingInv, NEW m \in Msgs, Serve(m)
  PROVE  Alone(m)
<1>1. request[m] = "sent" /\ UNCHANGED <<pc, tried>>
  BY DEF Serve, ownVars
<1>2. PICK r \in {"ok", "conflict", "error"} : request' = [request EXCEPT ![m] = r]
  BY DEF Serve
<1>3. request \in [Msgs -> {"none", "sent", "ok", "conflict", "error"}]
  BY DEF Inv, LogInv, LogTypes
<1>4. \A n \in Msgs : request'[n] = IF n = m THEN r ELSE request[n]
  BY <1>2, <1>3
<1>5. Served(m)
  BY <1>1, <1>4 DEF Served
<1>6. \A n \in Msgs : n = m \/ Rests(n)
  BY <1>1, <1>4 DEF Rests
<1> QED
  BY <1>5, <1>6 DEF Alone, Nearer

LEMMA AnswerMoves ==
  ASSUME Inv, TriedTypes, TryingInv, NEW m \in Msgs, Answer(m)
  PROVE  Alone(m)
<1>1. /\ UNCHANGED tried /\ pc[m] = "request"
      /\ request' = [request EXCEPT ![m] = "none"]
  BY DEF Answer, Answered, ownVars
<1>2. request \in [Msgs -> {"none", "sent", "ok", "conflict", "error"}]
  BY DEF Inv, LogInv, LogTypes
<1>3. \A n \in Msgs : request'[n] = request[n] \/ (n = m /\ request'[n] # "sent")
  BY <1>1, <1>2
<1>4. CASE Settle(m, "published") \/ Settle(m, "failed")
  BY <1>1, <1>3, <1>4, SettlesAlone
<1>5. CASE /\ Len(tried[m]) < MaxAttempts
           /\ \E p \in {"sync", "enter"} : pc' = [pc EXCEPT ![m] = p]
  <2>1. PICK p \in {"sync", "enter"} : pc' = [pc EXCEPT ![m] = p]
    BY <1>5
  <2>2. p \in Places /\ Stage(p) < Stage(pc[m])
    BY <1>1, Stages DEF Places
  <2> QED
    BY <1>1, <1>3, <1>5, <2>1, <2>2, MovesAlone
<1> QED
  BY <1>4, <1>5 DEF Answer, Answered

LEMMA FailuresMove ==
  ASSUME Inv, TriedTypes, TryingInv, NEW m \in Msgs, Lost(m) \/ SyncFails(m)
  PROVE  Alone(m)
<1>1. Settle(m, "failed") /\ UNCHANGED <<tried, request>> /\ pc[m] # "done"
  BY DEF Lost, SyncFails, ownVars
<1> QED
  BY <1>1, SettlesAlone

\* Every step brings whoever it moves nearer to its end.
LEMMA MovesOn ==
  ASSUME Inv, TriedTypes, TryingInv, [Next]_vars
  PROVE  /\ \A n \in Msgs : Rests(n) \/ Nearer(n)
         /\ \A m \in Msgs : Attempt(m) \/ Serve(m) => Nearer(m)
<1>1. ASSUME NEW m \in Msgs, Attempt(m) \/ Serve(m) PROVE Alone(m)
  BY <1>1, StartMoves, HookDoneMoves, AttemptMoves, SendMoves, AnswerMoves, ServeMoves DEF Attempt
<1>2. ASSUME NEW m \in Msgs, Call(m) \/ Lost(m) \/ SyncFails(m) PROVE Alone(m)
  BY <1>2, CallMoves, FailuresMove
<1>3. CASE \/ \E u \in Clients : \E c \in Written(u) : Receive(u, c) \/ Sync(u, c) \/ Drop(u, c)
           \/ UNCHANGED vars
  <2>1. UNCHANGED <<pc, tried, request>>
    BY <1>3 DEF Receive, Sync, Drop, ownVars, vars, stateVars
  <2>2. \A n \in Msgs : Rests(n)
    BY <2>1 DEF Rests
  <2> QED
    BY <1>1, <2>2 DEF Alone
<1>4. \A m \in Msgs : Attempt(m) \/ Serve(m) => Nearer(m)
  BY <1>1 DEF Alone
<1>5. \A n \in Msgs : Rests(n) \/ Nearer(n)
  BY <1>1, <1>2, <1>3, <1>4 DEF Next, Alone
<1> QED
  BY <1>4, <1>5

LEMMA TryingNext ==
  ASSUME Inv, TriedTypes, TryingInv, [Next]_vars
  PROVE  /\ TryingInv'
         /\ \A m \in Msgs : /\ 0 <= Effort(m)' /\ Effort(m)' <= Effort(m)
                            /\ Attempt(m) \/ Serve(m) => Effort(m)' < Effort(m)
<1> SUFFICES ASSUME NEW m \in Msgs
             PROVE  /\ Trying(m)' /\ 0 <= Effort(m)' /\ Effort(m)' <= Effort(m)
                    /\ Attempt(m) \/ Serve(m) => Effort(m)' < Effort(m)
  BY DEF TryingInv
<1>1. pc[m] \in Places /\ Trying(m)
  BY DEF Inv, QueueInv, QueueTypes, TryingInv
<1>2. Effort(m) \in Int
  BY <1>1, StageType, BoundAssumption DEF Effort, Trying
<1>3. CASE Nearer(m)
  <2>1. Trying(m)' /\ 0 <= Effort(m)' /\ Effort(m)' < Effort(m)
    BY <1>1, <1>3, NearerStep
  <2>2. Effort(m)' \in Int
    <3>1. pc'[m] \in Places
      <4>1. Inv'
        BY StepInv
      <4> QED
        BY <4>1 DEF Inv, QueueInv, QueueTypes
    <3> QED
      BY <2>1, <3>1, StageType, BoundAssumption DEF Effort, Trying
  <2> HIDE DEF Effort
  <2> QED
    BY <1>2, <2>1, <2>2
<1>4. CASE ~Nearer(m)
  <2>1. Rests(m) /\ ~(Attempt(m) \/ Serve(m))
    BY <1>4, MovesOn
  <2> QED
    BY <1>1, <2>1, RestsStep
<1> QED
  BY <1>3, <1>4

LEMMA TryingInit == Init => TryingInv
BY BoundAssumption DEF Init, TryingInv, Trying

\* No publication goes on for ever, whatever is refused, lost, dropped or written by
\* others: each of its steps, and of the server's for it, takes something off a number
\* that nobody ever adds to.
THEOREM GetsOnAlways == Spec => GetsOn
<1>1. Inv /\ TriedInv /\ TryingInv /\ [Next]_vars => (Inv /\ TriedInv /\ TryingInv)'
  BY StepInv, TriedNext, TryingNext DEF TriedInv
<1>2. Inv /\ TriedInv /\ TryingInv /\ [Next]_vars =>
        [\A m \in Msgs : /\ 0 <= Effort(m)' /\ Effort(m)' <= Effort(m)
                         /\ Attempt(m) \/ Serve(m) => Effort(m)' < Effort(m)]_vars
  BY TryingNext DEF TriedInv
<1> QED
  BY <1>1, <1>2, InitInv, TriedInit, TryingInit, PTL DEF Spec, GetsOn

----------------------------------------------------------------------------
(* Waiting.  What blocks a contract's queue is checked, and the one a hook  *)
(* waits for has been called; of the publish queues with something in them  *)
(* the first, in the order of the hooks, has one that can go on.            *)

\* Who has a contract's queue is being checked there.
LaneHeld == \A u \in Clients, c \in Contracts :
  LET x == lane[u][c]
  IN x # Nobody => x \in Msgs /\ Owner[x] = u /\ Target[x] = c /\ pc[x] = "check"

Called == \A m \in Msgs : pc[m] = "asking" => Before[m] \in Msgs /\ pc[Before[m]] # "idle"

WaitInv == LaneHeld /\ Called

\* The contracts' queues of a client are left alone by a step that checks nothing.
LEMMA LaneHeldOn ==
  ASSUME WaitInv, UNCHANGED lane, \A n \in Msgs : pc[n] = "check" => pc'[n] = "check"
  PROVE  LaneHeld'
BY DEF WaitInv, LaneHeld

\* Nobody gets back to idle, and who asks has somebody to ask.
LEMMA CalledOn ==
  ASSUME Inv, WaitInv, \A n \in Msgs : pc'[n] = pc[n] \/ pc'[n] \notin {"idle", "asking"}
  PROVE  Called'
BY DEF WaitInv, Called

LEMMA WaitMoves ==
  ASSUME Inv, WaitInv, NEW m \in Msgs, NEW p \in Places \ {"idle", "asking"},
         pc' = [pc EXCEPT ![m] = p]
  PROVE  Called' /\ (UNCHANGED lane /\ pc[m] # "check" => LaneHeld')
<1>1. pc \in [Msgs -> Places]
  BY DEF Inv, QueueInv, QueueTypes
<1>2. \A n \in Msgs : pc'[n] = IF n = m THEN p ELSE pc[n]
  BY <1>1
<1>3. Called'
  BY <1>2, CalledOn
<1>4. ASSUME UNCHANGED lane, pc[m] # "check" PROVE LaneHeld'
  <2>1. \A n \in Msgs : pc[n] = "check" => pc'[n] = "check"
    BY <1>2, <1>4
  <2> QED
    BY <1>4, <2>1, LaneHeldOn
<1> QED
  BY <1>3, <1>4

LEMMA WaitSettles ==
  ASSUME Inv, WaitInv, NEW m \in Msgs, NEW how, Settle(m, how), UNCHANGED lane, pc[m] # "check"
  PROVE  WaitInv'
<1>1. pc' = [pc EXCEPT ![m] = "done"] /\ "done" \in Places \ {"idle", "asking"}
  BY DEF Settle, Places
<1> QED
  BY <1>1, WaitMoves DEF WaitInv

LEMMA WaitStart ==
  ASSUME Inv, WaitInv, NEW m \in Msgs, Start(m)
  PROVE  WaitInv'
<1> DEFINE b == Before[m]
<1>1. UNCHANGED lane /\ pc[m] = "queued"
  BY DEF Start, Prepublish
<1>2. CASE pc' = [pc EXCEPT ![m] = "enter"]
  <2>1. "enter" \in Places \ {"idle", "asking"}
    BY DEF Places
  <2> QED
    BY <1>1, <1>2, <2>1, WaitMoves DEF WaitInv
<1>3. CASE b # Nobody /\ pc' = [pc EXCEPT ![m] = "asking", ![b] = "queued"]
  <2>1. b \in Msgs /\ pc[b] = "idle" /\ b # m
    BY <1>1, <1>3, MsgsAssumption DEF Inv, QueueInv, Befores
  <2>2. pc \in [Msgs -> Places]
    BY DEF Inv, QueueInv, QueueTypes
  <2>3. \A n \in Msgs : pc'[n] = IF n = b THEN "queued" ELSE IF n = m THEN "asking" ELSE pc[n]
    BY <1>3, <2>1, <2>2
  <2>4. \A n \in Msgs : pc[n] = "check" => pc'[n] = "check"
    BY <1>1, <2>1, <2>3
  <2>5. LaneHeld'
    BY <1>1, <2>4, LaneHeldOn
  <2>6. \A n \in Msgs : pc[n] # "idle" => pc'[n] # "idle"
    BY <2>3
  <2>7. Called'
    BY <2>1, <2>3, <2>6 DEF WaitInv, Called
  <2> QED
    BY <2>5, <2>7 DEF WaitInv
<1>4. CASE Settle(m, "failed")
  BY <1>1, <1>4, WaitSettles
<1> QED
  BY <1>2, <1>3, <1>4 DEF Start, Prepublish

LEMMA WaitEnter ==
  ASSUME Inv, TriedTypes, WaitInv, NEW m \in Msgs, Enter(m)
  PROVE  WaitInv'
<1> DEFINE u == Owner[m]
           c == Target[m]
<1>1. pc[m] = "enter" /\ lane[u][c] = Nobody
  BY DEF Enter
<1>2. CASE Settle(m, "dropped") /\ UNCHANGED lane
  BY <1>1, <1>2, WaitSettles
<1>3. CASE lane' = [lane EXCEPT ![u][c] = m] /\ pc' = [pc EXCEPT ![m] = "check"]
  <2>1. "check" \in Places \ {"idle", "asking"}
    BY DEF Places
  <2>2. Called'
    BY <1>3, <2>1, WaitMoves
  <2>3. lane \in [Clients -> [Contracts -> Msgs \union {Nobody}]] /\ pc \in [Msgs -> Places]
    BY DEF TriedTypes, Inv, QueueInv, QueueTypes
  <2>4. u \in Clients /\ c \in Contracts
    BY MsgsAssumption
  <2>5. \A v \in Clients, d \in Contracts :
          lane'[v][d] = IF v = u /\ d = c THEN m ELSE lane[v][d]
    BY <1>3, <2>3, <2>4
  <2>6. \A n \in Msgs : pc'[n] = IF n = m THEN "check" ELSE pc[n]
    BY <1>3, <2>3
  <2>7. LaneHeld'
    BY <2>5, <2>6 DEF WaitInv, LaneHeld
  <2> QED
    BY <2>2, <2>7 DEF WaitInv
<1> QED
  BY <1>2, <1>3 DEF Enter

LEMMA WaitCheck ==
  ASSUME Inv, TriedTypes, WaitInv, NEW m \in Msgs, Check(m), Laned
  PROVE  WaitInv'
<1> DEFINE u == Owner[m]
           c == Target[m]
<1>1. pc[m] = "check" /\ lane' = [lane EXCEPT ![u][c] = Nobody]
  BY DEF Check, Checked
<1>2. PICK p \in {"done", "made"} : pc' = [pc EXCEPT ![m] = p]
  BY DEF Check, Checked, Settle
<1>3. p \in Places \ {"idle", "asking"}
  BY DEF Places
<1>4. Called'
  BY <1>2, <1>3, WaitMoves
<1>5. lane \in [Clients -> [Contracts -> Msgs \union {Nobody}]] /\ pc \in [Msgs -> Places]
  BY DEF TriedTypes, Inv, QueueInv, QueueTypes
<1>6. u \in Clients /\ c \in Contracts
  BY MsgsAssumption
<1>7. \A v \in Clients, d \in Contracts :
        lane'[v][d] = IF v = u /\ d = c THEN Nobody ELSE lane[v][d]
  BY <1>1, <1>5, <1>6
<1>8. \A n \in Msgs : pc'[n] = IF n = m THEN p ELSE pc[n]
  BY <1>2, <1>5
<1>9. LaneHeld'
  <2> SUFFICES ASSUME NEW v \in Clients, NEW d \in Contracts, lane'[v][d] # Nobody
               PROVE  LET x == lane'[v][d]
                      IN x \in Msgs /\ Owner[x] = v /\ Target[x] = d /\ pc'[x] = "check"
    BY DEF LaneHeld
  <2>1. ~(v = u /\ d = c) /\ lane'[v][d] = lane[v][d]
    BY <1>7
  <2>2. PICK x \in Msgs : x = lane[v][d] /\ Owner[x] = v /\ Target[x] = d /\ pc[x] = "check"
    BY <2>1 DEF WaitInv, LaneHeld
  <2>3. x # m
    BY <2>1, <2>2
  <2> QED
    BY <1>8, <2>1, <2>2, <2>3
<1> QED
  BY <1>4, <1>9 DEF WaitInv

LEMMA WaitOthers ==
  ASSUME Inv, WaitInv, NEW m \in Msgs,
         \/ Call(m) \/ HookDone(m) \/ Send(m) \/ Answer(m) \/ ForcedSync(m)
         \/ Lost(m) \/ SyncFails(m)
  PROVE  WaitInv'
<1>1. UNCHANGED lane /\ pc[m] # "check"
  BY DEF Call, HookDone, Send, Answer, Answered, ForcedSync, Lost, SyncFails
<1>2. \E p \in {"queued", "done", "enter", "request", "sync"} : pc' = [pc EXCEPT ![m] = p]
  BY DEF Call, HookDone, Send, Answer, Answered, ForcedSync, Lost, SyncFails, Settle
<1>3. PICK p \in {"queued", "done", "enter", "request", "sync"} : pc' = [pc EXCEPT ![m] = p]
  BY <1>2
<1>4. p \in Places \ {"idle", "asking"}
  BY DEF Places
<1> QED
  BY <1>1, <1>3, <1>4, WaitMoves DEF WaitInv

LEMMA WaitNext == Inv /\ TriedInv /\ WaitInv /\ [Next]_vars => WaitInv'
<1> SUFFICES ASSUME Inv, TriedInv, WaitInv, [Next]_vars PROVE WaitInv'
  OBVIOUS
<1>1. TriedTypes /\ Laned
  BY DEF TriedInv
<1>2. ASSUME NEW m \in Msgs, Call(m) \/ Attempt(m) \/ Lost(m) \/ SyncFails(m) PROVE WaitInv'
  BY <1>1, <1>2, WaitStart, WaitEnter, WaitCheck, WaitOthers DEF Attempt
<1>3. CASE \/ \E m \in Msgs : Serve(m)
           \/ \E u \in Clients : \E c \in Written(u) : Receive(u, c) \/ Sync(u, c) \/ Drop(u, c)
           \/ UNCHANGED vars
  <2>1. UNCHANGED <<pc, lane>>
    BY <1>3 DEF Serve, Receive, Sync, Drop, vars
  <2> QED
    BY <2>1 DEF WaitInv, LaneHeld, Called
<1> QED
  BY <1>2, <1>3 DEF Next

LEMMA WaitInit == Init => WaitInv
BY MsgsAssumption DEF Init, WaitInv, LaneHeld, Called

\* No hook needs a queue that waits for its own: the queues can be numbered so that each
\* hook publishes in a lower one.
HooksOrdered == \E rank \in [Clients -> [Contracts -> Nat]] : \A m \in Msgs :
  LET b == Before[m]
  IN b # Nobody => rank[Owner[b]][Target[b]] < rank[Owner[m]][Target[m]]

\* The first of a publish queue can go on, or its hook waits for one under way elsewhere.
LEMMA HeadGoesOn ==
  ASSUME Inv, TriedInv, WaitInv, NEW m \in Msgs, pc[m] \notin Over
  PROVE  \/ \E n \in Msgs : CanStep(n)
         \/ \E h \in Msgs : /\ Owner[h] = Owner[m] /\ Target[h] = Target[m]
                            /\ Before[h] \in Msgs /\ pc[Before[h]] \notin Over
<1> DEFINE q == OwnQueue(m)
<1>1. Owner[m] \in Clients /\ Target[m] \in Contracts
  BY MsgsAssumption
<1>2. q \in Seq(Msgs) /\ \E i \in 1 .. Len(q) : q[i] = m
  BY <1>1 DEF Inv, QueueInv, QueueTypes, Queued, OwnQueue
<1>3. 1 \in 1 .. Len(q) /\ q[1] = Head(q) /\ Head(q) \in Msgs
  BY <1>2
<1>4. PICK h \in Msgs : h = Head(q)
  BY <1>3
<1>5. Owner[h] = Owner[m] /\ Target[h] = Target[m] /\ pc[h] \notin Over
  BY <1>1, <1>3, <1>4 DEF Inv, QueueInv, Holds, OwnQueue
<1>6. pc[h] \in Places
  BY DEF Inv, QueueInv, QueueTypes
<1>7. CASE pc[h] = "queued"
  <2>1. Head(queue[Owner[h]][Target[h]]) = h
    BY <1>4, <1>5 DEF OwnQueue
  <2> QED
    BY <1>7, <2>1 DEF CanStep
<1>8. CASE pc[h] = "asking"
  <2>1. Before[h] \in Msgs /\ pc[Before[h]] # "idle"
    BY <1>8 DEF WaitInv, Called
  <2>2. CASE pc[Before[h]] = "done"
    BY <1>8, <2>2 DEF CanStep
  <2>3. CASE pc[Before[h]] # "done"
    BY <1>5, <2>1, <2>3 DEF Over
  <2> QED
    BY <2>2, <2>3
<1>9. CASE pc[h] \in {"enter", "sync"}
  <2>1. CASE lane[Owner[h]][Target[h]] = Nobody
    BY <1>9, <2>1 DEF CanStep
  <2>2. CASE lane[Owner[h]][Target[h]] # Nobody
    <3>1. Owner[h] \in Clients /\ Target[h] \in Contracts
      BY MsgsAssumption
    <3>2. PICK x \in Msgs : pc[x] = "check"
      BY <2>2, <3>1 DEF WaitInv, LaneHeld
    <3> QED
      BY <3>2 DEF CanStep
  <2> QED
    BY <2>1, <2>2
<1>10. CASE pc[h] \in {"check", "made"}
  BY <1>10 DEF CanStep
<1>11. CASE pc[h] = "request"
  BY <1>11 DEF CanStep, Inv, LogInv, Placed
<1> QED
  BY <1>5, <1>6, <1>7, <1>8, <1>9, <1>10, <1>11 DEF Places, Over

\* The publications of all the clients never wait for each other, whatever is refused,
\* lost, dropped or fails, as long as the hooks are ordered: without that two crossed
\* requests for keys stop both contracts (MCPublishCrossed.cfg).
THEOREM NeverStuckAlways == HooksOrdered => (Spec => []NeverStuck)
<1> SUFFICES ASSUME HooksOrdered PROVE Spec => []NeverStuck
  OBVIOUS
<1>1. Inv /\ TriedInv /\ WaitInv => NeverStuck
  <2> SUFFICES ASSUME Inv, TriedInv, WaitInv, NEW m \in Msgs, pc[m] \notin Over,
                      \A n \in Msgs : ~CanStep(n)
               PROVE  FALSE
    BY DEF NeverStuck, Over
  <2>1. PICK rank \in [Clients -> [Contracts -> Nat]] : \A n \in Msgs :
          Before[n] # Nobody =>
            rank[Owner[Before[n]]][Target[Before[n]]] < rank[Owner[n]][Target[n]]
    BY DEF HooksOrdered
  <2> DEFINE R(n) == rank[Owner[n]][Target[n]]
             S == {R(n) : n \in {x \in Msgs : pc[x] \notin Over}}
  <2>2. \A n \in Msgs : R(n) \in Nat
    BY <2>1, MsgsAssumption
  <2>3. S \in SUBSET Nat /\ S # {}
    BY <2>2
  <2>4. PICK n \in Msgs : pc[n] \notin Over /\ \A y \in S : R(n) <= y
    <3> HIDE DEF S
    <3>1. PICK r \in S : \A y \in S : r <= y
      BY <2>3, LeastNat
    <3> USE DEF S
    <3> QED
      BY <3>1
  <2>5. PICK h \in Msgs : /\ Owner[h] = Owner[n] /\ Target[h] = Target[n]
                          /\ Before[h] \in Msgs /\ pc[Before[h]] \notin Over
    BY <2>4, HeadGoesOn
  <2>6. R(Before[h]) < R(h) /\ R(h) = R(n)
    BY <2>1, <2>5, MsgsAssumption
  <2>7. R(n) <= R(Before[h])
    BY <2>4, <2>5
  <2>8. PICK x \in Nat, y \in Nat : x = R(n) /\ y = R(Before[h])
    BY <2>2, <2>5
  <2> HIDE DEF R
  <2> QED
    BY <2>6, <2>7, <2>8
<1>2. Inv /\ TriedInv /\ WaitInv /\ [Next]_vars => (Inv /\ TriedInv /\ WaitInv)'
  BY StepInv, TriedNext, WaitNext
<1> QED
  BY <1>1, <1>2, InitInv, TriedInit, WaitInit, PTL DEF Spec

=============================================================================
