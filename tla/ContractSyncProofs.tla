------------------------ MODULE ContractSyncProofs ------------------------
(***************************************************************************)
(* Theorems about ContractSync for every log length, cap, bound, set of    *)
(* disturbances and set of failing, encrypted or key-sharing events.  Only *)
(* the last, on a key that arrives, leaves two disturbances out.           *)
(***************************************************************************)
EXTENDS ContractSync, FiniteSetTheorems, SequenceTheorems, TLAPS

USE HeightAssumption, CapAssumption, BoundAssumption

(***************************************************************************)
(* Type correctness.                                                       *)
(***************************************************************************)
LEMMA TaskTypes ==
  /\ \A h \in Heights : EventTask(h) \in Tasks /\ Entry(h) \in Messages
  /\ \A r \in BOOLEAN : SyncTask(r) \in Tasks
  /\ SyncTask(FALSE) \in Tasks
  /\ SubOk \in Messages
BY DEF Tasks, EventTask, SyncTask, Messages, Entry, SubOk, Heights

LEMMA Singleton == ASSUME NEW S, NEW x \in S PROVE <<x>> \in Seq(S)
OBVIOUS

\* What appending to and removing from the queue and the wire gives.
LEMMA QueueType ==
  ASSUME TypeOK
  PROVE  /\ \A t \in Tasks : Append(queue, t) \in Seq(Tasks)
         /\ queue # <<>> => /\ Tail(queue) \in Seq(Tasks)
                            /\ Head(queue) \in Tasks
                            /\ Head(queue).h \in Heights
                            /\ Head(queue).resync \in BOOLEAN
<1>1. queue \in Seq(Tasks) BY DEF TypeOK
<1>2. queue # <<>> => Head(queue) \in Tasks BY <1>1
<1>3. queue # <<>> => /\ Head(queue).h \in Heights
                     /\ Head(queue).resync \in BOOLEAN
  BY <1>2 DEF Tasks
<1>4. QED BY <1>1, <1>2, <1>3

LEMMA WireType ==
  ASSUME TypeOK
  PROVE  /\ \A m \in Messages : Append(wire, m) \in Seq(Messages)
         /\ wire # <<>> => Tail(wire) \in Seq(Messages) /\ Head(wire).h \in Heights
<1>1. wire \in Seq(Messages) BY DEF TypeOK
<1>2. wire # <<>> => Head(wire) \in Messages BY <1>1
<1>3. wire # <<>> => Head(wire).h \in Heights BY <1>2 DEF Messages
<1>4. QED BY <1>1, <1>3

LEMMA InitType == Init => TypeOK
<1> SUFFICES ASSUME Init PROVE TypeOK OBVIOUS
<1>1. queue \in Seq(Tasks) BY TaskTypes, Singleton DEF Init
<1>2. wire \in Seq(Messages) BY DEF Init
<1>3. srvHeight \in Heights BY DEF Init, Heights
<1>4. work \in WorkType BY DEF Init, NoWork, WorkType, Heights
<1>5. strm \in StreamType BY DEF Init, NoStream, StreamType, Heights
<1>6. row \in RowType BY DEF Init, NoRow, RowType, Heights
<1>7. budget \in 0 .. DisturbBound BY DEF Init
<1>8. QED BY <1>1, <1>2, <1>3, <1>4, <1>5, <1>6, <1>7 DEF Init, TypeOK

LEMMA ConstantTypes ==
  NoWork \in WorkType /\ NoStream \in StreamType /\ NoRow \in RowType
BY DEF NoWork, WorkType, NoStream, StreamType, NoRow, RowType, Heights

LEMMA UpdateTypes ==
  /\ \A h \in Heights, C \in SUBSET Heights :
       [NoWork EXCEPT !.ev = h, !.copy = C] \in WorkType
  /\ \A s \in StreamType :
       s.next \in Heights => [s EXCEPT !.next = @ + 1] \in StreamType
  /\ \A w \in WorkType : /\ [w EXCEPT !.copy = @ \union {w.ev}] \in WorkType
                         /\ \A b \in BOOLEAN :
                              [w EXCEPT !.errored = TRUE, !.undec = b] \in WorkType
<1>1. ASSUME NEW h \in Heights, NEW C \in SUBSET Heights
      PROVE  [NoWork EXCEPT !.ev = h, !.copy = C] \in WorkType
  BY DEF NoWork, WorkType
<1>2. ASSUME NEW s \in StreamType, s.next \in Heights
      PROVE  [s EXCEPT !.next = @ + 1] \in StreamType
  BY <1>2 DEF StreamType, Heights
<1>3. ASSUME NEW w \in WorkType
      PROVE  [w EXCEPT !.copy = @ \union {w.ev}] \in WorkType
  BY DEF WorkType
<1>4. ASSUME NEW w \in WorkType, NEW b \in BOOLEAN
      PROVE  [w EXCEPT !.errored = TRUE, !.undec = b] \in WorkType
  BY DEF WorkType
<1>5. QED BY <1>1, <1>2, <1>3, <1>4

\* The part of TypeOK that handling an event can change.
LEMMA HandleEventType ==
  ASSUME TypeOK, NEW h \in Heights,
         NEW next \in StreamType,
         HandleEvent(h, next)
  PROVE  /\ pc' \in {"idle", "read", "mutate"}
         /\ work' \in WorkType
         /\ strm' \in StreamType
         /\ tracker' \in SUBSET Heights
         /\ timer' \in BOOLEAN
<1>1. pc' \in {"idle", "read", "mutate"} BY DEF HandleEvent, EndTask, Return
<1>2. tracker' \in SUBSET Heights BY DEF HandleEvent, Pruned, TypeOK
<1>3. timer' \in BOOLEAN BY DEF HandleEvent, TypeOK
<1>4. strm' = NoStream \/ strm' = next BY DEF HandleEvent, EndTask
<1>5. \/ work' = NoWork
      \/ work' = [NoWork EXCEPT !.ev = h, !.copy = applied]
  BY DEF HandleEvent, EndTask, Return
<1>6. applied \in SUBSET Heights BY DEF TypeOK
<1>7. work' \in WorkType BY <1>5, <1>6, ConstantTypes, UpdateTypes
<1>8. strm' \in StreamType BY <1>4, ConstantTypes
<1>9. QED BY <1>1, <1>2, <1>3, <1>7, <1>8

LEMMA NextType == TypeOK /\ [Next]_vars => TypeOK'
<1> SUFFICES ASSUME TypeOK, [Next]_vars PROVE TypeOK'
  OBVIOUS
<1> USE TaskTypes, QueueType, WireType, ConstantTypes
<1>1. CASE ServerAppend
  <2>1. srvHeight + 1 \in Heights BY <1>1 DEF ServerAppend, Heights, TypeOK
  <2>2. wire' = wire \/ wire' = Append(wire, Entry(srvHeight + 1))
    BY <1>1 DEF ServerAppend
  <2>3. Entry(srvHeight + 1) \in Messages BY <2>1
  <2>4. wire' \in Seq(Messages) BY <2>2, <2>3 DEF TypeOK
  <2>5. QED
    BY <1>1, <2>1, <2>4 DEF ServerAppend, TypeOK, taskVars, stateVars, memVars
<1>2. CASE ServerAckSub
  <2>1. wire' \in Seq(Messages) BY <1>2 DEF ServerAckSub
  <2>2. QED BY <1>2, <2>1 DEF ServerAckSub, TypeOK, taskVars, stateVars, memVars
<1>3. CASE UnsubAcked
  BY <1>3 DEF UnsubAcked, TypeOK, taskVars, stateVars, memVars
<1>4. CASE Disconnect
  <2>1. wire' \in Seq(Messages) BY <1>4 DEF Disconnect
  <2>2. chan' \in {"off", "requested", "on", "leaving"} BY <1>4 DEF Disconnect, TypeOK
  <2>3. QED
    BY <1>4, <2>1, <2>2 DEF Disconnect, Disturb, TypeOK, taskVars, stateVars, memVars
<1>5. CASE PubsubUpdate
  BY <1>5 DEF PubsubUpdate, Disturb, Reconcile, TypeOK, taskVars, stateVars, memVars
<1>6. ASSUME NEW h \in Heights, IngestEvent(h) PROVE TypeOK'
  <2>1. queue' \in Seq(Tasks) BY <1>6 DEF IngestEvent
  <2>2. QED
    BY <1>6, <2>1 DEF IngestEvent, Disturb, TypeOK, netVars, taskVars, stateVars,
                      memVars
<1>7. ASSUME NEW r \in BOOLEAN, AppSync(r) PROVE TypeOK'
  <2>1. queue' \in Seq(Tasks) BY <1>7 DEF AppSync
  <2>2. QED
    BY <1>7, <2>1 DEF AppSync, Disturb, TypeOK, netVars, taskVars, stateVars, memVars
<1>8. CASE KeyArrives
  <2>1. queue' \in Seq(Tasks) BY <1>8 DEF KeyArrives, StoreKey, TypeOK
  <2>2. dirty' \in BOOLEAN BY <1>8 DEF KeyArrives, StoreKey, MustResync, TypeOK
  <2>3. budget' \in 0 .. DisturbBound BY <1>8 DEF KeyArrives, Disturb, TypeOK
  <2>4. QED
    BY <1>8, <2>1, <2>2, <2>3 DEF KeyArrives, StoreKey, TypeOK, netVars, taskVars,
                                  memVars
<1>9. CASE Restart
  <2>1. queue' \in Seq(Tasks) BY <1>9, Singleton DEF Restart
  <2>2. wire' \in Seq(Messages) BY <1>9 DEF Restart
  <2>3. budget' \in 0 .. DisturbBound BY <1>9 DEF Restart, Disturb, TypeOK
  <2>4. QED BY <1>9, <2>1, <2>2, <2>3 DEF Restart, TypeOK, stateVars
<1>10. CASE ReceiveEntry
  <2>1. Head(wire).h \in Heights BY <1>10 DEF ReceiveEntry
  <2>2. wire' \in Seq(Messages) /\ queue' \in Seq(Tasks)
    BY <1>10, <2>1 DEF ReceiveEntry
  <2>3. QED BY <1>10, <2>2 DEF ReceiveEntry, TypeOK, taskVars, stateVars, memVars
<1>11. CASE ReceiveSubOk
  <2>1. wire' \in Seq(Messages) BY <1>11 DEF ReceiveSubOk
  <2>2. queue' \in Seq(Tasks) BY <1>11 DEF ReceiveSubOk, TypeOK
  <2>3. QED
    BY <1>11, <2>1, <2>2 DEF ReceiveSubOk, TypeOK, taskVars, stateVars, memVars
<1>12. CASE DebounceFires
  <2>1. queue' \in Seq(Tasks) BY <1>12 DEF DebounceFires
  <2>2. QED BY <1>12, <2>1 DEF DebounceFires, TypeOK, netVars, taskVars, stateVars
<1>13. CASE StartSync
  <2>1. queue' \in Seq(Tasks) BY <1>13 DEF StartSync
  <2>2. strm' \in StreamType BY <1>13 DEF StartSync, NoStream, StreamType, Heights
  <2>3. row' \in RowType BY <1>13 DEF StartSync, TypeOK
  <2>4. chan' \in {"off", "requested", "on", "leaving"}
    BY <1>13 DEF StartSync, Reconcile, TypeOK
  <2>5. QED BY <1>13, <2>1, <2>2, <2>3, <2>4 DEF StartSync, TypeOK
<1>14. CASE FetchHead
  <2>1. row.height + 1 \in 0 .. MaxHeight + 1 BY DEF TypeOK, RowType, Heights, None
  <2>2. strm' = NoStream
        \/ strm' = [strm EXCEPT !.next = row.height + 1, !.last = srvHeight]
    BY <1>14 DEF FetchHead, EndTask
  <2>3. strm' \in StreamType BY <2>1, <2>2 DEF TypeOK, StreamType
  <2>4. chan' \in {"off", "requested", "on", "leaving"}
    BY <1>14 DEF FetchHead, Reconcile, TypeOK
  <2>5. QED BY <1>14, <2>3, <2>4 DEF FetchHead, EndTask, TypeOK
<1>15. CASE ReadNext
  <2> DEFINE next == [strm EXCEPT !.next = @ + 1]
  <2>1. strm.next \in Heights
    BY <1>15 DEF ReadNext, TypeOK, StreamType, Heights
  <2>2. next \in StreamType BY <2>1, UpdateTypes DEF TypeOK
  <2>3. HandleEvent(strm.next, next) BY <1>15 DEF ReadNext
  <2> HIDE DEF next
  <2>4. QED
    BY <1>15, <2>1, <2>2, <2>3, HandleEventType DEF ReadNext, TypeOK, netVars
<1>16. CASE ReadEnds
  BY <1>16 DEF ReadEnds, EndTask, TypeOK, netVars, memVars
<1>17. CASE StartEvent
  <2>1. Head(queue).h \in Heights /\ queue' \in Seq(Tasks) BY <1>17 DEF StartEvent
  <2>2. HandleEvent(Head(queue).h, strm) BY <1>17 DEF StartEvent
  <2>3. strm \in StreamType BY DEF TypeOK
  <2>4. QED
    BY <1>17, <2>1, <2>2, <2>3, HandleEventType DEF StartEvent, TypeOK, netVars
<1>18. CASE Mutate
  <2>1. \/ work' = NoWork
        \/ work' = [work EXCEPT !.errored = TRUE, !.undec = work.ev \notin Invalid]
        \/ work' = [work EXCEPT !.copy = @ \union {work.ev}]
    BY <1>18 DEF Mutate, EndTask
  <2>2. (work.ev \notin Invalid) \in BOOLEAN OBVIOUS
  <2>3. work' \in WorkType BY <2>1, <2>2, UpdateTypes DEF TypeOK
  <2>4. QED BY <1>18, <2>3 DEF Mutate, EndTask, TypeOK, netVars, memVars
<1>19. CASE Effects
  <2>1. queue' \in Seq(Tasks) BY <1>19 DEF Effects, StoreKey, TypeOK
  <2>2. dirty' \in BOOLEAN /\ haveKey' \in BOOLEAN
    BY <1>19 DEF Effects, StoreKey, MustResync, TypeOK
  <2>3. QED BY <1>19, <2>1, <2>2 DEF Effects, TypeOK, netVars, memVars
<1>20. CASE Apply
  <2>1. row' \in RowType BY <1>20 DEF Apply, Processed, TypeOK, RowType, WorkType
  <2>2. applied' \in SUBSET Heights BY <1>20 DEF Apply, TypeOK, WorkType
  <2>3. chan' \in {"off", "requested", "on", "leaving"}
    BY <1>20 DEF Apply, Reconcile, TypeOK
  <2>4. QED BY <1>20, <2>1, <2>2, <2>3 DEF Apply, Return, TypeOK
<1>21. CASE FetchFails
  BY <1>21 DEF FetchFails, Disturb, EndTask, TypeOK, netVars, memVars
<1>22. CASE ApplyFails
  BY <1>22 DEF ApplyFails, Disturb, Return, TypeOK, netVars, stateVars, memVars
<1>23. CASE UNCHANGED vars
  BY <1>23 DEF vars, TypeOK, netVars, taskVars, stateVars, memVars
<1>24. QED
  BY <1>1, <1>2, <1>3, <1>4, <1>5, <1>6, <1>7, <1>8, <1>9, <1>10, <1>11, <1>12,
     <1>13, <1>14, <1>15, <1>16, <1>17, <1>18, <1>19, <1>20, <1>21, <1>22, <1>23
  DEF Next, Environment, Arrive, Task, Fault

\* Every variable of the client and its environment always holds a value of its
\* kind: heights stay in the log's range, the reader at most one past its end.
THEOREM TypeCorrect == Spec => []TypeOK
BY InitType, NextType, PTL DEF Spec

(***************************************************************************)
(* The inductive invariant.  StateFaithful and NextOnly say what holds of  *)
(* the state and the event at work.  They are kept by the steps only       *)
(* together with what the copy holds between two awaits, and with the fact *)
(* that nothing on its way to the queue is ahead of the server's log.      *)
(***************************************************************************)
QueueInLog(q, n) == \A i \in 1 .. Len(q) : q[i].op = "event" => q[i].h <= n
WireInLog(w, n) == \A i \in 1 .. Len(w) : w[i].kind = "entry" => w[i].h <= n

InLog ==
  /\ row.height <= srvHeight
  /\ MidEvent => work.ev <= srvHeight
  /\ QueueInLog(queue, srvHeight)
  /\ WireInLog(wire, srvHeight)

CopyFaithful ==
  /\ pc = "mutate" => work.copy = applied /\ ~work.errored
  /\ pc = "effects" => /\ work.copy = applied \union {work.ev}
                       /\ work.ev \notin Invalid /\ ~work.errored
  /\ pc = "apply" =>
       IF work.errored
       THEN work.ev \in Invalid \/ (work.ev \in Encrypted /\ work.undec)
       ELSE work.copy = applied \union {work.ev} /\ work.ev \notin Invalid

SyncInv == StateFaithful /\ NextOnly /\ InLog /\ CopyFaithful

LEMMA QueueInLogLemma ==
  ASSUME TypeOK, QueueInLog(queue, srvHeight)
  PROVE  /\ \A t \in Tasks : (t.op = "event" => t.h <= srvHeight) =>
                             QueueInLog(Append(queue, t), srvHeight)
         /\ queue # <<>> => /\ QueueInLog(Tail(queue), srvHeight)
                            /\ Head(queue).op = "event" =>
                                 Head(queue).h <= srvHeight
         /\ QueueInLog(queue, srvHeight + 1)
<1>1. queue \in Seq(Tasks) BY DEF TypeOK
<1>2. ASSUME NEW t \in Tasks, t.op = "event" => t.h <= srvHeight
      PROVE  QueueInLog(Append(queue, t), srvHeight)
  <2>1. Len(Append(queue, t)) = Len(queue) + 1 BY <1>1
  <2>2. \A i \in 1 .. Len(queue) + 1 :
          Append(queue, t)[i] = IF i <= Len(queue) THEN queue[i] ELSE t
    BY <1>1
  <2>3. \A i \in 1 .. Len(queue) + 1 : i <= Len(queue) => i \in 1 .. Len(queue)
    BY <1>1
  <2>4. QED BY <1>2, <2>1, <2>2, <2>3 DEF QueueInLog
<1>3. ASSUME queue # <<>>
      PROVE  /\ QueueInLog(Tail(queue), srvHeight)
             /\ Head(queue).op = "event" => Head(queue).h <= srvHeight
  <2>1. \A i \in 1 .. Len(Tail(queue)) :
          Tail(queue)[i] = queue[i + 1] /\ i + 1 \in 1 .. Len(queue)
    BY <1>1, <1>3
  <2>2. Head(queue) = queue[1] /\ 1 \in 1 .. Len(queue) BY <1>1, <1>3
  <2>3. QED BY <2>1, <2>2 DEF QueueInLog
<1>4. QueueInLog(queue, srvHeight + 1)
  <2>0. \A i \in 1 .. Len(queue) : queue[i] \in Tasks BY <1>1
  <2>1. \A i \in 1 .. Len(queue) : queue[i].h \in Heights BY <2>0 DEF Tasks
  <2>2. srvHeight \in Heights BY DEF TypeOK
  <2>3. srvHeight \in Int /\ \A h \in Heights : h \in Int BY <2>2 DEF Heights
  <2>4. QED BY <2>1, <2>3 DEF QueueInLog
<1>5. QED BY <1>2, <1>3, <1>4

LEMMA WireInLogLemma ==
  ASSUME TypeOK, WireInLog(wire, srvHeight)
  PROVE  /\ \A m \in Messages, n \in Int :
              n >= srvHeight /\ m.h <= n => WireInLog(Append(wire, m), n)
         /\ wire # <<>> => /\ WireInLog(Tail(wire), srvHeight)
                           /\ Head(wire).kind = "entry" =>
                                Head(wire).h <= srvHeight
         /\ WireInLog(wire, srvHeight + 1)
<1>1. wire \in Seq(Messages) /\ srvHeight \in Int
  <2>1. srvHeight \in Heights /\ wire \in Seq(Messages) BY DEF TypeOK
  <2>2. QED BY <2>1 DEF Heights
<1>0. \A i \in 1 .. Len(wire) : wire[i].h \in Int
  <2>1. \A i \in 1 .. Len(wire) : wire[i] \in Messages BY <1>1
  <2>2. QED BY <2>1 DEF Messages, Heights
<1>2. ASSUME NEW m \in Messages, NEW n \in Int, n >= srvHeight, m.h <= n
      PROVE  WireInLog(Append(wire, m), n)
  <2>1. Len(Append(wire, m)) = Len(wire) + 1 BY <1>1
  <2>2. \A i \in 1 .. Len(wire) + 1 :
          Append(wire, m)[i] = IF i <= Len(wire) THEN wire[i] ELSE m
    BY <1>1
  <2>3. \A i \in 1 .. Len(wire) + 1 : i <= Len(wire) => i \in 1 .. Len(wire)
    BY <1>1
  <2>4. \A i \in 1 .. Len(wire) : wire[i].kind = "entry" => wire[i].h <= n
    BY <1>0, <1>1, <1>2 DEF WireInLog
  <2>5. QED BY <1>2, <2>1, <2>2, <2>3, <2>4 DEF WireInLog
<1>3. ASSUME wire # <<>>
      PROVE  /\ WireInLog(Tail(wire), srvHeight)
             /\ Head(wire).kind = "entry" => Head(wire).h <= srvHeight
  <2>1. \A i \in 1 .. Len(Tail(wire)) :
          Tail(wire)[i] = wire[i + 1] /\ i + 1 \in 1 .. Len(wire)
    BY <1>1, <1>3
  <2>2. Head(wire) = wire[1] /\ 1 \in 1 .. Len(wire) BY <1>1, <1>3
  <2>3. QED BY <2>1, <2>2 DEF WireInLog
<1>4. WireInLog(wire, srvHeight + 1) BY <1>0, <1>1 DEF WireInLog
<1>5. QED BY <1>2, <1>3, <1>4

LEMMA SyncInit == Init => SyncInv
<1> SUFFICES ASSUME Init PROVE SyncInv OBVIOUS
<1>1. queue = <<SyncTask(FALSE)>> /\ wire = <<>> BY DEF Init
<1>2. QueueInLog(queue, srvHeight) BY <1>1 DEF QueueInLog, SyncTask
<1>3. WireInLog(wire, srvHeight) BY <1>1 DEF WireInLog
<1>4. row.height = -1 /\ applied = {} /\ pc = "idle" /\ srvHeight = 0
  BY DEF Init, NoRow, None
<1>5. StateFaithful BY <1>4 DEF StateFaithful
<1>6. NextOnly /\ CopyFaithful BY <1>4 DEF NextOnly, CopyFaithful, MidEvent
<1>7. InLog BY <1>2, <1>3, <1>4 DEF InLog, MidEvent
<1>8. QED BY <1>5, <1>6, <1>7 DEF SyncInv

\* A step that leaves the contract's row, state and the event at work alone keeps
\* the invariant as long as what it puts on the queue or the wire is in the log.
LEMMA SyncFrame ==
  ASSUME TypeOK, TypeOK', SyncInv, UNCHANGED <<row, applied, pc, work>>,
         srvHeight <= srvHeight',
         QueueInLog(queue', srvHeight'), WireInLog(wire', srvHeight')
  PROVE  SyncInv'
<1>1. StateFaithful' BY DEF SyncInv, StateFaithful
<1>2. NextOnly' BY DEF SyncInv, NextOnly, MidEvent
<1>3. CopyFaithful' BY DEF SyncInv, CopyFaithful
<1>4. /\ srvHeight \in Int /\ srvHeight' \in Int
      /\ row.height \in Int /\ work.ev \in Int
  BY DEF TypeOK, Heights, RowType, WorkType, None
<1>5. row'.height <= srvHeight' /\ (MidEvent' => work'.ev <= srvHeight')
  BY <1>4 DEF SyncInv, InLog, MidEvent
<1>6. InLog' BY <1>5 DEF InLog
<1>7. QED BY <1>1, <1>2, <1>3, <1>6 DEF SyncInv

\* Ending a task, or leaving an event for the next, keeps the invariant too.
LEMMA SyncIdle ==
  ASSUME TypeOK, SyncInv, UNCHANGED <<row, applied, srvHeight>>,
         pc' \in {"idle", "head", "read"},
         QueueInLog(queue', srvHeight'), WireInLog(wire', srvHeight')
  PROVE  SyncInv'
BY DEF SyncInv, StateFaithful, NextOnly, CopyFaithful, InLog, MidEvent

\* handleEvent, given an event of the log, keeps the invariant: it goes on only
\* with the event that follows the last one processed.
LEMMA SyncHandle ==
  ASSUME TypeOK, SyncInv, NEW h \in Heights, h <= srvHeight, NEW next,
         HandleEvent(h, next), UNCHANGED <<row, applied, srvHeight, wire>>,
         QueueInLog(queue', srvHeight)
  PROVE  SyncInv'
<1>1. WireInLog(wire', srvHeight') BY DEF SyncInv, InLog
<1>2. CASE pc' \in {"idle", "head", "read"}
  BY <1>1, <1>2, SyncIdle
<1>3. CASE pc' \notin {"idle", "head", "read"}
  <2>1. /\ ~Throws(h) /\ ~Ignored(h) /\ ~Future(h)
        /\ pc' = "mutate" /\ work' = [NoWork EXCEPT !.ev = h, !.copy = applied]
    BY <1>3 DEF HandleEvent, EndTask, Return
  <2>2. ~Past(h) /\ ~Future(h) BY <2>1 DEF Ignored
  <2>3. row.height \in Int /\ row.height >= -1 /\ h \in Int /\ h >= 0
    BY DEF TypeOK, RowType, Heights, None
  <2>4. h = row.height + 1 BY <2>2, <2>3 DEF Past, Future, None
  <2>5. work'.ev = h /\ work'.copy = applied /\ ~work'.errored BY <2>1 DEF NoWork
  <2>6. StateFaithful' BY DEF SyncInv, StateFaithful
  <2>7. NextOnly' BY <2>4, <2>5 DEF NextOnly
  <2>8. CopyFaithful' BY <2>1, <2>5 DEF CopyFaithful
  <2>9. InLog' BY <1>1, <2>5 DEF SyncInv, InLog
  <2>10. QED BY <2>6, <2>7, <2>8, <2>9 DEF SyncInv
<1>4. QED BY <1>2, <1>3

LEMMA SyncApply == TypeOK /\ SyncInv /\ Apply => SyncInv'
<1> SUFFICES ASSUME TypeOK, SyncInv, Apply PROVE SyncInv'
  OBVIOUS
<1>1. /\ pc = "apply" /\ row' = Processed /\ pc' \in {"idle", "read"}
      /\ work' = NoWork /\ UNCHANGED <<srvHeight, wire, queue>>
      /\ applied' = IF work.errored THEN applied ELSE work.copy
  BY DEF Apply, Return
<1>2. row'.height = work.ev /\ row'.missing = (row.missing \/ work.undec)
  BY <1>1 DEF Processed
<1>3. /\ row.height \in Int /\ row.height >= -1 /\ work.ev \in Int
      /\ work.ev = row.height + 1 /\ work.ev <= srvHeight
  BY <1>1 DEF TypeOK, RowType, WorkType, Heights, None, SyncInv, NextOnly, InLog, MidEvent
<1>4. 0 .. work.ev = (0 .. row.height) \union {work.ev} BY <1>3
<1>5. IF work.errored
      THEN work.ev \in Invalid \/ (work.ev \in Encrypted /\ work.undec)
      ELSE work.copy = applied \union {work.ev} /\ work.ev \notin Invalid
  BY <1>1 DEF SyncInv, CopyFaithful
<1>6. StateFaithful BY DEF SyncInv
<1>7. StateFaithful'
  <2>1. applied' \subseteq 0 .. work.ev
    BY <1>1, <1>4, <1>5, <1>6 DEF StateFaithful
  <2>2. applied' \intersect Invalid = {}
    BY <1>1, <1>5, <1>6 DEF StateFaithful
  <2>3. ASSUME NEW h \in 0 .. work.ev
        PROVE  h \in applied' \/ h \in Invalid \/ (h \in Encrypted /\ row'.missing)
    <3>1. CASE h = work.ev BY <1>1, <1>2, <1>5, <3>1
    <3>2. CASE h \in 0 .. row.height
      BY <1>1, <1>2, <1>5, <1>6, <3>2 DEF StateFaithful
    <3>3. QED BY <1>4, <3>1, <3>2
  <2>4. QED BY <1>2, <2>1, <2>2, <2>3 DEF StateFaithful
<1>8. NextOnly' /\ CopyFaithful' BY <1>1 DEF NextOnly, CopyFaithful, MidEvent
<1>9. InLog' BY <1>1, <1>2, <1>3 DEF SyncInv, InLog, MidEvent
<1>10. QED BY <1>7, <1>8, <1>9 DEF SyncInv

\* The steps of the environment and what they bring to the queue.
LEMMA SyncOutside ==
  TypeOK /\ TypeOK' /\ SyncInv /\ (Environment \/ Arrive) => SyncInv'
<1> SUFFICES ASSUME TypeOK, TypeOK', SyncInv, Environment \/ Arrive PROVE SyncInv'
  OBVIOUS
<1> USE TaskTypes
<1>1. /\ QueueInLog(queue, srvHeight) /\ WireInLog(wire, srvHeight)
      /\ QueueInLog(queue, srvHeight + 1) /\ WireInLog(wire, srvHeight + 1)
  BY QueueInLogLemma, WireInLogLemma DEF SyncInv, InLog
<1>2. srvHeight \in Int /\ srvHeight <= srvHeight + 1 /\ srvHeight <= srvHeight
  BY DEF TypeOK, Heights
<1>3. \A r \in BOOLEAN : QueueInLog(Append(queue, SyncTask(r)), srvHeight)
  <2>1. \A r \in BOOLEAN : SyncTask(r).op # "event" BY DEF SyncTask
  <2>2. QED BY <1>1, <2>1, QueueInLogLemma
<1>4. \A h \in Heights :
        h <= srvHeight => QueueInLog(Append(queue, EventTask(h)), srvHeight)
  <2>1. \A h \in Heights : EventTask(h).h = h BY DEF EventTask
  <2>2. QED BY <1>1, <2>1, QueueInLogLemma
<1>5. WireInLog(<<>>, srvHeight) BY DEF WireInLog
<1> HIDE DEF SyncInv
<1>6. CASE ServerAppend
  <2>1. srvHeight' = srvHeight + 1 /\ UNCHANGED <<row, applied, pc, work, queue>>
    BY <1>6 DEF ServerAppend, taskVars, stateVars
  <2>2. Entry(srvHeight + 1) \in Messages /\ Entry(srvHeight + 1).h = srvHeight + 1
    BY <1>6, <1>2 DEF ServerAppend, Heights, TypeOK, Entry, Messages
  <2>3. wire' = wire \/ wire' = Append(wire, Entry(srvHeight + 1))
    BY <1>6 DEF ServerAppend
  <2>4. WireInLog(Append(wire, Entry(srvHeight + 1)), srvHeight + 1)
    <3>1. srvHeight + 1 \in Int /\ srvHeight + 1 >= srvHeight
          /\ srvHeight + 1 <= srvHeight + 1
      BY <1>2
    <3>2. QED BY <1>1, <2>2, <3>1, WireInLogLemma
  <2>5. WireInLog(wire', srvHeight') BY <1>1, <2>1, <2>3, <2>4
  <2>6. QED BY <1>1, <1>2, <2>1, <2>5, SyncFrame
<1>7. CASE ServerAckSub
  <2>1. UNCHANGED <<srvHeight, row, applied, pc, work, queue>>
    BY <1>7 DEF ServerAckSub, taskVars, stateVars
  <2>2. SubOk.h <= srvHeight BY DEF SubOk, TypeOK, Heights
  <2>3. WireInLog(wire', srvHeight')
    BY <1>1, <1>2, <1>7, <2>1, <2>2, WireInLogLemma DEF ServerAckSub
  <2>4. QED BY <1>1, <1>2, <2>1, <2>3, SyncFrame
<1>8. CASE UnsubAcked \/ PubsubUpdate
  <2>1. UNCHANGED <<srvHeight, row, applied, pc, work, queue, wire>>
    BY <1>8 DEF UnsubAcked, PubsubUpdate, taskVars, stateVars
  <2>2. QED BY <1>1, <1>2, <2>1, SyncFrame
<1>9. CASE Disconnect
  <2>1. UNCHANGED <<srvHeight, row, applied, pc, work, queue>> /\ wire' = <<>>
    BY <1>9 DEF Disconnect, taskVars, stateVars
  <2>2. QED BY <1>1, <1>2, <1>5, <2>1, SyncFrame
<1>10. ASSUME NEW h \in Heights, IngestEvent(h) PROVE SyncInv'
  <2>1. /\ UNCHANGED <<srvHeight, row, applied, pc, work, wire>>
        /\ queue' = Append(queue, EventTask(h)) /\ h <= srvHeight
    BY <1>10 DEF IngestEvent, netVars, taskVars, stateVars
  <2>2. QED BY <1>1, <1>2, <1>4, <2>1, SyncFrame
<1>11. ASSUME NEW r \in BOOLEAN, AppSync(r) PROVE SyncInv'
  <2>1. /\ UNCHANGED <<srvHeight, row, applied, pc, work, wire>>
        /\ queue' = Append(queue, SyncTask(r))
    BY <1>11 DEF AppSync, netVars, taskVars, stateVars
  <2>2. QED BY <1>1, <1>2, <1>3, <2>1, SyncFrame
<1>12. CASE KeyArrives
  <2>1. /\ UNCHANGED <<srvHeight, row, applied, pc, work, wire>>
        /\ queue' = queue \/ queue' = Append(queue, SyncTask(FALSE))
    BY <1>12 DEF KeyArrives, StoreKey, netVars, taskVars
  <2>2. QED BY <1>1, <1>2, <1>3, <2>1, SyncFrame
<1>13. CASE Restart
  <2>1. /\ UNCHANGED <<srvHeight, row, applied>> /\ wire' = <<>> /\ pc' = "idle"
        /\ queue' = <<SyncTask(FALSE)>>
    BY <1>13 DEF Restart, stateVars
  <2>2. QueueInLog(queue', srvHeight') BY <2>1 DEF QueueInLog, SyncTask
  <2>3. QED BY <1>5, <2>1, <2>2, SyncIdle
<1>14. CASE ReceiveEntry
  <2>1. /\ UNCHANGED <<srvHeight, row, applied, pc, work>> /\ wire' = Tail(wire)
        /\ queue' = Append(queue, EventTask(Head(wire).h))
        /\ wire # <<>> /\ Head(wire).kind = "entry"
    BY <1>14 DEF ReceiveEntry, taskVars, stateVars
  <2>2. Head(wire).h \in Heights /\ Head(wire).h <= srvHeight
    BY <1>1, <2>1, WireType, WireInLogLemma
  <2>3. QED BY <1>1, <1>2, <1>4, <2>1, <2>2, WireInLogLemma, SyncFrame
<1>15. CASE ReceiveSubOk
  <2>1. /\ UNCHANGED <<srvHeight, row, applied, pc, work>> /\ wire' = Tail(wire)
        /\ queue' = queue \/ queue' = Append(queue, SyncTask(FALSE))
        /\ wire # <<>>
    BY <1>15 DEF ReceiveSubOk, taskVars, stateVars
  <2>2. QED BY <1>1, <1>2, <1>3, <2>1, WireInLogLemma, SyncFrame
<1>16. CASE DebounceFires
  <2>1. /\ UNCHANGED <<srvHeight, row, applied, pc, work, wire>>
        /\ queue' = Append(queue, SyncTask(FALSE))
    BY <1>16 DEF DebounceFires, netVars, taskVars, stateVars
  <2>2. QED BY <1>1, <1>2, <1>3, <2>1, SyncFrame
<1>17. QED
  BY <1>6, <1>7, <1>8, <1>9, <1>10, <1>11, <1>12, <1>13, <1>14, <1>15, <1>16
  DEF Environment, Arrive

\* The steps of the task at work.
LEMMA SyncTaskSteps ==
  TypeOK /\ TypeOK' /\ SyncInv /\ (Task \/ Fault) => SyncInv'
<1> SUFFICES ASSUME TypeOK, TypeOK', SyncInv, Task \/ Fault PROVE SyncInv'
  OBVIOUS
<1>1. QueueInLog(queue, srvHeight) /\ WireInLog(wire, srvHeight)
  BY DEF SyncInv, InLog
<1>2. srvHeight \in Int BY DEF TypeOK, Heights
<1>3. QueueInLog(Append(queue, SyncTask(FALSE)), srvHeight)
  BY <1>1, TaskTypes, QueueInLogLemma DEF SyncTask
<1>4. CASE StartSync
  <2>1. /\ UNCHANGED <<srvHeight, wire>> /\ queue # <<>> /\ queue' = Tail(queue)
        /\ pc' = "head"
        /\ \/ row' = NoRow /\ applied' = {}
           \/ UNCHANGED <<row, applied>>
    BY <1>4 DEF StartSync
  <2>2. QueueInLog(queue', srvHeight') BY <1>1, <2>1, QueueInLogLemma
  <2>3. CASE UNCHANGED <<row, applied>> BY <1>1, <2>1, <2>2, <2>3, SyncIdle
  <2>4. CASE row' = NoRow /\ applied' = {}
    <3>1. row'.height = -1 BY <2>4 DEF NoRow, None
    <3>2. StateFaithful' BY <2>4, <3>1 DEF StateFaithful
    <3>3. NextOnly' /\ CopyFaithful' BY <2>1 DEF NextOnly, CopyFaithful, MidEvent
    <3>4. srvHeight >= 0 BY DEF TypeOK, Heights
    <3>5. InLog' BY <1>1, <1>2, <2>1, <2>2, <3>1, <3>4 DEF InLog, MidEvent
    <3>6. QED BY <3>2, <3>3, <3>5 DEF SyncInv
  <2>5. QED BY <2>1, <2>3, <2>4
<1>5. CASE FetchHead
  <2>1. /\ UNCHANGED <<srvHeight, wire, queue, row, applied>>
        /\ pc' \in {"idle", "head", "read"}
    BY <1>5 DEF FetchHead, EndTask
  <2>2. QED BY <1>1, <2>1, SyncIdle
<1>6. CASE ReadEnds \/ FetchFails
  <2>1. /\ UNCHANGED <<srvHeight, wire, queue, row, applied>>
        /\ pc' \in {"idle", "head", "read"}
    BY <1>6 DEF ReadEnds, FetchFails, EndTask, netVars
  <2>2. QED BY <1>1, <2>1, SyncIdle
<1>7. CASE ReadNext
  <2> DEFINE next == [strm EXCEPT !.next = @ + 1]
  <2>1. strm.next \in Heights /\ strm.next <= srvHeight
    BY <1>7 DEF ReadNext, TypeOK, StreamType, Heights
  <2>2. HandleEvent(strm.next, next) /\ UNCHANGED <<row, applied, srvHeight, wire>>
    BY <1>7 DEF ReadNext, netVars
  <2>3. QueueInLog(queue', srvHeight) BY <1>1, <1>7 DEF ReadNext
  <2> HIDE DEF next
  <2>4. QED BY <2>1, <2>2, <2>3, SyncHandle
<1>8. CASE StartEvent
  <2>1. /\ HandleEvent(Head(queue).h, strm)
        /\ UNCHANGED <<row, applied, srvHeight, wire>>
        /\ queue # <<>> /\ queue' = Tail(queue) /\ Head(queue).op = "event"
    BY <1>8 DEF StartEvent, netVars
  <2>2. Head(queue).h \in Heights /\ Head(queue).h <= srvHeight
    BY <1>1, <2>1, QueueType, QueueInLogLemma
  <2>3. QueueInLog(queue', srvHeight) BY <1>1, <2>1, QueueInLogLemma
  <2>4. QED BY <2>1, <2>2, <2>3, SyncHandle
<1>9. CASE Mutate
  <2>1. UNCHANGED <<srvHeight, wire, queue, row, applied>> /\ pc = "mutate"
    BY <1>9 DEF Mutate, netVars
  <2>2. CASE pc' = "idle" BY <1>1, <2>1, <2>2, SyncIdle
  <2>3. CASE pc' # "idle"
    <3>1. work.copy = applied BY <2>1 DEF SyncInv, CopyFaithful
    <3>2. \/ /\ pc' = "apply"
             /\ work.ev \in Invalid \/ Undecryptable(work.ev)
             /\ work' = [work EXCEPT !.errored = TRUE,
                                     !.undec = work.ev \notin Invalid]
          \/ /\ pc' = "effects"
             /\ work.ev \notin Invalid
             /\ work' = [work EXCEPT !.copy = @ \union {work.ev}]
      BY <1>9, <2>3 DEF Mutate, EndTask
    <3>3. work \in WorkType BY DEF TypeOK
    <3>4. work'.ev = work.ev BY <3>2, <3>3 DEF WorkType
    <3>5. StateFaithful' BY <2>1 DEF SyncInv, StateFaithful
    <3>6. NextOnly' BY <2>1, <3>4 DEF SyncInv, NextOnly, MidEvent
    <3>7. InLog' BY <2>1, <3>4 DEF SyncInv, InLog, MidEvent
    <3>8. CASE pc' = "apply"
      <4>1. work'.errored /\ work'.undec = (work.ev \notin Invalid)
        BY <3>2, <3>3, <3>8 DEF WorkType
      <4>2. work.ev \in Invalid \/ work.ev \in Encrypted
        BY <3>2, <3>8 DEF Undecryptable
      <4>3. CopyFaithful' BY <3>4, <3>8, <4>1, <4>2 DEF CopyFaithful
      <4>4. QED BY <3>5, <3>6, <3>7, <4>3 DEF SyncInv
    <3>9. CASE pc' = "effects"
      <4>1. work'.copy = applied \union {work.ev} /\ work'.errored = work.errored
        BY <3>1, <3>2, <3>3, <3>9 DEF WorkType
      <4>2. ~work.errored
        BY <2>1 DEF SyncInv, CopyFaithful
      <4>3. CopyFaithful' BY <2>1, <3>2, <3>4, <3>9, <4>1, <4>2 DEF CopyFaithful
      <4>4. QED BY <3>5, <3>6, <3>7, <4>3 DEF SyncInv
    <3>10. QED BY <3>2, <3>8, <3>9
  <2>4. QED BY <2>2, <2>3
<1>10. CASE Effects
  <2>1. /\ UNCHANGED <<srvHeight, wire, row, applied, work>>
        /\ pc = "effects" /\ pc' = "apply"
        /\ queue' = queue \/ queue' = Append(queue, SyncTask(FALSE))
    BY <1>10 DEF Effects, StoreKey, netVars
  <2>2. QueueInLog(queue', srvHeight') BY <1>1, <1>3, <2>1
  <2>3. StateFaithful' BY <2>1 DEF SyncInv, StateFaithful
  <2>4. NextOnly' BY <2>1 DEF SyncInv, NextOnly, MidEvent
  <2>5. CopyFaithful' BY <2>1 DEF SyncInv, CopyFaithful
  <2>6. InLog' BY <1>1, <2>1, <2>2 DEF SyncInv, InLog, MidEvent
  <2>7. QED BY <2>3, <2>4, <2>5, <2>6 DEF SyncInv
<1>11. CASE Apply BY <1>11, SyncApply
<1>12. CASE ApplyFails
  <2>1. /\ UNCHANGED <<srvHeight, wire, queue, row, applied>>
        /\ pc' \in {"idle", "head", "read"}
    BY <1>12 DEF ApplyFails, Return, netVars, stateVars
  <2>2. QED BY <1>1, <2>1, SyncIdle
<1>13. QED
  BY <1>4, <1>5, <1>6, <1>7, <1>8, <1>9, <1>10, <1>11, <1>12 DEF Task, Fault

LEMMA SyncNext == TypeOK /\ TypeOK' /\ SyncInv /\ [Next]_vars => SyncInv'
<1> SUFFICES ASSUME TypeOK, TypeOK', SyncInv, [Next]_vars PROVE SyncInv'
  OBVIOUS
<1>1. CASE UNCHANGED vars
  <2>1. UNCHANGED <<row, applied, pc, work, srvHeight, queue, wire>>
    BY <1>1 DEF vars, netVars, taskVars, stateVars
  <2>2. srvHeight <= srvHeight' BY <2>1 DEF TypeOK, Heights
  <2>3. QED BY <2>1, <2>2, SyncFrame DEF SyncInv, InLog
<1>2. QED BY <1>1, SyncOutside, SyncTaskSteps DEF Next

THEOREM SyncSafety == Spec => []SyncInv
<1>1. Spec => []TypeOK BY TypeCorrect
<1>2. QED BY <1>1, SyncInit, SyncNext, PTL DEF Spec

\* Whatever order, repetition, failure or restart brought the client there, its
\* state holds exactly the events up to its height, less those that could not be
\* taken, and an event left out for want of a key is remembered.
THEOREM StateFaithfulAlways == Spec => []StateFaithful
<1>1. SyncInv => StateFaithful BY DEF SyncInv
<1>2. QED BY <1>1, SyncSafety, PTL

\* No event is jumped over or processed twice in a row.
THEOREM NextOnlyAlways == Spec => []NextOnly
<1>1. SyncInv => NextOnly BY DEF SyncInv
<1>2. QED BY <1>1, SyncSafety, PTL

(***************************************************************************)
(* The client implements the replica of EventReplica.                      *)
(***************************************************************************)
LEMMA ReplicaApply ==
  TypeOK /\ SyncInv /\ Apply => Replica!ProcessNext
<1> SUFFICES ASSUME TypeOK, SyncInv, Apply PROVE Replica!ProcessNext
  OBVIOUS
<1>1. /\ pc = "apply" /\ row' = Processed /\ UNCHANGED srvHeight
      /\ applied' = IF work.errored THEN applied ELSE work.copy
  BY DEF Apply
<1>2. row'.height = work.ev BY <1>1 DEF Processed
<1>3. /\ row.height \in Int /\ srvHeight \in Int /\ work.ev \in Int
      /\ work.ev = row.height + 1 /\ work.ev <= srvHeight
  BY <1>1 DEF TypeOK, RowType, WorkType, Heights, None, SyncInv, NextOnly, InLog,
              MidEvent
<1>4. IF work.errored
      THEN work.ev \in Invalid \union Encrypted
      ELSE work.copy = applied \union {work.ev}
  BY <1>1 DEF SyncInv, CopyFaithful
<1>5. \/ applied' = applied \union {row'.height}
      \/ row'.height \in Invalid \union Encrypted /\ applied' = applied
  BY <1>1, <1>2, <1>4
<1>6. row.height < srvHeight /\ row'.height = row.height + 1 BY <1>2, <1>3
<1>7. QED BY <1>1, <1>5, <1>6 DEF Replica!ProcessNext

LEMMA ReplicaStep ==
  TypeOK /\ SyncInv /\ [Next]_vars => [Replica!RNext]_(Replica!rvars)
<1> SUFFICES ASSUME TypeOK, SyncInv, [Next]_vars
             PROVE  [Replica!RNext]_(Replica!rvars)
  OBVIOUS
<1>1. UNCHANGED <<srvHeight, row, applied>> => UNCHANGED Replica!rvars
  BY DEF Replica!rvars
<1>2. CASE ServerAppend
  <2>1. Replica!AppendEvent
    BY <1>2 DEF ServerAppend, stateVars, Replica!AppendEvent
  <2>2. QED BY <2>1 DEF Replica!RNext
<1>3. CASE StartSync
  <2>1. /\ UNCHANGED srvHeight
        /\ \/ row' = NoRow /\ applied' = {}
           \/ UNCHANGED <<row, applied>>
    BY <1>3 DEF StartSync
  <2>2. CASE row' = NoRow /\ applied' = {}
    <3>1. Replica!StartOver BY <2>1, <2>2 DEF Replica!StartOver, NoRow, None
    <3>2. QED BY <3>1 DEF Replica!RNext
  <2>3. QED BY <1>1, <2>1, <2>2
<1>4. CASE Apply BY <1>4, ReplicaApply DEF Replica!RNext
<1>5. CASE (Environment /\ ~ServerAppend) \/ Arrive
  <2>1. UNCHANGED <<srvHeight, row, applied>>
    BY <1>5 DEF Environment, Arrive, ServerAckSub, UnsubAcked, Disconnect,
                PubsubUpdate, IngestEvent, AppSync, KeyArrives, Restart,
                ReceiveEntry, ReceiveSubOk, DebounceFires, netVars, stateVars
  <2>2. QED BY <1>1, <2>1
<1>6. CASE FetchHead \/ ReadNext \/ ReadEnds \/ StartEvent \/ Mutate \/ Effects \/ Fault
  <2>1. UNCHANGED <<srvHeight, row, applied>>
    BY <1>6 DEF Fault, FetchHead, ReadNext, ReadEnds, StartEvent, Mutate, Effects,
                FetchFails, ApplyFails, netVars, stateVars
  <2>2. QED BY <1>1, <2>1
<1>7. CASE UNCHANGED vars BY <1>1, <1>7 DEF vars, netVars, stateVars
<1>8. QED
  BY <1>2, <1>3, <1>4, <1>5, <1>6, <1>7 DEF Next, Task

\* Every behaviour of the client, through duplicates, gaps, failures, resyncs and
\* restarts, is one of a replica that folds the log in order, one event a step.
THEOREM ReplicaRefinement == Spec => ImplementsReplica
<1>1. Init => Replica!RInit BY DEF Init, Replica!RInit, NoRow, None
<1>2. QED
  BY <1>1, TypeCorrect, SyncSafety, ReplicaStep, PTL
  DEF Spec, ImplementsReplica, Replica!RSpec

(***************************************************************************)
(* The re-ingest tracker never holds an event already processed, and never *)
(* more than the cap.  Its inductive form says so of the event at work too:*)
(* the prune before the mutation already counts it as processed.           *)
(***************************************************************************)
TrackerInv ==
  /\ \A t \in tracker : t > row.height /\ (MidEvent => t > work.ev)
  /\ Cardinality(tracker) <= ReingestCap

LEMMA TrackerFinite ==
  ASSUME TypeOK
  PROVE  /\ IsFiniteSet(tracker)
         /\ Cardinality(tracker) \in Nat
         /\ \A h \in Heights : Cardinality(tracker \union {h})
                                 <= Cardinality(tracker) + 1
         /\ \A h \in Heights : Cardinality(Pruned(h)) <= Cardinality(tracker)
<1>1. IsFiniteSet(Heights) BY FS_Interval DEF Heights
<1>2. tracker \subseteq Heights BY DEF TypeOK
<1>3. IsFiniteSet(tracker) BY <1>1, <1>2, FS_Subset
<1>4. Cardinality(tracker) \in Nat BY <1>3, FS_CardinalityType
<1>5. ASSUME NEW h \in Heights
      PROVE  Cardinality(tracker \union {h}) <= Cardinality(tracker) + 1
  <2>1. Cardinality(tracker \cup {h})
          = IF h \in tracker THEN Cardinality(tracker) ELSE Cardinality(tracker) + 1
    BY <1>3, FS_AddElement
  <2>2. \A n \in Nat : n <= n + 1 /\ n + 1 <= n + 1 OBVIOUS
  <2>3. QED BY <1>4, <2>1, <2>2
<1>6. ASSUME NEW h \in Heights PROVE Cardinality(Pruned(h)) <= Cardinality(tracker)
  <2>1. Pruned(h) \subseteq tracker BY DEF Pruned
  <2>2. QED BY <1>3, <2>1, FS_Subset
<1>7. QED BY <1>3, <1>4, <1>5, <1>6

LEMMA TrackerHandle ==
  ASSUME TypeOK, TrackerInv, NEW h \in Heights, NEW next, HandleEvent(h, next),
         UNCHANGED row
  PROVE  TrackerInv'
<1>1. /\ row.height \in Int /\ h \in Int /\ Cardinality(tracker) \in Nat
      /\ \A t \in tracker : t \in Int
  BY TrackerFinite DEF TypeOK, RowType, Heights, None
<1>2. ReingestCap \in Nat BY CapAssumption
<1>3. CASE Throws(h) \/ Ignored(h)
  BY <1>3 DEF TrackerInv, HandleEvent, EndTask, Return, MidEvent
<1>4. CASE ~Throws(h) /\ ~Ignored(h) /\ Future(h)
  <2>1. /\ tracker' = tracker \union {h} /\ pc' \in {"read", "idle"}
        /\ ~OutOfReach(h)
    BY <1>4 DEF HandleEvent, Return, Throws, Ignored
  <2>2. Cardinality(tracker) < ReingestCap BY <1>1, <1>2, <2>1 DEF OutOfReach
  <2>3. Cardinality(tracker \union {h}) <= Cardinality(tracker) + 1
    BY TrackerFinite
  <2>4. Cardinality(tracker \union {h}) \in Nat
    BY TrackerFinite, FS_Union, FS_Singleton, FS_CardinalityType
  <2>5. Cardinality(tracker') <= ReingestCap BY <1>1, <1>2, <2>1, <2>2, <2>3, <2>4
  <2>6. h > row.height BY <1>1, <1>4 DEF Future
  <2>7. QED BY <2>1, <2>5, <2>6 DEF TrackerInv, MidEvent
<1>5. CASE ~Throws(h) /\ ~Ignored(h) /\ ~Future(h)
  <2>1. tracker' = Pruned(h) BY <1>5 DEF HandleEvent
  <2>2. \A t \in tracker' : t \in tracker /\ t > h BY <2>1 DEF Pruned
  <2>3. Cardinality(Pruned(h)) <= Cardinality(tracker) BY TrackerFinite
  <2>4. Cardinality(Pruned(h)) \in Nat
    BY TrackerFinite, FS_Subset, FS_CardinalityType DEF Pruned
  <2>5. Cardinality(tracker') <= ReingestCap
    BY <1>1, <1>2, <2>1, <2>3, <2>4 DEF TrackerInv
  <2>6. pc' = "mutate" => work'.ev = h
    BY <1>5 DEF HandleEvent, Return, NoWork
  <2>7. pc' \in {"read", "idle", "mutate"} BY <1>5 DEF HandleEvent, Return
  <2>8. QED BY <2>2, <2>5, <2>6, <2>7 DEF TrackerInv, MidEvent
<1>6. QED BY <1>3, <1>4, <1>5

LEMMA TrackerNext == TypeOK /\ TrackerInv /\ [Next]_vars => TrackerInv'
<1> SUFFICES ASSUME TypeOK, TrackerInv, [Next]_vars PROVE TrackerInv'
  OBVIOUS
<1>0. Cardinality({}) = 0 /\ ReingestCap \in Nat /\ 0 <= ReingestCap
  BY FS_EmptySet, CapAssumption
<1>1. CASE StartSync
  <2>1. /\ pc' = "head"
        /\ \/ tracker' = {}
           \/ UNCHANGED <<row, tracker>>
    BY <1>1 DEF StartSync
  <2>2. QED BY <1>0, <2>1 DEF TrackerInv, MidEvent
<1>2. CASE Restart
  <2>1. tracker' = {} BY <1>2 DEF Restart
  <2>2. QED BY <1>0, <2>1 DEF TrackerInv
<1>3. CASE ReadNext
  <2> DEFINE next == [strm EXCEPT !.next = @ + 1]
  <2>1. strm.next \in Heights BY <1>3 DEF ReadNext, TypeOK, StreamType, Heights
  <2>2. HandleEvent(strm.next, next) /\ UNCHANGED row BY <1>3 DEF ReadNext
  <2> HIDE DEF next
  <2>3. QED BY <2>1, <2>2, TrackerHandle
<1>4. CASE StartEvent
  <2>1. /\ HandleEvent(Head(queue).h, strm) /\ UNCHANGED row
        /\ Head(queue).h \in Heights
    BY <1>4, QueueType DEF StartEvent
  <2>2. QED BY <2>1, TrackerHandle
<1>5. CASE Mutate
  <2>1. /\ UNCHANGED <<row, tracker>> /\ pc = "mutate"
        /\ \/ pc' = "idle"
           \/ work' = [work EXCEPT !.errored = TRUE, !.undec = work.ev \notin Invalid]
           \/ work' = [work EXCEPT !.copy = @ \union {work.ev}]
    BY <1>5 DEF Mutate, EndTask, memVars
  <2>2. work \in WorkType BY DEF TypeOK
  <2>3. pc' = "idle" \/ work'.ev = work.ev BY <2>1, <2>2 DEF WorkType
  <2>4. QED BY <2>1, <2>3 DEF TrackerInv, MidEvent
<1>6. CASE Apply
  <2>1. /\ UNCHANGED tracker /\ pc = "apply" /\ row'.height = work.ev
        /\ pc' \in {"idle", "read"}
    BY <1>6 DEF Apply, Processed, Return
  <2>2. QED BY <2>1 DEF TrackerInv, MidEvent
<1>7. CASE Effects
  BY <1>7 DEF Effects, TrackerInv, MidEvent, memVars
<1>8. CASE FetchHead \/ ReadEnds \/ Fault
  <2>1. UNCHANGED <<row, tracker>> /\ pc' \in {"idle", "read"}
    BY <1>8 DEF FetchHead, ReadEnds, Fault, FetchFails, ApplyFails, EndTask, Return,
                memVars, stateVars
  <2>2. QED BY <2>1 DEF TrackerInv, MidEvent
<1>9. CASE (Environment /\ ~Restart) \/ Arrive
  <2>1. UNCHANGED <<row, tracker, pc, work>>
    BY <1>9 DEF Environment, Arrive, ServerAppend, ServerAckSub, UnsubAcked,
                Disconnect, PubsubUpdate, IngestEvent, AppSync, KeyArrives,
                ReceiveEntry, ReceiveSubOk, DebounceFires, taskVars, stateVars, memVars
  <2>2. QED BY <2>1 DEF TrackerInv, MidEvent
<1>10. CASE UNCHANGED vars
  BY <1>10 DEF vars, taskVars, stateVars, memVars, TrackerInv, MidEvent
<1>11. QED
  BY <1>1, <1>2, <1>3, <1>4, <1>5, <1>6, <1>7, <1>8, <1>9, <1>10
  DEF Next, Task

\* Whatever its cap, the tracker forgets an event as soon as it, or a later one, is
\* processed, so a gap that was filled never keeps a new one from being tracked.
THEOREM TrackerAheadAlways == Spec => []TrackerAhead
<1>1. Init => TrackerInv
  <2>1. Cardinality({}) = 0 /\ ReingestCap >= 0 BY FS_EmptySet, CapAssumption
  <2>2. QED BY <2>1 DEF Init, TrackerInv
<1>2. TrackerInv => TrackerAhead BY DEF TrackerInv, TrackerAhead
<1>3. QED BY <1>1, <1>2, TypeCorrect, TrackerNext, PTL DEF Spec

(***************************************************************************)
(* A key that arrives is not forgotten.  Nothing undecryptable is left     *)
(* behind but under the dirty flag (KeyRow); no event is at work on a      *)
(* dirty state (KeyWork); and a dirty state of a contract that is          *)
(* subscribed has a sync to come: one is queued, or the subscription is    *)
(* requested and its confirmation brings one (SyncComes).  The last needs  *)
(* that a contract with a row which is not subscribed, as a restart leaves *)
(* it, has no subscription under way (Apart), and so that a confirmation   *)
(* on the wire belongs to the request that is open (OneAck).               *)
(***************************************************************************)
KeyRow == haveKey => dirty \/ ~row.missing
KeyWork == MidEvent => ~dirty /\ (haveKey => ~work.undec)
DirtyRow == dirty \/ row.missing => row.height # None
Apart == row.height # None /\ ~subscribed => chan = "off"

SyncWaits(q) == \E i \in 1 .. Len(q) : q[i].op = "sync"
SyncComes == dirty /\ subscribed => SyncWaits(queue) \/ chan = "requested"

OneAck(w, c) ==
  \A i \in 1 .. Len(w) :
    w[i] = SubOk => c = "requested" /\ \A j \in 1 .. Len(w) : w[j] = SubOk => i = j

KeyInv ==
  KeyRow /\ KeyWork /\ DirtyRow /\ Apart /\ SyncComes /\ OneAck(wire, chan)

NoSelfShare == SelfShare = {} /\ "keyMidEvent" \notin Disturbances

LEMMA OneAckLemma ==
  ASSUME NEW w \in Seq(Messages), NEW c, OneAck(w, c)
  PROVE  /\ \A m \in Messages : m # SubOk => OneAck(Append(w, m), c)
         /\ w # <<>> => OneAck(Tail(w), c)
         /\ w # <<>> /\ Head(w) = SubOk => c = "requested" /\ \A d : OneAck(Tail(w), d)
         /\ c = "requested" /\ SubOk \notin {w[i] : i \in DOMAIN w}
              => OneAck(Append(w, SubOk), c)
         /\ \A d : OneAck(<<>>, d)
<1>0. DOMAIN w = 1 .. Len(w) /\ Len(w) \in Nat
  OBVIOUS
<1>1. ASSUME NEW m \in Messages
      PROVE  /\ Len(Append(w, m)) = Len(w) + 1 /\ Append(w, m)[Len(w) + 1] = m
             /\ \A i \in 1 .. Len(w) : Append(w, m)[i] = w[i]
             /\ \A i \in 1 .. Len(w) + 1 : i \in 1 .. Len(w) \/ i = Len(w) + 1
  BY <1>0
<1>2. ASSUME NEW m \in Messages, m # SubOk PROVE OneAck(Append(w, m), c)
  BY <1>1, <1>2 DEF OneAck
<1>3. ASSUME w # <<>>
      PROVE  /\ Len(w) >= 1 /\ Len(Tail(w)) = Len(w) - 1 /\ Head(w) = w[1]
             /\ \A i \in 1 .. Len(w) - 1 : Tail(w)[i] = w[i + 1] /\ i + 1 \in 1 .. Len(w)
  BY <1>3
<1>4. ASSUME w # <<>> PROVE OneAck(Tail(w), c)
  BY <1>0, <1>3, <1>4 DEF OneAck
<1>5. ASSUME w # <<>>, Head(w) = SubOk
      PROVE  c = "requested" /\ \A d : OneAck(Tail(w), d)
  <2>1. 1 \in 1 .. Len(w) /\ w[1] = SubOk
    BY <1>0, <1>3, <1>5
  <2>2. \A i \in 1 .. Len(Tail(w)) : Tail(w)[i] # SubOk
    BY <1>0, <1>3, <1>5, <2>1 DEF OneAck
  <2>3. QED
    BY <2>1, <2>2 DEF OneAck
<1>6. ASSUME c = "requested", SubOk \notin {w[i] : i \in DOMAIN w}
      PROVE  OneAck(Append(w, SubOk), c)
  <2>1. \A i \in 1 .. Len(w) : w[i] # SubOk
    BY <1>0, <1>6
  <2>2. QED
    BY <1>0, <1>1, <1>6, <2>1, TaskTypes DEF OneAck
<1>7. \A d : OneAck(<<>>, d)
  BY DEF OneAck
<1>8. QED
  BY <1>2, <1>4, <1>5, <1>6, <1>7

LEMMA SyncWaitsLemma ==
  ASSUME NEW q \in Seq(Tasks)
  PROVE  /\ \A t \in Tasks : SyncWaits(q) \/ t.op = "sync" => SyncWaits(Append(q, t))
         /\ q # <<>> /\ Head(q).op = "event" /\ SyncWaits(q) => SyncWaits(Tail(q))
<1>1. ASSUME NEW t \in Tasks, SyncWaits(q) \/ t.op = "sync" PROVE SyncWaits(Append(q, t))
  <2>1. /\ Len(q) \in Nat /\ Len(Append(q, t)) = Len(q) + 1
        /\ Append(q, t)[Len(q) + 1] = t /\ Len(q) + 1 \in 1 .. Len(q) + 1
        /\ \A i \in 1 .. Len(q) : Append(q, t)[i] = q[i] /\ i \in 1 .. Len(q) + 1
    OBVIOUS
  <2>2. QED
    BY <1>1, <2>1 DEF SyncWaits
<1>2. ASSUME q # <<>>, Head(q).op = "event", SyncWaits(q) PROVE SyncWaits(Tail(q))
  <2>1. PICK i \in 1 .. Len(q) : q[i].op = "sync"
    BY <1>2 DEF SyncWaits
  <2>2. i # 1
    BY <1>2, <2>1
  <2>3. i - 1 \in 1 .. Len(Tail(q)) /\ Tail(q)[i - 1] = q[i]
    BY <1>2, <2>1, <2>2
  <2>4. QED
    BY <2>1, <2>3 DEF SyncWaits
<1>3. QED
  BY <1>1, <1>2

LEMMA KeyInit == Init => KeyInv
<1> SUFFICES ASSUME Init PROVE KeyInv
  OBVIOUS
<1>1. OneAck(<<>>, chan)
  BY DEF OneAck
<1>2. QED
  BY <1>1 DEF Init, KeyInv, KeyRow, KeyWork, DirtyRow, Apart, SyncComes, NoRow, MidEvent

\* The subscription and its confirmation.
LEMMA KeyNet == TypeOK /\ KeyInv /\ [Next]_vars => Apart' /\ OneAck(wire', chan')
<1> SUFFICES ASSUME TypeOK, KeyInv, [Next]_vars PROVE Apart' /\ OneAck(wire', chan')
  OBVIOUS
<1>t. wire \in Seq(Messages) /\ OneAck(wire, chan) /\ Apart
  BY DEF TypeOK, KeyInv
<1>l. /\ \A h \in Heights : OneAck(Append(wire, Entry(h)), chan)
      /\ wire # <<>> => OneAck(Tail(wire), chan)
      /\ wire # <<>> /\ Head(wire) = SubOk
           => chan = "requested" /\ \A d : OneAck(Tail(wire), d)
      /\ chan = "requested" /\ ~Pushing => OneAck(Append(wire, SubOk), chan)
      /\ \A d : OneAck(<<>>, d)
  <2>1. \A h \in Heights : Entry(h) \in Messages /\ Entry(h) # SubOk
    BY TaskTypes DEF Entry, SubOk
  <2>2. ~Pushing => SubOk \notin {wire[i] : i \in DOMAIN wire}
    BY DEF Pushing
  <2>3. QED
    BY <1>t, <2>1, <2>2, OneAckLemma
<1>r. \A s \in BOOLEAN : /\ OneAck(wire, Reconcile(s, chan))
                         /\ chan = "off" /\ ~s => Reconcile(s, chan) = "off"
  <2>1. \A s \in BOOLEAN : chan = "requested" => Reconcile(s, chan) = "requested"
    BY DEF Reconcile
  <2>2. QED
    BY <1>t, <2>1 DEF OneAck, Reconcile
<1>b. subscribed \in BOOLEAN
  BY DEF TypeOK
<1>1. CASE UNCHANGED <<wire, chan, row, subscribed>>
  BY <1>1, <1>t DEF Apart
<1>2. CASE ServerAppend
  <2>1. /\ UNCHANGED <<chan, row, subscribed>>
        /\ wire' = wire \/ wire' = Append(wire, Entry(srvHeight + 1))
    BY <1>2 DEF ServerAppend, stateVars, memVars
  <2>2. srvHeight + 1 \in Heights
    BY <1>2 DEF ServerAppend, TypeOK, Heights
  <2>3. QED
    BY <2>1, <2>2, <1>t, <1>l DEF Apart
<1>3. CASE ServerAckSub
  BY <1>3, <1>t, <1>l DEF ServerAckSub, Apart, stateVars, memVars
<1>4. CASE UnsubAcked
  BY <1>4, <1>t, <1>l DEF UnsubAcked, Apart, stateVars, memVars
<1>5. CASE Disconnect
  BY <1>5, <1>t, <1>l DEF Disconnect, Apart, stateVars, memVars
<1>6. CASE PubsubUpdate
  BY <1>6, <1>t, <1>r, <1>b DEF PubsubUpdate, Apart, stateVars, memVars
<1>7. CASE ReceiveEntry
  BY <1>7, <1>t, <1>l DEF ReceiveEntry, Apart, stateVars, memVars
<1>8. CASE ReceiveSubOk
  BY <1>8, <1>t, <1>l DEF ReceiveSubOk, Apart, stateVars, memVars
<1>9. CASE Restart
  BY <1>9, <1>l DEF Restart, Apart
<1>10. CASE StartSync
  <2>1. wire' = wire /\ chan' \in {chan, Reconcile(FALSE, chan)}
    BY <1>10 DEF StartSync
  <2>2. row'.height = None \/ UNCHANGED <<row, subscribed, chan>>
    <3>1. CASE dirty \/ Head(queue).resync
      <4>1. row' = NoRow
        BY <1>10, <3>1 DEF StartSync
      <4>2. QED
        BY <4>1 DEF NoRow
    <3>2. CASE ~(dirty \/ Head(queue).resync)
      BY <1>10, <3>2 DEF StartSync
    <3>3. QED
      BY <3>1, <3>2
  <2>3. OneAck(wire', chan')
    BY <2>1, <1>t, <1>r
  <2>4. QED
    BY <2>2, <2>3, <1>t DEF Apart
<1>11. CASE FetchHead
  BY <1>11, <1>t, <1>r DEF FetchHead, Apart
<1>12. CASE Apply
  BY <1>12, <1>t, <1>r DEF Apply, Apart
<1>13. CASE \/ (\E h \in Heights : IngestEvent(h)) \/ (\E r \in BOOLEAN : AppSync(r))
            \/ KeyArrives \/ DebounceFires \/ ReadNext \/ ReadEnds \/ StartEvent
            \/ Mutate \/ Effects \/ Fault \/ UNCHANGED vars
  BY <1>1, <1>13 DEF IngestEvent, AppSync, KeyArrives, DebounceFires, ReadNext, ReadEnds,
     StartEvent, Mutate, Effects, Fault, FetchFails, ApplyFails, vars, netVars,
     stateVars, memVars
<1>14. QED
  BY <1>2, <1>3, <1>4, <1>5, <1>6, <1>7, <1>8, <1>9, <1>10, <1>11, <1>12, <1>13
  DEF Next, Environment, Arrive, Task

\* What handleEvent does to the event at work, whichever event it is.
LEMMA KeyHandle ==
  ASSUME KeyInv, NEW h, NEW next, HandleEvent(h, next),
         UNCHANGED <<row, dirty, haveKey>>
  PROVE  KeyRow' /\ KeyWork' /\ DirtyRow'
<1>1. KeyRow' /\ DirtyRow'
  BY DEF KeyInv, KeyRow, DirtyRow
<1>2. CASE pc' \in {"idle", "read"}
  BY <1>1, <1>2 DEF KeyWork, MidEvent
<1>3. CASE pc' \notin {"idle", "read"}
  <2>1. ~dirty /\ work' = [NoWork EXCEPT !.ev = h, !.copy = applied]
    BY <1>3 DEF HandleEvent, EndTask, Return
  <2>2. ~work'.undec
    BY <2>1 DEF NoWork
  <2>3. QED
    BY <1>1, <2>1, <2>2 DEF KeyWork
<1>4. QED
  BY <1>2, <1>3

\* The key comes between two events: what it may open makes the state dirty.
LEMMA KeyStored ==
  ASSUME TypeOK, KeyInv, StoreKey, UNCHANGED <<row, work, pc, subscribed, chan>>, ~MidEvent
  PROVE  KeyRow' /\ KeyWork' /\ DirtyRow' /\ SyncComes'
<1>1. dirty' = (dirty \/ MustResync) /\ haveKey'
  BY DEF StoreKey
<1>2. KeyRow'
  <2>1. ASSUME row.missing, ~dirty PROVE MustResync
    BY <2>1 DEF KeyInv, KeyRow, DirtyRow, MustResync
  <2>2. QED
    BY <1>1, <2>1 DEF KeyRow
<1>3. KeyWork'
  BY DEF KeyWork, MidEvent
<1>4. DirtyRow'
  BY <1>1 DEF KeyInv, DirtyRow, MustResync
<1>5. SyncComes'
  <2>1. queue \in Seq(Tasks) /\ SyncTask(FALSE) \in Tasks /\ SyncTask(FALSE).op = "sync"
    BY TaskTypes DEF TypeOK, SyncTask
  <2>2. CASE MustResync /\ subscribed
    <3>1. SyncWaits(queue')
      BY <2>1, <2>2, SyncWaitsLemma DEF StoreKey
    <3>2. QED
      BY <3>1 DEF SyncComes
  <2>3. CASE ~(MustResync /\ subscribed)
    <3>1. queue' = queue
      BY <2>3 DEF StoreKey
    <3>2. dirty' /\ subscribed => dirty
      BY <2>3, <1>1
    <3>3. QED
      BY <3>1, <3>2 DEF KeyInv, SyncComes
  <2>4. QED
    BY <2>2, <2>3
<1>6. QED
  BY <1>2, <1>3, <1>4, <1>5

LEMMA KeyNext ==
  ASSUME NoSelfShare, TypeOK, KeyInv, [Next]_vars
  PROVE  KeyRow' /\ KeyWork' /\ DirtyRow' /\ SyncComes'
<1>t. queue \in Seq(Tasks) /\ KeyRow /\ KeyWork /\ DirtyRow /\ Apart /\ SyncComes
      /\ OneAck(wire, chan)
  BY DEF TypeOK, KeyInv
<1>q. /\ \A t \in Tasks : SyncWaits(queue) => SyncWaits(Append(queue, t))
      /\ \A r \in BOOLEAN : SyncWaits(Append(queue, SyncTask(r)))
      /\ SyncWaits(Append(queue, SyncTask(FALSE)))
      /\ queue # <<>> /\ Head(queue).op = "event" /\ SyncWaits(queue)
           => SyncWaits(Tail(queue))
  <2>1. \A r \in BOOLEAN : SyncTask(r) \in Tasks /\ SyncTask(r).op = "sync"
    BY TaskTypes DEF SyncTask
  <2>2. SyncTask(FALSE) \in Tasks /\ SyncTask(FALSE).op = "sync"
    BY <2>1
  <2>3. QED
    BY <1>t, <2>1, <2>2, SyncWaitsLemma
<1>1. CASE UNCHANGED <<stateVars, pc, work, subscribed>>
           /\ (SyncWaits(queue) => SyncWaits(queue'))
           /\ (chan = "requested" => chan' = "requested" \/ SyncWaits(queue'))
  BY <1>1, <1>t DEF stateVars, KeyRow, KeyWork, DirtyRow, SyncComes, MidEvent
<1>2. CASE ServerAppend \/ ServerAckSub \/ UnsubAcked \/ Disconnect \/ PubsubUpdate
  BY <1>1, <1>2 DEF ServerAppend, ServerAckSub, UnsubAcked, Disconnect, PubsubUpdate,
     Reconcile, taskVars, stateVars, memVars
<1>3. CASE (\E h \in Heights : IngestEvent(h)) \/ (\E r \in BOOLEAN : AppSync(r))
           \/ DebounceFires
  BY <1>1, <1>3, <1>q, TaskTypes DEF IngestEvent, AppSync, DebounceFires, taskVars,
     stateVars, memVars, netVars
<1>4. CASE ReceiveEntry
  <2>1. wire # <<>> /\ Head(wire).h \in Heights
    BY <1>4, WireType DEF ReceiveEntry
  <2>2. QED
    BY <2>1, <1>1, <1>4, <1>q, TaskTypes DEF ReceiveEntry, taskVars, stateVars, memVars
<1>5. CASE ReceiveSubOk
  BY <1>1, <1>5, <1>q DEF ReceiveSubOk, taskVars, stateVars, memVars
<1>6. CASE KeyArrives
  <2>1. ~MidEvent
    BY <1>6 DEF KeyArrives, Disturb, NoSelfShare
  <2>2. QED
    BY <2>1, <1>6, KeyStored DEF KeyArrives, netVars, taskVars, memVars
<1>7. CASE Restart
  <2>1. SyncComes'
    BY <1>7 DEF Restart, SyncComes
  <2>2. QED
    BY <2>1, <1>7, <1>t DEF Restart, stateVars, KeyRow, KeyWork, DirtyRow, MidEvent
<1>8. CASE StartSync
  <2>1. /\ pc' = "head" /\ haveKey' = haveKey
        /\ queue # <<>> /\ Head(queue).op = "sync"
    BY <1>8 DEF StartSync
  <2>2. CASE dirty \/ Head(queue).resync
    <3>1. row' = NoRow /\ ~dirty'
      BY <1>8, <2>2 DEF StartSync
    <3>2. QED
      BY <2>1, <3>1 DEF KeyRow, KeyWork, DirtyRow, SyncComes, MidEvent, NoRow
  <2>3. CASE ~(dirty \/ Head(queue).resync)
    <3>1. row' = row /\ dirty' = dirty /\ ~dirty
      BY <1>8, <2>3 DEF StartSync
    <3>2. QED
      BY <2>1, <3>1, <1>t DEF KeyRow, KeyWork, DirtyRow, SyncComes, MidEvent
  <2>4. QED
    BY <2>2, <2>3
<1>9. CASE FetchHead
  <2>1. UNCHANGED <<row, dirty, haveKey, queue>> /\ pc' \in {"idle", "read"}
    BY <1>9 DEF FetchHead, EndTask
  <2>2. KeyRow' /\ KeyWork' /\ DirtyRow'
    BY <2>1, <1>t DEF KeyRow, KeyWork, DirtyRow, MidEvent
  <2>3. CASE subscribed' = subscribed
    <3>1. chan' = chan
      BY <1>9, <2>3 DEF FetchHead
    <3>2. QED
      BY <2>1, <2>2, <2>3, <3>1, <1>t DEF SyncComes
  <2>4. CASE subscribed' # subscribed
    <3>1. ~subscribed /\ chan' = Reconcile(TRUE, chan)
      BY <1>9, <2>4 DEF FetchHead, TypeOK
    <3>2. dirty => chan = "off"
      BY <3>1, <1>t DEF DirtyRow, Apart
    <3>3. dirty => chan' = "requested"
      BY <3>1, <3>2 DEF Reconcile
    <3>4. QED
      BY <2>1, <2>2, <3>3 DEF SyncComes
  <2>5. QED
    BY <2>3, <2>4
<1>10. CASE ReadNext
  <2>1. KeyRow' /\ KeyWork' /\ DirtyRow'
    BY <1>10, KeyHandle DEF ReadNext
  <2>2. UNCHANGED <<queue, dirty, subscribed, chan>>
    BY <1>10 DEF ReadNext, netVars
  <2>3. QED
    BY <2>1, <2>2, <1>t DEF SyncComes
<1>11. CASE StartEvent
  <2>1. KeyRow' /\ KeyWork' /\ DirtyRow'
    BY <1>11, KeyHandle DEF StartEvent
  <2>2. UNCHANGED <<dirty, subscribed, chan>> /\ (SyncWaits(queue) => SyncWaits(queue'))
    BY <1>11, <1>q DEF StartEvent, netVars
  <2>3. QED
    BY <2>1, <2>2, <1>t DEF SyncComes
<1>12. CASE ReadEnds \/ Fault
  <2>1. /\ UNCHANGED <<row, dirty, haveKey, queue, subscribed, chan>>
        /\ pc' \in {"idle", "read"}
    BY <1>12 DEF ReadEnds, Fault, FetchFails, ApplyFails, EndTask, Return, netVars,
       stateVars, memVars
  <2>2. QED
    BY <2>1, <1>t DEF KeyRow, KeyWork, DirtyRow, SyncComes, MidEvent
<1>13. CASE Mutate
  <2>1. /\ UNCHANGED <<row, dirty, haveKey, queue, subscribed, chan>> /\ pc = "mutate"
        /\ \/ pc' = "idle"
           \/ /\ work' = [work EXCEPT !.errored = TRUE, !.undec = work.ev \notin Invalid]
              /\ work.ev \in Invalid \/ ~haveKey
           \/ work' = [work EXCEPT !.copy = @ \union {work.ev}]
    BY <1>13 DEF Mutate, EndTask, Undecryptable, netVars, memVars
  <2>2. work \in WorkType
    BY DEF TypeOK
  <2>3. ~dirty /\ (haveKey => ~work.undec)
    BY <2>1, <1>t DEF KeyWork, MidEvent
  <2>4. pc' = "idle" \/ (haveKey => ~work'.undec)
    BY <2>1, <2>2, <2>3 DEF WorkType
  <2>5. QED
    BY <2>1, <2>3, <2>4, <1>t DEF KeyRow, KeyWork, DirtyRow, SyncComes, MidEvent
<1>14. CASE Effects
  <2>1. UNCHANGED <<row, dirty, haveKey, queue, subscribed, chan, work>> /\ pc = "effects"
        /\ pc' = "apply"
    BY <1>14 DEF Effects, NoSelfShare, netVars, memVars
  <2>2. QED
    BY <2>1, <1>t DEF KeyRow, KeyWork, DirtyRow, SyncComes, MidEvent
<1>15. CASE Apply
  <2>1. /\ haveKey' = haveKey /\ pc = "apply" /\ pc' \in {"idle", "read"}
        /\ row'.height = work.ev /\ row'.missing = (row.missing \/ work.undec)
        /\ dirty' \in {dirty, FALSE}
    BY <1>15 DEF Apply, Return, Processed
  <2>2. ~dirty /\ (haveKey => ~work.undec)
    BY <2>1, <1>t DEF KeyWork, MidEvent
  <2>3. row'.height # None
    BY <2>1 DEF TypeOK, WorkType, Heights, None
  <2>4. ~dirty'
    BY <2>1, <2>2
  <2>5. haveKey' => ~row'.missing
    BY <2>1, <2>2, <1>t DEF KeyRow
  <2>6. KeyRow' /\ DirtyRow'
    BY <2>3, <2>5 DEF KeyRow, DirtyRow
  <2>7. KeyWork' /\ SyncComes'
    BY <2>1, <2>4 DEF KeyWork, SyncComes, MidEvent
  <2>8. QED
    BY <2>6, <2>7
<1>16. CASE UNCHANGED vars
  BY <1>1, <1>16 DEF vars, netVars, taskVars, memVars
<1>17. QED
  BY <1>2, <1>3, <1>4, <1>5, <1>6, <1>7, <1>8, <1>9, <1>10, <1>11, <1>12, <1>13, <1>14,
     <1>15, <1>16
  DEF Next, Environment, Arrive, Task

\* A key that comes by another contract, between two events of this one, is used: once all
\* has settled, every event it opens is in the state.  For every order of restarts,
\* disconnections, failed requests and early or repeated events, whether or not the
\* contract was subscribed when the key came.
THEOREM KeyNotForgottenAlways == NoSelfShare => (Spec => []KeyNotForgotten)
<1> SUFFICES ASSUME NoSelfShare PROVE Spec => []KeyNotForgotten
  OBVIOUS
<1>1. TypeOK /\ KeyInv /\ [Next]_vars => KeyInv'
  BY KeyNet, KeyNext DEF KeyInv
<1>2. TypeOK /\ SyncInv /\ KeyInv => KeyNotForgotten
  <2> SUFFICES ASSUME TypeOK, SyncInv, KeyInv, Quiescent, subscribed, haveKey,
                      NEW h \in Encrypted \ Invalid, h <= row.height
               PROVE  h \in applied
    BY DEF KeyNotForgotten
  <2>1. ~SyncWaits(queue) /\ chan # "requested"
    BY DEF Quiescent, SyncWaits
  <2>2. ~dirty /\ ~row.missing
    BY <2>1 DEF KeyInv, KeyRow, SyncComes
  <2>3. h \in Nat
    BY EventAssumption
  <2>4. h \in 0 .. row.height
    BY <2>3 DEF TypeOK, RowType, Heights, None
  <2>5. QED
    BY <2>2, <2>4 DEF SyncInv, StateFaithful
<1>3. QED
  BY <1>1, <1>2, KeyInit, TypeCorrect, SyncSafety, PTL DEF Spec

=============================================================================
