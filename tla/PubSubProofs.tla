--------------------------- MODULE PubSubProofs ---------------------------
(***************************************************************************)
(* Theorems about PubSub for every number of retries, every set of filters *)
(* and every bound.                                                        *)
(***************************************************************************)
EXTENDS PubSub, SequenceTheorems, TLAPS

USE RetriesAssumption, BoundAssumption

\* There is a socket only while the client lives, and it lives only until its
\* attempts run out.
ConnInv ==
  /\ socket # "null" => alive
  /\ alive => failed <= MaxRetries

Inv == TypeOK /\ ConnInv /\ TimerAlone

LEMMA MessageTypes ==
  /\ \A op \in Ops, f \in FilterType : Request(op, f) \in Requests
  /\ \A op \in Ops, ok \in BOOLEAN, f \in FilterType :
       Response(op, ok, f) \in Responses
  /\ NoFilter \in FilterType
  /\ {"sub", "unsub", "filter"} \subseteq Ops
BY DEF Request, Requests, Response, Responses, FilterType, Ops

\* What sending and taking from the wires gives.
LEMMA WireTypes ==
  ASSUME TypeOK
  PROVE  /\ \A m \in Requests : Append(up, m) \in Seq(Requests)
         /\ \A m \in Responses : Append(down, m) \in Seq(Responses)
         /\ up # <<>> => /\ Tail(up) \in Seq(Requests)
                         /\ Head(up).op \in Ops /\ Head(up).filter \in FilterType
         /\ down # <<>> => /\ Tail(down) \in Seq(Responses)
                           /\ Head(down).op \in Ops
<1>1. up \in Seq(Requests) /\ down \in Seq(Responses) BY DEF TypeOK
<1>2. up # <<>> => Head(up) \in Requests BY <1>1
<1>3. up # <<>> => Head(up).op \in Ops /\ Head(up).filter \in FilterType
  BY <1>2 DEF Requests
<1>4. down # <<>> => Head(down) \in Responses BY <1>1
<1>5. down # <<>> => Head(down).op \in Ops BY <1>4 DEF Responses
<1>6. QED BY <1>1, <1>3, <1>5

PendType == [Ops -> Absent .. MaxOpRetries + 1]

LEMMA PendTypes ==
  /\ \A p \in PendType, op \in Ops, n \in Absent .. MaxOpRetries + 1 :
       [p EXCEPT ![op] = n] \in PendType
  /\ {Absent, 0, 1} \subseteq Absent .. MaxOpRetries + 1
BY DEF PendType, Absent

LEMMA RunWithRetryType ==
  ASSUME TypeOK, NEW op \in Ops, NEW f \in FilterType, NEW p \in PendType,
         RunWithRetry(op, f, p)
  PROVE  pend' \in PendType /\ up' \in Seq(Requests)
<1>1. [p EXCEPT ![op] = 1] \in PendType /\ [p EXCEPT ![op] = 0] \in PendType
  BY PendTypes
<1>2. Append(up, Request(op, f)) \in Seq(Requests) /\ up \in Seq(Requests)
  BY MessageTypes, WireTypes DEF TypeOK
<1>3. QED BY <1>1, <1>2 DEF RunWithRetry

\* The variables Sub and Unsub change keep their types.
SubTypes ==
  /\ pend \in PendType /\ confirmed \in BOOLEAN /\ kvFilter \in FilterType
  /\ up \in Seq(Requests)

LEMMA SubTypesInv == TypeOK => SubTypes
BY DEF TypeOK, SubTypes, PendType

LEMMA UpdateType ==
  ASSUME TypeOK, NEW w, Update(w)
  PROVE  SubTypes'
<1> USE SubTypesInv
<1>1. CASE UNCHANGED <<subVars, up>>
  BY <1>1 DEF SubTypes, subVars
<1>2. CASE Sub
  <2>1. [pend EXCEPT !["unsub"] = Absent] \in PendType
    BY PendTypes, MessageTypes DEF SubTypes
  <2>2. kvFilter \in FilterType BY DEF SubTypes
  <2>3. CASE /\ RunWithRetry("sub", kvFilter, [pend EXCEPT !["unsub"] = Absent])
             /\ UNCHANGED <<confirmed, kvFilter>>
    <3>1. pend' \in PendType /\ up' \in Seq(Requests)
      BY <2>1, <2>2, <2>3, RunWithRetryType, MessageTypes
    <3>2. QED BY <2>3, <3>1 DEF SubTypes
  <2>4. QED BY <1>1, <1>2, <2>3 DEF Sub
<1>3. CASE Unsub
  <2>1. [pend EXCEPT !["sub"] = Absent] \in PendType
    BY PendTypes, MessageTypes DEF SubTypes
  <2>2. CASE /\ RunWithRetry("unsub", NoFilter, [pend EXCEPT !["sub"] = Absent])
             /\ kvFilter' = NoFilter /\ UNCHANGED confirmed
    <3>1. pend' \in PendType /\ up' \in Seq(Requests)
      BY <2>1, <2>2, RunWithRetryType, MessageTypes
    <3>2. QED BY <2>2, <3>1, MessageTypes DEF SubTypes
  <2>3. QED BY <1>1, <1>3, <2>2 DEF Unsub
<1>4. QED BY <1>1, <1>2, <1>3 DEF Update

LEMMA OkType ==
  ASSUME TypeOK, NEW r, r.op \in Ops, Ok(r)
  PROVE  SubTypes'
<1> USE SubTypesInv
<1>1. CASE UNCHANGED <<subVars, up>>
  BY <1>1 DEF SubTypes, subVars
<1> DEFINE done == [pend EXCEPT !["sub"] = Absent]
<1>2. done \in PendType /\ [pend EXCEPT !["unsub"] = Absent] \in PendType
  BY PendTypes, MessageTypes DEF SubTypes
<1>3. CASE r.op = "sub" /\ Pending("sub")
  <2>1. CASE ~Pending(r.op) BY <1>3, <2>1
  <2>2. confirmed' = TRUE /\ UNCHANGED kvFilter
    BY <1>1, <1>3 DEF Ok
  <2>3. \/ pend' = done /\ up' = up
        \/ RunWithRetry("filter", kvFilter, done)
    BY <1>3 DEF Ok
  <2>4. pend' \in PendType /\ up' \in Seq(Requests)
    BY <1>2, <2>3, RunWithRetryType, MessageTypes DEF SubTypes
  <2>5. QED BY <2>2, <2>4 DEF SubTypes
<1>4. CASE r.op = "unsub" /\ Pending("unsub")
  BY <1>2, <1>4 DEF Ok, SubTypes
<1>5. CASE r.op = "filter" /\ Pending("filter")
  <2>1. pend["filter"] \in Absent .. MaxOpRetries + 1
    BY MessageTypes DEF SubTypes, PendType
  <2>2. pend' \in PendType
    BY <1>5, <2>1, PendTypes, MessageTypes DEF Ok, SubTypes
  <2>3. UNCHANGED <<confirmed, kvFilter, up>> BY <1>5 DEF Ok
  <2>4. QED BY <2>2, <2>3 DEF SubTypes
<1>6. QED BY <1>1, <1>3, <1>4, <1>5 DEF Ok

LEMMA InitInv == Init => Inv
<1> SUFFICES ASSUME Init PROVE Inv OBVIOUS
<1>1. pend \in PendType BY DEF Init, PendType, Absent
<1>2. events \in Seq({"offline", "online"}) /\ up \in Seq(Requests)
      /\ down \in Seq(Responses)
  BY DEF Init
<1>3. failed \in -1 .. MaxRetries + 1 /\ budget \in 0 .. DisturbBound BY DEF Init
<1>4. kvFilter \in FilterType BY DEF Init, FilterType
<1>5. TypeOK BY <1>1, <1>2, <1>3, <1>4 DEF Init, TypeOK, PendType
<1>6. QED BY <1>5 DEF Init, Inv, ConnInv, TimerAlone

LEMMA OnCloseInv ==
  ASSUME Inv, socket # "null", OnClose,
         UNCHANGED <<lineVars, wanted, lost>>, budget' \in 0 .. DisturbBound
  PROVE  Inv'
<1>1. alive /\ failed \in -1 .. MaxRetries /\ failed' = failed + 1
  BY DEF Inv, ConnInv, OnClose, TypeOK
<1>2. failed' \in -1 .. MaxRetries + 1 BY <1>1
<1>3. alive' \in BOOLEAN /\ (alive' => failed' <= MaxRetries)
  <2>1. CASE failed + 1 > MaxRetries
    BY <2>1 DEF OnClose
  <2>2. CASE ~(failed + 1 > MaxRetries)
    <3>1. alive' = alive BY <2>2 DEF OnClose
    <3>2. failed' <= MaxRetries BY <1>1, <2>2
    <3>3. QED BY <1>1, <3>1, <3>2
  <2>3. QED BY <2>1, <2>2
<1>4. pend' \in PendType BY DEF OnClose, PendingAgain, PendType, Absent
<1>5. timer' \in BOOLEAN /\ socket' = "null" /\ (timer' => alive')
  BY <1>1 DEF OnClose, Inv, TypeOK
<1>6. up' \in Seq(Requests) /\ down' \in Seq(Responses) /\ served' = Off
  BY DEF OnClose, NetGone
<1>7. confirmed' \in BOOLEAN /\ kvFilter' \in FilterType
  BY DEF OnClose, Inv, TypeOK
<1>8. TypeOK'
  BY <1>2, <1>3, <1>4, <1>5, <1>6, <1>7
     DEF Inv, TypeOK, PendType, lineVars
<1>9. QED BY <1>3, <1>5, <1>8 DEF Inv, ConnInv, TimerAlone

\* Steps that touch neither the socket nor the browser's events.
LEMMA SubscriptionInv ==
  ASSUME Inv, UNCHANGED <<connVars, lineVars>>, SubTypes',
         wanted' \in BOOLEAN, down' \in Seq(Responses),
         served' \in FilterType \union {Off}, lost' \in BOOLEAN,
         budget' \in 0 .. DisturbBound
  PROVE  Inv'
BY DEF Inv, TypeOK, SubTypes, PendType, connVars, lineVars, ConnInv, TimerAlone

LEMMA DisturbType ==
  ASSUME TypeOK, NEW k, Disturb(k) PROVE budget' \in 0 .. DisturbBound
BY DEF TypeOK, Disturb

LEMMA NextInv == Inv /\ [Next]_vars => Inv'
<1> SUFFICES ASSUME Inv, [Next]_vars PROVE Inv' OBVIOUS
<1>0. TypeOK /\ SubTypes BY SubTypesInv DEF Inv
<1>1. ASSUME Want \/ Leave \/ Modified PROVE Inv'
  <2>1. SubTypes' BY <1>0, <1>1, UpdateType DEF Want, Leave, Modified
  <2>2. budget' \in 0 .. DisturbBound
    BY <1>0, <1>1, DisturbType DEF Want, Leave, Modified
  <2>3. QED
    BY <1>0, <1>1, <2>1, <2>2, SubscriptionInv DEF Want, Leave, Modified, TypeOK
<1>2. ASSUME NEW f \in FilterType, SetKvFilter(f) PROVE Inv'
  <2>1. budget' \in 0 .. DisturbBound
    BY <1>0, <1>2, DisturbType DEF SetKvFilter
  <2>2. pend' \in PendType /\ up' \in Seq(Requests)
    BY <1>0, <1>2, RunWithRetryType, MessageTypes DEF SetKvFilter, SubTypes
  <2>3. SubTypes' BY <1>0, <1>2, <2>2 DEF SetKvFilter, SubTypes
  <2>4. QED
    BY <1>0, <1>2, <2>1, <2>3, SubscriptionInv DEF SetKvFilter, TypeOK
<1>3. ASSUME NEW op \in Ops, Retry(op) PROVE Inv'
  <2>1. pend[op] \in Absent .. MaxOpRetries + 1 BY <1>0 DEF SubTypes, PendType
  <2>2. CASE pend[op] > MaxOpRetries
    <3>1. pend' \in PendType /\ up' = up /\ lost' = TRUE
      BY <1>0, <1>3, <2>2, PendTypes DEF Retry, SubTypes
    <3>2. SubTypes' BY <1>0, <1>3, <3>1 DEF Retry, SubTypes
    <3>3. QED BY <1>0, <1>3, <3>1, <3>2, SubscriptionInv DEF Retry, TypeOK
  <2>3. CASE ~(pend[op] > MaxOpRetries)
    <3>1. pend[op] + 1 \in Absent .. MaxOpRetries + 1
      BY <1>3, <2>1, <2>3 DEF Retry, Absent
    <3>2. pend' = [pend EXCEPT ![op] = pend[op] + 1] /\ lost' = lost
      BY <1>3, <2>3 DEF Retry
    <3>3. pend' \in PendType BY <1>0, <3>1, <3>2, PendTypes DEF SubTypes
    <3>4. (IF op = "unsub" THEN NoFilter ELSE kvFilter) \in FilterType
      BY <1>0, MessageTypes DEF SubTypes
    <3>5. up' \in Seq(Requests)
      BY <1>0, <1>3, <2>3, <3>4, MessageTypes, WireTypes DEF Retry
    <3>6. SubTypes' BY <1>0, <1>3, <3>3, <3>5 DEF Retry, SubTypes
    <3>7. QED BY <1>0, <1>3, <3>2, <3>6, SubscriptionInv DEF Retry, TypeOK
  <2>4. QED BY <2>2, <2>3
<1>4. ASSUME ServerHandles PROVE Inv'
  <2> DEFINE r == Head(up)
  <2>1. r.op \in Ops /\ r.filter \in FilterType /\ up' \in Seq(Requests)
    BY <1>0, <1>4, WireTypes DEF ServerHandles
  <2>2. SubTypes' BY <1>0, <1>4, <2>1 DEF ServerHandles, SubTypes, subVars
  <2>3. budget' \in 0 .. DisturbBound
    BY <1>0, <1>4, DisturbType DEF ServerHandles, TypeOK
  <2>4. down' = down \/ \E b \in BOOLEAN : down' = Append(down, Response(r.op, b, r.filter))
    BY <1>4 DEF ServerHandles
  <2>5. down' \in Seq(Responses)
    BY <1>0, <2>1, <2>4, MessageTypes, WireTypes DEF TypeOK
  <2>6. served' \in FilterType \union {Off}
    BY <1>0, <1>4, <2>1 DEF ServerHandles, TypeOK
  <2>7. QED
    BY <1>0, <1>4, <2>2, <2>3, <2>5, <2>6, SubscriptionInv DEF ServerHandles, TypeOK
<1>5. ASSUME Receive PROVE Inv'
  <2> DEFINE r == Head(down)
  <2>1. r.op \in Ops /\ down' \in Seq(Responses)
    BY <1>0, <1>5, WireTypes DEF Receive
  <2>2. SubTypes'
    <3>1. CASE r.ok /\ Ok(r) BY <1>0, <2>1, <3>1, OkType
    <3>2. CASE /\ pend' = [pend EXCEPT ![r.op] = Absent]
               /\ UNCHANGED <<confirmed, kvFilter, up>>
      BY <1>0, <2>1, <3>2, PendTypes DEF SubTypes
    <3>3. QED BY <1>5, <3>1, <3>2 DEF Receive
  <2>3. lost' \in BOOLEAN BY <1>0, <1>5 DEF Receive, TypeOK
  <2>4. QED
    BY <1>0, <1>5, <2>1, <2>2, <2>3, SubscriptionInv DEF Receive, TypeOK
<1>6. ASSUME Connect PROVE Inv'
  BY <1>6 DEF Connect, Inv, TypeOK, ConnInv, TimerAlone, lineVars, subVars, netVars
<1>7. ASSUME Open PROVE Inv'
  <2>1. pend' \in PendType /\ up' \in Seq(Requests)
    BY <1>0, <1>7, PendTypes, MessageTypes, WireTypes DEF Open, SubTypes
  <2>2. socket' = "open" /\ timer' = FALSE /\ failed' = -1 /\ alive' = TRUE
    BY <1>7 DEF Open, Inv, ConnInv, TypeOK
  <2>3. failed' \in -1 .. MaxRetries + 1 BY <2>2
  <2>4. TypeOK'
    BY <1>0, <1>7, <2>1, <2>2, <2>3 DEF Open, TypeOK, PendType, lineVars
  <2>5. QED BY <2>2, <2>4 DEF Inv, ConnInv, TimerAlone
<1>8. ASSUME TimesOut PROVE Inv'
  <2>1. budget' \in 0 .. DisturbBound BY <1>0, <1>8, DisturbType DEF TimesOut
  <2>2. up' \in Seq(Requests) /\ down' \in Seq(Responses) /\ served' = Off
    BY <1>8 DEF TimesOut, NetGone
  <2>3. socket' = "closing" /\ ~timer BY <1>8 DEF TimesOut, Closed, Inv, TimerAlone
  <2>4. TypeOK'
    BY <1>0, <1>8, <2>1, <2>2, <2>3 DEF TimesOut, TypeOK, lineVars, subVars
  <2>5. QED
    BY <1>8, <2>3, <2>4 DEF Inv, TimesOut, ConnInv, TimerAlone
<1>9. ASSUME CloseEvent PROVE Inv'
  BY <1>0, <1>9, OnCloseInv DEF CloseEvent, TypeOK
<1>10. ASSUME Drop PROVE Inv'
  <2>1. budget' \in 0 .. DisturbBound BY <1>0, <1>10, DisturbType DEF Drop
  <2>2. QED BY <1>10, <2>1, OnCloseInv DEF Drop
<1>11. ASSUME Flap PROVE Inv'
  <2>1. budget' \in 0 .. DisturbBound BY <1>0, <1>11, DisturbType DEF Flap
  <2>2. events' \in Seq({"offline", "online"}) /\ onLine' \in BOOLEAN
    BY <1>0, <1>11 DEF Flap, TypeOK
  <2>3. QED
    BY <1>0, <1>11, <2>1, <2>2
       DEF Flap, Inv, TypeOK, ConnInv, TimerAlone, connVars, subVars, netVars
<1>12. ASSUME OfflineEvent PROVE Inv'
  <2>1. events' \in Seq({"offline", "online"})
    BY <1>0, <1>12 DEF OfflineEvent, TypeOK
  <2>2. up' \in Seq(Requests) /\ down' \in Seq(Responses)
        /\ served' \in FilterType \union {Off}
    <3>1. UNCHANGED netVars \/ NetGone BY <1>12 DEF OfflineEvent
    <3>2. NetGone => up' \in Seq(Requests) /\ down' \in Seq(Responses) /\ served' = Off
      BY DEF NetGone
    <3>3. QED BY <1>0, <3>1, <3>2 DEF netVars, TypeOK
  <2>3. CASE alive
    <3>1. timer' = FALSE /\ failed' = 0 /\ socket' = Closed /\ alive' = alive
      BY <1>12, <2>3 DEF OfflineEvent
    <3>2. failed' \in -1 .. MaxRetries + 1 BY <3>1
    <3>3. socket' \in {"null", "closing"} BY <3>1 DEF Closed
    <3>4. TypeOK'
      BY <1>0, <1>12, <2>1, <2>2, <3>1, <3>2, <3>3 DEF OfflineEvent, TypeOK, subVars
    <3>5. QED BY <2>3, <3>1, <3>4 DEF Inv, ConnInv, TimerAlone
  <2>4. CASE ~alive
    <3>1. UNCHANGED <<timer, failed, socket, alive>>
      BY <1>12, <2>4 DEF OfflineEvent
    <3>2. TypeOK'
      BY <1>0, <1>12, <2>1, <2>2, <3>1 DEF OfflineEvent, TypeOK, subVars
    <3>3. QED BY <3>1, <3>2 DEF Inv, ConnInv, TimerAlone
  <2>5. QED BY <2>3, <2>4
<1>13. ASSUME OnlineEvent PROVE Inv'
  <2>1. events' \in Seq({"offline", "online"})
    BY <1>0, <1>13 DEF OnlineEvent, TypeOK
  <2>2. \/ timer' = TRUE /\ failed' = 0 /\ alive /\ socket = "null"
        \/ UNCHANGED <<timer, failed>>
    BY <1>13 DEF OnlineEvent
  <2>3. /\ failed' \in -1 .. MaxRetries + 1
        /\ alive => failed' <= MaxRetries
        /\ timer' \in BOOLEAN
        /\ timer' => alive /\ socket = "null"
    <3>1. /\ failed \in -1 .. MaxRetries + 1 /\ timer \in BOOLEAN
          /\ alive => failed <= MaxRetries
          /\ timer => alive /\ socket = "null"
      BY <1>0 DEF Inv, TypeOK, ConnInv, TimerAlone
    <3>2. CASE timer' = TRUE /\ failed' = 0 /\ alive /\ socket = "null"
      BY <3>2
    <3>3. CASE UNCHANGED <<timer, failed>> BY <3>1, <3>3
    <3>4. QED BY <2>2, <3>2, <3>3
  <2>4. UNCHANGED <<socket, alive>> BY <1>13 DEF OnlineEvent
  <2>5. TypeOK' BY <1>0, <1>13, <2>1, <2>3 DEF OnlineEvent, TypeOK, subVars, netVars
  <2>6. QED BY <2>3, <2>4, <2>5 DEF Inv, ConnInv, TimerAlone
<1>14. CASE UNCHANGED vars
  BY <1>14 DEF vars, connVars, lineVars, subVars, netVars, Inv, TypeOK, ConnInv,
               TimerAlone
<1>15. QED
  BY <1>1, <1>2, <1>3, <1>4, <1>5, <1>6, <1>7, <1>8, <1>9, <1>10, <1>11, <1>12,
     <1>13, <1>14
     DEF Next, Application, Timers, Network, Browser, Fault, FilterType

\* The inductive invariant of the connection.
THEOREM ConnectionSafety == Spec => []Inv
<1>1. Init => Inv BY InitInv
<1>2. Inv /\ [Next]_vars => Inv' BY NextInv
<1>3. QED BY <1>1, <1>2, PTL DEF Spec

\* Every variable always holds a value of its kind, and no send loop exceeds its
\* tries (runWithRetry), whatever the limits are.
THEOREM TypeCorrect == Spec => []TypeOK
<1>1. Inv => TypeOK BY DEF Inv
<1>2. QED BY <1>1, ConnectionSafety, PTL

\* connect() is never called by a timer while there is a socket, or after the
\* client gave up: its first and last checks never throw there.
THEOREM TimerAloneAlways == Spec => []TimerAlone
<1>1. Inv => TimerAlone BY DEF Inv
<1>2. QED BY <1>1, ConnectionSafety, PTL

-----------------------------------------------------------------------------
(***************************************************************************)
(* The client never stops reconnecting.  The last event not yet dispatched *)
(* says what navigator.onLine is; this is what rules out an 'online' that  *)
(* came too early.                                                         *)
(***************************************************************************)
LineInv ==
  /\ NeverStuck
  /\ events # <<>> =>
       events[Len(events)] = IF onLine THEN "online" ELSE "offline"

LEMMA LastOfTail ==
  ASSUME NEW S, NEW s \in Seq(S), s # <<>>, Tail(s) # <<>>
  PROVE  /\ Tail(s)[Len(Tail(s))] = s[Len(s)]
         /\ Len(Tail(s)) \in DOMAIN Tail(s)
<1>1. Len(Tail(s)) = Len(s) - 1 /\ Len(s) \in Nat \ {0} OBVIOUS
<1>2. Tail(s) \in Seq(S) /\ Len(Tail(s)) \in Nat \ {0} OBVIOUS
<1>3. Tail(s)[Len(Tail(s))] = s[Len(Tail(s)) + 1] BY <1>2
<1>4. QED BY <1>1, <1>2, <1>3

LEMMA LengthOne ==
  ASSUME NEW S, NEW s \in Seq(S), s # <<>>, Tail(s) = <<>>
  PROVE  Len(s) = 1
<1> DEFINE n == Len(s)
           m == Len(Tail(s))
<1>1. n \in Nat /\ n # 0 OBVIOUS
<1>2. m = n - 1 OBVIOUS
<1>3. m = 0
  <2>1. \A t : t = <<>> => Len(t) = 0 OBVIOUS
  <2>2. QED BY <2>1, Zenon
<1> HIDE DEF n, m
<1>4. n = 1 BY <1>1, <1>2, <1>3
<1>5. QED BY <1>4 DEF n

LEMMA LineNext == Inv /\ LineInv /\ [Next]_vars => LineInv'
<1> SUFFICES ASSUME Inv, LineInv, [Next]_vars PROVE LineInv' OBVIOUS
<1> USE DEF LineInv, NeverStuck
<1>0. /\ events \in Seq({"offline", "online"}) /\ onLine \in BOOLEAN
      /\ timer \in BOOLEAN
  BY DEF Inv, TypeOK
<1>1. CASE UNCHANGED <<connVars, lineVars>>
  BY <1>1 DEF connVars, lineVars
<1>2. ASSUME Connect \/ Open \/ TimesOut PROVE LineInv'
  BY <1>2 DEF Connect, Open, TimesOut, Closed, lineVars
<1>3. ASSUME CloseEvent \/ Drop PROVE LineInv'
  <2>1. OnClose /\ UNCHANGED lineVars BY <1>3 DEF CloseEvent, Drop
  <2>2. alive' => timer' = onLine
    <3>1. CASE failed + 1 > MaxRetries BY <2>1, <3>1 DEF OnClose
    <3>2. CASE ~(failed + 1 > MaxRetries) BY <2>1, <3>2 DEF OnClose
    <3>3. QED BY <3>1, <3>2
  <2>3. QED BY <2>1, <2>2 DEF lineVars
<1>4. ASSUME Flap PROVE LineInv'
  <2>1. \E e \in {"offline", "online"} :
          events' = Append(events, e) /\ e = IF onLine' THEN "online" ELSE "offline"
    BY <1>0, <1>4 DEF Flap
  <2>2. PICK e \in {"offline", "online"} :
          events' = Append(events, e) /\ e = IF onLine' THEN "online" ELSE "offline"
    BY <2>1
  <2>3. Len(events') \in DOMAIN events' /\ events'[Len(events')] = e
    BY <1>0, <2>2
  <2>4. QED BY <2>2, <2>3
<1>5. ASSUME OfflineEvent PROVE LineInv'
  <2>1. events # <<>> /\ Head(events) = "offline" /\ events' = Tail(events)
        /\ onLine' = onLine
    BY <1>5 DEF OfflineEvent
  <2>2. CASE events' = <<>>
    <3>1. Len(events) = 1 BY <1>0, <2>1, <2>2, LengthOne
    <3>2. ~onLine BY <2>1, <3>1
    <3>3. QED BY <2>1, <2>2, <3>2
  <2>3. CASE events' # <<>>
    <3>1. /\ events'[Len(events')] = events[Len(events)]
          /\ Len(events') \in DOMAIN events'
      BY <1>0, <2>1, <2>3, LastOfTail
    <3>2. onLine => events'[Len(events')] = "online" BY <2>1, <3>1
    <3>3. NeverStuck' BY <2>1, <3>1, <3>2
    <3>4. QED BY <2>1, <3>1, <3>3
  <2>4. QED BY <2>2, <2>3
<1>6. ASSUME OnlineEvent PROVE LineInv'
  <2>1. events # <<>> /\ Head(events) = "online" /\ events' = Tail(events)
        /\ UNCHANGED <<onLine, alive, socket>>
    BY <1>6 DEF OnlineEvent
  <2>2. alive /\ socket = "null" => timer' = TRUE BY <1>6 DEF OnlineEvent
  <2>3. NeverStuck' BY <2>1, <2>2
  <2>4. events' # <<>> => events'[Len(events')] = events[Len(events)]
    BY <1>0, <2>1, LastOfTail
  <2>5. QED BY <2>1, <2>3, <2>4
<1>7. QED
  BY <1>1, <1>2, <1>3, <1>4, <1>5, <1>6
     DEF Next, Application, Timers, Network, Browser, Fault, vars, Want, Leave,
         Modified, SetKvFilter, Retry, ServerHandles, Receive

\* A living client without a socket has a timer that will connect, or waits for
\* an 'online' event that is still to come.
THEOREM NeverStuckAlways == Spec => []NeverStuck
<1>1. Init => LineInv BY DEF Init, LineInv, NeverStuck
<1>2. Inv /\ Inv' /\ LineInv /\ [Next]_vars => LineInv' BY LineNext
<1>3. LineInv => NeverStuck BY DEF LineInv
<1>4. QED BY <1>1, <1>2, <1>3, ConnectionSafety, PTL DEF Spec

-----------------------------------------------------------------------------
(***************************************************************************)
(* A wanted channel keeps its subscription, unless it is wanted again      *)
(* while its UNSUB is pending.  A SUB and an UNSUB are never both pending: *)
(* without this an UNSUB's OK could come after the SUB's.                  *)
(***************************************************************************)
RoomInv == RoomKept /\ ~(Pending("sub") /\ Pending("unsub"))

LEMMA RunWithRetryPend ==
  ASSUME NEW op \in Ops, NEW f, NEW p \in PendType, RunWithRetry(op, f, p)
  PROVE  /\ pend'[op] # Absent
         /\ \A o \in Ops \ {op} : pend'[o] = p[o]
BY DEF RunWithRetry, PendType, Absent

LEMMA RoomNext ==
  ASSUME "resub" \notin Disturbances
  PROVE  Inv /\ RoomInv /\ [Next]_vars => RoomInv'
<1> SUFFICES ASSUME Inv, RoomInv, [Next]_vars PROVE RoomInv' OBVIOUS
<1> USE DEF RoomInv, RoomKept, Pending
<1>0. /\ TypeOK /\ SubTypes /\ pend \in PendType
      /\ "sub" \in Ops /\ "unsub" \in Ops /\ "filter" \in Ops
  BY SubTypesInv DEF Inv, SubTypes, Ops
<1>1. CASE UNCHANGED <<subVars, wanted, alive, lost>>
  BY <1>1 DEF subVars
<1>2. ASSUME UNCHANGED <<subVars, up>> \/ Sub
      PROVE  /\ ~(pend'["sub"] # Absent /\ pend'["unsub"] # Absent)
             /\ Sub => pend'["sub"] # Absent \/ confirmed
             /\ UNCHANGED confirmed
  <2>1. CASE UNCHANGED <<subVars, up>>
    <3>1. Sub => Pending("sub") \/ confirmed
      <4>1. SUFFICES ASSUME Sub, ~(Pending("sub") \/ confirmed) PROVE FALSE OBVIOUS
      <4>2. [pend EXCEPT !["unsub"] = Absent] \in PendType
        BY <1>0, PendTypes
      <4>3. pend'["sub"] # Absent BY <1>0, <4>1, <4>2, RunWithRetryPend DEF Sub
      <4>4. QED BY <2>1, <4>1, <4>3 DEF subVars
    <3>2. QED BY <2>1, <3>1 DEF subVars
  <2>2. CASE Sub /\ ~(Pending("sub") \/ confirmed)
    <3>1. [pend EXCEPT !["unsub"] = Absent] \in PendType BY <1>0, PendTypes
    <3>2. pend'["sub"] # Absent /\ pend'["unsub"] = Absent
      BY <1>0, <2>2, <3>1, RunWithRetryPend DEF Sub, PendType
    <3>3. UNCHANGED confirmed BY <2>2 DEF Sub
    <3>4. QED BY <3>2, <3>3
  <2>3. QED BY <1>2, <2>1, <2>2 DEF Sub
<1>3. ASSUME Want PROVE RoomInv'
  <2>1. ~Pending("unsub") BY <1>3 DEF Want, Disturb
  <2>2. CASE ~confirmed
    <3>1. Sub BY <1>3, <2>2 DEF Want, Update
    <3>2. QED BY <1>2, <2>2, <3>1
  <2>3. CASE confirmed
    <3>1. UNCHANGED subVars BY <1>3, <2>3 DEF Want, Update
    <3>2. QED BY <2>1, <2>3, <3>1 DEF subVars
  <2>4. QED BY <2>2, <2>3
<1>4. ASSUME Unsub PROVE ~(pend'["sub"] # Absent /\ pend'["unsub"] # Absent)
  <2>1. CASE UNCHANGED <<subVars, up>> BY <2>1 DEF subVars
  <2>2. CASE RunWithRetry("unsub", NoFilter, [pend EXCEPT !["sub"] = Absent])
    <3>1. [pend EXCEPT !["sub"] = Absent] \in PendType BY <1>0, PendTypes
    <3>2. pend'["sub"] = Absent
      BY <1>0, <2>2, <3>1, RunWithRetryPend DEF PendType
    <3>3. QED BY <3>2
  <2>3. QED BY <1>4, <2>1, <2>2 DEF Unsub
<1>5. ASSUME Leave PROVE RoomInv'
  <2>1. wanted' = FALSE BY <1>5 DEF Leave
  <2>2. CASE confirmed BY <1>4, <1>5, <2>1, <2>2 DEF Leave, Update
  <2>3. CASE ~confirmed BY <1>5, <2>1, <2>3 DEF Leave, Update, subVars
  <2>4. QED BY <2>2, <2>3
<1>6. ASSUME Modified PROVE RoomInv'
  <2>1. UNCHANGED <<wanted, alive, lost>> BY <1>6 DEF Modified, connVars
  <2>2. CASE confirmed /\ ~wanted BY <1>4, <1>6, <2>1, <2>2 DEF Modified, Update
  <2>3. CASE ~confirmed /\ wanted
    <3>1. Sub BY <1>6, <2>3 DEF Modified, Update
    <3>2. QED BY <1>2, <2>1, <2>3, <3>1
  <2>4. CASE UNCHANGED subVars BY <2>1, <2>4 DEF subVars
  <2>5. wanted \in BOOLEAN /\ confirmed \in BOOLEAN BY <1>0 DEF TypeOK
  <2>6. QED BY <1>6, <2>2, <2>3, <2>4, <2>5 DEF Modified, Update
<1>7. ASSUME NEW f, SetKvFilter(f) PROVE RoomInv'
  <2>1. pend'["sub"] = pend["sub"] /\ pend'["unsub"] = pend["unsub"]
    BY <1>0, <1>7, RunWithRetryPend DEF SetKvFilter
  <2>2. QED BY <1>7, <2>1 DEF SetKvFilter, connVars
<1>8. ASSUME NEW op \in Ops, Retry(op) PROVE RoomInv'
  <2>1. UNCHANGED <<confirmed, wanted, alive>> BY <1>8 DEF Retry, connVars
  <2>2. CASE pend[op] > MaxOpRetries
    <3>1. pend' = [pend EXCEPT ![op] = Absent] /\ lost' = TRUE
      BY <1>8, <2>2 DEF Retry
    <3>2. QED BY <1>0, <3>1 DEF PendType
  <2>3. CASE ~(pend[op] > MaxOpRetries)
    <3>1. pend' = [pend EXCEPT ![op] = pend[op] + 1] /\ lost' = lost /\ pend[op] >= 1
      BY <1>8, <2>3 DEF Retry
    <3>2. pend[op] \in Absent .. MaxOpRetries + 1 BY <1>0 DEF PendType
    <3>3. pend[op] # Absent /\ pend[op] + 1 # Absent BY <3>1, <3>2 DEF Absent
    <3>4. \A o \in Ops : (pend'[o] # Absent) <=> (pend[o] # Absent)
      BY <1>0, <3>1, <3>3 DEF PendType
    <3>5. QED BY <1>0, <2>1, <3>1, <3>4
  <2>4. QED BY <2>2, <2>3
<1>9. ASSUME Receive PROVE RoomInv'
  <2> DEFINE r == Head(down)
  <2>1. UNCHANGED <<wanted, alive>> /\ r.op \in Ops
    BY <1>0, <1>9, WireTypes DEF Receive, connVars
  <2>2. CASE r.ok /\ Ok(r) /\ UNCHANGED lost
    <3>1. CASE UNCHANGED subVars BY <2>1, <2>2, <3>1 DEF subVars
    <3>2. CASE r.op = "sub" /\ Pending("sub")
      <4> DEFINE done == [pend EXCEPT !["sub"] = Absent]
      <4>1. done \in PendType BY <1>0, PendTypes
      <4>2. confirmed' = TRUE BY <2>2, <3>2 DEF Ok
      <4>3. pend' = done \/ RunWithRetry("filter", kvFilter, done)
        BY <2>2, <3>2 DEF Ok
      <4>4. pend'["unsub"] = pend["unsub"]
        BY <1>0, <4>1, <4>3, RunWithRetryPend DEF PendType
      <4>5. QED BY <3>2, <4>2, <4>4
    <3>3. CASE r.op = "unsub" /\ Pending("unsub")
      <4>1. pend' = [pend EXCEPT !["unsub"] = Absent] BY <2>2, <3>3 DEF Ok
      <4>2. pend'["sub"] = pend["sub"] /\ pend'["unsub"] = Absent
        BY <1>0, <4>1 DEF PendType
      <4>3. QED BY <2>1, <2>2, <3>3, <4>2
    <3>4. CASE r.op = "filter" /\ Pending("filter")
      <4>1. pend'["sub"] = pend["sub"] /\ pend'["unsub"] = pend["unsub"]
        BY <1>0, <2>2, <3>4 DEF Ok, PendType
      <4>2. UNCHANGED confirmed BY <2>2, <3>4 DEF Ok
      <4>3. QED BY <2>1, <2>2, <4>1, <4>2
    <3>5. QED BY <2>2, <3>1, <3>2, <3>3, <3>4 DEF Ok
  <2>3. CASE pend' = [pend EXCEPT ![r.op] = Absent] /\ lost' = TRUE
    BY <1>0, <2>1, <2>3 DEF PendType
  <2>4. QED BY <1>9, <2>2, <2>3 DEF Receive
<1>10. ASSUME Open PROVE RoomInv'
  <2>1. UNCHANGED <<confirmed, wanted, alive, lost>> BY <1>10 DEF Open
  <2>2. CASE Pending("sub")
    <3>1. pend' = [pend EXCEPT !["sub"] = 1] BY <1>10, <2>2 DEF Open
    <3>2. pend'["sub"] # Absent /\ pend'["unsub"] = pend["unsub"]
      BY <1>0, <3>1 DEF PendType, Absent
    <3>3. QED BY <2>1, <2>2, <3>2
  <2>3. CASE ~Pending("sub")
    BY <1>10, <2>1, <2>3 DEF Open
  <2>4. QED BY <2>2, <2>3
<1>11. ASSUME CloseEvent \/ Drop PROVE RoomInv'
  <2>1. OnClose /\ UNCHANGED <<wanted, lost>> /\ alive
    BY <1>11 DEF CloseEvent, Drop, Inv, ConnInv
  <2>2. CASE failed + 1 > MaxRetries
    BY <1>0, <2>1, <2>2 DEF OnClose
  <2>3. CASE ~(failed + 1 > MaxRetries)
    <3>1. pend' = PendingAgain BY <2>1, <2>3 DEF OnClose
    <3>2. pend'["unsub"] = Absent BY <1>0, <3>1 DEF PendingAgain
    <3>3. pend["sub"] # Absent \/ (confirmed /\ pend["unsub"] = Absent) =>
            pend'["sub"] # Absent
      BY <1>0, <3>1 DEF PendingAgain, Absent
    <3>4. QED BY <2>1, <3>2, <3>3
  <2>4. QED BY <2>2, <2>3
<1>12. QED
  BY <1>1, <1>3, <1>5, <1>6, <1>7, <1>8, <1>9, <1>10, <1>11
     DEF Next, Application, Timers, Network, Browser, Fault, vars, connVars,
         lineVars, Connect, ServerHandles, TimesOut, Flap, OfflineEvent, OnlineEvent

\* A channel Chelonia wants stays subscribed or about to be, over every loss of
\* the connection, when it is not wanted again while its UNSUB is pending.
THEOREM RoomKeptAlways ==
  ASSUME "resub" \notin Disturbances PROVE Spec => []RoomKept
<1>1. Init => RoomInv BY DEF Init, RoomInv, RoomKept, Pending, Ops
<1>2. Inv /\ RoomInv /\ [Next]_vars => RoomInv' BY RoomNext
<1>3. RoomInv => RoomKept BY DEF RoomInv
<1>4. QED BY <1>1, <1>2, <1>3, ConnectionSafety, PTL DEF Spec

-----------------------------------------------------------------------------
(***************************************************************************)
(* Client and server agree when nothing is under way.  The argument is     *)
(* about the order of the messages in flight: the answers first, then the  *)
(* requests.  Operators on such sequences come first.                      *)
(***************************************************************************)
Flow(d, u) ==
  [i \in 1 .. Len(d) + Len(u) |->
     IF i <= Len(d) THEN Request(d[i].op, d[i].filter) ELSE u[i - Len(d)]]

\* No b comes after an a.
Never(s, a) == \A i \in DOMAIN s : s[i].op # a
NeverAfter(s, a, b) ==
  \A i, j \in DOMAIN s : i < j /\ s[i].op = a => s[j].op # b

\* No message carries an older filter than f: at all, after one that carries f, and
\* after one that carries f and comes after an UNSUB.
Carries(m, f) == m.op # "unsub" /\ m.filter = f
Fresh(m, f) == m.op = "unsub" \/ m.filter = f
AllFresh(s, f) == \A i \in DOMAIN s : Fresh(s[i], f)
FreshOnce(s, f) ==
  \A i, j \in DOMAIN s : i < j /\ Carries(s[i], f) => Fresh(s[j], f)
FreshOnceUnsub(s, f) ==
  \A k, i, j \in DOMAIN s :
    k < i /\ i < j /\ s[k].op = "unsub" /\ Carries(s[i], f) => Fresh(s[j], f)

\* t is s without some of its messages.
Thinned(t, s) ==
  \E e \in [DOMAIN t -> DOMAIN s] :
    /\ \A i, j \in DOMAIN t : i < j => e[i] < e[j]
    /\ \A i \in DOMAIN t : t[i] = s[e[i]]

LEMMA ThinnedKeeps ==
  ASSUME NEW s, NEW t, Thinned(t, s)
  PROVE  /\ \A a : Never(s, a) => Never(t, a)
         /\ \A a, b : NeverAfter(s, a, b) => NeverAfter(t, a, b)
         /\ \A f : AllFresh(s, f) => AllFresh(t, f)
         /\ \A f : FreshOnce(s, f) => FreshOnce(t, f)
         /\ \A f : FreshOnceUnsub(s, f) => FreshOnceUnsub(t, f)
<1>1. PICK e \in [DOMAIN t -> DOMAIN s] :
        /\ \A i, j \in DOMAIN t : i < j => e[i] < e[j]
        /\ \A i \in DOMAIN t : t[i] = s[e[i]]
  BY DEF Thinned
<1>2. \A i \in DOMAIN t : e[i] \in DOMAIN s BY <1>1
<1>3. \A a : Never(s, a) => Never(t, a) BY <1>1, <1>2, Zenon DEF Never
<1>4. \A a, b : NeverAfter(s, a, b) => NeverAfter(t, a, b)
  BY <1>1, <1>2, Zenon DEF NeverAfter
<1>5. \A f : AllFresh(s, f) => AllFresh(t, f) BY <1>1, <1>2, Zenon DEF AllFresh
<1>6. \A f : FreshOnce(s, f) => FreshOnce(t, f)
  BY <1>1, <1>2, Zenon DEF FreshOnce
<1>7. \A f : FreshOnceUnsub(s, f) => FreshOnceUnsub(t, f)
  <2>1. SUFFICES ASSUME NEW f, FreshOnceUnsub(s, f), NEW k \in DOMAIN t,
                        NEW i \in DOMAIN t, NEW j \in DOMAIN t, k < i, i < j,
                        t[k].op = "unsub", Carries(t[i], f)
                 PROVE  Fresh(t[j], f)
    BY DEF FreshOnceUnsub
  <2>2. e[k] < e[i] /\ e[i] < e[j] BY <1>1, <2>1
  <2>3. s[e[k]].op = "unsub" /\ Carries(s[e[i]], f) BY <1>1, <2>1
  <2>4. Fresh(s[e[j]], f) BY <1>2, <2>1, <2>2, <2>3 DEF FreshOnceUnsub
  <2>5. QED BY <1>1, <2>4
<1>8. QED BY <1>3, <1>4, <1>5, <1>6, <1>7

LEMMA AppendKeeps ==
  ASSUME NEW s \in Seq(Requests), NEW m \in Requests
  PROVE  /\ \A a : Never(s, a) /\ m.op # a => Never(Append(s, m), a)
         /\ \A a, b : NeverAfter(s, a, b) /\ (Never(s, a) \/ m.op # b)
                      => NeverAfter(Append(s, m), a, b)
         /\ \A f : AllFresh(s, f) /\ Fresh(m, f) => AllFresh(Append(s, m), f)
         /\ \A f : FreshOnce(s, f) /\ Fresh(m, f) => FreshOnce(Append(s, m), f)
         /\ \A f : FreshOnceUnsub(s, f) /\ Fresh(m, f)
                      => FreshOnceUnsub(Append(s, m), f)
<1> DEFINE t == Append(s, m)
           n == Len(s)
<1>1. /\ n \in Nat /\ DOMAIN s = 1 .. n /\ DOMAIN t = 1 .. n + 1
      /\ \A i \in 1 .. n : t[i] = s[i]
      /\ t[n + 1] = m
  BY AppendProperties, LenProperties
<1> HIDE DEF t, n
<1>2. \A i \in DOMAIN t : i \in DOMAIN s \/ i = n + 1 BY <1>1
<1>3. \A i, j \in DOMAIN t : i < j => i \in DOMAIN s BY <1>1
<1>4. \A i \in DOMAIN s : t[i] = s[i] BY <1>1
<1>5. \A a : Never(s, a) /\ m.op # a => Never(t, a) BY <1>1, <1>2, <1>4 DEF Never
<1>6. \A a, b : NeverAfter(s, a, b) /\ (Never(s, a) \/ m.op # b) => NeverAfter(t, a, b)
  BY <1>1, <1>2, <1>3, <1>4, Zenon DEF Never, NeverAfter
<1>7. \A f : AllFresh(s, f) /\ Fresh(m, f) => AllFresh(t, f)
  BY <1>1, <1>2, <1>4, Zenon DEF AllFresh
<1>8. \A f : FreshOnce(s, f) /\ Fresh(m, f) => FreshOnce(t, f)
  BY <1>1, <1>2, <1>3, <1>4, Zenon DEF FreshOnce
<1>9. \A f : FreshOnceUnsub(s, f) /\ Fresh(m, f) => FreshOnceUnsub(t, f)
  BY <1>1, <1>2, <1>3, <1>4, Zenon DEF FreshOnceUnsub
<1>10. QED BY <1>5, <1>6, <1>7, <1>8, <1>9 DEF t

\* A filter nobody has sent yet, and the first UNSUB, leave everything in order.
LEMMA FirstOfItsKind ==
  ASSUME NEW s \in Seq(Requests), NEW f
  PROVE  /\ (\A i \in DOMAIN s : ~Carries(s[i], f)) =>
               FreshOnce(s, f) /\ FreshOnceUnsub(s, f)
         /\ \A m \in Requests :
              Never(s, "unsub") => FreshOnceUnsub(Append(s, m), f)
         /\ \A a, b : Never(s, a) => NeverAfter(s, a, b)
<1>1. (\A i \in DOMAIN s : ~Carries(s[i], f)) =>
        FreshOnce(s, f) /\ FreshOnceUnsub(s, f)
  BY DEF FreshOnce, FreshOnceUnsub
<1>2. ASSUME NEW m \in Requests, Never(s, "unsub")
      PROVE  FreshOnceUnsub(Append(s, m), f)
  <2> DEFINE t == Append(s, m)
  <2>1. /\ Len(s) \in Nat /\ DOMAIN s = 1 .. Len(s) /\ DOMAIN t = 1 .. Len(s) + 1
        /\ \A i \in 1 .. Len(s) : t[i] = s[i]
    BY AppendProperties, LenProperties
  <2>2. \A k, i \in DOMAIN t : k < i => t[k].op # "unsub"
    BY <1>2, <2>1 DEF Never
  <2>3. QED BY <2>2, Zenon DEF FreshOnceUnsub
<1>3. \A a, b : Never(s, a) => NeverAfter(s, a, b) BY DEF Never, NeverAfter
<1>4. QED BY <1>1, <1>2, <1>3

LEMMA TailKeeps ==
  ASSUME NEW s \in Seq(Requests), s # <<>>
  PROVE  /\ Thinned(Tail(s), s) /\ Tail(s) \in Seq(Requests)
         /\ \A b : NeverAfter(s, s[1].op, b) => Never(Tail(s), b)
         /\ \A f : FreshOnce(s, f) /\ Carries(s[1], f) => AllFresh(Tail(s), f)
         /\ \A f : FreshOnceUnsub(s, f) /\ s[1].op = "unsub" => FreshOnce(Tail(s), f)
<1> DEFINE t == Tail(s)
           n == Len(s)
           e == [i \in 1 .. n - 1 |-> i + 1]
<1>1. /\ n \in Nat /\ n # 0 /\ DOMAIN s = 1 .. n /\ DOMAIN t = 1 .. n - 1
      /\ \A i \in 1 .. n - 1 : t[i] = s[i + 1]
      /\ t \in Seq(Requests)
  BY HeadTailProperties, LenProperties, EmptySeq
<1> HIDE DEF t, n
<1>2. Thinned(t, s)
  <2>1. e \in [DOMAIN t -> DOMAIN s] BY <1>1
  <2>2. \A i, j \in DOMAIN t : i < j => e[i] < e[j] BY <1>1
  <2>3. \A i \in DOMAIN t : t[i] = s[e[i]] BY <1>1
  <2>4. QED BY <2>1, <2>2, <2>3, Zenon DEF Thinned
<1>3. 1 \in DOMAIN s /\ \A i \in DOMAIN t : i + 1 \in DOMAIN s /\ 1 < i + 1
  BY <1>1
<1>4. \A i \in DOMAIN t : t[i] = s[i + 1] BY <1>1
<1>5. \A i, j \in DOMAIN t : i < j => i + 1 < j + 1 BY <1>1
<1>6. \A b : NeverAfter(s, s[1].op, b) => Never(t, b)
  BY <1>3, <1>4, Zenon DEF NeverAfter, Never
<1>7. \A f : FreshOnce(s, f) /\ Carries(s[1], f) => AllFresh(t, f)
  BY <1>3, <1>4, Zenon DEF FreshOnce, AllFresh
<1>8. \A f : FreshOnceUnsub(s, f) /\ s[1].op = "unsub" => FreshOnce(t, f)
  BY <1>3, <1>4, <1>5, Zenon DEF FreshOnceUnsub, FreshOnce
<1>9. QED BY <1>1, <1>2, <1>6, <1>7, <1>8 DEF t

-----------------------------------------------------------------------------
LEMMA FlowType ==
  ASSUME NEW d \in Seq(Responses), NEW u \in Seq(Requests)
  PROVE  /\ Flow(d, u) \in Seq(Requests)
         /\ Len(d) \in Nat /\ Len(u) \in Nat
         /\ Len(Flow(d, u)) = Len(d) + Len(u)
         /\ DOMAIN Flow(d, u) = 1 .. Len(d) + Len(u)
         /\ \A i \in 1 .. Len(d) + Len(u) :
              Flow(d, u)[i] = IF i <= Len(d) THEN Request(d[i].op, d[i].filter)
                                             ELSE u[i - Len(d)]
<1> DEFINE n == Len(d) + Len(u)
<1>1. Len(d) \in Nat /\ Len(u) \in Nat BY LenProperties
<1>2. ASSUME NEW i \in 1 .. n
      PROVE  (IF i <= Len(d) THEN Request(d[i].op, d[i].filter) ELSE u[i - Len(d)])
               \in Requests
  <2>1. CASE i <= Len(d)
    <3>1. d[i] \in Responses BY <1>1, <2>1, ElementOfSeq
    <3>2. d[i].op \in Ops /\ d[i].filter \in FilterType BY <3>1 DEF Responses
    <3>3. QED BY <2>1, <3>2, MessageTypes
  <2>2. CASE ~(i <= Len(d))
    <3>1. i - Len(d) \in 1 .. Len(u) BY <1>1, <2>2
    <3>2. QED BY <2>2, <3>1, ElementOfSeq
  <2>3. QED BY <2>1, <2>2
<1>3. Flow(d, u) \in [1 .. n -> Requests] BY <1>2 DEF Flow
<1>4. Flow(d, u) \in Seq(Requests) BY <1>1, <1>3
<1>5. DOMAIN Flow(d, u) = 1 .. n BY DEF Flow
<1>6. n \in Nat BY <1>1
<1>7. Len(Flow(d, u)) = n BY <1>4, <1>5, <1>6
<1>8. QED BY <1>1, <1>4, <1>5, <1>7 DEF Flow

\* Sending a request.
LEMMA FlowSent ==
  ASSUME NEW d \in Seq(Responses), NEW u \in Seq(Requests), NEW m \in Requests
  PROVE  Flow(d, Append(u, m)) = Append(Flow(d, u), m)
<1> DEFINE v == Append(u, m)
           s == Flow(d, u)
           t == Flow(d, v)
<1>1. /\ v \in Seq(Requests) /\ Len(v) = Len(u) + 1
      /\ \A i \in 1 .. Len(u) : v[i] = u[i]
      /\ v[Len(u) + 1] = m
  BY AppendProperties
<1>2. /\ s \in Seq(Requests) /\ Len(s) = Len(d) + Len(u)
      /\ Len(d) \in Nat /\ Len(u) \in Nat
      /\ \A i \in 1 .. Len(d) + Len(u) :
           s[i] = IF i <= Len(d) THEN Request(d[i].op, d[i].filter) ELSE u[i - Len(d)]
  BY FlowType
<1>3. /\ t \in Seq(Requests) /\ Len(t) = Len(d) + Len(v)
      /\ \A i \in 1 .. Len(d) + Len(v) :
           t[i] = IF i <= Len(d) THEN Request(d[i].op, d[i].filter) ELSE v[i - Len(d)]
  BY <1>1, FlowType
<1> HIDE DEF s, t, v
<1> DEFINE w == Append(s, m)
<1>a. s \in Seq(Requests) BY <1>2
<1>4. /\ w \in Seq(Requests) /\ Len(w) = Len(s) + 1
      /\ \A i \in 1 .. Len(s) : w[i] = s[i]
      /\ w[Len(s) + 1] = m
  BY <1>a, AppendProperties
<1> HIDE DEF w
<1>5. Len(t) = Len(w) BY <1>1, <1>2, <1>3, <1>4
<1>6. ASSUME NEW i \in 1 .. Len(t) PROVE t[i] = w[i]
  <2>1. CASE i <= Len(d)
    <3>1. t[i] = Request(d[i].op, d[i].filter) BY <1>1, <1>2, <1>3, <2>1
    <3>2. i \in 1 .. Len(s) /\ s[i] = Request(d[i].op, d[i].filter)
      BY <1>2, <1>3, <1>1, <2>1
    <3>3. QED BY <1>4, <3>1, <3>2
  <2>2. CASE i > Len(d) /\ i <= Len(d) + Len(u)
    <3>1. i - Len(d) \in 1 .. Len(u) BY <1>2, <2>2
    <3>2. t[i] = v[i - Len(d)] BY <1>2, <1>3, <2>2
    <3>3. w[i] = u[i - Len(d)] BY <1>2, <1>4, <2>2
    <3>4. QED BY <1>1, <3>1, <3>2, <3>3
  <2>3. CASE i = Len(d) + Len(u) + 1
    <3>1. t[i] = v[i - Len(d)] /\ i - Len(d) = Len(u) + 1 BY <1>2, <1>3, <2>3
    <3>2. QED BY <1>1, <1>2, <1>4, <2>3, <3>1
  <2>4. QED BY <1>1, <1>2, <1>3, <2>1, <2>2, <2>3
<1>7. t = w BY <1>3, <1>4, <1>5, <1>6, SeqEqual
<1>8. QED BY <1>7 DEF t, w, s, v

\* Receiving an answer.
LEMMA FlowReceived ==
  ASSUME NEW d \in Seq(Responses), NEW u \in Seq(Requests), d # <<>>
  PROVE  /\ Flow(Tail(d), u) = Tail(Flow(d, u))
         /\ Flow(d, u) # <<>>
         /\ Flow(d, u)[1] = Request(d[1].op, d[1].filter)
<1> DEFINE s == Flow(d, u)
           b == Tail(d)
           t == Flow(b, u)
           w == Tail(s)
<1>1. /\ b \in Seq(Responses) /\ Len(b) = Len(d) - 1
      /\ \A i \in 1 .. Len(b) : b[i] = d[i + 1]
      /\ Len(d) # 0
  BY HeadTailProperties, EmptySeq
<1>2. /\ s \in Seq(Requests) /\ Len(s) = Len(d) + Len(u)
      /\ Len(d) \in Nat /\ Len(u) \in Nat
      /\ \A i \in 1 .. Len(d) + Len(u) :
           s[i] = IF i <= Len(d) THEN Request(d[i].op, d[i].filter) ELSE u[i - Len(d)]
  BY FlowType
<1>3. /\ t \in Seq(Requests) /\ Len(t) = Len(b) + Len(u)
      /\ \A i \in 1 .. Len(b) + Len(u) :
           t[i] = IF i <= Len(b) THEN Request(b[i].op, b[i].filter) ELSE u[i - Len(b)]
  BY <1>1, FlowType
<1> HIDE DEF s
<1>4. s # <<>> BY <1>1, <1>2, EmptySeq
<1>5. /\ w \in Seq(Requests) /\ Len(w) = Len(s) - 1
      /\ \A i \in 1 .. Len(w) : w[i] = s[i + 1]
  BY <1>2, <1>4, HeadTailProperties
<1> HIDE DEF t, b, w
<1>6. Len(t) = Len(w) BY <1>1, <1>2, <1>3, <1>5
<1>7. ASSUME NEW i \in 1 .. Len(t) PROVE t[i] = w[i]
  <2>1. CASE i <= Len(b)
    <3>1. b[i] = d[i + 1] /\ t[i] = Request(b[i].op, b[i].filter)
      BY <1>1, <1>2, <1>3, <2>1
    <3>2. w[i] = Request(d[i + 1].op, d[i + 1].filter)
      BY <1>1, <1>2, <1>3, <1>5, <1>6, <2>1
    <3>3. QED BY <3>1, <3>2
  <2>2. CASE i > Len(b)
    <3>1. i \in 1 .. Len(b) + Len(u) /\ ~(i <= Len(b)) BY <1>1, <1>2, <1>3, <2>2
    <3>5. t[i] = u[i - Len(b)] BY <1>3, <3>1
    <3>2. w[i] = u[(i + 1) - Len(d)] BY <1>1, <1>2, <1>3, <1>5, <1>6, <2>2
    <3>3. i - Len(b) = (i + 1) - Len(d) BY <1>1, <1>2, <1>3
    <3>4. QED BY <3>2, <3>3, <3>5
  <2>3. QED BY <1>1, <1>2, <1>3, <2>1, <2>2
<1>8. t = w BY <1>3, <1>5, <1>6, <1>7, SeqEqual
<1>9. s[1] = Request(d[1].op, d[1].filter) BY <1>1, <1>2
<1>10. QED BY <1>4, <1>8, <1>9 DEF t, w, s, b

\* The server takes a request, and answers it or not.
LEMMA FlowHandled ==
  ASSUME NEW d \in Seq(Responses), NEW u \in Seq(Requests), u # <<>>
  PROVE  /\ \A ok \in BOOLEAN :
              Flow(Append(d, Response(u[1].op, ok, u[1].filter)), Tail(u)) = Flow(d, u)
         /\ Thinned(Flow(d, Tail(u)), Flow(d, u))
<1> DEFINE s == Flow(d, u)
           v == Tail(u)
<1>1. /\ v \in Seq(Requests) /\ Len(v) = Len(u) - 1
      /\ \A i \in 1 .. Len(v) : v[i] = u[i + 1]
      /\ Len(u) # 0
  BY HeadTailProperties, EmptySeq
<1>2. /\ s \in Seq(Requests) /\ Len(s) = Len(d) + Len(u)
      /\ Len(d) \in Nat /\ Len(u) \in Nat
      /\ DOMAIN s = 1 .. Len(d) + Len(u)
      /\ \A i \in 1 .. Len(d) + Len(u) :
           s[i] = IF i <= Len(d) THEN Request(d[i].op, d[i].filter) ELSE u[i - Len(d)]
  BY FlowType
<1>3. u[1] \in Requests BY <1>1, <1>2, ElementOfSeq
<1> HIDE DEF s, v
<1>4. ASSUME NEW ok \in BOOLEAN
      PROVE  Flow(Append(d, Response(u[1].op, ok, u[1].filter)), v) = s
  <2> DEFINE r == Response(u[1].op, ok, u[1].filter)
             c == Append(d, r)
             t == Flow(c, v)
  <2>1. r \in Responses BY <1>3, MessageTypes DEF Requests
  <2>2. Request(r.op, r.filter) = u[1] BY <1>3 DEF Response, Request, Requests
  <2> HIDE DEF r
  <2>3. /\ c \in Seq(Responses) /\ Len(c) = Len(d) + 1
        /\ \A i \in 1 .. Len(d) : c[i] = d[i]
        /\ c[Len(d) + 1] = r
    BY <2>1, AppendProperties
  <2> HIDE DEF c
  <2>4. /\ t \in Seq(Requests) /\ Len(t) = Len(c) + Len(v)
        /\ \A i \in 1 .. Len(c) + Len(v) :
             t[i] = IF i <= Len(c) THEN Request(c[i].op, c[i].filter) ELSE v[i - Len(c)]
    BY <1>1, <2>3, FlowType
  <2> HIDE DEF t
  <2>5. Len(t) = Len(s) BY <1>1, <1>2, <2>3, <2>4
  <2>6. ASSUME NEW i \in 1 .. Len(t) PROVE t[i] = s[i]
    <3>1. CASE i <= Len(d)
      <4>1. t[i] = Request(c[i].op, c[i].filter) /\ c[i] = d[i]
        BY <1>1, <1>2, <2>3, <2>4, <3>1
      <4>2. s[i] = Request(d[i].op, d[i].filter) BY <1>2, <2>5, <3>1
      <4>3. QED BY <4>1, <4>2
    <3>2. CASE i = Len(d) + 1
      <4>1. t[i] = Request(c[i].op, c[i].filter) /\ c[i] = r
        BY <1>1, <1>2, <2>3, <2>4, <3>2
      <4>2. s[i] = u[1] BY <1>1, <1>2, <2>5, <3>2
      <4>3. QED BY <2>2, <4>1, <4>2
    <3>3. CASE i > Len(d) + 1
      <4>1. t[i] = v[i - Len(c)] BY <1>1, <1>2, <2>3, <2>4, <3>3
      <4>2. i - Len(c) \in 1 .. Len(v) BY <1>1, <1>2, <2>3, <2>4, <3>3
      <4>3. v[i - Len(c)] = u[(i - Len(c)) + 1] BY <1>1, <4>2
      <4>4. s[i] = u[i - Len(d)] BY <1>2, <2>5, <3>3
      <4>5. (i - Len(c)) + 1 = i - Len(d) BY <1>2, <2>3
      <4>6. QED BY <4>1, <4>3, <4>4, <4>5
    <3>4. QED BY <1>2, <2>3, <2>4, <3>1, <3>2, <3>3
  <2>7. t = s BY <1>2, <2>4, <2>5, <2>6, SeqEqual
  <2>8. QED BY <2>7 DEF t, c, r
<1>5. Thinned(Flow(d, v), s)
  <2> DEFINE t == Flow(d, v)
             e == [i \in 1 .. Len(d) + Len(v) |-> IF i <= Len(d) THEN i ELSE i + 1]
  <2>1. /\ DOMAIN t = 1 .. Len(d) + Len(v)
        /\ \A i \in 1 .. Len(d) + Len(v) :
             t[i] = IF i <= Len(d) THEN Request(d[i].op, d[i].filter) ELSE v[i - Len(d)]
    BY <1>1, FlowType
  <2> HIDE DEF t
  <2>2. e \in [DOMAIN t -> DOMAIN s] BY <1>1, <1>2, <2>1
  <2>3. \A i, j \in DOMAIN t : i < j => e[i] < e[j] BY <1>1, <1>2, <2>1
  <2>4. ASSUME NEW i \in DOMAIN t PROVE t[i] = s[e[i]]
    <3>1. CASE i <= Len(d) BY <1>1, <1>2, <2>1, <3>1
    <3>2. CASE i > Len(d)
      <4>1. i - Len(d) \in 1 .. Len(v) BY <1>1, <1>2, <2>1, <3>2
      <4>2. t[i] = v[i - Len(d)] BY <1>1, <1>2, <2>1, <3>2
      <4>7. v[i - Len(d)] = u[(i - Len(d)) + 1] BY <1>1, <4>1
      <4>3. e[i] = i + 1 /\ i + 1 \in 1 .. Len(d) + Len(u)
        BY <1>1, <1>2, <2>1, <3>2
      <4>4. s[i + 1] = u[(i + 1) - Len(d)] BY <1>2, <3>2, <4>3, <2>1
      <4>5. (i - Len(d)) + 1 = (i + 1) - Len(d) BY <1>2, <2>1
      <4>6. QED BY <4>2, <4>3, <4>4, <4>5, <4>7
    <3>3. QED BY <1>1, <1>2, <2>1, <3>1, <3>2
  <2> HIDE DEF e
  <2>5. QED BY <2>2, <2>3, <2>4, Zenon DEF Thinned, t
<1>6. QED BY <1>4, <1>5 DEF s, v

-----------------------------------------------------------------------------
(***************************************************************************)
(* What the client knows of the messages in flight, from what is pending   *)
(* and confirmed: while it is subscribed no UNSUB is under way, while it   *)
(* is not no SUB is, except for the requests it waits for; and a filter is *)
(* only ever followed by newer ones.                                       *)
(***************************************************************************)
Ordered(s, p, c, f) ==
  /\ p["unsub"] # Absent => NeverAfter(s, "unsub", "sub") /\ FreshOnceUnsub(s, f)
  /\ c /\ p["unsub"] = Absent => Never(s, "unsub")
  /\ p["sub"] # Absent => NeverAfter(s, "sub", "unsub")
  /\ ~c /\ p["sub"] = Absent => Never(s, "sub")
  /\ p["unsub"] = Absent => FreshOnce(s, f)
  /\ c /\ p["unsub"] = Absent /\ p["filter"] = Absent => AllFresh(s, f)

\* What the server has served, from its last answer or, if there is none under way,
\* from what the client knows.
Served(r) == IF r.op = "unsub" THEN Off ELSE r.filter
Answers(d, p, c, f, v) ==
  /\ d = <<>> => (c <=> v # Off)
  /\ d # <<>> => v = Served(d[Len(d)]) /\ (d[1].op = "filter" => c)
  /\ \A i \in 2 .. Len(d) : d[i].op = "filter" => d[i - 1].op # "unsub"
  /\ c /\ p["unsub"] = Absent /\ p["filter"] = Absent => v = f

Clean == ~lost /\ \A i \in 1 .. Len(down) : down[i].ok

\* A subscription is confirmed or being asked for, or being given back; nothing is
\* sent or served without an open socket.
Alone ==
  /\ Pending("sub") => ~confirmed
  /\ Pending("unsub") => confirmed
  /\ socket # "open" => up = <<>> /\ down = <<>> /\ served = Off
  /\ socket \in {"null", "connecting"} => ~confirmed

ViewInv ==
  /\ Alone
  /\ socket = "open" /\ Clean =>
       /\ Ordered(Flow(down, up), pend, confirmed, kvFilter)
       /\ Answers(down, pend, confirmed, kvFilter, served)

LEMMA OrderedThinned ==
  ASSUME NEW s, NEW t, NEW p, NEW c, NEW f, Ordered(s, p, c, f), Thinned(t, s)
  PROVE  Ordered(t, p, c, f)
BY ThinnedKeeps, Zenon DEF Ordered

\* The same kinds of requests are pending.
SamePending(p, q) == \A op \in Ops : (p[op] = Absent) <=> (q[op] = Absent)

LEMMA OrderedSame ==
  ASSUME NEW s, NEW p, NEW q, NEW c, NEW f, NEW d, NEW v, SamePending(p, q)
  PROVE  /\ Ordered(s, p, c, f) => Ordered(s, q, c, f)
         /\ Answers(d, p, c, f, v) => Answers(d, q, c, f, v)
<1>1. /\ (p["sub"] = Absent) <=> (q["sub"] = Absent)
      /\ (p["unsub"] = Absent) <=> (q["unsub"] = Absent)
      /\ (p["filter"] = Absent) <=> (q["filter"] = Absent)
  BY DEF SamePending, Ops
<1>2. Ordered(s, p, c, f) => Ordered(s, q, c, f) BY <1>1, Zenon DEF Ordered
<1>3. Answers(d, p, c, f, v) => Answers(d, q, c, f, v) BY <1>1, Zenon DEF Answers
<1>4. QED BY <1>2, <1>3

LEMMA OrderedEmpty ==
  ASSUME NEW p, NEW c, NEW f
  PROVE  Ordered(Flow(<<>>, <<>>), p, c, f)
<1>1. DOMAIN Flow(<<>>, <<>>) = {}
  <2>1. Len(<<>>) = 0 OBVIOUS
  <2>2. DOMAIN Flow(<<>>, <<>>) = 1 .. Len(<<>>) + Len(<<>>) BY DEF Flow
  <2>3. QED BY <2>1, <2>2
<1>2. QED
  BY <1>1 DEF Ordered, Never, NeverAfter, FreshOnce, FreshOnceUnsub, AllFresh

\* SUB is sent.
LEMMA OrderedSub ==
  ASSUME NEW s \in Seq(Requests), NEW f \in FilterType, NEW p, NEW q,
         Ordered(s, p, FALSE, f), q["sub"] # Absent,
         p["unsub"] = Absent, q["unsub"] = Absent
  PROVE  Ordered(Append(s, Request("sub", f)), q, FALSE, f)
<1> DEFINE m == Request("sub", f)
<1>1. m \in Requests /\ m.op = "sub" /\ Fresh(m, f) /\ m.op # "unsub"
  BY MessageTypes DEF Request, Fresh
<1>2. FreshOnce(s, f) BY Zenon DEF Ordered
<1>3. NeverAfter(s, "sub", "unsub")
  <2>1. CASE p["sub"] = Absent
    <3>1. Never(s, "sub") BY <2>1, Zenon DEF Ordered
    <3>2. QED BY <3>1, FirstOfItsKind
  <2>2. CASE p["sub"] # Absent BY <2>2, Zenon DEF Ordered
  <2>3. QED BY <2>1, <2>2
<1> HIDE DEF m
<1>4. FreshOnce(Append(s, m), f) /\ NeverAfter(Append(s, m), "sub", "unsub")
  BY <1>1, <1>2, <1>3, AppendKeeps
<1>5. Ordered(Append(s, m), q, FALSE, f) BY <1>4, Zenon DEF Ordered
<1>6. QED BY <1>5 DEF m

\* UNSUB is sent, for a confirmed subscription.
LEMMA OrderedUnsub ==
  ASSUME NEW s \in Seq(Requests), NEW f, NEW g, NEW p, NEW q,
         Ordered(s, p, TRUE, f), p["unsub"] = Absent,
         q["unsub"] # Absent, q["sub"] = Absent
  PROVE  Ordered(Append(s, Request("unsub", NoFilter)), q, TRUE, g)
<1> DEFINE m == Request("unsub", NoFilter)
<1>1. m \in Requests /\ m.op # "sub" BY MessageTypes DEF Request
<1>2. Never(s, "unsub") BY Zenon DEF Ordered
<1> HIDE DEF m
<1>3. FreshOnceUnsub(Append(s, m), g) BY <1>1, <1>2, FirstOfItsKind
<1>4. NeverAfter(s, "unsub", "sub") BY <1>2, FirstOfItsKind
<1>5. NeverAfter(Append(s, m), "unsub", "sub") BY <1>1, <1>4, AppendKeeps
<1>6. Ordered(Append(s, m), q, TRUE, g) BY <1>3, <1>5, Zenon DEF Ordered
<1>7. QED BY <1>6 DEF m

\* A request that is pending is sent again.
LEMMA OrderedRetry ==
  ASSUME NEW s \in Seq(Requests), NEW f \in FilterType, NEW p, NEW c, NEW op \in Ops,
         Ordered(s, p, c, f), p[op] # Absent,
         p["sub"] # Absent => ~c, p["unsub"] # Absent => c
  PROVE  Ordered(Append(s, Request(op, IF op = "unsub" THEN NoFilter ELSE f)), p, c, f)
<1> DEFINE m == Request(op, IF op = "unsub" THEN NoFilter ELSE f)
<1>1. m \in Requests /\ m.op = op /\ Fresh(m, f)
  BY MessageTypes DEF Request, Fresh
<1>2. op = "sub" \/ op = "unsub" \/ op = "filter" BY DEF Ops
<1> HIDE DEF m
<1>3. p["unsub"] # Absent =>
        NeverAfter(Append(s, m), "unsub", "sub") /\ FreshOnceUnsub(Append(s, m), f)
  <2>1. SUFFICES ASSUME p["unsub"] # Absent
                 PROVE  NeverAfter(Append(s, m), "unsub", "sub")
                        /\ FreshOnceUnsub(Append(s, m), f)
    OBVIOUS
  <2>2. NeverAfter(s, "unsub", "sub") /\ FreshOnceUnsub(s, f)
    BY <2>1, Zenon DEF Ordered
  <2>3. op # "sub" BY <2>1
  <2>4. QED BY <1>1, <2>2, <2>3, AppendKeeps
<1>4. c /\ p["unsub"] = Absent => Never(Append(s, m), "unsub")
  <2>1. SUFFICES ASSUME c, p["unsub"] = Absent PROVE Never(Append(s, m), "unsub")
    OBVIOUS
  <2>2. Never(s, "unsub") BY <2>1, Zenon DEF Ordered
  <2>3. op # "unsub" BY <2>1
  <2>4. QED BY <1>1, <2>2, <2>3, AppendKeeps
<1>5. p["sub"] # Absent => NeverAfter(Append(s, m), "sub", "unsub")
  <2>1. SUFFICES ASSUME p["sub"] # Absent
                 PROVE  NeverAfter(Append(s, m), "sub", "unsub")
    OBVIOUS
  <2>2. NeverAfter(s, "sub", "unsub") BY <2>1, Zenon DEF Ordered
  <2>3. op # "unsub" BY <2>1
  <2>4. QED BY <1>1, <2>2, <2>3, AppendKeeps
<1>6. ~c /\ p["sub"] = Absent => Never(Append(s, m), "sub")
  <2>1. SUFFICES ASSUME ~c, p["sub"] = Absent PROVE Never(Append(s, m), "sub")
    OBVIOUS
  <2>2. Never(s, "sub") BY <2>1, Zenon DEF Ordered
  <2>3. op # "sub" BY <2>1
  <2>4. QED BY <1>1, <2>2, <2>3, AppendKeeps
<1>7. p["unsub"] = Absent => FreshOnce(Append(s, m), f)
  BY <1>1, AppendKeeps DEF Ordered
<1>8. c /\ p["unsub"] = Absent /\ p["filter"] = Absent => AllFresh(Append(s, m), f)
  BY <1>1, AppendKeeps DEF Ordered
<1>9. Ordered(Append(s, m), p, c, f)
  BY <1>3, <1>4, <1>5, <1>6, <1>7, <1>8, Zenon DEF Ordered
<1>10. QED BY <1>9 DEF m

\* Another filter is set, which no message carries.
LEMMA OrderedFilter ==
  ASSUME NEW s \in Seq(Requests), NEW f, NEW g \in FilterType, NEW p, NEW q, NEW c,
         Ordered(s, p, c, f), \A i \in DOMAIN s : ~Carries(s[i], g),
         q["sub"] = p["sub"], q["unsub"] = p["unsub"]
  PROVE  /\ q["filter"] # Absent => Ordered(Append(s, Request("filter", g)), q, c, g)
         /\ ~c \/ p["unsub"] # Absent => Ordered(s, q, c, g)
<1>1. FreshOnce(s, g) /\ FreshOnceUnsub(s, g) BY FirstOfItsKind
<1>2. ~c \/ p["unsub"] # Absent => Ordered(s, q, c, g) BY <1>1, Zenon DEF Ordered
<1> DEFINE m == Request("filter", g)
           t == Append(s, m)
<1>3. m \in Requests /\ m.op = "filter" /\ Fresh(m, g)
  BY MessageTypes DEF Request, Fresh
<1> HIDE DEF m
<1>4. /\ FreshOnce(t, g) /\ FreshOnceUnsub(t, g)
      /\ NeverAfter(s, "unsub", "sub") => NeverAfter(t, "unsub", "sub")
      /\ NeverAfter(s, "sub", "unsub") => NeverAfter(t, "sub", "unsub")
      /\ Never(s, "unsub") => Never(t, "unsub")
      /\ Never(s, "sub") => Never(t, "sub")
  BY <1>1, <1>3, AppendKeeps
<1> HIDE DEF t
<1>5. q["filter"] # Absent => Ordered(t, q, c, g) BY <1>4, Zenon DEF Ordered
<1>6. QED BY <1>2, <1>5 DEF t, m

\* The server handles a request and answers OK.
LEMMA AnswersHandled ==
  ASSUME NEW d \in Seq(Responses), NEW u \in Seq(Requests), u # <<>>,
         NEW p, NEW c \in BOOLEAN, NEW f, NEW v,
         Ordered(Flow(d, u), p, c, f), Answers(d, p, c, f, v),
         u[1].op = "filter" => v # Off
  PROVE  LET r == Response(u[1].op, TRUE, u[1].filter)
         IN Answers(Append(d, r), p, c, f, Served(r))
<1> DEFINE r == Response(u[1].op, TRUE, u[1].filter)
           e == Append(d, r)
<1>1. Len(u) # 0 /\ Len(u) \in Nat /\ Len(d) \in Nat BY EmptySeq, LenProperties
<1>2. u[1] \in Requests BY <1>1, ElementOfSeq
<1>3. r \in Responses /\ r.op = u[1].op /\ r.filter = u[1].filter
  BY <1>2, MessageTypes DEF Requests, Response
<1> HIDE DEF r
<1>4. /\ e # <<>> /\ Len(e) = Len(d) + 1 /\ e[Len(d) + 1] = r
      /\ \A i \in 1 .. Len(d) : e[i] = d[i]
  BY <1>3, AppendProperties
<1> HIDE DEF e
<1>5. Len(d) = 0 => d = <<>> BY EmptySeq
<1>6. d # <<>> => Len(d) \in 1 .. Len(d) BY <1>1, <1>5
<1>7. e[1].op = "filter" => c
  <2>1. CASE d = <<>>
    <3>1. e[1] = r BY <1>4, <2>1, EmptySeq
    <3>2. c <=> v # Off BY <2>1 DEF Answers
    <3>3. QED BY <1>3, <3>1, <3>2
  <2>2. CASE d # <<>>
    <3>1. e[1] = d[1] BY <1>1, <1>4, <1>6, <2>2
    <3>2. QED BY <2>2, <3>1 DEF Answers
  <2>3. QED BY <2>1, <2>2
<1>8. ASSUME NEW i \in 2 .. Len(e), e[i].op = "filter" PROVE e[i - 1].op # "unsub"
  <2>1. CASE i <= Len(d)
    <3>1. i \in 2 .. Len(d) /\ i - 1 \in 1 .. Len(d) BY <1>1, <2>1
    <3>2. e[i] = d[i] /\ e[i - 1] = d[i - 1] BY <1>1, <1>4, <3>1
    <3>3. QED BY <1>8, <3>1, <3>2 DEF Answers
  <2>2. CASE i = Len(d) + 1
    <3>1. e[i - 1] = d[Len(d)] /\ d # <<>> BY <1>1, <1>4, <2>2, EmptySeq
    <3>2. v # Off BY <1>3, <1>4, <1>8, <2>2
    <3>3. v = Served(d[Len(d)]) BY <3>1 DEF Answers
    <3>4. QED BY <3>1, <3>2, <3>3 DEF Served
  <2>3. QED BY <1>1, <1>4, <2>1, <2>2
<1>9. ASSUME c, p["unsub"] = Absent, p["filter"] = Absent PROVE Served(r) = f
  <2> DEFINE s == Flow(d, u)
  <2>1. Never(s, "unsub") /\ AllFresh(s, f) BY <1>9, Zenon DEF Ordered
  <2>2. Len(d) + 1 \in DOMAIN s /\ s[Len(d) + 1] = u[1]
    BY <1>1, FlowType
  <2> HIDE DEF s
  <2>3. u[1].op # "unsub" /\ Fresh(u[1], f) BY <2>1, <2>2 DEF Never, AllFresh
  <2>4. QED BY <1>3, <2>3 DEF Served, Fresh
<1>10. e[Len(e)] = r BY <1>4
<1>11. Answers(e, p, c, f, Served(r))
  BY <1>4, <1>7, <1>8, <1>9, <1>10, Zenon DEF Answers
<1>12. QED BY <1>11 DEF e, r

\* What is left of the answers once the first was received, for the client as it is
\* then: q, b.
LEMMA AnswersReceived ==
  ASSUME NEW d \in Seq(Responses), NEW u \in Seq(Requests), d # <<>>, Off \notin FilterType,
         NEW p, NEW c \in BOOLEAN, NEW f, NEW v, Answers(d, p, c, f, v),
         NEW q, NEW b \in BOOLEAN,
         d[1].op = "sub" => b, d[1].op = "unsub" => ~b, d[1].op = "filter" => (b <=> c),
         b /\ q["unsub"] = Absent /\ q["filter"] = Absent =>
           \/ c /\ p["unsub"] = Absent /\ p["filter"] = Absent
           \/ /\ Carries(d[1], f)
              /\ AllFresh(Flow(Tail(d), u), f) /\ Never(Flow(Tail(d), u), "unsub")
  PROVE  Answers(Tail(d), q, b, f, v)
<1> DEFINE t == Tail(d)
<1>1. /\ t \in Seq(Responses) /\ Len(t) = Len(d) - 1 /\ Len(d) \in Nat /\ Len(d) # 0
      /\ \A i \in 1 .. Len(t) : t[i] = d[i + 1]
      /\ t # <<>> => Len(t) # 0
      /\ t = <<>> => Len(t) = 0
  BY HeadTailProperties, EmptySeq, LenProperties
<1> HIDE DEF t
<1>2. d[1] \in Responses BY <1>1, ElementOfSeq
<1>3. d[1].op \in {"sub", "unsub", "filter"} /\ d[1].filter # Off
  BY <1>2 DEF Responses, Ops
<1>4. v = Served(d[Len(d)]) /\ (d[1].op = "filter" => c) BY DEF Answers
<1>5. t = <<>> => (b <=> v # Off)
  <2>1. SUFFICES ASSUME t = <<>> PROVE b <=> v # Off OBVIOUS
  <2>2. Len(d) = 1 BY <1>1, <2>1
  <2>3. v = Served(d[1]) BY <1>4, <2>2
  <2>4. QED BY <1>3, <1>4, <2>3 DEF Served
<1>6. t # <<>> => v = Served(t[Len(t)])
  <2>1. SUFFICES ASSUME t # <<>> PROVE v = Served(t[Len(t)]) OBVIOUS
  <2>2. Len(t) \in 1 .. Len(t) /\ Len(t) + 1 = Len(d) BY <1>1, <2>1
  <2>3. QED BY <1>1, <1>4, <2>2
<1>7. t # <<>> => (t[1].op = "filter" => b)
  <2>1. SUFFICES ASSUME t # <<>>, t[1].op = "filter" PROVE b OBVIOUS
  <2>2. 2 \in 2 .. Len(d) /\ t[1] = d[2] BY <1>1, <2>1
  <2>3. d[1].op # "unsub" BY <2>1, <2>2 DEF Answers
  <2>4. QED BY <1>3, <1>4, <2>3
<1>8. ASSUME NEW i \in 2 .. Len(t), t[i].op = "filter" PROVE t[i - 1].op # "unsub"
  <2>1. i + 1 \in 2 .. Len(d) /\ t[i] = d[i + 1] /\ t[i - 1] = d[(i + 1) - 1]
    BY <1>1
  <2>2. QED BY <1>8, <2>1 DEF Answers
<1>9. ASSUME b, q["unsub"] = Absent, q["filter"] = Absent PROVE v = f
  <2>1. CASE c /\ p["unsub"] = Absent /\ p["filter"] = Absent BY <2>1 DEF Answers
  <2>2. CASE Carries(d[1], f) /\ AllFresh(Flow(t, u), f) /\ Never(Flow(t, u), "unsub")
    <3>1. CASE t = <<>>
      <4>3. Len(d) = 1 BY <1>1, <3>1
      <4>1. v = Served(d[1]) BY <1>4, <4>3
      <4>2. QED BY <2>2, <4>1 DEF Served, Carries
    <3>2. CASE t # <<>>
      <4> DEFINE s == Flow(t, u)
                 n == Len(t)
      <4>0. /\ Len(t) \in Nat /\ Len(u) \in Nat
            /\ DOMAIN s = 1 .. Len(t) + Len(u)
            /\ \A i \in 1 .. Len(t) + Len(u) :
                 s[i] = IF i <= Len(t) THEN Request(t[i].op, t[i].filter)
                                       ELSE u[i - Len(t)]
        BY <1>1, FlowType
      <4> HIDE DEF s
      <4>1. n \in DOMAIN s /\ s[n] = Request(t[n].op, t[n].filter)
        BY <1>1, <3>2, <4>0
      <4> HIDE DEF n
      <4>2. s[n].op = t[n].op /\ s[n].filter = t[n].filter BY <4>1 DEF Request
      <4>3. s[n].op # "unsub" /\ Fresh(s[n], f)
        BY <2>2, <4>1, Zenon DEF AllFresh, Never, s
      <4>4. Served(t[n]) = f BY <4>2, <4>3 DEF Served, Fresh
      <4>5. QED BY <1>6, <3>2, <4>4 DEF n
    <3>3. QED BY <3>1, <3>2
  <2>3. QED BY <1>9, <2>1, <2>2 DEF t
<1>10. Answers(t, q, b, f, v)
  BY <1>5, <1>6, <1>7, <1>8, <1>9, Zenon DEF Answers
<1>11. QED BY <1>10 DEF t

\* The OK of a pending SUB, with the filter that is set, or with an older one.
LEMMA OrderedSubOk ==
  ASSUME NEW s \in Seq(Requests), s # <<>>, s[1].op = "sub", NEW f \in FilterType,
         NEW p, NEW q, Ordered(s, p, FALSE, f), p["sub"] # Absent, p["unsub"] = Absent,
         q["sub"] = Absent, q["unsub"] = Absent
  PROVE  /\ Never(Tail(s), "unsub")
         /\ s[1].filter = f => AllFresh(Tail(s), f) /\ Ordered(Tail(s), q, TRUE, f)
         /\ q["filter"] # Absent =>
              Ordered(Append(Tail(s), Request("filter", f)), q, TRUE, f)
<1> DEFINE t == Tail(s)
           m == Request("filter", f)
<1>1. Thinned(t, s) /\ t \in Seq(Requests) BY TailKeeps
<1>2. FreshOnce(s, f) /\ NeverAfter(s, "sub", "unsub") BY Zenon DEF Ordered
<1>3. FreshOnce(t, f) BY <1>1, <1>2, ThinnedKeeps
<1>4. Never(t, "unsub") BY <1>2, TailKeeps
<1>5. s[1].filter = f => AllFresh(t, f) BY <1>2, TailKeeps DEF Carries
<1>6. m \in Requests /\ m.op = "filter" /\ Fresh(m, f)
  BY MessageTypes DEF Request, Fresh
<1> HIDE DEF t, m
<1>7. s[1].filter = f => Ordered(t, q, TRUE, f)
  BY <1>3, <1>4, <1>5, Zenon DEF Ordered
<1>8. FreshOnce(Append(t, m), f) /\ Never(Append(t, m), "unsub")
  BY <1>1, <1>3, <1>4, <1>6, AppendKeeps
<1>9. q["filter"] # Absent => Ordered(Append(t, m), q, TRUE, f)
  BY <1>8, Zenon DEF Ordered
<1>10. QED BY <1>4, <1>5, <1>7, <1>9 DEF t, m

\* The OK of a pending UNSUB.
LEMMA OrderedUnsubOk ==
  ASSUME NEW s \in Seq(Requests), s # <<>>, s[1].op = "unsub", NEW f,
         NEW p, NEW q, Ordered(s, p, TRUE, f), p["unsub"] # Absent,
         q["sub"] = Absent, q["unsub"] = Absent
  PROVE  Ordered(Tail(s), q, FALSE, f)
<1>1. NeverAfter(s, "unsub", "sub") /\ FreshOnceUnsub(s, f) BY Zenon DEF Ordered
<1>2. Never(Tail(s), "sub") /\ FreshOnce(Tail(s), f) BY <1>1, TailKeeps
<1>3. QED BY <1>2, Zenon DEF Ordered

\* The OK of a pending filter request, for the filter that is set.
LEMMA OrderedFilterOk ==
  ASSUME NEW s \in Seq(Requests), s # <<>>, NEW f, Carries(s[1], f),
         NEW p, NEW q, NEW c, Ordered(s, p, c, f),
         q["sub"] = p["sub"], q["unsub"] = p["unsub"]
  PROVE  /\ Ordered(Tail(s), q, c, f)
         /\ c /\ p["unsub"] = Absent => AllFresh(Tail(s), f) /\ Never(Tail(s), "unsub")
<1>1. Thinned(Tail(s), s) BY TailKeeps
<1>2. Ordered(Tail(s), p, c, f) BY <1>1, OrderedThinned
<1>3. c /\ p["unsub"] = Absent => AllFresh(Tail(s), f) /\ Never(Tail(s), "unsub")
  <2>1. p["unsub"] = Absent => AllFresh(Tail(s), f) BY TailKeeps DEF Ordered
  <2>2. c /\ p["unsub"] = Absent => Never(Tail(s), "unsub") BY <1>2, Zenon DEF Ordered
  <2>3. QED BY <2>1, <2>2
<1>4. Ordered(Tail(s), q, c, f) BY <1>2, <1>3, Zenon DEF Ordered
<1>5. QED BY <1>3, <1>4

\* An OK for what is not pending: it tells the client nothing new.
LEMMA OrderedLate ==
  ASSUME NEW s \in Seq(Requests), s # <<>>, NEW f, NEW p, NEW c, Ordered(s, p, c, f)
  PROVE  /\ Ordered(Tail(s), p, c, f)
         /\ s[1].op = "sub" /\ p["sub"] = Absent => c
         /\ s[1].op = "unsub" /\ p["unsub"] = Absent => ~c
<1>1. Thinned(Tail(s), s) BY TailKeeps
<1>2. Ordered(Tail(s), p, c, f) BY <1>1, OrderedThinned
<1>3. 1 \in DOMAIN s BY EmptySeq, LenProperties
<1>4. s[1].op = "sub" /\ p["sub"] = Absent => c BY <1>3, Zenon DEF Ordered, Never
<1>5. s[1].op = "unsub" /\ p["unsub"] = Absent => ~c BY <1>3, Zenon DEF Ordered, Never
<1>6. QED BY <1>2, <1>4, <1>5

-----------------------------------------------------------------------------
\* What is pending excludes confirmed, or needs it, whatever happens.
LEMMA AloneNext == Inv /\ Alone /\ [Next]_vars => Alone'
<1> SUFFICES ASSUME Inv, Alone, [Next]_vars PROVE Alone' OBVIOUS
<1> USE DEF Alone, Pending
<1>0. /\ TypeOK /\ SubTypes /\ pend \in PendType /\ confirmed \in BOOLEAN
      /\ "sub" \in Ops /\ "unsub" \in Ops /\ "filter" \in Ops
  BY SubTypesInv DEF Inv, SubTypes, Ops
<1>1. CASE UNCHANGED <<subVars, netVars, socket>>
  BY <1>1 DEF subVars, netVars
<1>2. ASSUME NEW op \in Ops, NEW f, NEW p \in PendType, RunWithRetry(op, f, p)
      PROVE  socket # "open" => up' = up
  BY <1>2 DEF RunWithRetry
<1>3. ASSUME Update(TRUE) \/ Update(FALSE) \/ Update(wanted), UNCHANGED <<connVars, down, served>>
      PROVE  Alone'
  <2>1. CASE UNCHANGED <<subVars, up>> BY <1>3, <2>1 DEF subVars, connVars
  <2>2. CASE Sub /\ ~confirmed /\ ~Pending("sub")
    <3>1. [pend EXCEPT !["unsub"] = Absent] \in PendType BY <1>0, PendTypes
    <3>2. pend'["unsub"] = Absent
      BY <1>0, <2>2, <3>1, RunWithRetryPend DEF Sub, PendType
    <3>3. confirmed' = confirmed /\ (socket # "open" => up' = up)
      BY <1>0, <1>2, <2>2, <3>1 DEF Sub
    <3>4. QED BY <1>3, <2>2, <3>2, <3>3 DEF connVars
  <2>3. CASE Unsub /\ confirmed /\ ~Pending("unsub")
    <3>1. [pend EXCEPT !["sub"] = Absent] \in PendType BY <1>0, PendTypes
    <3>2. pend'["sub"] = Absent
      BY <1>0, <2>3, <3>1, RunWithRetryPend DEF Unsub, PendType
    <3>3. confirmed' = confirmed /\ (socket # "open" => up' = up)
      BY <1>0, <1>2, <2>3, <3>1 DEF Unsub
    <3>4. QED BY <1>3, <2>3, <3>2, <3>3 DEF connVars
  <2>4. QED BY <1>0, <1>3, <2>1, <2>2, <2>3 DEF Update, Sub, Unsub
<1>4. ASSUME NEW f, SetKvFilter(f) PROVE Alone'
  <2>1. pend'["sub"] = pend["sub"] /\ pend'["unsub"] = pend["unsub"]
    BY <1>0, <1>4, RunWithRetryPend DEF SetKvFilter
  <2>2. socket # "open" => up' = up BY <1>0, <1>2, <1>4 DEF SetKvFilter
  <2>3. QED BY <1>4, <2>1, <2>2 DEF SetKvFilter, connVars
<1>5. ASSUME NEW op \in Ops, Retry(op) PROVE Alone'
  <2>1. UNCHANGED <<confirmed, socket>> /\ socket = "open" BY <1>5 DEF Retry, connVars
  <2>2. \A o \in Ops : pend'[o] # Absent => pend[o] # Absent
    <3>1. CASE pend[op] > MaxOpRetries
      BY <1>0, <1>5, <3>1 DEF Retry, PendType
    <3>2. CASE ~(pend[op] > MaxOpRetries)
      <4>1. pend' = [pend EXCEPT ![op] = pend[op] + 1] /\ pend[op] >= 1
        BY <1>5, <3>2 DEF Retry
      <4>2. pend[op] # Absent BY <4>1 DEF Absent
      <4>3. QED BY <1>0, <4>1, <4>2 DEF PendType
    <3>3. QED BY <3>1, <3>2
  <2>3. QED BY <1>0, <2>1, <2>2
<1>6. ASSUME ServerHandles PROVE Alone'
  BY <1>6 DEF ServerHandles, subVars, connVars
<1>7. ASSUME Receive PROVE Alone'
  <2> DEFINE r == Head(down)
  <2>1. r.op \in Ops /\ socket = "open" /\ socket' = "open"
    BY <1>0, <1>7, WireTypes DEF Receive, connVars
  <2>2. CASE Ok(r)
    <3>1. CASE UNCHANGED subVars BY <2>1, <3>1 DEF subVars
    <3>2. CASE r.op = "sub" /\ Pending("sub")
      <4> DEFINE done == [pend EXCEPT !["sub"] = Absent]
      <4>1. done \in PendType BY <1>0, PendTypes
      <4>2. pend' = done \/ RunWithRetry("filter", kvFilter, done)
        BY <2>2, <3>2 DEF Ok
      <4>3. pend'["sub"] = Absent /\ confirmed' = TRUE
        BY <1>0, <2>2, <3>2, <4>1, <4>2, RunWithRetryPend DEF PendType, Ok
      <4>4. QED BY <2>1, <4>3
    <3>3. CASE r.op = "unsub" /\ Pending("unsub")
      <4>1. pend' = [pend EXCEPT !["unsub"] = Absent] /\ confirmed' = FALSE
        BY <2>2, <3>3 DEF Ok
      <4>2. pend'["unsub"] = Absent BY <1>0, <4>1 DEF PendType
      <4>3. QED BY <2>1, <4>1, <4>2
    <3>4. CASE r.op = "filter" /\ Pending("filter")
      <4>1. pend'["sub"] = pend["sub"] /\ pend'["unsub"] = pend["unsub"]
            /\ confirmed' = confirmed
        BY <1>0, <2>2, <3>4 DEF Ok, PendType
      <4>2. QED BY <2>1, <4>1
    <3>5. QED BY <2>2, <3>1, <3>2, <3>3, <3>4 DEF Ok
  <2>3. CASE pend' = [pend EXCEPT ![r.op] = Absent] /\ confirmed' = confirmed
    BY <1>0, <2>1, <2>3 DEF PendType
  <2>4. QED BY <1>7, <2>2, <2>3 DEF Receive
<1>8. ASSUME Connect PROVE Alone'
  BY <1>8 DEF Connect, subVars, netVars
<1>9. ASSUME Open PROVE Alone'
  <2>1. socket' = "open" /\ ~confirmed /\ ~confirmed' /\ ~Pending("unsub")
    BY <1>9 DEF Open
  <2>2. pend'["unsub"] = pend["unsub"] BY <1>0, <1>9 DEF Open, PendType
  <2>3. QED BY <2>1, <2>2
<1>10. ASSUME TimesOut PROVE Alone'
  BY <1>10 DEF TimesOut, Closed, NetGone, subVars
<1>11. ASSUME CloseEvent \/ Drop PROVE Alone'
  <2>1. OnClose BY <1>11 DEF CloseEvent, Drop
  <2>2. pend'["unsub"] = Absent
    <3>1. CASE failed + 1 > MaxRetries BY <1>0, <2>1, <3>1 DEF OnClose
    <3>2. CASE ~(failed + 1 > MaxRetries)
      BY <1>0, <2>1, <3>2 DEF OnClose, PendingAgain
    <3>3. QED BY <3>1, <3>2
  <2>3. ~confirmed' /\ up' = <<>> /\ down' = <<>> /\ served' = Off
    BY <2>1 DEF OnClose, NetGone
  <2>4. QED BY <2>2, <2>3
<1>12. ASSUME OfflineEvent PROVE Alone'
  <2>1. CASE alive
    <3>1. socket' = Closed /\ UNCHANGED subVars
          /\ (IF socket = "null" THEN UNCHANGED netVars ELSE NetGone)
      BY <1>12, <2>1 DEF OfflineEvent
    <3>2. QED BY <3>1 DEF Closed, NetGone, netVars, subVars
  <2>2. CASE ~alive BY <1>1, <1>12, <2>2 DEF OfflineEvent
  <2>3. QED BY <2>1, <2>2
<1>13. ASSUME OnlineEvent \/ Flap PROVE Alone'
  BY <1>1, <1>13 DEF OnlineEvent, Flap, connVars
<1>14. ASSUME Want \/ Leave \/ Modified PROVE Alone'
  BY <1>3, <1>14 DEF Want, Leave, Modified
<1>15. CASE UNCHANGED vars BY <1>1, <1>15 DEF vars, connVars
<1>16. QED
  BY <1>4, <1>5, <1>6, <1>7, <1>8, <1>9, <1>10, <1>11, <1>12, <1>13, <1>14, <1>15
     DEF Next, Application, Timers, Network, Browser, Fault

-----------------------------------------------------------------------------
LEMMA OffIsNoFilter == Off \notin FilterType
BY FilterAssumption DEF FilterType, NoFilter, Off

\* Ordered and Answers as they are now.
Current ==
  /\ Ordered(Flow(down, up), pend, confirmed, kvFilter)
  /\ Answers(down, pend, confirmed, kvFilter, served)

\* Sub sends a SUB, for a channel not confirmed and not asked for.
LEMMA SubKeeps ==
  ASSUME TypeOK, Alone, Current, socket = "open", Sub, UNCHANGED <<down, served>>
  PROVE  Current'
<1>0. /\ SubTypes /\ pend \in PendType /\ confirmed \in BOOLEAN /\ kvFilter \in FilterType
      /\ down \in Seq(Responses) /\ up \in Seq(Requests)
      /\ "sub" \in Ops /\ "unsub" \in Ops /\ "filter" \in Ops
  BY SubTypesInv DEF SubTypes, Ops, TypeOK
<1>1. CASE UNCHANGED <<subVars, up>> BY <1>1 DEF Current, subVars
<1>2. CASE ~(Pending("sub") \/ confirmed)
  <2>1. /\ pend' = [[pend EXCEPT !["unsub"] = Absent] EXCEPT !["sub"] = 1]
        /\ up' = Append(up, Request("sub", kvFilter))
        /\ confirmed' = confirmed /\ kvFilter' = kvFilter
    BY <1>2 DEF Sub, RunWithRetry
  <2>2. pend["unsub"] = Absent /\ confirmed = FALSE /\ pend["sub"] = Absent
    BY <1>0, <1>2 DEF Alone, Pending
  <2>3. pend'["sub"] # Absent /\ pend'["unsub"] = Absent
    BY <1>0, <2>1 DEF PendType, Absent
  <2> DEFINE s == Flow(down, up)
             m == Request("sub", kvFilter)
  <2>4. s \in Seq(Requests) /\ m \in Requests BY <1>0, FlowType, MessageTypes
  <2>5. Ordered(s, pend, FALSE, kvFilter) BY <2>2 DEF Current
  <2>6. Ordered(Append(s, m), pend', FALSE, kvFilter)
    <3> HIDE DEF s
    <3>1. QED BY <1>0, <2>2, <2>3, <2>4, <2>5, OrderedSub
  <2>7. Flow(down, up)' = Append(s, m) BY <1>0, <2>1, <2>4, FlowSent
  <2>8. Answers(down, pend', FALSE, kvFilter, served)
    <3>1. Answers(down, pend, FALSE, kvFilter, served) BY <2>2 DEF Current
    <3>2. QED BY <3>1 DEF Answers
  <2>9. QED BY <2>1, <2>2, <2>6, <2>7, <2>8 DEF Current
<1>3. QED BY <1>1, <1>2 DEF Sub

\* Unsub sends an UNSUB, for a confirmed channel.
LEMMA UnsubKeeps ==
  ASSUME TypeOK, Alone, Current, socket = "open", Unsub, confirmed,
         UNCHANGED <<down, served>>
  PROVE  Current'
<1>0. /\ SubTypes /\ pend \in PendType /\ kvFilter \in FilterType
      /\ down \in Seq(Responses) /\ up \in Seq(Requests) /\ confirmed = TRUE
      /\ "sub" \in Ops /\ "unsub" \in Ops /\ "filter" \in Ops
  BY SubTypesInv DEF SubTypes, Ops, TypeOK
<1>1. CASE UNCHANGED <<subVars, up>> BY <1>1 DEF Current, subVars
<1>2. CASE ~Pending("unsub")
  <2>1. /\ pend' = [[pend EXCEPT !["sub"] = Absent] EXCEPT !["unsub"] = 1]
        /\ up' = Append(up, Request("unsub", NoFilter))
        /\ confirmed' = TRUE /\ kvFilter' = NoFilter
    BY <1>0, <1>2 DEF Unsub, RunWithRetry
  <2>2. pend["unsub"] = Absent BY <1>2 DEF Pending
  <2>3. pend'["sub"] = Absent /\ pend'["unsub"] # Absent
    BY <1>0, <2>1 DEF PendType, Absent
  <2> DEFINE s == Flow(down, up)
             m == Request("unsub", NoFilter)
  <2>4. s \in Seq(Requests) /\ m \in Requests BY <1>0, FlowType, MessageTypes
  <2>5. Ordered(s, pend, TRUE, kvFilter) BY <1>0 DEF Current
  <2>6. Ordered(Append(s, m), pend', TRUE, NoFilter)
    <3> HIDE DEF s
    <3>1. QED BY <2>2, <2>3, <2>4, <2>5, OrderedUnsub
  <2>7. Flow(down, up)' = Append(s, m) BY <1>0, <2>1, <2>4, FlowSent
  <2>8. Answers(down, pend', TRUE, NoFilter, served)
    <3>1. Answers(down, pend, TRUE, kvFilter, served) BY <1>0 DEF Current
    <3>2. QED BY <2>3, <3>1 DEF Answers
  <2>9. QED BY <2>1, <2>6, <2>7, <2>8 DEF Current
<1>3. QED BY <1>0, <1>1, <1>2 DEF Unsub

LEMMA FilterKeeps ==
  ASSUME "refilter" \notin Disturbances, TypeOK, Alone, Current, socket = "open",
         NEW f \in FilterType, SetKvFilter(f)
  PROVE  Current'
<1>0. /\ SubTypes /\ pend \in PendType /\ kvFilter \in FilterType
      /\ down \in Seq(Responses) /\ up \in Seq(Requests) /\ confirmed \in BOOLEAN
      /\ "sub" \in Ops /\ "unsub" \in Ops /\ "filter" \in Ops
  BY SubTypesInv DEF SubTypes, Ops, TypeOK
<1> DEFINE s == Flow(down, up)
           m == Request("filter", f)
<1>1. s \in Seq(Requests) /\ m \in Requests BY <1>0, FlowType, MessageTypes
<1>2. \A i \in DOMAIN s : ~Carries(s[i], f)
  <2>1. ~InFlight(f) BY DEF SetKvFilter, Disturb
  <2>2. SUFFICES ASSUME NEW i \in DOMAIN s, Carries(s[i], f) PROVE FALSE OBVIOUS
  <2>3. /\ Len(down) \in Nat /\ Len(up) \in Nat /\ i \in 1 .. Len(down) + Len(up)
        /\ s[i] = IF i <= Len(down) THEN Request(down[i].op, down[i].filter)
                                    ELSE up[i - Len(down)]
    BY <1>0, <2>2, FlowType
  <2> DEFINE S == Requests \union Responses
  <2>4. up \in Seq(S) /\ down \in Seq(S) BY <1>0, SeqMonotonic
  <2>5. /\ up \o down \in Seq(S) /\ Len(up \o down) = Len(up) + Len(down)
        /\ \A j \in 1 .. Len(up) + Len(down) :
             (up \o down)[j] = IF j <= Len(up) THEN up[j] ELSE down[j - Len(up)]
    <3> HIDE DEF S
    <3>1. QED BY <2>4, ConcatProperties
  <2>6. DOMAIN (up \o down) = 1 .. Len(up) + Len(down)
    <3> HIDE DEF S
    <3>1. QED BY <2>5, LenProperties
  <2>7. CASE i <= Len(down)
    <3>1. i + Len(up) \in DOMAIN (up \o down) BY <2>3, <2>6, <2>7
    <3>2. (up \o down)[i + Len(up)] = down[(i + Len(up)) - Len(up)]
      BY <2>3, <2>5, <2>7
    <3>3. (i + Len(up)) - Len(up) = i BY <2>3
    <3>4. s[i].op = down[i].op /\ s[i].filter = down[i].filter
      BY <2>3, <2>7 DEF Request
    <3>5. QED BY <2>1, <2>2, <3>1, <3>2, <3>3, <3>4 DEF InFlight, Carries
  <2>8. CASE ~(i <= Len(down))
    <3>1. i - Len(down) \in DOMAIN (up \o down) BY <2>3, <2>6, <2>8
    <3>2. (up \o down)[i - Len(down)] = up[i - Len(down)] BY <2>3, <2>5, <2>8
    <3>3. s[i] = up[i - Len(down)] BY <2>3, <2>8
    <3>4. QED BY <2>1, <2>2, <3>1, <3>2, <3>3 DEF InFlight, Carries
  <2>9. QED BY <2>7, <2>8
<1>3. Ordered(s, pend, confirmed, kvFilter) /\ Answers(down, pend, confirmed, kvFilter, served)
  BY DEF Current
<1>4. UNCHANGED <<confirmed, down, served>> /\ kvFilter' = f BY DEF SetKvFilter
<1> HIDE DEF s, m
<1>5. CASE confirmed /\ ~Pending("unsub")
  <2>1. pend' = [pend EXCEPT !["filter"] = 1] /\ up' = Append(up, m)
    BY <1>5 DEF SetKvFilter, RunWithRetry, m
  <2>2. /\ pend'["sub"] = pend["sub"] /\ pend'["unsub"] = pend["unsub"]
        /\ pend'["filter"] # Absent
    BY <1>0, <2>1 DEF PendType, Absent
  <2>3. Ordered(Append(s, m), pend', confirmed, f)
    BY <1>1, <1>2, <1>3, <2>2, OrderedFilter DEF m
  <2>4. Flow(down, up)' = Append(s, m) BY <1>0, <1>1, <1>4, <2>1, FlowSent DEF s
  <2>5. Answers(down, pend', confirmed, f, served)
    BY <1>3, <2>2 DEF Answers
  <2>6. QED BY <1>4, <2>3, <2>4, <2>5 DEF Current
<1>6. CASE ~(confirmed /\ ~Pending("unsub"))
  <2>1. pend' = pend /\ up' = up BY <1>6 DEF SetKvFilter
  <2>2. ~confirmed \/ pend["unsub"] # Absent BY <1>6 DEF Pending
  <2>3. Ordered(s, pend, confirmed, f) BY <1>1, <1>2, <1>3, <2>2, OrderedFilter
  <2>4. Answers(down, pend, confirmed, f, served) BY <1>3, <2>2 DEF Answers
  <2>5. QED BY <1>4, <2>1, <2>3, <2>4 DEF Current, s
<1>7. QED BY <1>5, <1>6

LEMMA RetryKeeps ==
  ASSUME TypeOK, Alone, Current, NEW op \in Ops, Retry(op), ~lost'
  PROVE  Current'
<1>0. /\ SubTypes /\ pend \in PendType /\ kvFilter \in FilterType
      /\ down \in Seq(Responses) /\ up \in Seq(Requests) /\ confirmed \in BOOLEAN
  BY SubTypesInv DEF SubTypes, Ops, TypeOK
<1> DEFINE s == Flow(down, up)
           m == Request(op, IF op = "unsub" THEN NoFilter ELSE kvFilter)
<1>1. s \in Seq(Requests) /\ m \in Requests BY <1>0, FlowType, MessageTypes
<1>2. ~(pend[op] > MaxOpRetries) BY DEF Retry
<1>3. /\ pend' = [pend EXCEPT ![op] = pend[op] + 1] /\ pend[op] >= 1
      /\ up' = Append(up, m) /\ UNCHANGED <<confirmed, kvFilter, down, served>>
  BY <1>2 DEF Retry
<1>4. pend[op] \in Absent .. MaxOpRetries + 1 BY <1>0 DEF PendType
<1>5. pend[op] # Absent /\ pend[op] + 1 # Absent BY <1>3, <1>4 DEF Absent
<1>6. SamePending(pend, pend') BY <1>0, <1>3, <1>5 DEF SamePending, PendType
<1>7. Ordered(Append(s, m), pend, confirmed, kvFilter)
  <2>1. Ordered(s, pend, confirmed, kvFilter) BY DEF Current
  <2>2. (pend["sub"] # Absent => ~confirmed) /\ (pend["unsub"] # Absent => confirmed)
    BY DEF Alone, Pending
  <2> HIDE DEF s
  <2>3. QED BY <1>0, <1>1, <1>5, <2>1, <2>2, OrderedRetry
<1>8. Ordered(Append(s, m), pend', confirmed, kvFilter) BY <1>6, <1>7, OrderedSame
<1>9. Flow(down, up)' = Append(s, m) BY <1>0, <1>1, <1>3, FlowSent
<1>10. Answers(down, pend', confirmed, kvFilter, served)
  BY <1>6, OrderedSame DEF Current
<1>11. QED BY <1>3, <1>8, <1>9, <1>10 DEF Current

LEMMA HandleKeeps ==
  ASSUME TypeOK, Clean => Current, ServerHandles, Clean'
  PROVE  Current'
<1>0. /\ down \in Seq(Responses) /\ up \in Seq(Requests) /\ up # <<>>
      /\ confirmed \in BOOLEAN
  BY DEF TypeOK, ServerHandles
<1> DEFINE r == up[1]
           a(ok) == Response(r.op, ok, r.filter)
<1>1. Head(up) = r /\ up' = Tail(up) /\ lost' = lost
      /\ UNCHANGED <<pend, confirmed, kvFilter>>
  BY <1>0 DEF ServerHandles, subVars
<1>2. r \in Requests
  <2>1. 1 \in 1 .. Len(up) BY <1>0, EmptySeq
  <2>2. QED BY <1>0, <2>1, ElementOfSeq
<1>3. \A ok \in BOOLEAN : a(ok) \in Responses /\ a(ok).ok = ok
  BY <1>2, MessageTypes DEF Requests, Response
<1>4. \/ /\ r.op = "filter" => served # Off
         /\ served' = (IF r.op = "unsub" THEN Off ELSE r.filter)
         /\ down' = Append(down, a(TRUE))
      \/ down' = Append(down, a(FALSE))
      \/ down' = down /\ served' = served
  BY <1>1 DEF ServerHandles
<1>5. Flow(Append(down, a(TRUE)), Tail(up)) = Flow(down, up)
      /\ Thinned(Flow(down, Tail(up)), Flow(down, up))
  BY <1>0, FlowHandled
<1>6. ASSUME NEW ok \in BOOLEAN, down' = Append(down, a(ok)) PROVE ok /\ Clean
  <2>1. /\ Len(down) \in Nat /\ Len(down') = Len(down) + 1
        /\ down'[Len(down) + 1] = a(ok)
        /\ \A i \in 1 .. Len(down) : down'[i] = down[i]
    BY <1>0, <1>3, <1>6, AppendProperties, LenProperties
  <2>2. \A i \in 1 .. Len(down') : down'[i].ok BY DEF Clean
  <2>3. a(ok).ok BY <2>1, <2>2
  <2>4. \A i \in 1 .. Len(down) : down[i].ok BY <2>1, <2>2
  <2>5. QED BY <1>1, <1>3, <2>3, <2>4 DEF Clean
<1> HIDE DEF a, r
<1>7. CASE /\ r.op = "filter" => served # Off
           /\ served' = (IF r.op = "unsub" THEN Off ELSE r.filter)
           /\ down' = Append(down, a(TRUE))
  <2>1. Current BY <1>6, <1>7
  <2>2. Answers(Append(down, a(TRUE)), pend, confirmed, kvFilter, Served(a(TRUE)))
    BY <1>0, <1>7, <2>1, AnswersHandled DEF Current, a, r
  <2>3. Served(a(TRUE)) = served' BY <1>2, <1>7 DEF Served, a, Response, Requests
  <2>4. QED BY <1>1, <1>5, <1>7, <2>1, <2>2, <2>3 DEF Current
<1>8. CASE down' = Append(down, a(FALSE)) BY <1>6, <1>8
<1>9. CASE down' = down /\ served' = served
  <2>1. Current BY <1>1, <1>9 DEF Clean
  <2>2. Ordered(Flow(down, Tail(up)), pend, confirmed, kvFilter)
    BY <1>5, <2>1, OrderedThinned DEF Current
  <2>3. QED BY <1>1, <1>9, <2>1, <2>2 DEF Current
<1>10. QED BY <1>4, <1>7, <1>8, <1>9

LEMMA ReceiveKeeps ==
  ASSUME TypeOK, Alone, Clean => Current, Receive, Clean'
  PROVE  Current'
<1>0. /\ SubTypes /\ pend \in PendType /\ kvFilter \in FilterType
      /\ down \in Seq(Responses) /\ up \in Seq(Requests) /\ confirmed \in BOOLEAN
      /\ down # <<>> /\ socket = "open"
      /\ "sub" \in Ops /\ "unsub" \in Ops /\ "filter" \in Ops
  BY SubTypesInv DEF SubTypes, TypeOK, Receive, Ops
<1> DEFINE r == down[1]
           s == Flow(down, up)
           b == Tail(down)
           t == Tail(s)
<1>1. Head(down) = r /\ down' = b /\ served' = served BY <1>0 DEF Receive
<1>2. /\ b \in Seq(Responses) /\ Len(b) = Len(down) - 1 /\ Len(down) \in Nat
      /\ Len(down) # 0 /\ \A i \in 1 .. Len(b) : b[i] = down[i + 1]
  BY <1>0, HeadTailProperties, EmptySeq, LenProperties
<1>3. r \in Responses BY <1>0, <1>2, ElementOfSeq
<1>4. r.op \in {"sub", "unsub", "filter"} BY <1>3 DEF Responses, Ops
<1>5. /\ s \in Seq(Requests) /\ s # <<>> /\ s[1] = Request(r.op, r.filter)
      /\ Flow(b, up) = t
  BY <1>0, FlowType, FlowReceived
<1>6. s[1].op = r.op /\ s[1].filter = r.filter BY <1>5 DEF Request
<1> HIDE DEF s
<1>7. t \in Seq(Requests) BY <1>5, HeadTailProperties
<1>8. r.ok /\ Ok(r) /\ lost' = lost BY <1>1 DEF Receive, Clean
<1>9. Clean
  <2>1. \A i \in 1 .. Len(b) : b[i].ok /\ b[i] = down[i + 1]
    BY <1>1, <1>2 DEF Clean
  <2>2. \A i \in 1 .. Len(down) : i = 1 \/ i - 1 \in 1 .. Len(b) BY <1>2
  <2>3. \A i \in 1 .. Len(down) : i # 1 => (i - 1) + 1 = i BY <1>2
  <2>4. \A i \in 1 .. Len(down) : down[i].ok BY <1>8, <2>1, <2>2, <2>3
  <2>5. QED BY <1>8, <2>4 DEF Clean
<1>10. /\ Ordered(s, pend, confirmed, kvFilter)
       /\ Answers(down, pend, confirmed, kvFilter, served)
  BY <1>9 DEF Current, s
<1>11. /\ pend["sub"] # Absent => ~confirmed
       /\ pend["unsub"] # Absent => confirmed
       /\ r.op = "filter" => confirmed
  BY <1>0, <1>10 DEF Alone, Pending, Answers
<1> HIDE DEF r, b, t
<1>12. CASE ~Pending(r.op) /\ UNCHANGED <<subVars, up>>
  <2>1. /\ Ordered(t, pend, confirmed, kvFilter)
        /\ s[1].op = "sub" /\ pend["sub"] = Absent => confirmed
        /\ s[1].op = "unsub" /\ pend["unsub"] = Absent => ~confirmed
    BY <1>5, <1>10, OrderedLate DEF t
  <2>2. (r.op = "sub" => confirmed) /\ (r.op = "unsub" => ~confirmed)
    BY <1>6, <1>12, <2>1 DEF Pending
  <2>3. Answers(b, pend, confirmed, kvFilter, served)
    BY <1>0, <1>10, <2>2, AnswersReceived, OffIsNoFilter DEF r, b
  <2>4. QED BY <1>1, <1>5, <1>12, <2>1, <2>3 DEF Current, subVars
<1>13. CASE r.op = "sub" /\ Pending("sub")
  <2> DEFINE done == [pend EXCEPT !["sub"] = Absent]
             m == Request("filter", kvFilter)
  <2>1. pend["sub"] # Absent /\ confirmed = FALSE /\ pend["unsub"] = Absent
    BY <1>0, <1>11, <1>13 DEF Pending
  <2>2. confirmed' = TRUE /\ kvFilter' = kvFilter BY <1>8, <1>13 DEF Ok
  <2>3. \/ r.filter = kvFilter /\ pend' = done /\ up' = up
        \/ pend' = [done EXCEPT !["filter"] = 1] /\ up' = Append(up, m)
    BY <1>0, <1>8, <1>13, <2>1 DEF Ok, RunWithRetry, Pending
  <2>4. pend'["sub"] = Absent /\ pend'["unsub"] = Absent
    BY <1>0, <2>1, <2>3 DEF PendType
  <2>5. /\ Never(t, "unsub")
        /\ s[1].filter = kvFilter =>
             AllFresh(t, kvFilter) /\ Ordered(t, pend', TRUE, kvFilter)
        /\ pend'["filter"] # Absent =>
             Ordered(Append(t, m), pend', TRUE, kvFilter)
    <3>1. Ordered(s, pend, FALSE, kvFilter) BY <1>10, <2>1
    <3>2. QED
      BY <1>0, <1>5, <1>6, <1>13, <2>1, <2>4, <3>1, OrderedSubOk DEF t
  <2>6. Ordered(Flow(down, up)', pend', TRUE, kvFilter)
    <3>1. CASE r.filter = kvFilter /\ pend' = done /\ up' = up
      BY <1>1, <1>5, <1>6, <2>5, <3>1
    <3>2. CASE pend' = [done EXCEPT !["filter"] = 1] /\ up' = Append(up, m)
      <4>1. pend'["filter"] # Absent BY <1>0, <3>2 DEF PendType, Absent
      <4>2. m \in Requests BY <1>0, MessageTypes
      <4>3. Flow(b, Append(up, m)) = Append(t, m)
        BY <1>0, <1>2, <1>5, <4>2, FlowSent
      <4>4. QED BY <1>1, <2>5, <3>2, <4>1, <4>3
    <3>3. QED BY <2>3, <3>1, <3>2
  <2>7. pend'["filter"] = Absent =>
          Carries(r, kvFilter) /\ AllFresh(t, kvFilter) /\ Never(t, "unsub")
    <3>1. pend'["filter"] = Absent => r.filter = kvFilter
      BY <1>0, <2>3 DEF PendType, Absent
    <3>2. QED BY <1>6, <1>13, <2>5, <3>1 DEF Carries
  <2>8. Answers(b, pend', TRUE, kvFilter, served)
    BY <1>0, <1>5, <1>10, <1>13, <2>7, AnswersReceived, OffIsNoFilter DEF r, b
  <2>9. QED BY <1>1, <2>2, <2>6, <2>8 DEF Current
<1>14. CASE r.op = "unsub" /\ Pending("unsub")
  <2>1. pend["unsub"] # Absent /\ confirmed = TRUE /\ pend["sub"] = Absent
    BY <1>0, <1>11, <1>14 DEF Pending
  <2>2. /\ pend' = [pend EXCEPT !["unsub"] = Absent]
        /\ confirmed' = FALSE /\ kvFilter' = kvFilter /\ up' = up
    BY <1>8, <1>14 DEF Ok
  <2>3. pend'["sub"] = Absent /\ pend'["unsub"] = Absent
    BY <1>0, <2>1, <2>2 DEF PendType
  <2>4. Ordered(t, pend', FALSE, kvFilter)
    <3>1. Ordered(s, pend, TRUE, kvFilter) BY <1>10, <2>1
    <3>2. QED BY <1>5, <1>6, <1>14, <2>1, <2>3, <3>1, OrderedUnsubOk DEF t
  <2>5. Answers(b, pend', FALSE, kvFilter, served)
    BY <1>0, <1>10, <1>14, AnswersReceived, OffIsNoFilter DEF r, b
  <2>6. QED BY <1>1, <1>5, <2>2, <2>4, <2>5 DEF Current
<1>15. CASE r.op = "filter" /\ Pending("filter")
  <2>1. UNCHANGED <<confirmed, kvFilter, up>> BY <1>8, <1>15 DEF Ok
  <2>2. pend'["sub"] = pend["sub"] /\ pend'["unsub"] = pend["unsub"]
    BY <1>0, <1>8, <1>15 DEF Ok, PendType
  <2>3. /\ Ordered(t, pend', confirmed, kvFilter)
        /\ pend'["filter"] = Absent /\ pend["unsub"] = Absent =>
             Carries(r, kvFilter) /\ AllFresh(t, kvFilter) /\ Never(t, "unsub")
    <3>1. CASE r.filter = kvFilter
      <4>1. Carries(s[1], kvFilter) /\ Carries(r, kvFilter)
        BY <1>6, <1>15, <3>1 DEF Carries
      <4>2. QED BY <1>5, <1>10, <1>11, <1>15, <2>2, <4>1, OrderedFilterOk DEF t
    <3>2. CASE r.filter # kvFilter
      <4>1. pend' = [pend EXCEPT !["filter"] = pend["filter"]]
        BY <1>8, <1>15, <3>2 DEF Ok
      <4>2. pend' = pend BY <1>0, <4>1 DEF PendType
      <4>3. Ordered(t, pend, confirmed, kvFilter)
        BY <1>5, <1>10, OrderedLate DEF t
      <4>4. QED BY <1>15, <4>2, <4>3 DEF Pending
    <3>3. QED BY <3>1, <3>2
  <2>4. Answers(b, pend', confirmed, kvFilter, served)
    BY <1>0, <1>5, <1>10, <1>15, <2>2, <2>3, AnswersReceived, OffIsNoFilter DEF r, b
  <2>5. QED BY <1>1, <1>5, <2>1, <2>3, <2>4 DEF Current
<1>16. QED BY <1>8, <1>12, <1>13, <1>14, <1>15 DEF Ok

LEMMA ViewNext ==
  ASSUME "refilter" \notin Disturbances
  PROVE  Inv /\ ViewInv /\ [Next]_vars => ViewInv'
<1> SUFFICES ASSUME Inv, ViewInv, [Next]_vars PROVE ViewInv' OBVIOUS
<1>0. TypeOK /\ Alone /\ Alone' /\ (socket = "open" /\ Clean => Current)
  BY AloneNext DEF Inv, ViewInv, Current
<1>1. SUFFICES ASSUME socket' = "open", Clean' PROVE Current'
  BY <1>0, <1>1 DEF ViewInv, Current
<1>2. CASE UNCHANGED <<subVars, netVars, socket, lost>>
  BY <1>0, <1>1, <1>2 DEF Current, Clean, subVars, netVars
<1>3. ASSUME UNCHANGED <<socket, down, lost>> PROVE Current
  BY <1>0, <1>1, <1>3 DEF Clean
<1>4. ASSUME Update(TRUE) \/ Update(FALSE) \/ Update(wanted),
             UNCHANGED <<socket, down, served, lost>>
      PROVE  Current'
  <2>1. Current /\ socket = "open" BY <1>1, <1>3, <1>4
  <2>2. CASE UNCHANGED <<subVars, up>> BY <1>4, <2>1, <2>2 DEF Current, subVars
  <2>3. CASE Sub BY <1>0, <1>4, <2>1, <2>3, SubKeeps
  <2>4. CASE Unsub /\ confirmed BY <1>0, <1>4, <2>1, <2>4, UnsubKeeps
  <2>5. QED BY <1>4, <2>2, <2>3, <2>4 DEF Update
<1>5. ASSUME Want \/ Leave \/ Modified PROVE Current'
  BY <1>4, <1>5 DEF Want, Leave, Modified, connVars
<1>6. ASSUME NEW f \in FilterType, SetKvFilter(f) PROVE Current'
  <2>1. UNCHANGED <<socket, down, lost>> BY <1>6 DEF SetKvFilter, connVars
  <2>2. QED BY <1>0, <1>1, <1>3, <1>6, <2>1, FilterKeeps
<1>7. ASSUME NEW op \in Ops, Retry(op) PROVE Current'
  <2>1. ~lost' /\ (lost' = lost \/ lost' = TRUE) /\ UNCHANGED <<socket, down>>
    BY <1>1, <1>7 DEF Clean, Retry, connVars
  <2>2. lost' = lost
    <3>1. CASE pend[op] > MaxOpRetries BY <1>7, <2>1, <3>1 DEF Retry
    <3>2. CASE ~(pend[op] > MaxOpRetries) BY <1>7, <3>2 DEF Retry
    <3>3. QED BY <3>1, <3>2
  <2>3. QED BY <1>0, <1>3, <1>7, <2>1, <2>2, RetryKeeps
<1>8. ASSUME ServerHandles PROVE Current'
  BY <1>0, <1>1, <1>8, HandleKeeps DEF ServerHandles
<1>9. ASSUME Receive PROVE Current'
  BY <1>0, <1>1, <1>9, ReceiveKeeps DEF Receive
<1>10. ASSUME Open PROVE Current'
  <2>1. /\ up = <<>> /\ down = <<>> /\ served = Off /\ confirmed = FALSE
        /\ UNCHANGED <<confirmed, kvFilter, down, served>>
        /\ pend["unsub"] = Absent
    BY <1>0, <1>10 DEF Open, Alone, Pending, TypeOK
  <2>2. /\ pend \in PendType /\ kvFilter \in FilterType
        /\ "sub" \in Ops /\ "unsub" \in Ops
    BY <1>0, SubTypesInv DEF SubTypes, Ops
  <2>3. \A p : Answers(<<>>, p, FALSE, kvFilter, Off)
    <3>1. Len(<<>>) = 0 OBVIOUS
    <3>2. 2 .. Len(<<>>) = {} BY <3>1
    <3>3. QED BY <3>2 DEF Answers
  <2>4. CASE Pending("sub")
    <3> DEFINE m == Request("sub", kvFilter)
               s == Flow(<<>>, <<>>)
    <3>1. pend' = [pend EXCEPT !["sub"] = 1] /\ up' = Append(<<>>, m)
      BY <1>10, <2>1, <2>4 DEF Open
    <3>2. pend'["sub"] # Absent /\ pend'["unsub"] = Absent
      BY <2>1, <2>2, <3>1 DEF PendType, Absent
    <3>3. <<>> \in Seq(Requests) /\ <<>> \in Seq(Responses) /\ m \in Requests
      BY <2>2, MessageTypes
    <3>4. s \in Seq(Requests) BY <3>3, FlowType
    <3>5. Ordered(s, pend, FALSE, kvFilter) BY OrderedEmpty
    <3>6. Flow(<<>>, Append(<<>>, m)) = Append(s, m) BY <3>3, FlowSent
    <3> HIDE DEF s
    <3>7. Ordered(Append(s, m), pend', FALSE, kvFilter)
      BY <2>1, <2>2, <3>2, <3>4, <3>5, OrderedSub
    <3>8. QED BY <2>1, <2>3, <3>1, <3>6, <3>7 DEF Current
  <2>5. CASE ~Pending("sub")
    <3>1. pend' = pend /\ up' = <<>> BY <1>10, <2>1, <2>5 DEF Open
    <3>2. QED BY <2>1, <2>3, <3>1, OrderedEmpty DEF Current
  <2>6. QED BY <2>4, <2>5
<1>11. ASSUME Connect \/ TimesOut \/ CloseEvent \/ Drop PROVE FALSE
  BY <1>1, <1>11 DEF Connect, TimesOut, CloseEvent, Drop, OnClose, Closed
<1>12. ASSUME OfflineEvent PROVE Current'
  <2>1. CASE alive BY <1>1, <1>12, <2>1 DEF OfflineEvent, Closed
  <2>2. CASE ~alive BY <1>2, <1>12, <2>2 DEF OfflineEvent
  <2>3. QED BY <2>1, <2>2
<1>13. ASSUME OnlineEvent \/ Flap PROVE Current'
  BY <1>2, <1>13 DEF OnlineEvent, Flap, connVars
<1>14. CASE UNCHANGED vars BY <1>2, <1>14 DEF vars, connVars
<1>15. QED
  BY <1>5, <1>6, <1>7, <1>8, <1>9, <1>10, <1>11, <1>12, <1>13, <1>14
     DEF Next, Application, Timers, Network, Browser, Fault, FilterType

\* When nothing is under way, client and server agree on the subscription and on its
\* filter, whatever was retried, answered twice or changed in between, unless a request
\* was refused or given up, or an earlier filter is set again while it is on its way.
THEOREM ViewsAgreeAlways ==
  ASSUME "refilter" \notin Disturbances PROVE Spec => []ViewsAgree
<1>1. Init => ViewInv BY DEF Init, ViewInv, Alone, Pending, Ops
<1>2. Inv /\ ViewInv /\ [Next]_vars => ViewInv' BY ViewNext
<1>3. Inv /\ ViewInv => ViewsAgree
  <2> SUFFICES ASSUME Inv, ViewInv, Settled, ~lost PROVE ViewsAgree!2
    BY DEF ViewsAgree
  <2>1. Clean
    <3>1. Len(<<>>) = 0 OBVIOUS
    <3>2. 1 .. Len(down) = {} BY <3>1 DEF Settled
    <3>3. QED BY <3>2 DEF Clean
  <2>2. Answers(down, pend, confirmed, kvFilter, served) /\ down = <<>>
    BY <2>1 DEF ViewInv, Settled
  <2>3. pend["unsub"] = Absent /\ pend["filter"] = Absent
    BY DEF Settled, Pending, Ops
  <2>4. QED BY <2>2, <2>3 DEF Answers
<1>4. QED BY <1>1, <1>2, <1>3, ConnectionSafety, PTL DEF Spec

=============================================================================
