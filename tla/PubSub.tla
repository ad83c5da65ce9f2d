------------------------------ MODULE PubSub ------------------------------
(***************************************************************************)
(* The websocket client of src/src/pubsub/index.ts: its socket's life, and *)
(* the subscription of one channel, kept in step with Chelonia's           *)
(* subscriptionSet by 'chelonia/pubsub/update'.  Channels share the socket *)
(* and nothing else.                                                       *)
(*                                                                         *)
(* pend is pendingOperations: for each kind of request, Absent, or the     *)
(* number of times the current instance was sent; 0 is an instance with no *)
(* send loop, which the next 'open' starts.                                *)
(***************************************************************************)
EXTENDS Integers, Sequences

CONSTANTS
  Filters,        \* KV filters the application sets
  MaxRetries,     \* options.maxRetries
  MaxOpRetries,   \* options.maxOpRetries
  WireBound,      \* bound: requests in flight before a retry is sent
  DisturbBound,   \* bound: how many disturbances happen
  Disturbances    \* the kinds of disturbance this instance allows

Kinds == {"want", "leave", "resub", "update", "filter", "refilter", "drop",
          "timeout", "flap", "refuse", "silent"}

ASSUME RetriesAssumption == MaxRetries \in Nat /\ MaxOpRetries \in Nat
ASSUME BoundAssumption == WireBound \in Nat /\ DisturbBound \in Nat
ASSUME DisturbAssumption == Disturbances \subseteq Kinds

NoFilter == "none"
Off == "off"

ASSUME FilterAssumption == Off \notin Filters

Absent == -1
Ops == {"sub", "unsub", "filter"}

VARIABLES
  socket,     \* client.socket and its readyState
  timer,      \* client.nextConnectionAttemptDelayID is set
  failed,     \* client.failedConnectionAttempts
  alive,      \* client.shouldReconnect
  onLine,     \* navigator.onLine
  events,     \* 'offline' and 'online' events not yet dispatched
  pend,       \* client.pendingOperations
  confirmed,  \* client.subscriptionSet.has(channelID)
  kvFilter,   \* client.kvFilter.get(channelID)
  wanted,     \* Chelonia's subscriptionSet.has(channelID)
  up,         \* requests in flight
  down,       \* responses in flight
  served,     \* the server's filter for this socket, or Off
  lost,       \* some request was refused, or given up
  budget      \* disturbances so far

connVars == <<socket, timer, failed, alive>>
lineVars == <<onLine, events>>
subVars == <<pend, confirmed, kvFilter>>
netVars == <<up, down, served>>
vars == <<connVars, lineVars, subVars, wanted, netVars, lost, budget>>

Disturb(kind) ==
  /\ kind \in Disturbances
  /\ budget < DisturbBound
  /\ budget' = budget + 1

Request(op, f) == [op |-> op, filter |-> f]
Response(op, ok, f) == [op |-> op, ok |-> ok, filter |-> f]

Init ==
  /\ socket = "connecting" /\ timer = FALSE /\ failed = 0 /\ alive = TRUE
  /\ onLine = TRUE /\ events = <<>>
  /\ pend = [op \in Ops |-> Absent]
  /\ confirmed = FALSE /\ kvFilter = NoFilter /\ wanted = FALSE
  /\ up = <<>> /\ down = <<>> /\ served = Off /\ lost = FALSE
  /\ budget = 0

-----------------------------------------------------------------------------
(***************************************************************************)
(* Subscribing.                                                            *)
(***************************************************************************)
Pending(op) == pend[op] # Absent

\* runWithRetry: a new instance replaces 'old', and is sent if the socket is open.
RunWithRetry(op, f, old) ==
  IF socket = "open"
  THEN pend' = [old EXCEPT ![op] = 1] /\ up' = Append(up, Request(op, f))
  ELSE pend' = [old EXCEPT ![op] = 0] /\ up' = up

Sub ==
  IF Pending("sub") \/ confirmed
  THEN UNCHANGED <<subVars, up>>
  ELSE /\ RunWithRetry("sub", kvFilter, [pend EXCEPT !["unsub"] = Absent])
       /\ UNCHANGED <<confirmed, kvFilter>>

Unsub ==
  IF Pending("unsub") \/ ~(confirmed \/ Pending("sub"))
  THEN UNCHANGED <<subVars, up>>
  ELSE /\ RunWithRetry("unsub", NoFilter, [pend EXCEPT !["sub"] = Absent])
       /\ kvFilter' = NoFilter
       /\ UNCHANGED confirmed

\* 'chelonia/pubsub/update', with the wanted channels as they are now.
Update(want) ==
  CASE confirmed /\ ~want -> Unsub
    [] ~confirmed /\ want -> Sub
    [] OTHER -> UNCHANGED <<subVars, up>>

\* Chelonia adds the contract to its subscriptionSet and emits CONTRACTS_MODIFIED;
\* "resub" is doing so while the UNSUB of an earlier removal is pending.
Want ==
  /\ ~wanted /\ wanted' = TRUE
  /\ Disturb(IF Pending("unsub") THEN "resub" ELSE "want")
  /\ Update(TRUE)
  /\ UNCHANGED <<connVars, lineVars, down, served, lost>>

Leave ==
  /\ wanted /\ wanted' = FALSE
  /\ Disturb("leave")
  /\ Update(FALSE)
  /\ UNCHANGED <<connVars, lineVars, down, served, lost>>

\* CONTRACTS_MODIFIED for another contract.
Modified ==
  /\ Disturb("update")
  /\ Update(wanted)
  /\ UNCHANGED <<connVars, lineVars, wanted, down, served, lost>>

\* "refilter" is going back to a filter that a message in flight carries.
InFlight(f) ==
  \E i \in DOMAIN (up \o down) :
    (up \o down)[i].op # "unsub" /\ (up \o down)[i].filter = f

SetKvFilter(f) ==
  /\ f # kvFilter
  /\ Disturb(IF InFlight(f) THEN "refilter" ELSE "filter")
  /\ kvFilter' = f
  /\ IF confirmed /\ ~Pending("unsub")
     THEN RunWithRetry("filter", f, pend)
     ELSE UNCHANGED <<pend, up>>
  /\ UNCHANGED <<connVars, lineVars, confirmed, wanted, down, served, lost>>

\* Mutant: giving up leaves the operation pending.
RetryNeverGivesUp(op) ==
  /\ socket = "open" /\ pend[op] >= 1
  /\ pend[op] <= MaxOpRetries /\ Len(up) < WireBound
  /\ pend' = [pend EXCEPT ![op] = @ + 1]
  /\ up' = Append(up, Request(op, IF op = "unsub" THEN NoFilter ELSE kvFilter))
  /\ UNCHANGED <<connVars, lineVars, confirmed, kvFilter, wanted, down, served,
                 lost, budget>>

\* runWithRetry's timeout: sends again, or gives up.
Retry(op) ==
  /\ socket = "open" /\ pend[op] >= 1
  /\ IF pend[op] > MaxOpRetries
     THEN /\ pend' = [pend EXCEPT ![op] = Absent] /\ lost' = TRUE
          /\ UNCHANGED up
     ELSE /\ Len(up) < WireBound
          /\ pend' = [pend EXCEPT ![op] = @ + 1]
          /\ up' = Append(up, Request(op, IF op = "unsub" THEN NoFilter
                                                          ELSE kvFilter))
          /\ UNCHANGED lost
  /\ UNCHANGED <<connVars, lineVars, confirmed, kvFilter, wanted, down, served,
                 budget>>

\* The server takes requests in order; a filter needs a subscription.  It may
\* refuse one, or leave it unanswered.
ServerHandles ==
  /\ socket = "open" /\ up # <<>>
  /\ up' = Tail(up)
  /\ LET r == Head(up)
         takes == r.op # "filter" \/ served # Off
     IN \/ /\ takes
           /\ served' = IF r.op = "unsub" THEN Off ELSE r.filter
           /\ down' = Append(down, Response(r.op, TRUE, r.filter))
           /\ UNCHANGED budget
        \/ /\ IF takes THEN Disturb("refuse") ELSE UNCHANGED budget
           /\ down' = Append(down, Response(r.op, FALSE, r.filter))
           /\ UNCHANGED served
        \/ /\ Disturb("silent")
           /\ UNCHANGED <<down, served>>
  /\ UNCHANGED <<connVars, lineVars, subVars, wanted, lost>>

\* Mutant: the filter the server confirms with a SUB is not compared with ours.
OkAnyFilter(r) ==
  \/ ~Pending(r.op) /\ UNCHANGED <<subVars, up>>
  \/ /\ r.op = "sub" /\ Pending("sub")
     /\ confirmed' = TRUE
     /\ pend' = [pend EXCEPT !["sub"] = Absent]
     /\ UNCHANGED <<kvFilter, up>>
  \/ /\ r.op = "unsub" /\ Pending("unsub")
     /\ pend' = [pend EXCEPT !["unsub"] = Absent]
     /\ confirmed' = FALSE
     /\ UNCHANGED <<kvFilter, up>>
  \/ /\ r.op = "filter" /\ Pending("filter")
     /\ pend' = [pend EXCEPT !["filter"] = Absent]
     /\ UNCHANGED <<confirmed, kvFilter, up>>

\* RESPONSE_TYPE.OK.
Ok(r) ==
  \/ ~Pending(r.op) /\ UNCHANGED <<subVars, up>>
  \/ /\ r.op = "sub" /\ Pending("sub")
     /\ confirmed' = TRUE
     /\ LET done == [pend EXCEPT !["sub"] = Absent]
        IN IF r.filter = kvFilter \/ Pending("unsub")
           THEN pend' = done /\ up' = up
           ELSE RunWithRetry("filter", kvFilter, done)
     /\ UNCHANGED kvFilter
  \/ /\ r.op = "unsub" /\ Pending("unsub")
     /\ pend' = [pend EXCEPT !["unsub"] = Absent]
     /\ confirmed' = FALSE
     /\ UNCHANGED <<kvFilter, up>>
  \/ /\ r.op = "filter" /\ Pending("filter")
     /\ pend' = [pend EXCEPT !["filter"] = IF r.filter = kvFilter THEN Absent
                                                                  ELSE @]
     /\ UNCHANGED <<confirmed, kvFilter, up>>

Receive ==
  /\ socket = "open" /\ down # <<>>
  /\ down' = Tail(down)
  /\ LET r == Head(down)
     IN \/ r.ok /\ Ok(r) /\ UNCHANGED lost
        \/ /\ ~r.ok
           /\ pend' = [pend EXCEPT ![r.op] = Absent]
           /\ lost' = TRUE
           /\ UNCHANGED <<confirmed, kvFilter, up>>
  /\ UNCHANGED <<connVars, lineVars, wanted, served, budget>>

-----------------------------------------------------------------------------
(***************************************************************************)
(* The socket.                                                             *)
(***************************************************************************)
NetGone == up' = <<>> /\ down' = <<>> /\ served' = Off

\* connect(), from scheduleConnectionAttempt's timer.
Connect ==
  /\ timer /\ socket = "null"
  /\ timer' = FALSE /\ socket' = "connecting"
  /\ UNCHANGED <<failed, alive, lineVars, subVars, wanted, netVars, lost, budget>>

\* 'open': clears the timers and sends the pending SUBs.
Open ==
  /\ socket = "connecting"
  /\ socket' = "open" /\ timer' = FALSE /\ failed' = -1
  /\ IF Pending("sub")
     THEN /\ pend' = [pend EXCEPT !["sub"] = 1]
          /\ up' = Append(up, Request("sub", kvFilter))
     ELSE UNCHANGED <<pend, up>>
  /\ UNCHANGED <<alive, lineVars, confirmed, kvFilter, wanted, down, served, lost,
                 budget>>

\* socket.close() is called: by the connection or ping timeout, or 'offline'.
\* Nothing is sent or received any more; the 'close' event is still to come.
Closed == IF socket = "null" THEN "null" ELSE "closing"

TimesOut ==
  /\ socket \in {"connecting", "open"}
  /\ Disturb("timeout")
  /\ socket' = Closed
  /\ NetGone
  /\ UNCHANGED <<timer, failed, alive, lineVars, subVars, wanted, lost>>

\* Mutant: a subscription confirmed on the old socket is not made pending again.
ForgottenSubs == [op \in Ops |-> IF op = "sub" /\ Pending("sub") THEN 0 ELSE Absent]

\* 'close': what was subscribed or being subscribed is pending again, unless an
\* UNSUB was pending.
PendingAgain ==
  [op \in Ops |->
     IF op = "sub" /\ (Pending("sub") \/ (confirmed /\ ~Pending("unsub")))
     THEN 0 ELSE Absent]

\* 'reconnection-failed' destroys the client.
OnClose ==
  /\ socket' = "null" /\ failed' = failed + 1
  /\ confirmed' = FALSE
  /\ IF failed + 1 > MaxRetries
     THEN /\ pend' = [op \in Ops |-> Absent]
          /\ timer' = FALSE /\ alive' = FALSE
     ELSE /\ pend' = PendingAgain
          /\ timer' = onLine
          /\ UNCHANGED alive
  /\ UNCHANGED kvFilter
  /\ NetGone

CloseEvent ==
  /\ socket = "closing"
  /\ OnClose
  /\ UNCHANGED <<lineVars, wanted, lost, budget>>

\* The connection fails or is closed from the other side.
Drop ==
  /\ socket \in {"connecting", "open"}
  /\ Disturb("drop")
  /\ OnClose
  /\ UNCHANGED <<lineVars, wanted, lost>>

\* The browser goes offline or comes back, and queues the event for it.
Flap ==
  /\ Disturb("flap")
  /\ onLine' = ~onLine
  /\ events' = Append(events, IF onLine THEN "offline" ELSE "online")
  /\ UNCHANGED <<connVars, subVars, wanted, netVars, lost>>

\* 'offline': clears every timer and closes the socket.
OfflineEvent ==
  /\ events # <<>> /\ Head(events) = "offline"
  /\ events' = Tail(events)
  /\ IF alive
     THEN /\ timer' = FALSE /\ failed' = 0 /\ socket' = Closed
          /\ IF socket = "null" THEN UNCHANGED netVars ELSE NetGone
     ELSE UNCHANGED <<timer, failed, socket, netVars>>
  /\ UNCHANGED <<alive, onLine, subVars, wanted, lost, budget>>

\* Mutant: 'online' schedules a connection whatever the socket does.
OnlineEventAnyway ==
  /\ events # <<>> /\ Head(events) = "online"
  /\ events' = Tail(events)
  /\ timer' = TRUE
  /\ UNCHANGED <<socket, failed, alive, onLine, subVars, wanted, netVars, lost,
                 budget>>

\* 'online': schedules a connection if there is no socket.
OnlineEvent ==
  /\ events # <<>> /\ Head(events) = "online"
  /\ events' = Tail(events)
  /\ IF alive /\ socket = "null"
     THEN timer' = TRUE /\ failed' = 0
     ELSE UNCHANGED <<timer, failed>>
  /\ UNCHANGED <<socket, alive, onLine, subVars, wanted, netVars, lost, budget>>

Application ==
  \/ Want \/ Leave \/ Modified
  \/ \E f \in Filters \union {NoFilter} : SetKvFilter(f)
Timers == Connect \/ \E op \in Ops : Retry(op)
Network == Open \/ ServerHandles \/ Receive \/ CloseEvent
Browser == OfflineEvent \/ OnlineEvent
Fault == TimesOut \/ Drop \/ Flap

Next == Application \/ Timers \/ Network \/ Browser \/ Fault

Spec == Init /\ [][Next]_vars

\* Timers fire, the browser dispatches its events, and while the line is up a
\* connection opens and what is sent on it is handled and answered.
Fairness ==
  /\ WF_vars(Connect) /\ WF_vars(onLine /\ Open) /\ WF_vars(CloseEvent)
  /\ WF_vars(Browser) /\ WF_vars(ServerHandles) /\ WF_vars(Receive)
  /\ \A op \in Ops : WF_vars(Retry(op))

FairSpec == Spec /\ Fairness

-----------------------------------------------------------------------------
(***************************************************************************)
(* Properties.                                                             *)
(***************************************************************************)
FilterType == Filters \union {NoFilter}
Requests == [op : Ops, filter : FilterType]
Responses == [op : Ops, ok : BOOLEAN, filter : FilterType]

\* Every variable holds a value of its kind; a send loop never exceeds its tries.
TypeOK ==
  /\ socket \in {"null", "connecting", "open", "closing"}
  /\ timer \in BOOLEAN /\ alive \in BOOLEAN /\ failed \in -1 .. MaxRetries + 1
  /\ onLine \in BOOLEAN /\ events \in Seq({"offline", "online"})
  /\ pend \in [Ops -> Absent .. MaxOpRetries + 1]
  /\ confirmed \in BOOLEAN /\ kvFilter \in FilterType /\ wanted \in BOOLEAN
  /\ up \in Seq(Requests) /\ down \in Seq(Responses)
  /\ served \in FilterType \union {Off}
  /\ lost \in BOOLEAN /\ budget \in 0 .. DisturbBound

Settled ==
  /\ socket = "open" /\ up = <<>> /\ down = <<>>
  /\ \A op \in Ops : ~Pending(op)

\* When nothing is under way, client and server agree on the subscription and its
\* filter, whatever was retried, answered twice or changed in between, unless a
\* request was refused or given up.
ViewsAgree ==
  Settled /\ ~lost =>
    /\ confirmed <=> served # Off
    /\ confirmed => served = kvFilter

\* A contract Chelonia wants is subscribed or about to be, across every loss of
\* the connection, as long as the client lives.
RoomKept ==
  wanted /\ alive /\ ~lost =>
    \/ Pending("sub")
    \/ confirmed /\ ~Pending("unsub")

\* connect() throws when there is a socket: no timer that calls it runs then.
TimerAlone == timer => socket = "null" /\ alive

\* A client without socket or timer has given up, or waits for the browser to say
\* that it is online again.
NeverStuck ==
  alive /\ socket = "null" /\ ~timer =>
    ~onLine \/ \E i \in DOMAIN events : events[i] = "online"

\* Once the line stays up, everything pending is answered or given up, and the
\* client is connected unless it had run out of attempts.
SettlesDown == <>[](onLine /\ alive => Settled)

=============================================================================
