---------------------------- MODULE EventStream ----------------------------
(***************************************************************************)
(* Reading the server's log of one contract: the stream of eventsAfter     *)
(* (src/src/utils.ts), which asks the server for page after page, and the  *)
(* requests made through it (src/src/chelonia.ts): the events up to a      *)
(* height, the events between two, and the contract's latest state.        *)
(*                                                                         *)
(* An event is its height.  A page starts with the event it was asked for, *)
(* which the stream already has when the page is not the first.  One       *)
(* stream is open at a time; the bytes of a page are its events.           *)
(***************************************************************************)
EXTENDS Integers, Sequences

CONSTANTS
  MaxHeight,     \* bound: height of the last event the server ever holds
  PageMax,       \* the most events the server puts in one response
  MAX_EVENTS_AFTER, \* the most events the client asks for; None: as many as there are
  RequestLimits, \* bound: the limits the application's requests are made with
  DisturbBound,  \* bound: how many disturbances happen
  Disturbances   \* the kinds of disturbance this instance allows

None == -1

Kinds == {"http", "cut", "app", "db", "crash", "resync", "outside", "journal",
          "clear"}

ASSUME HeightAssumption == MaxHeight \in Nat
\* A page of one event would only repeat the event it starts from.
ASSUME PageAssumption ==
  /\ PageMax \in Nat /\ PageMax >= 2
  /\ MAX_EVENTS_AFTER \in Nat \cup {None}
  /\ MAX_EVENTS_AFTER # None => MAX_EVENTS_AFTER >= 2
ASSUME LimitAssumption == RequestLimits \subseteq Nat \ {0}
ASSUME DisturbAssumption == DisturbBound \in Nat /\ Disturbances \subseteq Kinds

Heights == 0 .. MaxHeight
Limits == Nat \cup {None}   \* None stands for POSITIVE_INFINITY

VARIABLES
  top,     \* height of the newest event in the server's log
  strm,    \* eventsAfter's locals
  got,     \* history: the events the stream gave its reader, in order
  asked,   \* history: the least and the greatest height asked for
  budget   \* disturbances so far

streamVars == <<top, strm, got, asked>>

NoStream == [st |-> "off", use |-> "none", sinceHeight |-> 0, limit |-> None,
             remaining |-> None, requestLimit |-> None, latestHeight |-> 0,
             next |-> 0, last |-> 0, count |-> 0, requestCount |-> 0]

StreamInit ==
  top = 0 /\ strm = NoStream /\ got = <<>> /\ asked = <<0, None>>

Disturb(kind) ==
  /\ kind \in Disturbances
  /\ budget < DisturbBound
  /\ budget' = budget + 1

Smaller(a, b) == IF a < b THEN a ELSE b
Greater(a, b) == IF a > b THEN a ELSE b
\* Math.min, where None is infinite.
Min2(a, b) ==
  CASE a = None -> b
    [] a # None /\ b = None -> a
    [] a # None /\ b # None -> Smaller(a, b)

ServerAppend ==
  /\ top < MaxHeight
  /\ top' = top + 1
  /\ UNCHANGED <<strm, got, asked, budget>>

(***************************************************************************)
(* Opening a stream: by syncContract, or by one of the application's       *)
(* requests.                                                               *)
(***************************************************************************)
Opened(use, since, limit) ==
  [st |-> "fetch", use |-> use, sinceHeight |-> since, limit |-> limit,
   remaining |-> limit, requestLimit |-> None, latestHeight |-> 0,
   next |-> 0, last |-> 0, count |-> 0, requestCount |-> 0]

Open(use, since, limit, hi) ==
  /\ strm.st = "off"
  /\ since <= top
  /\ strm' = Opened(use, since, limit)
  /\ got' = <<>>
  /\ asked' = <<since, hi>>

Before(beforeHeight, limit) ==
  [since |-> Greater(0, beforeHeight - limit + 1),
   limit |-> Smaller(beforeHeight + 1, limit)]

\* endHeight None is POSITIVE_INFINITY, limit 0 no limit.
Between(start, endHeight, offset, limit) ==
  LET since == Greater(0, start - offset)
      span == IF endHeight = None THEN None ELSE endHeight - since + 1
  IN  [since |-> since, limit |-> IF limit = 0 THEN span ELSE Min2(span, limit)]

eventsBefore(beforeHeight, limit) ==
  LET ask == Before(beforeHeight, limit) IN
    Open("request", ask.since, ask.limit, beforeHeight)

\* The stream of eventsBetween is empty when nothing is left between its ends.
eventsBetween(start, endHeight, offset, limit) ==
  LET ask == Between(start, endHeight, offset, limit) IN
    /\ endHeight # None => endHeight >= ask.since
    /\ Open("request", ask.since, ask.limit, endHeight)

\* latestContractState reads the whole log and processes each event it is given.
latestContractState == Open("latest", 0, None, None)

Request ==
  /\ Disturb("app")
  /\ \/ \E b \in 0 .. top, l \in RequestLimits : eventsBefore(b, l)
     \/ \E s \in 0 .. top, e \in (0 .. top) \cup {None}, o \in 0 .. 1,
           l \in RequestLimits \cup {0} : eventsBetween(s, e, o, l)
     \/ latestContractState
  /\ UNCHANGED top

(***************************************************************************)
(* The stream's pull: one action for each state of its machine.            *)
(***************************************************************************)
AtEnd(s) == s.remaining = 0 \/ s.sinceHeight >= s.latestHeight

\* The answer holds the log from sinceHeight on, as far as the page reaches.
Fetched(s, req) ==
  [st |-> "new", use |-> s.use, sinceHeight |-> s.sinceHeight, limit |-> s.limit,
   remaining |-> s.remaining, requestLimit |-> req, latestHeight |-> top,
   next |-> s.sinceHeight,
   last |-> Smaller(top, s.sinceHeight + Min2(req, PageMax) - 1),
   count |-> 0, requestCount |-> 1]

FetchPage ==
  /\ strm.st = "fetch"
  /\ strm' = Fetched(strm, Min2(IF strm.limit = None THEN MAX_EVENTS_AFTER
                                                    ELSE strm.limit,
                                strm.remaining))
  /\ UNCHANGED <<top, got, asked, budget>>

\* The first event of a later page is meant to be dropped, but requestCount is
\* past zero as soon as there is a page to read.
Enqueues(s) == s.count # 0 \/ s.requestCount # 0

Less(n) == IF n = None THEN None ELSE n - 1

Parsed(s) ==
  [s EXCEPT !.st = IF s.next = s.last THEN "eos" ELSE "read",
            !.sinceHeight = IF s.next = s.last THEN s.next ELSE s.sinceHeight,
            !.next = s.next + 1, !.count = s.count + 1,
            !.remaining = IF Enqueues(s) THEN Less(s.remaining) ELSE s.remaining]

\* The reader takes the next event.
ReadEvent ==
  /\ strm.st \in {"new", "read"}
  /\ strm.count # strm.requestLimit
  /\ strm' = Parsed(strm)
  /\ got' = IF Enqueues(strm) THEN Append(got, strm.next) ELSE got
  /\ UNCHANGED <<top, asked>>

\* The mutant does not go on to the next page.
ClosedEarly(s) == [s EXCEPT !.st = "closed"]

NextPage(s) == [s EXCEPT !.st = IF AtEnd(s) THEN "closed" ELSE "fetch"]

EndOfPage ==
  /\ strm.st = "eos"
  /\ strm' = NextPage(strm)
  /\ UNCHANGED <<top, got, asked, budget>>

\* The connection ends between two events of a page: what was read stays read
\* and the same page is asked for again.
ConnectionCut ==
  /\ strm.st = "read"
  /\ Disturb("cut")
  /\ strm' = NextPage(strm)
  /\ UNCHANGED <<top, got, asked>>

\* A request fails, or its answer ends inside an event: the stream errors.
StreamFails ==
  /\ strm.st \in {"fetch", "new", "read"}
  /\ Disturb("http")
  /\ strm' = [strm EXCEPT !.st = "error"]
  /\ UNCHANGED <<top, got, asked>>

\* The application has read its stream to the end.
Requested ==
  /\ strm.use \in {"request", "latest"}
  /\ strm.st \in {"closed", "error"}
  /\ strm' = NoStream
  /\ got' = <<>>
  /\ asked' = <<0, None>>
  /\ UNCHANGED <<top, budget>>

(***************************************************************************)
(* Properties.                                                             *)
(***************************************************************************)
\* A stream starts with the event it was asked for and never skips one; closed,
\* it has reached the newest event of its last answer, or as many events as it
\* was asked for.
NothingSkipped ==
  /\ got # <<>> => got[1] = asked[1]
  /\ \A i \in 1 .. Len(got) - 1 : got[i + 1] <= got[i] + 1
  /\ strm.st = "closed" =>
       \/ strm.remaining = 0 /\ Len(got) = strm.limit
       \/ got # <<>> /\ got[Len(got)] >= strm.latestHeight

\* Nothing outside the heights asked for is ever given: eventsBefore and
\* eventsBetween turn their ends into a start and a count, and no page adds to it.
WithinAsked ==
  \A i \in 1 .. Len(got) :
    /\ asked[1] <= got[i]
    /\ asked[2] # None => got[i] <= asked[2]

\* What the comment on the pages' overlap says (src/src/utils.ts:984): the first
\* event of a later page, which the stream has already, is dropped.
EachOnce == \A i, j \in 1 .. Len(got) : got[i] = got[j] => i = j
=============================================================================
