-------------------------- MODULE EventStoreProofs --------------------------
(***************************************************************************)
(* What one client stores of a contract is whole: the log a chain with its *)
(* HEAD on it, and the journal a window the state can be rebuilt from.     *)
(*                                                                         *)
(* The journal is judged by Replays, which says that some run over the     *)
(* patches ends in a value: an entry more is one step more of that run.    *)
(* That reconstruct, a recursive function, computes the end of the only    *)
(* such run is shown once, by looking at the first place where they would  *)
(* differ.                                                                 *)
(***************************************************************************)
EXTENDS EventStore, SequenceTheorems, WellFoundedInduction, TLAPS

-----------------------------------------------------------------------------
(***************************************************************************)
(* What every step of a stream keeps, as a predicate of its variables      *)
(* rather than of the behaviour, cited for each action of the program      *)
(* that has a stream in it.                                                *)
(*                                                                         *)
(* The stream never runs ahead of what it has given (Placed), so that no   *)
(* event is skipped; and what is left of its limit never lets a page reach *)
(* past the end that was asked for (Bounded).                              *)
(***************************************************************************)

StreamRecs ==
  [st : {"off", "fetch", "new", "read", "eos", "closed", "error"},
   use : {"none", "sync", "request", "latest"},
   sinceHeight : Heights, limit : Limits, remaining : Limits,
   requestLimit : Limits, latestHeight : Heights, next : Nat, last : Heights,
   count : Nat, requestCount : Nat]

Reading(s) == s.st \in {"new", "read"}

\* Where the stream reads, or would ask for the next page, in a log of height t.
Placed(t, s, g, a) ==
  /\ s.latestHeight <= t
  /\ s.st # "closed" => s.sinceHeight <= t
  /\ s.sinceHeight = a[1] \/ (g # <<>> /\ s.sinceHeight <= g[Len(g)])
  /\ s.sinceHeight >= a[1]
  /\ s.st \in {"read", "eos"} => g # <<>> /\ s.sinceHeight <= g[Len(g)]
  /\ s.st = "eos" => s.sinceHeight = g[Len(g)]
  /\ Reading(s) =>
       /\ s.next <= s.last /\ s.last <= t /\ a[1] <= s.next
       /\ s.sinceHeight <= s.next
       /\ s.requestCount = 1
       /\ g # <<>> => s.next <= g[Len(g)] + 1
       /\ g = <<>> => s.next = a[1]
  /\ s.st = "closed" =>
       \/ s.remaining = 0 /\ Len(g) = s.limit
       \/ g # <<>> /\ g[Len(g)] >= s.latestHeight

\* What was given, and what is left to give of a limit.
Bounded(s, g, a) ==
  /\ s.limit = None <=> s.remaining = None
  /\ s.limit # None => Len(g) + s.remaining = s.limit
  /\ a[2] # None => s.limit # None /\ a[1] + s.limit - 1 <= a[2]
  /\ s.st = "fetch" => s.remaining # 0 /\ s.limit # 0
  /\ Reading(s) /\ s.remaining # None => s.last - s.next + 1 <= s.remaining

Given(g, a) ==
  /\ g # <<>> => g[1] = a[1]
  /\ \A i \in 1 .. Len(g) - 1 : g[i + 1] <= g[i] + 1
  /\ \A i \in 1 .. Len(g) : a[1] <= g[i] /\ g[i] <= a[1] + i - 1

Stream(t, s, g, a) ==
  /\ t \in Heights /\ s \in StreamRecs
  /\ g \in Seq(Heights) /\ a \in Heights \X (Heights \cup {None})
  /\ s.st = "off" => s = NoStream /\ g = <<>>
  /\ s.st # "off" => Placed(t, s, g, a) /\ Bounded(s, g, a)
  /\ Given(g, a)

StreamOk == Stream(top, strm, got, asked)

-----------------------------------------------------------------------------
\* A stream keeps its promises: no event is skipped, none is outside what was asked.
LEMMA StreamPromises == ASSUME StreamOk PROVE NothingSkipped /\ WithinAsked
<1>1. /\ strm \in StreamRecs /\ got \in Seq(Heights) /\ Given(got, asked)
      /\ asked \in Heights \X (Heights \cup {None})
      /\ strm.st = "off" => strm = NoStream /\ got = <<>>
      /\ strm.st # "off" => Placed(top, strm, got, asked) /\ Bounded(strm, got, asked)
  BY DEF StreamOk, Stream
<1>2. NothingSkipped
  BY <1>1 DEF NothingSkipped, Given, Placed
<1>3. ASSUME NEW i \in 1 .. Len(got) PROVE asked[1] <= got[i]
  BY <1>1, <1>3 DEF Given
<1>4. ASSUME NEW i \in 1 .. Len(got), asked[2] # None PROVE got[i] <= asked[2]
  <2>1. Len(got) \in Nat /\ got[i] \in Heights /\ got # <<>>
    BY <1>1, <1>4
  <2>2. asked[1] \in Heights /\ asked[2] \in Heights
    BY <1>1, <1>4
  <2>3. /\ strm.st # "off" /\ got[i] \in Nat /\ asked[1] \in Nat /\ asked[2] \in Nat
    BY <1>1, <2>1, <2>2 DEF Heights
  <2>4. Bounded(strm, got, asked) /\ strm.limit \in Limits /\ strm.remaining \in Limits
    BY <1>1, <2>3 DEF StreamRecs
  <2>5. /\ strm.limit \in Nat /\ strm.remaining \in Nat
        /\ Len(got) + strm.remaining = strm.limit
        /\ asked[1] + strm.limit - 1 <= asked[2]
    BY <1>4, <2>4 DEF Bounded, Limits
  <2>6. got[i] <= asked[1] + i - 1
    BY <1>1, <1>4 DEF Given
  <2>7. i \in Nat /\ i <= Len(got)
    BY <1>4, <2>1
  <2>8. i <= strm.limit
    BY <2>1, <2>5, <2>7
  <2>9. asked[1] + i - 1 <= asked[2]
    BY <2>3, <2>5, <2>7, <2>8
  <2> QED
    BY <2>3, <2>6, <2>7, <2>9
<1> QED
  BY <1>2, <1>3, <1>4 DEF WithinAsked

LEMMA NoStreamOk ==
  ASSUME NEW t \in Heights PROVE Stream(t, NoStream, <<>>, <<0, None>>)
BY HeightAssumption DEF Stream, NoStream, StreamRecs, Given, Heights, Limits, None

LEMMA GrownLogOk ==
  ASSUME NEW t, NEW s, NEW g, NEW a, Stream(t, s, g, a), t + 1 \in Heights
  PROVE  Stream(t + 1, s, g, a)
<1>1. /\ t \in Nat /\ s.latestHeight \in Nat /\ s.sinceHeight \in Nat
      /\ s.last \in Nat
  BY DEF Stream, StreamRecs, Heights
<1>2. s.st # "off" => Placed(t + 1, s, g, a)
  BY <1>1 DEF Stream, Placed
<1> QED
  BY <1>2 DEF Stream

LEMMA OpenedOk ==
  ASSUME NEW t \in Heights, NEW use \in {"sync", "request", "latest"},
         NEW since \in Heights, NEW limit \in Limits, since <= t, limit # 0,
         NEW hi \in Heights \cup {None},
         hi # None => limit # None /\ since + limit - 1 <= hi
  PROVE  Stream(t, Opened(use, since, limit), <<>>, <<since, hi>>)
<1> DEFINE s == Opened(use, since, limit)
<1>1. s = [st |-> "fetch", use |-> use, sinceHeight |-> since, limit |-> limit,
           remaining |-> limit, requestLimit |-> None, latestHeight |-> 0,
           next |-> 0, last |-> 0, count |-> 0, requestCount |-> 0]
  BY DEF Opened
<1> HIDE DEF s
<1>2. s \in StreamRecs /\ <<>> \in Seq(Heights) /\ Len(<<>>) = 0
  BY <1>1, HeightAssumption DEF StreamRecs, Limits, Heights, None
<1>3. Placed(t, s, <<>>, <<since, hi>>)
  BY <1>1 DEF Placed, Reading, Heights
<1>4. Bounded(s, <<>>, <<since, hi>>)
  BY <1>1, <1>2 DEF Bounded, Reading, Heights, Limits
<1>5. Given(<<>>, <<since, hi>>)
  BY DEF Given
<1> QED
  BY <1>1, <1>2, <1>3, <1>4, <1>5 DEF Stream, s
LEMMA FetchedRec ==
  ASSUME NEW s \in StreamRecs, NEW req \in Limits, NEW r, r = Fetched(s, req),
         top \in Heights, r.last \in Heights
  PROVE  r \in StreamRecs
<1>1. r = [st |-> "new", use |-> s.use, sinceHeight |-> s.sinceHeight,
           limit |-> s.limit, remaining |-> s.remaining, requestLimit |-> req,
           latestHeight |-> top, next |-> s.sinceHeight, last |-> r.last,
           count |-> 0, requestCount |-> 1]
  BY DEF Fetched
<1> QED
  BY <1>1, HeightAssumption DEF StreamRecs, Heights

LEMMA ParsedRec ==
  ASSUME NEW s \in StreamRecs, NEW r, r = Parsed(s)
  PROVE  /\ r.st = IF s.next = s.last THEN "eos" ELSE "read"
         /\ r.sinceHeight = IF s.next = s.last THEN s.next ELSE s.sinceHeight
         /\ r.remaining = IF Enqueues(s) THEN Less(s.remaining) ELSE s.remaining
         /\ r.next = s.next + 1 /\ r.count = s.count + 1
         /\ r.latestHeight = s.latestHeight /\ r.requestCount = s.requestCount
         /\ r.requestLimit = s.requestLimit
         /\ r.use = s.use /\ r.limit = s.limit /\ r.last = s.last
         /\ r = [st |-> r.st, use |-> r.use, sinceHeight |-> r.sinceHeight,
                 limit |-> r.limit, remaining |-> r.remaining,
                 requestLimit |-> r.requestLimit, latestHeight |-> r.latestHeight,
                 next |-> r.next, last |-> r.last, count |-> r.count,
                 requestCount |-> r.requestCount]
BY DEF Parsed, StreamRecs
-----------------------------------------------------------------------------
LEMMA LastIn ==
  ASSUME NEW g \in Seq(Heights), g # <<>>
  PROVE  Len(g) \in Nat /\ Len(g) \in 1 .. Len(g) /\ g[Len(g)] \in Nat
<1>1. Len(g) \in Nat /\ Len(g) # 0
  BY EmptySeq
<1>2. Len(g) \in 1 .. Len(g)
  BY <1>1
<1>3. g[Len(g)] \in Heights
  BY <1>2, ElementOfSeq
<1> QED
  BY <1>1, <1>2, <1>3 DEF Heights

LEMMA SmallerFits ==
  ASSUME NEW t \in Nat, NEW since \in Nat, NEW n \in Nat \ {0}, since <= t,
         NEW last, last = Smaller(t, since + n - 1)
  PROVE  last \in Nat /\ since <= last /\ last <= t /\ last - since + 1 <= n
BY DEF Smaller

LEMMA LimitFits ==
  ASSUME NEW limit \in Limits, NEW remaining \in Limits, NEW req, NEW n,
         limit = None <=> remaining = None, remaining # 0,
         limit # None => remaining <= limit,
         req = Min2(IF limit = None THEN MAX_EVENTS_AFTER ELSE limit, remaining),
         n = Min2(req, PageMax)
  PROVE  /\ req \in Limits /\ n \in Nat \ {0}
         /\ remaining # None => n <= remaining
<1>1. /\ req \in Limits /\ req # 0
      /\ remaining # None => req \in Nat /\ req <= remaining
  BY PageAssumption DEF Limits, Min2, Smaller, None
<1> QED
  BY <1>1, PageAssumption DEF Limits, Min2, Smaller, None

\* A page starts at the height it was asked for and fits what is left of the limit.
LEMMA PageFits ==
  ASSUME NEW t \in Nat, NEW since \in Nat, NEW limit \in Limits,
         NEW remaining \in Limits, NEW req, NEW n, NEW last,
         since <= t, limit = None <=> remaining = None, remaining # 0,
         limit # None => remaining <= limit,
         req = Min2(IF limit = None THEN MAX_EVENTS_AFTER ELSE limit, remaining),
         n = Min2(req, PageMax),
         last = Smaller(t, since + n - 1)
  PROVE  /\ req \in Limits /\ last \in Nat
         /\ since <= last /\ last <= t
         /\ remaining # None => last - since + 1 <= remaining
<1>1. /\ req \in Limits /\ n \in Nat \ {0}
      /\ remaining # None => n <= remaining
  BY LimitFits
<1>2. last \in Nat /\ since <= last /\ last <= t /\ last - since + 1 <= n
  BY <1>1, SmallerFits
<1>3. remaining # None => remaining \in Nat
  BY DEF Limits
<1> QED
  BY <1>1, <1>2, <1>3

LEMMA FetchOk ==
  ASSUME StreamOk, FetchPage PROVE StreamOk'
<1>1. PICK req : /\ req = Min2(IF strm.limit = None THEN MAX_EVENTS_AFTER
                                                  ELSE strm.limit, strm.remaining)
                 /\ strm' = Fetched(strm, req)
  BY DEF FetchPage
<1>2. /\ strm.st = "fetch" /\ top' = top /\ got' = got /\ asked' = asked
      /\ strm \in StreamRecs /\ top \in Heights
  BY DEF FetchPage, StreamOk, Stream
<1> DEFINE r == Fetched(strm, req)
<1>3. /\ r.st = "new" /\ r.latestHeight = top /\ r.requestCount = 1
      /\ r.next = strm.sinceHeight /\ r.sinceHeight = strm.sinceHeight
      /\ r.last = Smaller(top, strm.sinceHeight + Min2(req, PageMax) - 1)
      /\ r.limit = strm.limit /\ r.remaining = strm.remaining
  BY DEF Fetched
<1> HIDE DEF r
<1>4. /\ req \in Limits /\ r.last \in Heights
      /\ strm.sinceHeight <= r.last /\ r.last <= top
      /\ strm.remaining # None => r.last - strm.sinceHeight + 1 <= strm.remaining
  <2>1. /\ top \in Nat /\ strm.sinceHeight \in Nat /\ strm.limit \in Limits
        /\ strm.remaining \in Limits /\ Len(got) \in Nat
    BY <1>2 DEF StreamRecs, Heights, StreamOk, Stream
  <2>2. /\ strm.sinceHeight <= top /\ strm.remaining # 0
        /\ (strm.limit = None) <=> (strm.remaining = None)
        /\ strm.limit # None => Len(got) + strm.remaining = strm.limit
    BY <1>2 DEF StreamOk, Stream, Placed, Bounded
  <2>3. strm.limit # None => strm.remaining <= strm.limit
    BY <2>1, <2>2 DEF Limits
  <2>4. /\ req \in Limits /\ r.last \in Nat
        /\ strm.sinceHeight <= r.last /\ r.last <= top
        /\ strm.remaining # None => r.last - strm.sinceHeight + 1 <= strm.remaining
    <3>1. PICK n : n = Min2(req, PageMax)
      OBVIOUS
    <3>2. r.last = Smaller(top, strm.sinceHeight + n - 1)
      BY <1>3, <3>1
    <3>3. req = Min2(IF strm.limit = None THEN MAX_EVENTS_AFTER ELSE strm.limit,
                     strm.remaining)
      BY <1>1
    <3> QED
      BY <2>1, <2>2, <2>3, <3>1, <3>2, <3>3, PageFits
  <2> QED
    BY <1>2, <2>4, HeightAssumption DEF Heights
<1>5. r \in StreamRecs
  BY <1>2, <1>4, FetchedRec DEF r
<1>6. Placed(top, r, got, asked)
  <2>1. Placed(top, strm, got, asked)
    BY <1>2 DEF StreamOk, Stream
  <2>2. /\ top \in Nat /\ strm.sinceHeight \in Nat /\ got \in Seq(Heights)
        /\ asked[1] \in Nat
    BY <1>2 DEF StreamRecs, Heights, StreamOk, Stream
  <2>3. /\ strm.sinceHeight <= top /\ strm.sinceHeight >= asked[1]
        /\ strm.sinceHeight = asked[1] \/ (got # <<>> /\ strm.sinceHeight <= got[Len(got)])
    BY <1>2, <2>1 DEF Placed
  <2>4. got # <<>> => strm.sinceHeight <= got[Len(got)] + 1
    <3> SUFFICES ASSUME got # <<>> PROVE strm.sinceHeight <= got[Len(got)] + 1
      OBVIOUS
    <3>1. Len(got) \in 1 .. Len(got) /\ got[Len(got)] \in Nat
      BY <2>2, LastIn
    <3>2. asked[1] <= got[Len(got)]
      BY <3>1 DEF StreamOk, Stream, Given
    <3> QED
      BY <2>2, <2>3, <3>1, <3>2
  <2> QED
    BY <1>3, <1>4, <2>2, <2>3, <2>4 DEF Placed, Reading
<1>7. Bounded(r, got, asked)
  <2>1. Bounded(strm, got, asked)
    BY <1>2 DEF StreamOk, Stream
  <2> QED
    BY <1>3, <1>4, <2>1 DEF Bounded, Reading
<1>8. Stream(top, r, got, asked)
  BY <1>2, <1>3, <1>5, <1>6, <1>7 DEF StreamOk, Stream
<1> QED
  BY <1>1, <1>2, <1>8 DEF StreamOk, r
LEMMA LessOk ==
  ASSUME NEW n \in Limits, n # None => n \in Nat \ {0}
  PROVE  /\ Less(n) \in Limits
         /\ (Less(n) = None) <=> (n = None)
         /\ n # None => Less(n) = n - 1 /\ n \in Nat \ {0}
BY DEF Less, Limits, None

\* What is given grows by the event that is read.
LEMMA GivenGrows ==
  ASSUME NEW g \in Seq(Heights), NEW a \in Heights \X (Heights \cup {None}),
         Given(g, a), NEW h \in Heights, a[1] <= h,
         g # <<>> => h <= g[Len(g)] + 1, g = <<>> => h = a[1]
  PROVE  /\ Append(g, h) \in Seq(Heights) /\ Given(Append(g, h), a)
         /\ Len(g) \in Nat /\ Len(Append(g, h)) = Len(g) + 1
         /\ Append(g, h) # <<>> /\ Append(g, h)[Len(Append(g, h))] = h
<1> DEFINE m == Append(g, h)
<1>1. /\ m \in Seq(Heights) /\ Len(g) \in Nat /\ Len(m) = Len(g) + 1
      /\ m[Len(g) + 1] = h /\ \A i \in 1 .. Len(g) : m[i] = g[i]
  BY AppendProperties, LenProperties
<1> HIDE DEF m
<1>2. m # <<>>
  BY <1>1, EmptySeq
<1>3. h \in Nat /\ a[1] \in Nat /\ \A i \in 1 .. Len(g) : g[i] \in Nat
  <2>1. a[1] \in Heights /\ \A i \in 1 .. Len(g) : g[i] \in Heights
    BY ElementOfSeq
  <2> QED
    BY <2>1 DEF Heights
<1>4. CASE g = <<>>
  <2>1. Len(g) = 0 /\ h = a[1]
    BY <1>4
  <2> QED
    BY <1>1, <1>2, <1>3, <2>1 DEF Given, m
<1>5. CASE g # <<>>
  <2>1. Len(g) \in 1 .. Len(g) /\ g[1] = a[1] /\ h <= g[Len(g)] + 1
    BY <1>5, LastIn DEF Given
  <2>2. g[Len(g)] <= a[1] + Len(g) - 1
    BY <2>1 DEF Given
  <2>3. m[1] = a[1] /\ h <= a[1] + (Len(g) + 1) - 1
    BY <1>1, <1>3, <2>1, <2>2
  <2>4. ASSUME NEW i \in 1 .. Len(m) - 1 PROVE m[i + 1] <= m[i] + 1
    <3>1. CASE i = Len(g)
      BY <1>1, <2>1, <3>1
    <3>2. CASE i \in 1 .. Len(g) - 1
      <4>1. i \in 1 .. Len(g) /\ i + 1 \in 1 .. Len(g)
        BY <1>1, <3>2
      <4> QED
        BY <1>1, <3>2, <4>1 DEF Given
    <3> QED
      BY <1>1, <2>4, <3>1, <3>2
  <2>5. ASSUME NEW i \in 1 .. Len(m) PROVE a[1] <= m[i] /\ m[i] <= a[1] + i - 1
    <3>1. CASE i = Len(g) + 1
      BY <1>1, <2>3, <3>1
    <3>2. CASE i \in 1 .. Len(g)
      BY <1>1, <3>2 DEF Given
    <3> QED
      BY <1>1, <2>5, <3>1, <3>2
  <2> QED
    BY <1>1, <1>2, <2>3, <2>4, <2>5 DEF Given, m
<1> QED
  BY <1>4, <1>5

LEMMA ReadOk ==
  ASSUME StreamOk, ReadEvent PROVE StreamOk' /\ got' = Append(got, strm.next)
<1> DEFINE r == Parsed(strm)
           m == Append(got, strm.next)
<1>1. /\ Reading(strm) /\ top' = top /\ asked' = asked /\ strm' = r
      /\ strm \in StreamRecs /\ top \in Heights /\ got \in Seq(Heights)
      /\ asked \in Heights \X (Heights \cup {None}) /\ Given(got, asked)
      /\ Placed(top, strm, got, asked) /\ Bounded(strm, got, asked)
  BY DEF ReadEvent, StreamOk, Stream, Reading
<1>2. /\ strm.next \in Nat /\ strm.last \in Nat /\ top \in Nat /\ asked[1] \in Nat
      /\ strm.sinceHeight \in Nat /\ strm.count \in Nat
      /\ strm.limit \in Limits /\ strm.remaining \in Limits
  BY <1>1 DEF StreamRecs, Heights
<1>3. /\ strm.next <= strm.last /\ strm.last <= top /\ asked[1] <= strm.next
      /\ strm.sinceHeight <= strm.next /\ strm.sinceHeight >= asked[1]
      /\ strm.latestHeight <= top /\ strm.requestCount = 1
      /\ got # <<>> => strm.next <= got[Len(got)] + 1
      /\ got = <<>> => strm.next = asked[1]
      /\ strm.remaining # None => strm.last - strm.next + 1 <= strm.remaining
      /\ (strm.limit = None) <=> (strm.remaining = None)
      /\ strm.limit # None => Len(got) + strm.remaining = strm.limit
      /\ asked[2] # None =>
           strm.limit # None /\ asked[1] + strm.limit - 1 <= asked[2]
  BY <1>1 DEF Placed, Bounded
<1>4. strm.next \in Heights
  <2>1. top <= MaxHeight
    BY <1>1, HeightAssumption DEF Heights
  <2>2. strm.next <= top
    BY <1>2, <1>3
  <2> QED
    BY <1>2, <2>1, <2>2, HeightAssumption DEF Heights
<1>5. Enqueues(strm) /\ got' = m
  BY <1>3 DEF Enqueues, ReadEvent
<1>6. /\ m \in Seq(Heights) /\ Given(m, asked) /\ Len(got) \in Nat
      /\ Len(m) = Len(got) + 1 /\ m # <<>> /\ m[Len(m)] = strm.next
  BY <1>1, <1>3, <1>4, GivenGrows
<1> HIDE DEF m, r
<1>7. /\ r.st = IF strm.next = strm.last THEN "eos" ELSE "read"
      /\ r.sinceHeight = IF strm.next = strm.last THEN strm.next ELSE strm.sinceHeight
      /\ r.remaining = Less(strm.remaining)
      /\ r.next = strm.next + 1 /\ r.count = strm.count + 1
      /\ r.latestHeight = strm.latestHeight /\ r.requestCount = 1
      /\ r.requestLimit = strm.requestLimit
      /\ r.use = strm.use /\ r.limit = strm.limit /\ r.last = strm.last
      /\ r = [st |-> r.st, use |-> r.use, sinceHeight |-> r.sinceHeight,
              limit |-> r.limit, remaining |-> r.remaining,
              requestLimit |-> r.requestLimit, latestHeight |-> r.latestHeight,
              next |-> r.next, last |-> r.last, count |-> r.count,
              requestCount |-> r.requestCount]
  BY <1>1, <1>3, <1>5, ParsedRec DEF r
<1>8. /\ r.remaining \in Limits
      /\ (r.remaining = None) <=> (strm.remaining = None)
      /\ strm.remaining # None =>
           r.remaining = strm.remaining - 1 /\ strm.remaining \in Nat \ {0}
  <2>1. /\ strm.remaining \in Limits /\ r.remaining = Less(strm.remaining)
        /\ strm.remaining # None => strm.remaining \in Nat \ {0}
    <3>1. strm.remaining # None => strm.remaining \in Nat
      BY <1>2 DEF Limits
    <3> QED
      BY <1>2, <1>3, <1>7, <3>1
  <2> QED
    BY <2>1, LessOk
<1>9. r \in StreamRecs
  <2>1. /\ strm.use \in {"none", "sync", "request", "latest"}
        /\ strm.limit \in Limits /\ strm.requestLimit \in Limits
        /\ strm.latestHeight \in Heights /\ strm.last \in Heights
        /\ strm.sinceHeight \in Heights
    BY <1>1 DEF StreamRecs
  <2>2. r.next \in Nat /\ r.count \in Nat /\ r.requestCount \in Nat
    BY <1>2, <1>7
  <2>3. r.sinceHeight \in Heights /\ r.st \in {"eos", "read"}
    BY <1>4, <1>7, <2>1
  <2> QED
    BY <1>7, <1>8, <2>1, <2>2, <2>3 DEF StreamRecs
<1>10. Placed(top, r, m, asked)
  <2>1. r.sinceHeight <= top /\ r.sinceHeight >= asked[1] /\ r.sinceHeight <= m[Len(m)]
    BY <1>2, <1>3, <1>6, <1>7
  <2>2. r.st = "eos" => r.sinceHeight = m[Len(m)]
    BY <1>6, <1>7
  <2>3. Reading(r) =>
          /\ r.next <= r.last /\ r.last <= top /\ asked[1] <= r.next
          /\ r.sinceHeight <= r.next /\ r.next <= m[Len(m)] + 1
    BY <1>2, <1>3, <1>6, <1>7 DEF Reading
  <2> QED
    BY <1>3, <1>6, <1>7, <2>1, <2>2, <2>3 DEF Placed
<1>11. Bounded(r, m, asked)
  <2>1. strm.limit # None => Len(m) + r.remaining = r.limit
    <3> SUFFICES ASSUME strm.limit # None PROVE Len(m) + r.remaining = r.limit
      OBVIOUS
    <3>1. /\ Len(got) + strm.remaining = strm.limit /\ r.remaining = strm.remaining - 1
          /\ strm.remaining \in Nat
      BY <1>3, <1>8
    <3> QED
      BY <1>6, <1>7, <3>1
  <2>2. r.remaining # None => r.last - r.next + 1 <= r.remaining
    BY <1>2, <1>3, <1>7, <1>8
  <2> QED
    BY <1>3, <1>7, <1>8, <2>1, <2>2 DEF Bounded
<1>12. Stream(top, r, m, asked)
  BY <1>1, <1>6, <1>7, <1>9, <1>10, <1>11 DEF Stream
<1> QED
  BY <1>1, <1>5, <1>12 DEF StreamOk, m

\* A page, or what was read of it, is behind the stream.
LEMMA NextPageOk ==
  ASSUME StreamOk, strm.st \in {"read", "eos"}, strm' = NextPage(strm),
         UNCHANGED <<top, got, asked>>
  PROVE  StreamOk'
<1> DEFINE r == NextPage(strm)
<1>1. /\ strm \in StreamRecs /\ got \in Seq(Heights)
      /\ Placed(top, strm, got, asked) /\ Bounded(strm, got, asked)
  BY DEF StreamOk, Stream
<1>2. /\ r \in StreamRecs /\ r = [strm EXCEPT !.st = r.st]
      /\ r.st = IF AtEnd(strm) THEN "closed" ELSE "fetch"
  BY <1>1 DEF NextPage, StreamRecs
<1>3. /\ r.sinceHeight = strm.sinceHeight /\ r.limit = strm.limit
      /\ r.remaining = strm.remaining /\ r.latestHeight = strm.latestHeight
  BY <1>1, <1>2 DEF StreamRecs
<1> HIDE DEF r
<1>4. /\ got # <<>> /\ strm.sinceHeight <= got[Len(got)]
      /\ strm.sinceHeight \in Nat /\ strm.latestHeight \in Nat
      /\ Len(got) \in Nat /\ got[Len(got)] \in Nat
      /\ strm.limit \in Limits /\ strm.remaining \in Limits
  <2>1. got # <<>> /\ strm.sinceHeight <= got[Len(got)]
    BY <1>1 DEF Placed
  <2> QED
    BY <1>1, <2>1, LastIn DEF StreamRecs, Heights
<1>5. r.st = "closed" =>
        \/ strm.remaining = 0 /\ Len(got) = strm.limit
        \/ got[Len(got)] >= strm.latestHeight
  <2>1. CASE strm.remaining = 0
    BY <1>1, <1>4, <2>1 DEF Bounded, None
  <2>2. CASE strm.sinceHeight >= strm.latestHeight
    BY <1>4, <2>2
  <2> QED
    BY <1>2, <2>1, <2>2 DEF AtEnd
<1>6. Placed(top, r, got, asked)
  BY <1>1, <1>2, <1>3, <1>4, <1>5 DEF Placed, Reading
<1>7. r.st = "fetch" => strm.remaining # 0 /\ strm.limit # 0
  <2>1. r.st = "fetch" => strm.remaining # 0
    BY <1>2 DEF AtEnd
  <2>2. strm.limit # None => Len(got) + strm.remaining = strm.limit
    BY <1>1 DEF Bounded
  <2>3. (strm.limit = None) <=> (strm.remaining = None)
    BY <1>1 DEF Bounded
  <2> QED
    BY <1>4, <2>1, <2>2, <2>3 DEF Limits, None
<1>8. Bounded(r, got, asked)
  BY <1>1, <1>2, <1>3, <1>7 DEF Bounded, Reading
<1>9. Stream(top, r, got, asked)
  BY <1>1, <1>2, <1>6, <1>8 DEF StreamOk, Stream
<1> QED
  BY <1>9 DEF StreamOk, r

LEMMA ErrorOk ==
  ASSUME StreamOk, strm.st \in {"fetch", "new", "read"},
         strm' = [strm EXCEPT !.st = "error"], UNCHANGED <<top, got, asked>>
  PROVE  StreamOk'
<1> DEFINE r == [strm EXCEPT !.st = "error"]
<1>1. /\ strm \in StreamRecs /\ Placed(top, strm, got, asked)
      /\ Bounded(strm, got, asked)
  BY DEF StreamOk, Stream
<1>2. /\ r \in StreamRecs /\ r.st = "error"
      /\ r.sinceHeight = strm.sinceHeight /\ r.limit = strm.limit
      /\ r.remaining = strm.remaining /\ r.latestHeight = strm.latestHeight
  BY <1>1 DEF StreamRecs
<1> HIDE DEF r
<1>3. Placed(top, r, got, asked) /\ Bounded(r, got, asked)
  BY <1>1, <1>2 DEF Placed, Bounded, Reading
<1>4. Stream(top, r, got, asked)
  BY <1>2, <1>3 DEF StreamOk, Stream
<1> QED
  BY <1>4 DEF StreamOk, r
-----------------------------------------------------------------------------
(***************************************************************************)
(* The requests: their ends turned into a start and a count.               *)
(***************************************************************************)
LEMMA OpenOk ==
  ASSUME StreamOk, NEW use \in {"sync", "request", "latest"}, NEW since \in Nat,
         NEW limit \in Limits, NEW hi \in Heights \cup {None}, limit # 0,
         hi # None => limit # None /\ since + limit - 1 <= hi,
         Open(use, since, limit, hi), top' = top
  PROVE  StreamOk'
<1>1. top \in Heights /\ since <= top
  BY DEF StreamOk, Stream, Open
<1>2. since \in Heights
  BY <1>1, HeightAssumption DEF Heights
<1>3. Stream(top, Opened(use, since, limit), <<>>, <<since, hi>>)
  BY <1>1, <1>2, OpenedOk
<1> QED
  BY <1>3 DEF Open, StreamOk

LEMMA BeforeFits ==
  ASSUME NEW b \in Nat, NEW l \in Nat \ {0}
  PROVE  LET ask == Before(b, l) IN
           /\ ask.since \in Nat /\ ask.limit \in Nat \ {0}
           /\ ask.since + ask.limit - 1 <= b
BY DEF Before, Greater, Smaller

LEMMA BetweenFits ==
  ASSUME NEW start \in Nat, NEW endHeight \in Nat \cup {None}, NEW offset \in Nat,
         NEW l \in Nat,
         LET ask == Between(start, endHeight, offset, l)
         IN  endHeight # None => endHeight >= ask.since
  PROVE  LET ask == Between(start, endHeight, offset, l) IN
           /\ ask.since \in Nat /\ ask.limit \in Limits /\ ask.limit # 0
           /\ endHeight # None =>
                ask.limit # None /\ ask.since + ask.limit - 1 <= endHeight
<1> DEFINE since == Greater(0, start - offset)
           ask == Between(start, endHeight, offset, l)
<1>1. since \in Nat /\ ask.since = since
  BY DEF Greater, Between
<1>2. ask.limit = LET span == IF endHeight = None THEN None ELSE endHeight - since + 1
                  IN  IF l = 0 THEN span ELSE Min2(span, l)
  BY DEF Between
<1> HIDE DEF since, ask
<1>3. CASE endHeight = None
  <2>1. ask.limit = IF l = 0 THEN None ELSE l
    BY <1>2, <1>3 DEF Min2
  <2> QED
    BY <1>1, <1>3, <2>1 DEF ask, Limits, None
<1>4. CASE endHeight \in Nat
  <2>1. endHeight # None /\ endHeight >= since
    BY <1>1, <1>4 DEF ask, None
  <2>2. endHeight - since + 1 \in Nat \ {0} /\ endHeight - since + 1 # None
    BY <1>1, <1>4, <2>1 DEF None
  <2>3. ask.limit = IF l = 0 THEN endHeight - since + 1
                            ELSE Smaller(endHeight - since + 1, l)
    <3>1. l # None
      BY DEF None
    <3> QED
      BY <1>2, <2>1, <2>2, <3>1 DEF Min2
  <2>4. /\ ask.limit \in Nat \ {0} /\ ask.limit # None
        /\ since + ask.limit - 1 <= endHeight
    BY <1>1, <1>4, <2>2, <2>3 DEF Smaller, None
  <2> QED
    BY <1>1, <2>4 DEF ask, Limits
<1> QED
  BY <1>3, <1>4

LEMMA RequestOk ==
  ASSUME StreamOk, Request
  PROVE  StreamOk' /\ strm.st = "off" /\ strm'.use \in {"request", "latest"}
<1>1. top \in Nat /\ top' = top /\ top <= MaxHeight
  BY HeightAssumption DEF StreamOk, Stream, Heights, Request
<1>2. ASSUME NEW b \in 0 .. top, NEW l \in RequestLimits, eventsBefore(b, l)
      PROVE  StreamOk' /\ strm.st = "off" /\ strm'.use \in {"request", "latest"}
  <2> DEFINE ask == Before(b, l)
  <2>1. /\ ask.since \in Nat /\ ask.limit \in Nat \ {0}
        /\ ask.since + ask.limit - 1 <= b
    BY BeforeFits, LimitAssumption
  <2>2. Open("request", ask.since, ask.limit, b)
    BY <1>2 DEF eventsBefore
  <2> HIDE DEF ask
  <2>3. /\ ask.limit \in Limits /\ ask.limit # None /\ ask.limit # 0
        /\ b \in Heights \cup {None}
    BY <1>1, <2>1, HeightAssumption DEF Limits, None, Heights
  <2>4. StreamOk'
    BY <1>1, <2>1, <2>2, <2>3, OpenOk
  <2> QED
    BY <2>2, <2>4 DEF Open, Opened
<1>3. ASSUME NEW s \in 0 .. top, NEW e \in (0 .. top) \cup {None}, NEW o \in 0 .. 1,
             NEW l \in RequestLimits \cup {0}, eventsBetween(s, e, o, l)
      PROVE  StreamOk' /\ strm.st = "off" /\ strm'.use \in {"request", "latest"}
  <2> DEFINE ask == Between(s, e, o, l)
  <2>1. /\ Open("request", ask.since, ask.limit, e)
        /\ e # None => e >= ask.since
    BY <1>3 DEF eventsBetween
  <2>2. l \in Nat /\ e \in Nat \cup {None} /\ e \in Heights \cup {None}
    BY <1>1, LimitAssumption, HeightAssumption DEF Heights
  <2>3. /\ ask.since \in Nat /\ ask.limit \in Limits /\ ask.limit # 0
        /\ e # None => ask.limit # None /\ ask.since + ask.limit - 1 <= e
    BY <2>1, <2>2, BetweenFits
  <2> HIDE DEF ask
  <2>4. StreamOk'
    BY <1>1, <2>1, <2>2, <2>3, OpenOk
  <2> QED
    BY <2>1, <2>4 DEF Open, Opened
<1>4. ASSUME latestContractState
      PROVE  StreamOk' /\ strm.st = "off" /\ strm'.use \in {"request", "latest"}
  <2>1. Open("latest", 0, None, None) /\ None \in Limits /\ None # 0
    BY <1>4 DEF latestContractState, Limits, None
  <2>2. StreamOk'
    BY <1>1, <2>1, OpenOk
  <2> QED
    BY <2>1, <2>2 DEF Open, Opened
<1> QED
  BY <1>2, <1>3, <1>4 DEF Request

-----------------------------------------------------------------------------
(***************************************************************************)
(* The greatest and the least of a set of heights.                         *)
(***************************************************************************)
LEMMA LeastExists ==
  ASSUME NEW T \in SUBSET Nat, T # {} PROVE \E x \in T : \A y \in T : x <= y
<1>1. PICK x \in T : \A y \in T : <<y, x>> \notin OpToRel(<, Nat)
  BY WFMin, NatLessThanWellFounded DEF OpToRel
<1>2. ASSUME NEW y \in T PROVE x <= y
  <2>1. <<y, x>> \in Nat \X Nat /\ ~(y < x)
    BY <1>1 DEF OpToRel
  <2> QED
    BY <2>1
<1> QED
  BY <1>2

LEMMA GreatestExists ==
  ASSUME NEW n \in Nat, NEW S \in SUBSET (0 .. n), S # {}
  PROVE  \E m \in S : \A k \in S : k <= m
<1> DEFINE T == {n - k : k \in S}
<1>0. \A k \in S : n - k \in Nat
  OBVIOUS
<1>1. T \in SUBSET Nat /\ T # {}
  BY <1>0
<1>2. PICK x \in T : \A y \in T : x <= y
  BY <1>1, LeastExists
<1>3. PICK m \in S : x = n - m
  OBVIOUS
<1>4. ASSUME NEW k \in S PROVE k <= m
  <2>1. n - k \in T /\ k \in 0 .. n /\ m \in 0 .. n
    OBVIOUS
  <2> QED
    BY <1>2, <1>3, <2>1
<1> QED
  BY <1>4

LEMMA LastOfIs ==
  ASSUME NEW S \in SUBSET Nat, NEW m \in S, \A k \in S : k <= m
  PROVE  LastOf(S) = m
<1>1. S # {} /\ \E h \in S : \A k \in S : k <= h
  OBVIOUS
<1>2. LastOf(S) \in S /\ \A k \in S : k <= LastOf(S)
  BY <1>1 DEF LastOf
<1>3. m \in Nat /\ LastOf(S) \in Nat /\ m <= LastOf(S) /\ LastOf(S) <= m
  BY <1>2
<1> QED
  BY <1>3

LEMMA LastOfSet ==
  ASSUME NEW n \in Nat, NEW S \in SUBSET (0 .. n), S # {}
  PROVE  LastOf(S) \in S /\ \A k \in S : k <= LastOf(S)
<1>1. PICK m \in S : \A k \in S : k <= m
  BY GreatestExists
<1> QED
  BY <1>1, LastOfIs

-----------------------------------------------------------------------------
(***************************************************************************)
(* The heads of a log.                                                     *)
(***************************************************************************)
LEMMA KeyOpHeights ==
  ASSUME NEW h \in Int
  PROVE  /\ {k \in KeyOps : k <= h - 1} = {k \in KeyOps : k < h}
         /\ h \notin KeyOps => {k \in KeyOps : k <= h} = {k \in KeyOps : k < h}
         /\ {k \in KeyOps : k <= h} \subseteq 0 .. h
<1>1. \A k \in KeyOps : k \in Nat
  BY EventAssumption
<1>2. \A k \in KeyOps : /\ (k <= h - 1) <=> (k < h)
                        /\ (k <= h /\ k # h) <=> (k < h)
                        /\ k <= h => k \in 0 .. h
  BY <1>1
<1> QED
  BY <1>2

LEMMA HeadOfNone == HeadOf(None) = NoHead
<1>1. {k \in KeyOps : k <= None} = {}
  <2>1. None \in Int /\ 0 .. None = {}
    BY DEF None
  <2> QED
    BY <2>1, KeyOpHeights
<1> QED
  BY <1>1 DEF HeadOf, NoHead, LastOf

LEMMA NewHeadIs == ASSUME NEW h \in Nat PROVE NewHead(h) = HeadOf(h)
<1>1. CASE h \in KeyOps
  <2>1. /\ {k \in KeyOps : k <= h} \in SUBSET Nat /\ h \in {k \in KeyOps : k <= h}
        /\ \A j \in {k \in KeyOps : k <= h} : j <= h
    <3>1. {k \in KeyOps : k <= h} \in SUBSET Nat
      BY EventAssumption
    <3>2. h <= h
      OBVIOUS
    <3> QED
      BY <1>1, <3>1, <3>2
  <2>2. LastOf({k \in KeyOps : k <= h}) = h
    BY <2>1, LastOfIs
  <2> QED
    BY <1>1, <2>2 DEF NewHead, HeadOf
<1>2. CASE h \notin KeyOps
  <2>1. {k \in KeyOps : k <= h} = {k \in KeyOps : k < h}
    BY <1>2, KeyOpHeights
  <2> QED
    BY <1>2, <2>1 DEF NewHead, HeadOf, PreviousKeyOp
<1> QED
  BY <1>1, <1>2

\* The HEAD an event expects is the one the event before it leaves.
LEMMA FitsIs ==
  ASSUME NEW h \in Nat
  PROVE  /\ HeadOf(h - 1) = [height |-> h - 1, previousKeyOp |-> PreviousKeyOp(h)]
         /\ latestHEADinfo = HeadOf(h - 1) => Fits(h)
         /\ latestHEADinfo.height # h - 1 => ~Fits(h)
<1>1. {k \in KeyOps : k <= h - 1} = {k \in KeyOps : k < h}
  BY KeyOpHeights
<1>2. HeadOf(h - 1) = [height |-> h - 1, previousKeyOp |-> PreviousKeyOp(h)]
  BY <1>1 DEF HeadOf, PreviousKeyOp
<1>3. h = 0 => HeadOf(h - 1) = NoHead
  BY HeadOfNone DEF None
<1>4. latestHEADinfo.height # h - 1 => ~Fits(h)
  BY DEF Fits, NoHead, None
<1> QED
  BY <1>2, <1>3, <1>4 DEF Fits

LEMMA HeadOfType ==
  ASSUME NEW h \in Heights \cup {None} PROVE HeadOf(h) \in Heads
<1> DEFINE S == {k \in KeyOps : k <= h}
<1>1. CASE S = {}
  BY <1>1 DEF HeadOf, LastOf, Heads
<1>2. CASE S # {}
  <2>0. h \in Int /\ S \in SUBSET (0 .. h)
    BY KeyOpHeights, HeightAssumption DEF Heights, None
  <2>1. h \in Nat /\ S \in SUBSET (0 .. h)
    BY <1>2, <2>0
  <2>2. LastOf(S) \in 0 .. h
    BY <1>2, <2>1, LastOfSet
  <2>3. LastOf(S) \in Heights
    BY <2>1, <2>2, HeightAssumption DEF Heights, None
  <2> QED
    BY <2>3 DEF HeadOf, Heads
<1> QED
  BY <1>1, <1>2

LEMMA LastOfRun ==
  ASSUME NEW n \in Heights \cup {None} PROVE LastOf(0 .. n) = n
<1>1. CASE n = None
  <2>1. 0 .. n = {}
    BY <1>1 DEF None
  <2> QED
    BY <1>1, <2>1 DEF LastOf
<1>2. CASE n \in Nat
  <2>1. n \in 0 .. n /\ 0 .. n \in SUBSET Nat /\ \A k \in 0 .. n : k <= n
    BY <1>2
  <2> QED
    BY <2>1, LastOfIs
<1> QED
  BY <1>1, <1>2 DEF Heights
-----------------------------------------------------------------------------
(***************************************************************************)
(* The journal: entries that follow each other, and runs over them.        *)
(***************************************************************************)
Chain(es) ==
  /\ es # <<>> => es[1].kind = "snapshot"
  /\ \A i \in 1 .. Len(es) - 1 :
       es[i + 1].h = es[i].h + (IF es[i + 1].kind = "patch" THEN 1 ELSE 0)

Run(es, from, R) ==
  /\ R \in [from .. Len(es) -> States]
  /\ R[from] = es[from].body
  /\ \A i \in from + 1 .. Len(es) : R[i] = applyPatch(R[i - 1], es[i].body)

Replays(es, v) ==
  \E R : /\ Run(es, indexOfLastSnapshot(es), R)
        /\ R[Len(es)] = v

\* from is the place of the latest snapshot.
SnapshotAt(es, from) ==
  /\ from \in 1 .. Len(es)
  /\ es[from].kind = "snapshot"
  /\ \A j \in from + 1 .. Len(es) : es[j].kind = "patch"

LEMMA EntryKinds ==
  ASSUME NEW e \in Entries
  PROVE  /\ e.kind \in {"snapshot", "patch"} /\ e.h \in Nat /\ e.err \in BOOLEAN
         /\ e.kind = "snapshot" => e.body \in States
         /\ e.kind = "patch" => e.body \in Patches
BY DEF Entries

LEMMA SnapshotFound ==
  ASSUME NEW es \in Seq(Entries), NEW from, SnapshotAt(es, from)
  PROVE  indexOfLastSnapshot(es) = from
<1> DEFINE at == {i \in DOMAIN es : es[i].kind = "snapshot"}
<1>1. DOMAIN es = 1 .. Len(es) /\ Len(es) \in Nat
  BY LenProperties
<1>2. from \in at /\ from \in Nat
  BY <1>1 DEF SnapshotAt
<1>3. ASSUME NEW j \in at PROVE j <= from
  <2>1. j \in 1 .. Len(es) /\ es[j].kind = "snapshot"
    BY <1>1
  <2>2. j \notin from + 1 .. Len(es)
    BY <2>1 DEF SnapshotAt
  <2> QED
    BY <1>2, <2>1, <2>2
<1>4. \A j \in at : j \in Nat
  BY <1>1
<1> HIDE DEF at
<1> DEFINE c == CHOOSE i \in at : \A j \in at : j <= i
<1>5. c \in at /\ \A j \in at : j <= c
  BY <1>2, <1>3
<1>6. c <= from /\ from <= c /\ c \in Nat
  BY <1>2, <1>3, <1>4, <1>5
<1>7. at # {} /\ c = from
  BY <1>2, <1>6
<1> QED
  BY <1>7 DEF indexOfLastSnapshot, at

\* A window that starts with a snapshot has a latest one.
LEMMA SnapshotExists ==
  ASSUME NEW es \in Seq(Entries), es # <<>>, Chain(es)
  PROVE  SnapshotAt(es, indexOfLastSnapshot(es))
<1> DEFINE at == {i \in 1 .. Len(es) : es[i].kind = "snapshot"}
<1>1. Len(es) \in Nat \ {0} /\ es[1].kind = "snapshot"
  BY EmptySeq DEF Chain
<1>2. at \in SUBSET (0 .. Len(es)) /\ 1 \in at
  BY <1>1
<1>3. PICK m \in at : \A j \in at : j <= m
  BY <1>1, <1>2, GreatestExists
<1>4. ASSUME NEW j \in m + 1 .. Len(es) PROVE es[j].kind = "patch"
  <2>1. j \in 1 .. Len(es) /\ ~(j <= m)
    BY <1>1, <1>3
  <2>2. es[j] \in Entries /\ es[j].kind # "snapshot"
    BY <1>3, <2>1, ElementOfSeq
  <2> QED
    BY <2>2, EntryKinds
<1>5. SnapshotAt(es, m)
  BY <1>3, <1>4 DEF SnapshotAt
<1> QED
  BY <1>5, SnapshotFound
-----------------------------------------------------------------------------
(***************************************************************************)
(* An entry more at the end, and the entries before a snapshot cut off.    *)
(***************************************************************************)
LEMMA ChainGrows ==
  ASSUME NEW es \in Seq(Entries), es # <<>>, Chain(es), NEW e \in Entries,
         e.h = Last(es).h + (IF e.kind = "patch" THEN 1 ELSE 0)
  PROVE  /\ Append(es, e) \in Seq(Entries) /\ Chain(Append(es, e))
         /\ Len(es) \in Nat \ {0} /\ Len(Append(es, e)) = Len(es) + 1
         /\ Append(es, e) # <<>> /\ Last(Append(es, e)) = e
         /\ Append(es, e)[Len(es) + 1] = e
         /\ \A i \in 1 .. Len(es) : Append(es, e)[i] = es[i]
<1> DEFINE m == Append(es, e)
<1>1. /\ m \in Seq(Entries) /\ Len(es) \in Nat \ {0} /\ Len(m) = Len(es) + 1
      /\ m[Len(es) + 1] = e /\ \A i \in 1 .. Len(es) : m[i] = es[i]
  BY AppendProperties, EmptySeq
<1> HIDE DEF m
<1>2. m # <<>> /\ Last(m) = e
  BY <1>1, EmptySeq DEF Last
<1>3. m[1].kind = "snapshot"
  BY <1>1 DEF Chain
<1>4. ASSUME NEW i \in 1 .. Len(m) - 1
      PROVE  m[i + 1].h = m[i].h + (IF m[i + 1].kind = "patch" THEN 1 ELSE 0)
  <2>1. CASE i = Len(es)
    BY <1>1, <2>1 DEF Last
  <2>2. CASE i \in 1 .. Len(es) - 1
    <3>1. m[i] = es[i] /\ m[i + 1] = es[i + 1]
      BY <1>1, <2>2
    <3> QED
      BY <2>2, <3>1 DEF Chain
  <2> QED
    BY <1>1, <1>4, <2>1, <2>2
<1> QED
  BY <1>1, <1>2, <1>3, <1>4 DEF Chain, m

LEMMA RunEnds ==
  ASSUME NEW es \in Seq(Entries), NEW from, SnapshotAt(es, from)
  PROVE  /\ from \in Nat /\ Len(es) \in Nat /\ from <= Len(es)
         /\ es[from].body \in States
         /\ indexOfLastSnapshot(es) = from
<1>1. from \in 1 .. Len(es) /\ es[from] \in Entries /\ es[from].kind = "snapshot"
  BY ElementOfSeq DEF SnapshotAt
<1> QED
  BY <1>1, EntryKinds, SnapshotFound, LenProperties

\* A run goes on with a patch.
LEMMA PatchReplays ==
  ASSUME NEW es \in Seq(Entries), NEW from, SnapshotAt(es, from), NEW e \in Entries,
         e.kind = "patch", NEW m \in Seq(Entries), Len(m) = Len(es) + 1,
         m[Len(es) + 1] = e, \A i \in 1 .. Len(es) : m[i] = es[i],
         NEW v, Replays(es, v), applyPatch(v, e.body) \in States
  PROVE  SnapshotAt(m, from) /\ Replays(m, applyPatch(v, e.body))
<1> DEFINE w == applyPatch(v, e.body)
<1>1. /\ from \in Nat /\ Len(es) \in Nat /\ from <= Len(es) /\ from >= 1
      /\ indexOfLastSnapshot(es) = from
  BY RunEnds DEF SnapshotAt
<1>2. SnapshotAt(m, from)
  <2>1. m[from].kind = "snapshot" /\ from \in 1 .. Len(m)
    BY <1>1 DEF SnapshotAt
  <2>2. ASSUME NEW j \in from + 1 .. Len(m) PROVE m[j].kind = "patch"
    <3>1. CASE j = Len(es) + 1
      BY <3>1
    <3>2. CASE j \in from + 1 .. Len(es)
      BY <1>1, <3>2 DEF SnapshotAt
    <3> QED
      BY <1>1, <2>2, <3>1, <3>2
  <2> QED
    BY <2>1, <2>2 DEF SnapshotAt
<1>3. PICK R : Run(es, from, R) /\ R[Len(es)] = v
  BY <1>1 DEF Replays
<1> DEFINE Q == [i \in from .. Len(m) |-> IF i = Len(m) THEN w ELSE R[i]]
<1>4. \A i \in from .. Len(es) : R[i] \in States /\ Q[i] = R[i] /\ i # Len(m)
  BY <1>1, <1>3 DEF Run
<1>5. Q \in [from .. Len(m) -> States] /\ Q[Len(m)] = w
  <2>1. Len(m) \in from .. Len(m) /\ Q[Len(m)] = w
    BY <1>1
  <2>2. ASSUME NEW i \in from .. Len(m) PROVE Q[i] \in States
    <3>1. i = Len(m) \/ i \in from .. Len(es)
      BY <1>1
    <3> QED
      BY <1>4, <2>1, <3>1
  <2> QED
    BY <2>1, <2>2
<1>6. Q[from] = m[from].body
  BY <1>1, <1>3, <1>4 DEF Run
<1>7. ASSUME NEW i \in from + 1 .. Len(m) PROVE Q[i] = applyPatch(Q[i - 1], m[i].body)
  <2>1. CASE i = Len(es) + 1
    <3>1. Q[i] = w /\ Q[i - 1] = v /\ m[i] = e
      BY <1>1, <1>3, <1>4, <1>5, <2>1
    <3> QED
      BY <3>1
  <2>2. CASE i \in from + 1 .. Len(es)
    <3>1. Q[i] = R[i] /\ Q[i - 1] = R[i - 1] /\ m[i] = es[i]
      BY <1>1, <1>4, <2>2
    <3> QED
      BY <1>3, <2>2, <3>1 DEF Run
  <2> QED
    BY <1>1, <1>7, <2>1, <2>2
<1> HIDE DEF Q
<1>8. Run(m, from, Q)
  BY <1>5, <1>6, <1>7 DEF Run
<1>9. indexOfLastSnapshot(m) = from
  BY <1>2, SnapshotFound
<1> QED
  BY <1>2, <1>5, <1>8, <1>9 DEF Replays

\* A run starts at a snapshot.
LEMMA SnapshotReplays ==
  ASSUME NEW m \in Seq(Entries), m # <<>>, Last(m).kind = "snapshot"
  PROVE  SnapshotAt(m, Len(m)) /\ Replays(m, Last(m).body)
<1>1. Len(m) \in Nat \ {0}
  BY EmptySeq
<1>2. SnapshotAt(m, Len(m))
  BY <1>1 DEF SnapshotAt, Last
<1>3. Last(m).body \in States /\ indexOfLastSnapshot(m) = Len(m)
  BY <1>2, RunEnds DEF Last
<1> DEFINE R == [i \in Len(m) .. Len(m) |-> Last(m).body]
<1>4. R[Len(m)] = Last(m).body /\ R \in [Len(m) .. Len(m) -> States]
  BY <1>1, <1>3
<1> HIDE DEF R
<1>5. Run(m, Len(m), R)
  BY <1>1, <1>4 DEF Run, Last
<1> QED
  BY <1>2, <1>3, <1>4, <1>5 DEF Replays

\* What is before the latest snapshot is not looked at.
LEMMA CutReplays ==
  ASSUME NEW m \in Seq(Entries), NEW from, SnapshotAt(m, from), Chain(m),
         NEW t, t = SubSeq(m, from, Len(m))
  PROVE  /\ t \in Seq(Entries) /\ Chain(t) /\ t # <<>>
         /\ Len(t) = Len(m) - from + 1 /\ Last(t) = Last(m)
         /\ SnapshotAt(t, 1)
         /\ \A v : Replays(m, v) => Replays(t, v)
<1>1. /\ from \in Nat /\ Len(m) \in Nat /\ from <= Len(m) /\ from >= 1
      /\ indexOfLastSnapshot(m) = from
  BY RunEnds DEF SnapshotAt
<1>2. /\ t \in Seq(Entries) /\ Len(t) = Len(m) - from + 1
      /\ \A i \in 1 .. Len(t) : t[i] = m[from + i - 1]
  BY <1>1, SubSeqProperties
<1>3. t # <<>> /\ Last(t) = Last(m)
  <2>1. Len(t) \in 1 .. Len(t) /\ from + Len(t) - 1 = Len(m)
    BY <1>1, <1>2
  <2>2. t[Len(t)] = m[from + Len(t) - 1]
    BY <1>2, <2>1
  <2>3. t # <<>>
    <3>1. \A s \in Seq(Entries) : Len(s) \in Nat \ {0} => s # <<>>
      BY EmptySeq
    <3>2. Len(t) \in Nat \ {0}
      BY <1>1, <1>2
    <3> QED
      BY <1>2, <3>1, <3>2
  <2> QED
    BY <2>1, <2>2, <2>3 DEF Last
<1>4. SnapshotAt(t, 1)
  <2>1. ASSUME NEW j \in 2 .. Len(t) PROVE t[j].kind = "patch"
    <3>1. t[j] = m[from + j - 1] /\ from + j - 1 \in from + 1 .. Len(m)
      BY <1>1, <1>2
    <3> QED
      BY <3>1 DEF SnapshotAt
  <2> QED
    BY <1>1, <1>2, <2>1 DEF SnapshotAt
<1>5. Chain(t)
  <2>1. ASSUME NEW i \in 1 .. Len(t) - 1
        PROVE  t[i + 1].h = t[i].h + (IF t[i + 1].kind = "patch" THEN 1 ELSE 0)
    <3>1. /\ t[i] = m[from + i - 1] /\ t[i + 1] = m[(from + i - 1) + 1]
          /\ from + i - 1 \in 1 .. Len(m) - 1
      BY <1>1, <1>2
    <3> QED
      BY <3>1 DEF Chain
  <2> QED
    BY <1>4, <2>1 DEF Chain, SnapshotAt
<1>6. ASSUME NEW v, Replays(m, v) PROVE Replays(t, v)
  <2>1. PICK R : Run(m, from, R) /\ R[Len(m)] = v
    BY <1>1, <1>6 DEF Replays
  <2> DEFINE Q == [i \in 1 .. Len(t) |-> R[from + i - 1]]
  <2>2. \A i \in 1 .. Len(t) : Q[i] = R[from + i - 1] /\ Q[i] \in States
    <3>1. \A i \in 1 .. Len(t) : from + i - 1 \in from .. Len(m)
      BY <1>1, <1>2
    <3> QED
      BY <2>1, <3>1 DEF Run
  <2>3. Q \in [1 .. Len(t) -> States]
    BY <2>2
  <2> HIDE DEF Q
  <2>4. Q[Len(t)] = v /\ Q[1] = t[1].body
    BY <1>1, <1>2, <2>1, <2>2 DEF Run
  <2>5. ASSUME NEW i \in 1 + 1 .. Len(t)
        PROVE  Q[i] = applyPatch(Q[i - 1], t[i].body)
    <3>0. /\ i \in 1 .. Len(t) /\ i - 1 \in 1 .. Len(t)
          /\ from + (i - 1) - 1 = (from + i - 1) - 1
          /\ from + i - 1 \in from + 1 .. Len(m)
      BY <1>1, <1>2
    <3>1. /\ Q[i] = R[from + i - 1] /\ Q[i - 1] = R[(from + i - 1) - 1]
          /\ t[i] = m[from + i - 1] /\ from + i - 1 \in from + 1 .. Len(m)
      BY <1>2, <2>2, <3>0
    <3> QED
      BY <2>1, <3>1 DEF Run
  <2>6. Run(t, 1, Q)
    BY <2>3, <2>4, <2>5 DEF Run
  <2>7. indexOfLastSnapshot(t) = 1
    BY <1>2, <1>4, SnapshotFound
  <2> QED
    BY <2>4, <2>6, <2>7 DEF Replays
<1> QED
  BY <1>2, <1>3, <1>4, <1>5, <1>6
-----------------------------------------------------------------------------
(***************************************************************************)
(* recordEvent keeps the window whole and the state in it.                 *)
(***************************************************************************)
Lengths == {ValidInterval(n) : n \in Intervals \cup {DEFAULT_SNAPSHOT_INTERVAL}}

Whole(es) ==
  /\ es \in Seq(Entries) /\ Chain(es)
  /\ \E n \in Lengths : Len(es) <= 2 * n

LEMMA LengthsPositive == Lengths \subseteq Nat \ {0}
BY IntervalAssumption DEF Lengths, ValidInterval

LEMMA EmptyWhole == Whole(<<>>)
<1>1. PICK n \in Lengths : TRUE
  BY DEF Lengths
<1> QED
  BY <1>1, LengthsPositive, EmptySeq DEF Whole, Chain

LEMMA Seeded ==
  ASSUME NEW h \in Nat, NEW err \in BOOLEAN, NEW s \in States,
         NEW es, es = << Snapshot(h, err, s) >>
  PROVE  /\ Whole(es) /\ es # <<>> /\ Last(es).h = h
         /\ Last(es).kind = "snapshot" /\ Replays(es, s)
<1>1. /\ Snapshot(h, err, s) \in Entries /\ Snapshot(h, err, s).h = h
      /\ Snapshot(h, err, s).kind = "snapshot" /\ Snapshot(h, err, s).body = s
  BY DEF Snapshot, Entries
<1>2. /\ es \in Seq(Entries) /\ Len(es) = 1 /\ es[1] = Snapshot(h, err, s)
      /\ es # <<>>
  BY <1>1
<1>3. Last(es) = Snapshot(h, err, s)
  BY <1>2 DEF Last
<1>4. Chain(es)
  BY <1>1, <1>2 DEF Chain
<1>5. PICK n \in Lengths : Len(es) <= 2 * n
  <2>1. PICK n \in Lengths : n \in Nat \ {0}
    BY LengthsPositive DEF Lengths
  <2> QED
    BY <1>2, <2>1
<1> QED
  BY <1>1, <1>2, <1>3, <1>4, <1>5, SnapshotReplays DEF Whole

\* appendAndTrim of the next patch.
LEMMA Appended ==
  ASSUME NEW es \in Seq(Entries), Chain(es), es # <<>>, NEW e \in Entries,
         e.kind = "patch", e.h = Last(es).h + 1, NEW interval \in Lengths,
         NEW post \in States, NEW r, r = appendAndTrim(es, e, interval, post)
  PROVE  /\ Whole(r) /\ r # <<>> /\ Last(r).h = e.h
         /\ Last(r).kind = "snapshot" => Replays(r, post)
         /\ \A v : Replays(es, v) /\ applyPatch(v, e.body) = post => Replays(r, post)
<1> DEFINE m == Append(es, e)
           from == indexOfLastSnapshot(es)
           snap == Snapshot(Last(m).h, Last(m).err, post)
           w == WithSnapshot(m, interval, post)
<1>1. /\ m \in Seq(Entries) /\ Chain(m) /\ Len(es) \in Nat \ {0}
      /\ Len(m) = Len(es) + 1 /\ m # <<>> /\ Last(m) = e
      /\ m[Len(es) + 1] = e /\ \A i \in 1 .. Len(es) : m[i] = es[i]
  BY ChainGrows
<1>2. SnapshotAt(es, from) /\ SnapshotAt(m, indexOfLastSnapshot(m))
  BY <1>1, SnapshotExists
<1>3. interval \in Nat \ {0}
  BY LengthsPositive
<1>4. /\ snap \in Entries /\ snap.kind = "snapshot" /\ snap.body = post
      /\ snap.h = Last(m).h + (IF snap.kind = "patch" THEN 1 ELSE 0)
  BY <1>1, EntryKinds DEF Snapshot, Entries
<1> HIDE DEF m, from, snap
\* What is appended, and where its latest snapshot is.
<1>5. PICK at : /\ w \in Seq(Entries) /\ Chain(w) /\ w # <<>> /\ Last(w).h = e.h
                /\ SnapshotAt(w, at)
                /\ Len(w) - at < interval
                /\ Last(w).kind = "snapshot" => Replays(w, post)
                /\ \A v : Replays(es, v) /\ applyPatch(v, e.body) = post
                          => Replays(w, post)
  <2>1. CASE Len(m) - indexOfLastSnapshot(m) >= interval
    <3>1. w = Append(m, snap)
      BY <2>1 DEF WithSnapshot, snap
    <3>2. /\ w \in Seq(Entries) /\ Chain(w) /\ w # <<>> /\ Last(w) = snap
          /\ Len(w) \in Nat
      BY <1>1, <1>4, <3>1, ChainGrows
    <3>3. SnapshotAt(w, Len(w)) /\ Replays(w, post)
      BY <1>4, <3>2, SnapshotReplays
    <3>4. snap.h = e.h /\ Len(w) - Len(w) < interval
      BY <1>1, <1>3, <1>4, <3>2, EntryKinds
    <3> QED
      BY <3>2, <3>3, <3>4
  <2>2. CASE ~(Len(m) - indexOfLastSnapshot(m) >= interval)
    <3>1. w = m
      BY <2>2 DEF WithSnapshot
    <3>2. /\ Len(m) \in Nat /\ indexOfLastSnapshot(m) \in Nat
          /\ Len(m) - indexOfLastSnapshot(m) < interval
      BY <1>1, <1>2, <1>3, <2>2, RunEnds
    <3>3. ASSUME NEW v, Replays(es, v), applyPatch(v, e.body) = post
          PROVE  Replays(m, post)
      BY <1>1, <1>2, <3>3, PatchReplays
    <3> QED
      BY <1>1, <1>2, <3>1, <3>2, <3>3
  <2> QED
    BY <2>1, <2>2
<1> HIDE DEF w
<1>6. r = Trimmed(w, interval)
  BY DEF appendAndTrim, w, m
<1>7. /\ at \in Nat /\ at >= 1 /\ Len(w) \in Nat /\ at <= Len(w)
      /\ indexOfLastSnapshot(w) = at
  BY <1>5, RunEnds DEF SnapshotAt
<1>8. CASE Len(w) > 2 * interval /\ at > 1
  <2>1. r = SubSeq(w, at, Len(w))
    BY <1>6, <1>7, <1>8 DEF Trimmed
  <2>2. /\ r \in Seq(Entries) /\ Chain(r) /\ r # <<>> /\ Last(r) = Last(w)
        /\ Len(r) = Len(w) - at + 1
        /\ \A v : Replays(w, v) => Replays(r, v)
    BY <1>5, <2>1, CutReplays
  <2>3. Len(r) <= 2 * interval
    BY <1>3, <1>5, <1>7, <2>2
  <2> QED
    BY <1>5, <2>2, <2>3 DEF Whole
<1>9. CASE ~(Len(w) > 2 * interval /\ at > 1)
  <2>1. r = w
    BY <1>6, <1>7, <1>9 DEF Trimmed
  <2>2. Len(w) <= 2 * interval
    BY <1>3, <1>5, <1>7, <1>9
  <2> QED
    BY <1>5, <2>1, <2>2 DEF Whole
<1> QED
  BY <1>8, <1>9

LEMMA LastHeight ==
  ASSUME NEW es \in Seq(Entries), es # <<>> PROVE Last(es).h \in Nat
<1>1. Len(es) \in 1 .. Len(es)
  BY EmptySeq
<1>2. Last(es) \in Entries
  BY <1>1, ElementOfSeq DEF Last
<1> QED
  BY <1>2, EntryKinds

LEMMA EventRecorded ==
  ASSUME NEW es, Whole(es), NEW interval \in Lengths, NEW h \in Nat,
         NEW before \in States, NEW after \in States, NEW err \in BOOLEAN,
         err => after = before, es # <<>> => Last(es).h < h,
         NEW r, r = recordEvent(es, h, before, after, err, interval)
  PROVE  /\ Whole(r) /\ r # <<>> /\ Last(r).h = h
         /\ es = <<>> \/ Last(es).h # h - 1 => Last(r).kind = "snapshot"
         /\ Last(r).kind = "snapshot" => Replays(r, redact(after))
         /\ es # <<>> /\ Last(es).h = h - 1 /\ Replays(es, redact(before))
              => Replays(r, redact(after))
<1>1. redact(before) \in States /\ redact(after) \in States
  BY RedactAssumption
<1>2. CASE Reseeds(es, h)
  <2>1. r = << Snapshot(h, err, redact(after)) >>
    BY <1>2 DEF recordEvent
  <2> QED
    BY <1>1, <2>1, Seeded
<1>3. CASE ~Reseeds(es, h)
  <2> DEFINE p == IF err THEN EmptyPatch ELSE diff(redact(before), redact(after))
             e == Patch(h, err, p)
  <2>1. es \in Seq(Entries) /\ Chain(es) /\ es # <<>>
    BY <1>3 DEF Reseeds, Whole
  <2>2. Last(es).h \in Nat
    BY <2>1, LastHeight
  <2>3. h = Last(es).h + 1 /\ h # Last(es).h /\ Last(es).h = h - 1
    BY <1>3, <2>1, <2>2 DEF Reseeds
  <2>4. p \in Patches
    BY <1>1, DiffAssumption, EmptyAssumption
  <2>5. r = appendAndTrim(es, e, interval, redact(after))
    BY <1>3, <2>3 DEF recordEvent
  <2>6. e \in Entries /\ e.kind = "patch" /\ e.h = Last(es).h + 1 /\ e.body = p
    BY <2>3, <2>4 DEF Patch, Entries
  <2>7. applyPatch(redact(before), p) = redact(after)
    BY <1>1, EmptyAssumption, RoundTrip
  <2> HIDE DEF e, p
  <2>8. /\ Whole(r) /\ r # <<>> /\ Last(r).h = e.h
        /\ Last(r).kind = "snapshot" => Replays(r, redact(after))
        /\ \A v : Replays(es, v) /\ applyPatch(v, e.body) = redact(after)
                   => Replays(r, redact(after))
    BY <1>1, <2>1, <2>5, <2>6, Appended
  <2> QED
    BY <2>1, <2>3, <2>6, <2>7, <2>8
<1> QED
  BY <1>2, <1>3

-----------------------------------------------------------------------------
(***************************************************************************)
(* reconstruct computes the end of the run, if there is one: the function  *)
(* it is defined by and the run could only differ at a first place.        *)
(***************************************************************************)
LEMMA Rebuilt ==
  ASSUME NEW es \in Seq(Entries), NEW from, SnapshotAt(es, from),
         NEW v, Replays(es, v)
  PROVE  reconstruct(es) = v
<1>1. /\ from \in Nat /\ Len(es) \in Nat /\ from <= Len(es)
      /\ indexOfLastSnapshot(es) = from
  BY RunEnds
<1>2. PICK Q : Run(es, from, Q) /\ Q[Len(es)] = v
  BY <1>1 DEF Replays
<1>3. \A i \in from .. Len(es) : Q[i] \in States /\ Q[i] # Corrupt
  BY <1>2, CorruptAssumption DEF Run
<1> DEFINE Body(R, i) == IF i = from THEN es[from].body ELSE Step(R[i - 1], es[i])
           G == CHOOSE R : R = [i \in from .. Len(es) |-> Body(R, i)]
<1>4. Q = [i \in from .. Len(es) |-> Body(Q, i)]
  <2>1. ASSUME NEW i \in from .. Len(es) PROVE Q[i] = Body(Q, i)
    <3>1. CASE i = from
      BY <1>2, <3>1 DEF Run
    <3>2. CASE i # from
      <4>1. i \in from + 1 .. Len(es) /\ i - 1 \in from .. Len(es)
        BY <1>1, <3>2
      <4> QED
        BY <1>2, <1>3, <3>2, <4>1 DEF Run, Step
    <3> QED
      BY <3>1, <3>2
  <2>2. Q = [i \in from .. Len(es) |-> Q[i]]
    BY <1>2 DEF Run
  <2> QED
    BY <2>1, <2>2
<1>5. G = [i \in from .. Len(es) |-> Body(G, i)]
  BY <1>4
<1> HIDE DEF G
<1>6. ASSUME NEW i \in from .. Len(es) PROVE G[i] = Q[i]
  <2> SUFFICES ASSUME {j \in from .. Len(es) : G[j] # Q[j]} # {} PROVE FALSE
    BY <1>6
  <2>1. {j \in from .. Len(es) : G[j] # Q[j]} \in SUBSET Nat
    BY <1>1
  <2>2. PICK j \in from .. Len(es) :
          G[j] # Q[j] /\ \A k \in from .. Len(es) : G[k] # Q[k] => j <= k
    BY <2>1, LeastExists
  <2>3. G[j] = Body(G, j) /\ Q[j] = Body(Q, j)
    BY <1>4, <1>5
  <2>4. CASE j = from
    BY <2>2, <2>3, <2>4
  <2>5. CASE j # from
    <3>1. j - 1 \in from .. Len(es) /\ ~(j <= j - 1)
      BY <1>1, <2>5
    <3>2. G[j - 1] = Q[j - 1]
      BY <2>2, <3>1
    <3> QED
      BY <2>2, <2>3, <2>5, <3>2
  <2> QED
    BY <2>4, <2>5
<1>7. reconstruct(es) = G[Len(es)]
  BY <1>1 DEF reconstruct, G
<1> QED
  BY <1>1, <1>2, <1>6, <1>7
-----------------------------------------------------------------------------
(***************************************************************************)
(* The invariant.                                                          *)
(***************************************************************************)
last == LastOf(entries)

\* The database: an unbroken run of entries, and a HEAD on its last or, torn, on
\* the one before.
LogPart ==
  /\ light \in BOOLEAN
  /\ last \in Heights \cup {None} /\ entries = 0 .. last
  /\ head = HeadOf(last) \/ (last # None /\ head = HeadOf(last - 1))
  /\ ~light => row.height <= last /\ saved.row.height <= last
  /\ light => last = None /\ head = NoHead

RootOk(r) ==
  /\ r.row \in Heads /\ r.row = HeadOf(r.row.height)
  /\ r.state \in States /\ r.drift \in BOOLEAN
  /\ Whole(r.journal)
  /\ r.journal # <<>> => Last(r.journal).h <= r.row.height
  /\ r.journal # <<>> /\ Last(r.journal).h = r.row.height /\ ~r.drift
       => Replays(r.journal, redact(r.state))

RootPart == RootOk(Root) /\ RootOk(saved)

ConfigPart == config \in [enabled : BOOLEAN, interval : Lengths]

\* The event at work follows the row, and where its writes have come.
WorkPart ==
  /\ pc \in {"idle", "check", "entry", "head", "apply"}
  /\ work \in [ev : Heights, copy : States, errored : BOOLEAN]
  /\ pc # "idle" => work.ev = row.height + 1
  /\ ~light =>
       /\ pc = "entry" => work.ev = last + 1 /\ head = HeadOf(last)
       /\ pc = "head" => work.ev = last /\ head = HeadOf(last - 1)
       /\ pc = "apply" => work.ev <= last

\* A synchronisation reads without a limit, to the HEAD it was given at least.
SyncPart ==
  /\ sync \in [on : BOOLEAN, latestHEAD : Heights, skip : BOOLEAN, found : BOOLEAN]
  /\ sync.on <=> strm.use = "sync"
  /\ sync.on =>
       /\ strm.st # "off" /\ strm.limit = None
       /\ sync.latestHEAD <= top /\ asked[1] <= sync.latestHEAD
       /\ strm.st \in {"new", "read", "eos", "closed"}
            => sync.latestHEAD <= strm.latestHeight
       /\ ~sync.found => \A i \in 1 .. Len(got) : got[i] < sync.latestHEAD

IInv == StreamOk /\ LogPart /\ RootPart /\ ConfigPart /\ WorkPart /\ SyncPart

LEMMA RootFields ==
  /\ Root.row = row /\ Root.state = state
  /\ Root.journal = journal /\ Root.drift = drift
BY DEF Root

LEMMA NoRootOk == RootOk(NoRoot)
<1>1. NoHead \in Heads /\ NoHead = HeadOf(NoHead.height)
  BY HeadOfNone DEF NoHead, Heads
<1>2. NoRoot.row = NoHead /\ NoRoot.state = EmptyState /\ NoRoot.journal = <<>>
      /\ NoRoot.drift = FALSE
  BY DEF NoRoot
<1> QED
  BY <1>1, <1>2, EmptyWhole, StateAssumption DEF RootOk

LEMMA NoWorkOk == NoWork \in [ev : Heights, copy : States, errored : BOOLEAN]
BY HeightAssumption, StateAssumption DEF NoWork, Heights

LEMMA NoSyncOk ==
  /\ NoSync \in [on : BOOLEAN, latestHEAD : Heights, skip : BOOLEAN, found : BOOLEAN]
  /\ ~NoSync.on
BY HeightAssumption DEF NoSync, Heights

LEMMA InitOk == ASSUME Init PROVE IInv
<1>1. StreamOk
  <2>1. top = 0 /\ strm = NoStream /\ got = <<>> /\ asked = <<0, None>> /\ 0 \in Heights
    BY HeightAssumption DEF Init, StreamInit, Heights
  <2> QED
    BY <2>1, NoStreamOk DEF StreamOk
<1>2. LogPart
  <2>1. last = None
    BY DEF Init, last, LastOf
  <2>2. entries = 0 .. last
    BY <2>1 DEF Init, None
  <2> QED
    BY <2>1, <2>2, HeadOfNone DEF Init, LogPart, NoHead, NoRoot, None
<1>3. RootPart
  <2>1. Root = NoRoot /\ saved = NoRoot
    BY DEF Init, Root, NoRoot
  <2> QED
    BY <2>1, NoRootOk DEF RootPart
<1>4. ConfigPart
  <2>1. DEFAULT_SNAPSHOT_INTERVAL \in Lengths
    BY IntervalAssumption DEF Lengths, ValidInterval
  <2> QED
    BY <2>1 DEF Init, ConfigPart
<1>5. WorkPart
  BY NoWorkOk DEF Init, WorkPart
<1>6. SyncPart
  BY NoSyncOk DEF Init, StreamInit, NoStream, SyncPart
<1> QED
  BY <1>1, <1>2, <1>3, <1>4, <1>5, <1>6 DEF IInv

-----------------------------------------------------------------------------
(***************************************************************************)
(* The steps of the stream leave the store alone, and a synchronisation    *)
(* what it has read.                                                       *)
(***************************************************************************)
LEMMA StoreKept ==
  ASSUME IInv, UNCHANGED storeVars
  PROVE  LogPart' /\ RootPart' /\ ConfigPart' /\ WorkPart'
<1>1. /\ UNCHANGED <<light, entries, head, row, state, journal, config, saved>>
      /\ UNCHANGED <<pc, work, sync, drift>>
  BY DEF storeVars, dbVars, rootVars, taskVars
<1>2. last' = last /\ Root' = Root
  BY <1>1 DEF last, Root
<1> QED
  BY <1>1, <1>2 DEF IInv, LogPart, RootPart, ConfigPart, WorkPart

LEMMA StreamStepOk == ASSUME IInv, StreamStep PROVE IInv'
<1>0. /\ StreamOk /\ SyncPart /\ sync' = sync
      /\ LogPart' /\ RootPart' /\ ConfigPart' /\ WorkPart'
  BY StoreKept DEF IInv, StreamStep, storeVars, taskVars
<1>1. CASE ServerAppend
  <2>1. /\ top' = top + 1 /\ top' \in Heights
        /\ strm' = strm /\ got' = got /\ asked' = asked
    BY <1>0, <1>1, HeightAssumption DEF ServerAppend, StreamOk, Stream, Heights
  <2>2. StreamOk'
    BY <1>0, <2>1, GrownLogOk DEF StreamOk
  <2>3. sync.latestHEAD \in Nat /\ top \in Nat
    BY <1>0 DEF SyncPart, StreamOk, Stream, Heights
  <2>4. SyncPart'
    BY <1>0, <2>1, <2>3 DEF SyncPart
  <2> QED
    BY <1>0, <2>2, <2>4 DEF IInv
<1>2. CASE Request
  <2>1. StreamOk' /\ strm.st = "off" /\ strm'.use \in {"request", "latest"}
    BY <1>0, <1>2, RequestOk
  <2>2. SyncPart'
    BY <1>0, <2>1 DEF SyncPart
  <2> QED
    BY <1>0, <2>1, <2>2 DEF IInv
<1>3. CASE FetchPage
  <2>1. StreamOk' /\ got' = got /\ asked' = asked /\ top' = top
    BY <1>0, <1>3, FetchOk DEF FetchPage
  <2>2. /\ strm'.use = strm.use /\ strm'.limit = strm.limit
        /\ strm'.latestHeight = top /\ strm'.st = "new"
    BY <1>3 DEF FetchPage, Fetched
  <2>3. SyncPart'
    BY <1>0, <2>1, <2>2 DEF SyncPart
  <2> QED
    BY <1>0, <2>1, <2>3 DEF IInv
<1>4. CASE RequestRead
  <2>1. StreamOk' /\ strm' = Parsed(strm) /\ strm \in StreamRecs
    BY <1>0, <1>4, ReadOk DEF RequestRead, ReadEvent, StreamOk, Stream
  <2>2. strm'.use = strm.use /\ strm.use # "sync"
    BY <1>4, <2>1, ParsedRec DEF RequestRead
  <2>3. SyncPart'
    BY <1>0, <2>2 DEF SyncPart
  <2> QED
    BY <1>0, <2>1, <2>3 DEF IInv
<1>5. CASE EndOfPage \/ ConnectionCut
  <2>1. /\ strm.st \in {"read", "eos"} /\ strm' = NextPage(strm)
        /\ UNCHANGED <<top, got, asked>>
    BY <1>5 DEF EndOfPage, ConnectionCut
  <2>2. StreamOk' /\ strm \in StreamRecs
    BY <1>0, <2>1, NextPageOk DEF StreamOk, Stream
  <2>3. /\ strm'.use = strm.use /\ strm'.limit = strm.limit
        /\ strm'.latestHeight = strm.latestHeight /\ strm'.st # "off"
    BY <2>1, <2>2 DEF NextPage, StreamRecs
  <2>4. SyncPart'
    BY <1>0, <2>1, <2>3 DEF SyncPart
  <2> QED
    BY <1>0, <2>2, <2>4 DEF IInv
<1>6. CASE StreamFails
  <2>1. /\ strm.st \in {"fetch", "new", "read"} /\ strm' = [strm EXCEPT !.st = "error"]
        /\ UNCHANGED <<top, got, asked>>
    BY <1>6 DEF StreamFails
  <2>2. StreamOk' /\ strm \in StreamRecs
    BY <1>0, <2>1, ErrorOk DEF StreamOk, Stream
  <2>3. /\ strm'.use = strm.use /\ strm'.limit = strm.limit /\ strm'.st = "error"
    BY <2>1, <2>2 DEF StreamRecs
  <2>4. SyncPart'
    BY <1>0, <2>1, <2>3 DEF SyncPart
  <2> QED
    BY <1>0, <2>2, <2>4 DEF IInv
<1>7. CASE Requested
  <2>1. /\ top' = top /\ strm' = NoStream /\ got' = <<>> /\ asked' = <<0, None>>
        /\ top \in Heights /\ strm.use # "sync"
    BY <1>0, <1>7 DEF Requested, StreamOk, Stream
  <2>2. StreamOk'
    BY <2>1, NoStreamOk DEF StreamOk
  <2>3. SyncPart'
    BY <1>0, <2>1 DEF SyncPart, NoStream
  <2> QED
    BY <1>0, <2>2, <2>3 DEF IInv
<1> QED
  BY <1>1, <1>2, <1>3, <1>4, <1>5, <1>6, <1>7 DEF StreamStep
-----------------------------------------------------------------------------
(***************************************************************************)
(* The steps of the store.                                                 *)
(***************************************************************************)
LEMMA RowType ==
  ASSUME IInv
  PROVE  /\ row \in Heads /\ row = HeadOf(row.height)
         /\ row.height \in Heights \cup {None} /\ row.height \in Int
         /\ row.height + 1 \in Nat
         /\ state \in States /\ Whole(journal)
<1>1. RootOk(Root)
  BY DEF IInv, RootPart
<1>2. row \in Heads /\ row = HeadOf(row.height) /\ state \in States /\ Whole(journal)
  BY <1>1, RootFields DEF RootOk
<1>3. row.height \in Heights \cup {None}
  BY <1>2 DEF Heads
<1> QED
  BY <1>2, <1>3, HeightAssumption DEF Heights, None

LEMMA DbKept ==
  ASSUME IInv, UNCHANGED <<light, entries, head, row, saved>>
  PROVE  LogPart' /\ last' = last
BY DEF IInv, LogPart, last

LEMMA RootKept ==
  ASSUME IInv, UNCHANGED <<row, state, journal, drift, saved>>
  PROVE  RootPart'
<1>1. Root' = Root
  BY DEF Root
<1> QED
  BY <1>1 DEF IInv, RootPart

\* Neither the stream nor the synchronisation is in it.
LEMMA ReaderKept ==
  ASSUME IInv, UNCHANGED <<top, strm, got, asked, sync>> PROVE StreamOk' /\ SyncPart'
BY DEF IInv, StreamOk, SyncPart

LEMMA IdleOk ==
  ASSUME IInv, pc' = "idle", work' = NoWork PROVE WorkPart'
BY NoWorkOk DEF WorkPart

LEMMA HandleOk ==
  ASSUME IInv, pc = "idle", NEW h \in Heights, Handle(h),
         UNCHANGED <<light, entries, head, row>>
  PROVE  WorkPart'
<1>1. work \in [ev : Heights, copy : States, errored : BOOLEAN]
  BY DEF IInv, WorkPart
<1>2. CASE h = row.height + 1
  <2> DEFINE c == IF h \in Invalid THEN state ELSE mutated(h, state)
             b == h \in Invalid
  <2>1. c \in States /\ b \in BOOLEAN
    BY RowType, StateAssumption
  <2>2. work' = [ev |-> h, errored |-> b, copy |-> c]
    BY <1>2 DEF Handle
  <2> HIDE DEF b, c
  <2>3. work' \in [ev : Heights, copy : States, errored : BOOLEAN] /\ work'.ev = h
    BY <2>1, <2>2
  <2> QED
    BY <1>2, <2>3 DEF Handle, WorkPart
<1>3. CASE h # row.height + 1
  BY <1>1, <1>3 DEF Handle, WorkPart
<1> QED
  BY <1>2, <1>3

LEMMA StartSyncOk == ASSUME IInv, StartSync PROVE IInv'
<1>1. /\ UNCHANGED <<top, light, entries, head, row, state, journal, drift>>
      /\ UNCHANGED <<saved, config, pc, work>>
      /\ StreamOk /\ ConfigPart /\ WorkPart
  BY DEF StartSync, IInv, dbVars, rootVars
<1> DEFINE since == Greater(row.height, 0)
<1>2. since \in Nat
  BY RowType DEF Greater
<1>3. Open("sync", since, None, None)
  BY DEF StartSync
<1> HIDE DEF since
<1>4. StreamOk'
  BY <1>1, <1>2, <1>3, OpenOk DEF Limits, None
<1>5. SyncPart'
  <2>1. /\ sync' = [on |-> TRUE, latestHEAD |-> top, skip |-> row.height # None,
                    found |-> FALSE]
        /\ strm'.use = "sync" /\ strm'.st = "fetch" /\ strm'.limit = None
        /\ got' = <<>> /\ asked'[1] = since /\ since <= top
    BY <1>3 DEF StartSync, Open, Opened
  <2>2. top \in Heights /\ top <= top
    BY <1>1 DEF StreamOk, Stream, Heights
  <2> QED
    BY <1>1, <2>1, <2>2 DEF SyncPart
<1>6. LogPart' /\ last' = last /\ RootPart'
  BY <1>1, DbKept, RootKept
<1> QED
  BY <1>1, <1>4, <1>5, <1>6 DEF IInv, ConfigPart, WorkPart

LEMMA StreamGone ==
  ASSUME IInv, top' = top, strm' = NoStream, got' = <<>>, asked' = <<0, None>>,
         sync' = NoSync
  PROVE  StreamOk' /\ SyncPart'
<1>1. top \in Heights
  BY DEF IInv, StreamOk, Stream
<1> QED
  BY <1>1, NoStreamOk, NoSyncOk DEF StreamOk, SyncPart, NoStream

LEMMA SyncEndsOk == ASSUME IInv, SyncEnds PROVE IInv'
<1>1. /\ UNCHANGED <<top, light, entries, head, row, state, journal, drift>>
      /\ UNCHANGED <<saved, config, pc, work>>
      /\ ConfigPart /\ WorkPart
  BY DEF SyncEnds, IInv, dbVars, rootVars
<1>2. StreamOk' /\ SyncPart'
  BY <1>1, StreamGone DEF SyncEnds
<1>3. LogPart' /\ last' = last /\ RootPart'
  BY <1>1, DbKept, RootKept
<1> QED
  BY <1>1, <1>2, <1>3 DEF IInv, ConfigPart, WorkPart

LEMMA SyncReadOk == ASSUME IInv, SyncRead PROVE IInv'
<1>1. /\ UNCHANGED <<light, entries, head, row, state, journal, drift>>
      /\ UNCHANGED <<saved, config>> /\ ReadEvent /\ pc = "idle" /\ sync.on
      /\ StreamOk /\ ConfigPart /\ WorkPart /\ SyncPart
  BY DEF SyncRead, IInv, dbVars, rootVars
<1>2. /\ StreamOk' /\ got' = Append(got, strm.next)
      /\ strm' = Parsed(strm) /\ UNCHANGED <<top, asked>>
  BY <1>1, ReadOk DEF ReadEvent
<1>3. /\ strm \in StreamRecs /\ got \in Seq(Heights) /\ Reading(strm)
      /\ Placed(top, strm, got, asked) /\ top \in Heights
      /\ asked \in Heights \X (Heights \cup {None}) /\ Given(got, asked)
  BY <1>1 DEF StreamOk, Stream, ReadEvent, Reading
<1>4. strm.next \in Heights /\ strm.next \in Nat
  <2>1. strm.next <= top
    BY <1>3, HeightAssumption DEF Placed, StreamRecs, Heights
  <2> QED
    BY <1>3, <2>1, HeightAssumption DEF StreamRecs, Heights
<1>5. WorkPart'
  <2>1. CASE sync.skip
    BY <1>1, <2>1 DEF SyncRead, WorkPart, last
  <2>2. CASE ~sync.skip
    BY <1>1, <1>4, <2>2, HandleOk DEF SyncRead
  <2> QED
    BY <2>1, <2>2
<1>6. SyncPart'
  <2>1. sync' = [sync EXCEPT !.skip = FALSE,
                             !.found = sync.found \/ strm.next = sync.latestHEAD]
    BY DEF SyncRead
  <2>2. /\ sync' \in [on : BOOLEAN, latestHEAD : Heights, skip : BOOLEAN,
                       found : BOOLEAN]
        /\ sync'.on = sync.on /\ sync'.latestHEAD = sync.latestHEAD
        /\ sync'.found = (sync.found \/ strm.next = sync.latestHEAD)
    BY <1>1, <2>1 DEF SyncPart
  <2>3. /\ strm'.use = strm.use /\ strm'.limit = strm.limit
        /\ strm'.latestHeight = strm.latestHeight /\ strm'.st # "off"
    BY <1>2, <1>3, ParsedRec
  <2>4. /\ strm.limit = None /\ sync.latestHEAD <= top
        /\ asked[1] <= sync.latestHEAD /\ sync.latestHEAD <= strm.latestHeight
        /\ strm.use = "sync"
        /\ ~sync.found => \A i \in 1 .. Len(got) : got[i] < sync.latestHEAD
    BY <1>1, <1>3 DEF SyncPart, Reading
  <2>5. ASSUME ~sync'.found, NEW i \in 1 .. Len(got') PROVE got'[i] < sync.latestHEAD
    <3>1. /\ ~sync.found /\ strm.next # sync.latestHEAD /\ sync.latestHEAD \in Nat
      BY <1>1, <2>2, <2>5 DEF SyncPart, Heights
    <3>2. /\ Len(got) \in Nat /\ Len(got') = Len(got) + 1
          /\ got'[Len(got) + 1] = strm.next
          /\ \A j \in 1 .. Len(got) : got'[j] = got[j]
      BY <1>2, <1>3, <1>4, AppendProperties
    <3>3. strm.next < sync.latestHEAD
      <4>1. CASE got = <<>>
        <5>1. strm.next = asked[1]
          BY <1>3, <4>1 DEF Placed
        <5> QED
          BY <1>4, <2>4, <3>1, <5>1
      <4>2. CASE got # <<>>
        <5>1. strm.next <= got[Len(got)] + 1
          BY <1>3, <4>2 DEF Placed
        <5>2. Len(got) \in 1 .. Len(got) /\ got[Len(got)] \in Nat
          BY <1>3, <4>2, LastIn
        <5>3. got[Len(got)] < sync.latestHEAD
          BY <2>4, <3>1, <5>2
        <5> QED
          BY <1>4, <3>1, <5>1, <5>2, <5>3
      <4> QED
        BY <4>1, <4>2
    <3>4. CASE i = Len(got) + 1
      BY <3>2, <3>3, <3>4
    <3>5. CASE i \in 1 .. Len(got)
      BY <2>4, <3>1, <3>2, <3>5
    <3> QED
      BY <2>5, <3>2, <3>4, <3>5
  <2> QED
    BY <1>1, <1>2, <2>2, <2>3, <2>4, <2>5 DEF SyncPart
<1>7. LogPart' /\ last' = last /\ RootPart'
  BY <1>1, DbKept, RootKept
<1> QED
  BY <1>1, <1>2, <1>5, <1>6, <1>7 DEF IInv, ConfigPart

LEMMA ReceiveEventOk == ASSUME IInv, ReceiveEvent PROVE IInv'
<1>1. /\ UNCHANGED <<light, entries, head, row, state, journal, drift>>
      /\ UNCHANGED <<saved, config>> /\ pc = "idle" /\ ConfigPart
      /\ UNCHANGED <<top, strm, got, asked, sync>>
  BY DEF ReceiveEvent, IInv, dbVars, rootVars, streamVars
<1>2. row.height + 1 \in Heights
  <2>1. top \in Heights /\ row.height < top /\ row.height # None
    BY DEF ReceiveEvent, IInv, StreamOk, Stream
  <2> QED
    BY <2>1, RowType, HeightAssumption DEF Heights
<1>3. WorkPart'
  BY <1>1, <1>2, HandleOk DEF ReceiveEvent
<1>4. LogPart' /\ RootPart' /\ StreamOk' /\ SyncPart'
  BY <1>1, DbKept, RootKept, ReaderKept
<1> QED
  BY <1>1, <1>3, <1>4 DEF IInv, ConfigPart
-----------------------------------------------------------------------------
LEMMA CheckEntryOk == ASSUME IInv, CheckEntry PROVE IInv'
<1>1. /\ UNCHANGED <<light, entries, head, row, state, journal, drift>>
      /\ UNCHANGED <<saved, config>> /\ pc = "check" /\ ConfigPart /\ WorkPart
      /\ UNCHANGED <<top, strm, got, asked, sync>> /\ LogPart
  BY DEF CheckEntry, IInv, dbVars, rootVars, streamVars
<1>2. LogPart' /\ last' = last /\ RootPart' /\ StreamOk' /\ SyncPart'
  BY <1>1, DbKept, RootKept, ReaderKept
<1>3. /\ work.ev = row.height + 1 /\ work.ev \in Nat /\ last \in Int
      /\ work \in [ev : Heights, copy : States, errored : BOOLEAN]
  BY <1>1, RowType DEF WorkPart, LogPart, Heights, None
<1>4. CASE Known(work.ev)
  <2>1. pc' = "apply" /\ work' = work
    BY <1>4 DEF CheckEntry
  <2>2. work.ev \in 0 .. last
    BY <1>1, <1>4 DEF Known, LogPart
  <2>3. WorkPart'
    BY <1>1, <1>2, <1>3, <2>1, <2>2 DEF WorkPart
  <2> QED
    BY <1>1, <1>2, <2>3 DEF IInv, ConfigPart
<1>5. CASE ~Known(work.ev) /\ Fits(work.ev)
  <2>1. pc' = "entry" /\ work' = work
    BY <1>5 DEF CheckEntry
  <2>2. ASSUME ~light PROVE work.ev = last + 1 /\ head = HeadOf(last)
    <3>1. work.ev = last + 1
      <4>1. work.ev \notin 0 .. last /\ row.height <= last
        BY <1>1, <1>5, <2>2 DEF Known, LogPart
      <4> QED
        BY <1>1, <1>3, <4>1, RowType DEF LogPart, None
    <3>2. head.height = work.ev - 1
      BY <1>3, <1>5, <2>2, FitsIs DEF latestHEADinfo
    <3>3. HeadOf(last - 1).height = last - 1
      BY DEF HeadOf
    <3> QED
      BY <1>1, <1>3, <3>1, <3>2, <3>3 DEF LogPart
  <2>3. WorkPart'
    BY <1>1, <1>2, <1>3, <2>1, <2>2 DEF WorkPart
  <2> QED
    BY <1>1, <1>2, <2>3 DEF IInv, ConfigPart
<1>6. CASE ~Known(work.ev) /\ ~Fits(work.ev)
  <2>1. pc' = "idle" /\ work' = NoWork
    BY <1>6 DEF CheckEntry
  <2>2. WorkPart'
    BY <2>1, IdleOk
  <2> QED
    BY <1>1, <1>2, <2>2 DEF IInv, ConfigPart
<1> QED
  BY <1>4, <1>5, <1>6

LEMMA WriteEntryOk == ASSUME IInv, WriteEntry PROVE IInv'
<1>1. /\ UNCHANGED <<light, head, row, state, journal, drift>> /\ pc' = "head"
      /\ UNCHANGED <<saved, config, work>> /\ pc = "entry" /\ ConfigPart /\ WorkPart
      /\ UNCHANGED <<top, strm, got, asked, sync>> /\ LogPart
  BY DEF WriteEntry, IInv, dbVars, rootVars, streamVars
<1>2. RootPart' /\ StreamOk' /\ SyncPart'
  BY <1>1, RootKept, ReaderKept
<1>3. CASE light
  <2>1. entries' = entries /\ last' = last
    BY <1>3 DEF WriteEntry, last
  <2>2. LogPart' /\ WorkPart'
    BY <1>1, <1>3, <2>1 DEF LogPart, WorkPart
  <2> QED
    BY <1>1, <1>2, <2>2 DEF IInv, ConfigPart
<1>4. CASE ~light
  <2>1. /\ work.ev = last + 1 /\ head = HeadOf(last) /\ work.ev \in Heights
        /\ entries' = entries \cup {work.ev} /\ entries = 0 .. last
        /\ last \in Heights \cup {None}
    BY <1>1, <1>4 DEF WriteEntry, LogPart, WorkPart
  <2>2. last \in Int /\ last >= -1 /\ work.ev \in Nat
    BY <2>1, HeightAssumption DEF Heights, None
  <2>3. entries' = 0 .. work.ev
    BY <2>1, <2>2
  <2>4. last' = work.ev
    BY <2>1, <2>3, LastOfRun DEF last
  <2>5. /\ last' \in Heights /\ entries' = 0 .. last' /\ head' = HeadOf(last' - 1)
        /\ last' # None
    <3>1. last' - 1 = last
      BY <2>1, <2>2, <2>4
    <3> QED
      BY <1>1, <2>1, <2>2, <2>3, <2>4, <3>1 DEF None
  <2>6. row.height <= last' /\ saved.row.height <= last'
    <3>1. saved.row.height \in Int
      <4>1. saved.row.height \in Heights \cup {None}
        BY DEF IInv, RootPart, RootOk, Heads
      <4> QED
        BY <4>1, HeightAssumption DEF Heights, None
    <3> QED
      BY <1>1, <1>4, <2>1, <2>2, <2>4, <3>1, RowType DEF LogPart
  <2>7. LogPart'
    BY <1>1, <1>4, <2>5, <2>6 DEF LogPart
  <2>8. WorkPart'
    BY <1>1, <1>4, <2>4, <2>5 DEF WorkPart
  <2> QED
    BY <1>1, <1>2, <2>7, <2>8 DEF IInv, ConfigPart
<1> QED
  BY <1>3, <1>4

LEMMA WriteHeadOk == ASSUME IInv, WriteHead PROVE IInv'
<1>1. /\ UNCHANGED <<light, entries, row, state, journal, drift>> /\ pc' = "apply"
      /\ UNCHANGED <<saved, config, work>> /\ pc = "head" /\ ConfigPart /\ WorkPart
      /\ UNCHANGED <<top, strm, got, asked, sync>> /\ LogPart
  BY DEF WriteHead, IInv, dbVars, rootVars, streamVars
<1>2. RootPart' /\ StreamOk' /\ SyncPart' /\ last' = last
  BY <1>1, RootKept, ReaderKept DEF last
<1>3. CASE light
  <2>1. head' = head
    BY <1>3 DEF WriteHead
  <2>2. LogPart' /\ WorkPart'
    BY <1>1, <1>2, <1>3, <2>1 DEF LogPart, WorkPart
  <2> QED
    BY <1>1, <1>2, <2>2 DEF IInv, ConfigPart
<1>4. CASE ~light
  <2>1. work.ev = last /\ work.ev \in Heights /\ head' = NewHead(work.ev)
    BY <1>1, <1>4 DEF WriteHead, WorkPart
  <2>2. head' = HeadOf(last) /\ work.ev <= last
    BY <2>1, NewHeadIs DEF Heights
  <2>3. LogPart' /\ WorkPart'
    BY <1>1, <1>2, <1>4, <2>1, <2>2 DEF LogPart, WorkPart
  <2> QED
    BY <1>1, <1>2, <2>3 DEF IInv, ConfigPart
<1> QED
  BY <1>3, <1>4

LEMMA DbFailsOk == ASSUME IInv, DbFails PROVE IInv'
<1>1. /\ UNCHANGED <<light, entries, head, row, state, journal, drift>>
      /\ UNCHANGED <<saved, config>> /\ ConfigPart /\ pc' = "idle" /\ work' = NoWork
      /\ UNCHANGED <<top, strm, got, asked, sync>>
  BY DEF DbFails, NotApplied, IInv, dbVars, rootVars, streamVars
<1> QED
  BY <1>1, DbKept, RootKept, ReaderKept, IdleOk DEF IInv, ConfigPart

LEMMA ApplyOk == ASSUME IInv, Apply PROVE IInv'
<1>1. /\ UNCHANGED <<light, entries, head, saved, config>> /\ pc = "apply"
      /\ UNCHANGED <<top, strm, got, asked, sync>>
      /\ LogPart /\ ConfigPart /\ WorkPart /\ RootOk(Root) /\ RootOk(saved)
  BY DEF Apply, IInv, RootPart, dbVars, streamVars
<1>2. WorkPart' /\ StreamOk' /\ SyncPart'
  BY <1>1, IdleOk, ReaderKept DEF Apply
<1> DEFINE h == work.ev
           a == After(work)
           b == drift /\ ~(config.enabled /\ Last(journal').kind = "snapshot")
<1>3. /\ h \in Heights /\ h \in Nat /\ row.height = h - 1 /\ row.height \in Int
      /\ state \in States /\ Whole(journal) /\ journal \in Seq(Entries)
      /\ row = HeadOf(h - 1)
  <2>1. h \in Heights /\ h = row.height + 1
    BY <1>1 DEF WorkPart
  <2>2. row.height \in Int /\ h \in Nat /\ row = HeadOf(row.height)
        /\ state \in States /\ Whole(journal)
    BY <2>1, RowType
  <2>3. row.height = h - 1
    BY <2>1, <2>2
  <2> QED
    BY <2>1, <2>2, <2>3 DEF Whole
<1>4. a \in States /\ (work.errored => a = state) /\ work.errored \in BOOLEAN
  BY <1>1, <1>3 DEF After, WorkPart
<1>5. row' = HeadOf(h) /\ row' \in Heads /\ row'.height = h
  <2>1. row.previousKeyOp = PreviousKeyOp(h)
    <3>1. HeadOf(h - 1) = [height |-> h - 1, previousKeyOp |-> PreviousKeyOp(h)]
      BY <1>3, FitsIs
    <3> QED
      BY <1>3, <3>1
  <2>2. row' = NewHead(h)
    BY <2>1 DEF Apply, NewRow, NewHead
  <2>3. row' = HeadOf(h)
    BY <1>3, <2>2, NewHeadIs
  <2> QED
    BY <1>3, <2>3, HeadOfType DEF HeadOf
<1>6. journal # <<>> => Last(journal).h \in Nat /\ Last(journal).h < h
  <2>1. journal # <<>> => Last(journal).h <= row.height
    BY <1>1, RootFields DEF RootOk
  <2> QED
    BY <1>3, <2>1, LastHeight
<1>7. journal # <<>> /\ Last(journal).h = h - 1 /\ ~drift
        => Replays(journal, redact(state))
  BY <1>1, <1>3, RootFields DEF RootOk
<1>8. drift \in BOOLEAN
  BY <1>1, RootFields DEF RootOk
<1>9. /\ state' = a /\ drift' = b /\ b \in BOOLEAN
      /\ journal' = Recorded(work)
  BY <1>8 DEF Apply
<1>10. /\ Whole(journal')
       /\ journal' # <<>> => Last(journal').h <= h
       /\ journal' # <<>> /\ Last(journal').h = h /\ ~drift'
            => Replays(journal', redact(a))
  <2>1. CASE config.enabled
    <3>1. journal' = recordEvent(journal, h, state, a, work.errored, config.interval)
      BY <1>9, <2>1 DEF Recorded
    <3>2. config.interval \in Lengths
      BY <1>1 DEF ConfigPart
    <3> HIDE DEF a, h, b
    <3>3. /\ Whole(journal') /\ journal' # <<>> /\ Last(journal').h = h
          /\ journal = <<>> \/ Last(journal).h # h - 1
               => Last(journal').kind = "snapshot"
          /\ Last(journal').kind = "snapshot" => Replays(journal', redact(a))
          /\ journal # <<>> /\ Last(journal).h = h - 1
               /\ Replays(journal, redact(state)) => Replays(journal', redact(a))
      BY <1>3, <1>4, <1>6, <3>1, <3>2, EventRecorded
    <3>4. ~drift' => ~drift \/ Last(journal').kind = "snapshot"
      BY <1>9 DEF b
    <3> QED
      BY <1>3, <1>7, <3>3, <3>4
  <2>2. CASE ~config.enabled
    <3>1. journal' = journal
      BY <1>9, <2>2 DEF Recorded
    <3> QED
      BY <1>3, <1>6, <3>1
  <2> QED
    BY <2>1, <2>2
<1>11. RootPart'
  <2> HIDE DEF a, h, b
  <2>1. /\ Root'.row = row' /\ Root'.state = a /\ Root'.journal = journal'
        /\ Root'.drift = drift' /\ drift' \in BOOLEAN
    BY <1>9 DEF Root
  <2>2. RootOk(Root')
    BY <1>4, <1>5, <1>10, <2>1 DEF RootOk
  <2> QED
    BY <1>1, <2>2 DEF RootPart, RootOk
<1>12. LogPart'
  <2>1. last' = last /\ (~light => h <= last)
    BY <1>1 DEF last, WorkPart
  <2> QED
    BY <1>1, <1>5, <2>1 DEF LogPart
<1> QED
  BY <1>1, <1>2, <1>11, <1>12 DEF IInv, ConfigPart

LEMMA SaveOk == ASSUME IInv, Save PROVE IInv'
<1>1. /\ UNCHANGED <<light, entries, head, row, state, journal, drift>>
      /\ UNCHANGED <<config, pc, work>> /\ saved' = Root
      /\ UNCHANGED <<top, strm, got, asked, sync>>
      /\ LogPart /\ ConfigPart /\ WorkPart /\ RootOk(Root)
  BY DEF Save, IInv, RootPart, dbVars, rootVars, taskVars, streamVars
<1>2. StreamOk' /\ SyncPart'
  BY <1>1, ReaderKept
<1>3. Root' = Root /\ last' = last
  BY <1>1 DEF Root, last
<1>4. RootPart'
  BY <1>1, <1>3 DEF RootPart, RootOk
<1>5. LogPart'
  BY <1>1, <1>3, RootFields DEF LogPart
<1> QED
  BY <1>1, <1>2, <1>3, <1>4, <1>5 DEF IInv, ConfigPart, WorkPart

LEMMA CrashOk == ASSUME IInv, Crash PROVE IInv'
<1>1. /\ UNCHANGED <<light, entries, head, saved, config, top>>
      /\ row' = saved.row /\ state' = saved.state /\ journal' = saved.journal
      /\ drift' = saved.drift /\ LogPart /\ ConfigPart /\ RootOk(saved)
      /\ sync' = NoSync /\ strm' = NoStream /\ got' = <<>> /\ asked' = <<0, None>>
  BY DEF Crash, IInv, RootPart, dbVars
<1>2. StreamOk' /\ SyncPart' /\ WorkPart'
  BY <1>1, StreamGone, IdleOk DEF Crash
<1>3. /\ Root'.row = saved.row /\ Root'.state = saved.state
      /\ Root'.journal = saved.journal /\ Root'.drift = saved.drift
  BY <1>1 DEF Root
<1>4. RootPart'
  BY <1>1, <1>3 DEF RootPart, RootOk
<1>5. LogPart'
  BY <1>1 DEF LogPart, last
<1> QED
  BY <1>1, <1>2, <1>4, <1>5 DEF IInv, ConfigPart

LEMMA ResyncOk == ASSUME IInv, Resync PROVE IInv'
<1>1. /\ UNCHANGED <<light, entries, head, saved, config, pc, work>>
      /\ row' = NoHead /\ state' = EmptyState /\ journal' = <<>> /\ drift' = FALSE
      /\ UNCHANGED <<top, strm, got, asked, sync>> /\ pc = "idle"
      /\ LogPart /\ ConfigPart /\ WorkPart /\ RootOk(saved)
  BY DEF Resync, IInv, RootPart, dbVars, taskVars, streamVars
<1>2. StreamOk' /\ SyncPart'
  BY <1>1, ReaderKept
<1>3. Root' = NoRoot
  BY <1>1 DEF Root, NoRoot
<1>4. RootPart'
  BY <1>1, <1>3, NoRootOk DEF RootPart, RootOk
<1>5. LogPart'
  <2>1. ~light => last \in Int /\ last >= -1
    BY <1>1, HeightAssumption DEF LogPart, Heights, None
  <2>2. row'.height = -1
    BY <1>1 DEF NoHead, None
  <2> QED
    BY <1>1, <2>1, <2>2 DEF LogPart, last
<1>6. WorkPart'
  BY <1>1 DEF WorkPart, last
<1> QED
  BY <1>1, <1>2, <1>4, <1>5, <1>6 DEF IInv, ConfigPart

LEMMA WriteOutsideOk == ASSUME IInv, WriteOutside PROVE IInv'
<1>1. /\ UNCHANGED <<light, entries, head, row, journal, saved, config, pc, work>>
      /\ state' = written(state) /\ drift' = (journal # <<>>)
      /\ UNCHANGED <<top, strm, got, asked, sync>>
      /\ ConfigPart /\ WorkPart /\ RootOk(Root) /\ RootOk(saved)
  BY DEF WriteOutside, IInv, RootPart, dbVars, taskVars, streamVars
<1>2. StreamOk' /\ SyncPart' /\ LogPart' /\ last' = last
  BY <1>1, ReaderKept, DbKept
<1>3. state' \in States
  BY <1>1, RowType, StateAssumption
<1> DEFINE b == journal # <<>>
<1>4. drift' = b /\ b \in BOOLEAN
  BY <1>1
<1>5. b <=> journal # <<>>
  OBVIOUS
<1> HIDE DEF b
<1>6. /\ Root'.row = Root.row /\ Root'.state = state'
      /\ Root'.journal = Root.journal /\ Root'.drift = b /\ Root.journal = journal
  BY <1>1, <1>4 DEF Root
<1>7. RootOk(Root')
  BY <1>1, <1>3, <1>4, <1>5, <1>6 DEF RootOk
<1>8. RootPart'
  BY <1>1, <1>7 DEF RootPart, RootOk
<1> QED
  BY <1>1, <1>2, <1>8 DEF IInv, ConfigPart, WorkPart

\* Wiping the journal, whatever the reason.
LEMMA WipedOk ==
  ASSUME IInv, journal' = <<>>, UNCHANGED <<row, state, saved, drift>>
  PROVE  RootPart'
<1>1. RootOk(Root) /\ RootOk(saved)
  BY DEF IInv, RootPart
<1>2. /\ Root'.row = Root.row /\ Root'.state = Root.state
      /\ Root'.journal = <<>> /\ Root'.drift = Root.drift
  BY DEF Root
<1>3. RootOk(Root')
  BY <1>1, <1>2, EmptyWhole DEF RootOk
<1> QED
  BY <1>1, <1>3 DEF RootPart, RootOk

LEMMA ConfigureOk == ASSUME IInv, Configure PROVE IInv'
<1>1. /\ UNCHANGED <<light, entries, head, row, state, saved, drift, pc, work>>
      /\ UNCHANGED <<top, strm, got, asked, sync>> /\ WorkPart
  BY DEF Configure, IInv, dbVars, taskVars, streamVars
<1>2. StreamOk' /\ SyncPart' /\ LogPart' /\ last' = last
  BY <1>1, ReaderKept, DbKept
<1>3. DEFAULT_SNAPSHOT_INTERVAL \in Lengths
  BY IntervalAssumption DEF Lengths, ValidInterval
<1>4. CASE \E on \in BOOLEAN, n \in Intervals : ConfigureJournal(on, n)
  <2>1. PICK on \in BOOLEAN, n \in Intervals : ConfigureJournal(on, n)
    BY <1>4
  <2>2. ValidInterval(n) \in Lengths
    BY DEF Lengths
  <2>3. ConfigPart' /\ journal' = journal
    BY <2>1, <2>2 DEF ConfigureJournal, ConfigPart
  <2>4. RootPart'
    BY <1>1, <2>3, RootKept
  <2> QED
    BY <1>1, <1>2, <2>3, <2>4 DEF IInv, WorkPart
<1>5. CASE JournalOff
  <2>1. ConfigPart' /\ journal' = <<>>
    BY <1>3, <1>5 DEF JournalOff, ConfigPart
  <2>2. RootPart'
    BY <1>1, <2>1, WipedOk
  <2> QED
    BY <1>1, <1>2, <2>1, <2>2 DEF IInv, WorkPart
<1> QED
  BY <1>4, <1>5 DEF Configure

LEMMA ClearJournalOk == ASSUME IInv, ClearJournal PROVE IInv'
<1>1. /\ UNCHANGED <<light, entries, head, row, state, saved, drift, pc, work>>
      /\ UNCHANGED <<top, strm, got, asked, sync, config>> /\ journal' = <<>>
      /\ WorkPart /\ ConfigPart
  BY DEF ClearJournal, IInv, dbVars, taskVars, streamVars
<1>2. StreamOk' /\ SyncPart' /\ LogPart' /\ last' = last /\ RootPart'
  BY <1>1, ReaderKept, DbKept, WipedOk
<1> QED
  BY <1>1, <1>2 DEF IInv, WorkPart, ConfigPart

\* The invariant is inductive.
LEMMA NextOk == ASSUME IInv, [Next]_vars PROVE IInv'
<1>1. CASE Next
  BY <1>1, StreamStepOk, StartSyncOk, SyncEndsOk, SyncReadOk, ReceiveEventOk,
     CheckEntryOk, WriteEntryOk, WriteHeadOk, DbFailsOk, ApplyOk, SaveOk, CrashOk,
     ResyncOk, WriteOutsideOk, ConfigureOk, ClearJournalOk DEF Next, StoreStep
<1>2. CASE UNCHANGED vars
  <2>1. UNCHANGED <<top, strm, got, asked, sync>> /\ UNCHANGED storeVars
    BY <1>2 DEF vars, streamVars, storeVars, taskVars
  <2> QED
    BY <2>1, StoreKept, ReaderKept DEF IInv
<1> QED
  BY <1>1, <1>2

LEMMA IInvAlways == Spec => []IInv
<1>1. Init => IInv
  BY InitOk
<1>2. IInv /\ [Next]_vars => IInv'
  BY NextOk
<1> QED
  BY <1>1, <1>2, PTL DEF Spec
-----------------------------------------------------------------------------
(***************************************************************************)
(* What the invariant promises.                                            *)
(***************************************************************************)
LEMMA TypeFollows == ASSUME IInv PROVE TypeOK
<1>1. RootOk(Root) /\ RootOk(saved) /\ LogPart /\ ConfigPart /\ WorkPart /\ SyncPart
  BY DEF IInv, RootPart
<1>2. RootType(Root) /\ RootType(saved)
  BY <1>1 DEF RootOk, RootType, Whole
<1>3. head \in Heads
  <2>1. last \in Heights \cup {None}
    BY <1>1 DEF LogPart
  <2>2. last # None => last - 1 \in Heights \cup {None}
    BY <2>1, HeightAssumption DEF Heights, None
  <2> QED
    BY <1>1, <2>1, <2>2, HeadOfType DEF LogPart
<1>4. entries \subseteq Heights
  BY <1>1, HeightAssumption DEF LogPart, Heights, None
<1>5. config \in [enabled : BOOLEAN, interval : Nat \ {0}]
  <2>1. config \in [enabled : BOOLEAN, interval : Lengths]
    BY <1>1 DEF ConfigPart
  <2> QED
    BY <2>1, LengthsPositive
<1> QED
  BY <1>1, <1>2, <1>3, <1>4, <1>5 DEF TypeOK, LogPart, WorkPart, SyncPart

LEMMA ChainFollows == ASSUME IInv PROVE LogIsChain
<1>1. LogPart
  BY DEF IInv
<1>2. last \in Int /\ last >= -1
  BY <1>1, HeightAssumption DEF LogPart, Heights, None
<1>3. head = HeadOf(head.height) /\ head.height \in {last, last - 1} \ {-2}
  <2>1. CASE head = HeadOf(last)
    BY <1>2, <2>1 DEF HeadOf
  <2>2. CASE last # None /\ head = HeadOf(last - 1)
    BY <1>2, <2>2 DEF HeadOf, None
  <2> QED
    BY <1>1, <2>1, <2>2 DEF LogPart
<1>4. light => entries = {}
  BY <1>1 DEF LogPart, None
<1> QED
  BY <1>1, <1>3, <1>4 DEF LogIsChain, LogPart, last

\* An event the HEAD refuses follows a row that is on the last entry, so that the
\* HEAD can only be the one before.
LEMMA AcceptedFollows == ASSUME IInv PROVE NextAccepted
<1>1. SUFFICES ASSUME pc = "check", ~Known(work.ev), ~Fits(work.ev) PROVE Torn
  BY DEF NextAccepted
<1>2. /\ LogPart /\ work.ev = row.height + 1 /\ row.height \in Int
      /\ work.ev \in Nat /\ row = HeadOf(row.height)
  BY <1>1, RowType DEF IInv, WorkPart
<1>3. row.height = work.ev - 1
  BY <1>2
<1>4. latestHEADinfo # HeadOf(work.ev - 1)
  BY <1>1, <1>2, FitsIs
<1>5. ~light
  BY <1>2, <1>3, <1>4 DEF latestHEADinfo
<1>6. last \in Int /\ row.height <= last /\ work.ev \notin 0 .. last
  BY <1>1, <1>2, <1>5, HeightAssumption DEF LogPart, Known, Heights, None
<1>7. last = work.ev - 1
  BY <1>2, <1>6
<1>8. last # None /\ head = HeadOf(last - 1)
  BY <1>2, <1>4, <1>5, <1>7 DEF LogPart, latestHEADinfo
<1>9. head.height # last /\ last \in 0 .. last
  <2>1. head.height = last - 1
    BY <1>8 DEF HeadOf
  <2>2. last >= 0
    BY <1>2, <1>7, <1>8 DEF None
  <2> QED
    BY <1>6, <2>1, <2>2
<1> QED
  BY <1>1, <1>2, <1>9 DEF Torn, LogPart, last

LEMMA WindowFollows == ASSUME IInv PROVE WindowUnbroken
<1>1. Whole(journal)
  BY RowType
<1>2. PICK m \in Lengths : Len(journal) <= 2 * m
  BY <1>1 DEF Whole
<1>3. PICK n \in Intervals \cup {DEFAULT_SNAPSHOT_INTERVAL} : m = ValidInterval(n)
  BY DEF Lengths
<1> QED
  BY <1>1, <1>2, <1>3 DEF WindowUnbroken, Window, Whole, Chain

LEMMA RebuiltFollows == ASSUME IInv PROVE HeadRebuilt
<1>1. SUFFICES ASSUME journal # <<>>, Last(journal).h = row.height, ~drift
               PROVE  reconstruct(journal) = redact(state)
  BY DEF HeadRebuilt
<1>2. Replays(journal, redact(state))
  BY <1>1, RootFields DEF IInv, RootPart, RootOk
<1>3. journal \in Seq(Entries) /\ Chain(journal)
  BY RowType DEF Whole
<1>4. PICK from : SnapshotAt(journal, from)
  BY <1>1, <1>3, SnapshotExists
<1> QED
  BY <1>2, <1>3, <1>4, Rebuilt

\* A stream without a limit closes on the newest event of its last answer.
LEMMA FoundFollows == ASSUME IInv PROVE SyncFindsHead
<1>1. SUFFICES ASSUME sync.on, strm.st = "closed", ~sync.found PROVE FALSE
  BY DEF SyncFindsHead, IInv, SyncPart
<1>2. /\ strm.limit = None /\ sync.latestHEAD <= strm.latestHeight
      /\ \A i \in 1 .. Len(got) : got[i] < sync.latestHEAD
      /\ sync.latestHEAD \in Nat
  BY <1>1 DEF IInv, SyncPart, Heights
<1>3. strm \in StreamRecs /\ got \in Seq(Heights) /\ NothingSkipped
  BY StreamPromises DEF IInv, StreamOk, Stream
<1>4. Len(got) \in Nat
  BY <1>3
<1>5. got # <<>> /\ got[Len(got)] >= strm.latestHeight
  BY <1>1, <1>2, <1>3, <1>4 DEF NothingSkipped, None
<1>6. Len(got) \in 1 .. Len(got) /\ got[Len(got)] \in Nat
  <2>1. Len(got) # 0
    BY <1>3, <1>5, EmptySeq
  <2>2. Len(got) \in 1 .. Len(got)
    BY <1>4, <2>1
  <2>3. got[Len(got)] \in Heights
    BY <1>3, <2>2, ElementOfSeq
  <2> QED
    BY <2>2, <2>3 DEF Heights
<1>7. strm.latestHeight \in Nat
  BY <1>3 DEF StreamRecs, Heights
<1> QED
  BY <1>2, <1>5, <1>6, <1>7

\* Every variable of the client's store keeps its type, over crashes, re-syncs and
\* changes of configuration.
THEOREM TypesKept == Spec => []TypeOK
BY TypeFollows, IInvAlways, PTL

\* The log database stays one unbroken run of the contract's log with its HEAD on
\* the last entry or, torn, on the one before; no state is ahead of it.
THEOREM ChainKept == Spec => []LogIsChain
BY ChainFollows, IInvAlways, PTL

\* addEntry refuses an event that follows the state only when an earlier crash or
\* failure tore the HEAD from its entry.
THEOREM AcceptedAlways == Spec => []NextAccepted
BY AcceptedFollows, IInvAlways, PTL

\* The journal starts with a snapshot, has no gap, and is bounded by twice an
\* interval, over every change of the interval.
THEOREM WindowKept == Spec => []WindowUnbroken
BY WindowFollows, IInvAlways, PTL

\* What reconstruct makes of the journal is the redacted state, for every differ that
\* its applier undoes, unless the state was written past the journal.
THEOREM RebuiltAlways == Spec => []HeadRebuilt
BY RebuiltFollows, IInvAlways, PTL

\* A stream of eventsAfter skips no event, whatever its page size and limit, and
\* whatever is cut off or appended meanwhile.
THEOREM NoneSkipped == Spec => []NothingSkipped
<1>1. IInv => NothingSkipped
  BY StreamPromises DEF IInv
<1> QED
  BY <1>1, IInvAlways, PTL

\* eventsBefore and eventsBetween give no event that was not asked for.
THEOREM NoneOutside == Spec => []WithinAsked
<1>1. IInv => WithinAsked
  BY StreamPromises DEF IInv
<1> QED
  BY <1>1, IInvAlways, PTL

\* A synchronisation never takes an honest server's log for a fork of it: when its
\* stream closes, the HEAD named at its start has come by.
THEOREM FoundAlways == Spec => []SyncFindsHead
BY FoundFollows, IInvAlways, PTL
=============================================================================
