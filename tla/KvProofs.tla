------------------------------ MODULE KvProofs ------------------------------
(***************************************************************************)
(* No update of a slot is lost, value and etag of the mirror belong        *)
(* together, and the writes of others are seen in the end.                 *)
(*                                                                         *)
(* Each needs the other: the mirror is where an update starts from, and    *)
(* what it is conditional on.  The invariant says it of the mirror (Good), *)
(* of the request under way (Sent) and of the server's writes (Kept), and  *)
(* that nothing refers to a write there is not (Frames).  It speaks of a   *)
(* log l rather than of the variable, because what it says of one log it   *)
(* says of every longer one.  The second half is about what the mirror     *)
(* does not have yet: nothing of it is missed (SeenInv, further down).     *)
(***************************************************************************)
EXTENDS Kv, SequenceTheorems, WellFoundedInduction, TLAPS

Val(l, n) == IF n = 0 THEN 0 ELSE IF l[n].data = "clear" THEN 0 ELSE n

\* The mirror has a value the server had, and if it has an etag, that of its value.
Good(l, e) ==
  /\ e = [value |-> e.value, etag |-> e.etag, status |-> e.status]
  /\ e.value \in 0 .. Len(l) /\ e.etag \in 0 .. Len(l)
  /\ e.etag # 0 => e.value = Val(l, e.etag)

\* A write is made from the value whose etag it is conditional on; one that is
\* conditional on there being none is refused unless the log is empty.
Based(l, j) ==
  j.pc = "post" =>
    j.data = "clear" \/ (j.op = "update" /\ (j.ifm # 0 => j.basis = Val(l, j.ifm)))

Sent(l, j) ==
  /\ j = [op |-> j.op, slot |-> j.slot, pc |-> j.pc, prior |-> j.prior,
          marks |-> j.marks, data |-> j.data, basis |-> j.basis, ifm |-> j.ifm,
          tries |-> j.tries, conflict |-> j.conflict, answer |-> j.answer]
  /\ j.basis \in 0 .. Len(l) /\ j.ifm \in 0 .. Len(l) /\ j.answer.n \in 0 .. Len(l)
  /\ Based(l, j)

Frames(l, s) ==
  /\ \E S : s \in Seq(S)
  /\ \A i \in 1 .. Len(s) : s[i].n \in 0 .. Len(l)

Fits(l, w) == w.own /\ w.data # "clear" => w.basis = Val(l, Len(l))

Kept(l) ==
  /\ \E S : l \in Seq(S)
  /\ \A n \in 1 .. Len(l) : l[n].own /\ l[n].data # "clear" => l[n].basis = Val(l, n - 1)

KvInv ==
  /\ Kept(log) /\ Good(log, entry) /\ Sent(log, job)
  /\ Frames(log, wire) /\ Frames(log, lane)

-----------------------------------------------------------------------------
(***************************************************************************)
(* A log that grows.                                                       *)
(***************************************************************************)
LEMMA Grown ==
  ASSUME NEW l, NEW w, Kept(l)
  PROVE  /\ Len(l) \in Nat /\ Len(Append(l, w)) = Len(l) + 1
         /\ Append(l, w)[Len(l) + 1] = w
         /\ \A n \in 1 .. Len(l) : Append(l, w)[n] = l[n]
         /\ \A n \in 0 .. Len(l) : Val(Append(l, w), n) = Val(l, n)
         /\ \E S : Append(l, w) \in Seq(S)
<1>1. PICK S : l \in Seq(S)
  BY DEF Kept
<1>2. l \in Seq(S \union {w}) /\ w \in S \union {w}
  BY <1>1, SeqMonotonic
<1>3. /\ Append(l, w) \in Seq(S \union {w}) /\ Len(l) \in Nat
      /\ Len(Append(l, w)) = Len(l) + 1 /\ Append(l, w)[Len(l) + 1] = w
      /\ \A n \in 1 .. Len(l) : Append(l, w)[n] = l[n]
  BY <1>2, AppendProperties
<1> QED
  BY <1>3 DEF Val

LEMMA KeptGrown ==
  ASSUME NEW l, NEW w, Kept(l), Fits(l, w)
  PROVE  Kept(Append(l, w))
<1> DEFINE m == Append(l, w)
<1>1. /\ Len(l) \in Nat /\ Len(m) = Len(l) + 1 /\ m[Len(l) + 1] = w
      /\ \A n \in 1 .. Len(l) : m[n] = l[n]
      /\ \A n \in 0 .. Len(l) : Val(m, n) = Val(l, n)
      /\ \E S : m \in Seq(S)
  BY Grown
<1> HIDE DEF m
<1>2. ASSUME NEW n \in 1 .. Len(m), m[n].own, m[n].data # "clear"
      PROVE  m[n].basis = Val(m, n - 1)
  <2>1. CASE n = Len(l) + 1
    BY <2>1, <1>1, <1>2 DEF Fits
  <2>2. CASE n \in 1 .. Len(l)
    BY <2>2, <1>1, <1>2 DEF Kept
  <2> QED
    BY <2>1, <2>2, <1>1
<1>3. Kept(m)
  BY <1>1, <1>2 DEF Kept
<1> QED
  BY <1>3 DEF m

LEMMA OthersGrown ==
  ASSUME NEW l, NEW w, Kept(l)
  PROVE  /\ \A e : Good(l, e) => Good(Append(l, w), e)
         /\ \A j : Sent(l, j) => Sent(Append(l, w), j)
         /\ \A s : Frames(l, s) => Frames(Append(l, w), s)
<1> DEFINE m == Append(l, w)
<1>1. /\ Len(l) \in Nat /\ Len(m) = Len(l) + 1
      /\ \A n \in 0 .. Len(l) : Val(m, n) = Val(l, n)
  BY Grown
<1> HIDE DEF m
<1>2. ASSUME NEW e, Good(l, e) PROVE Good(m, e)
  BY <1>1, <1>2 DEF Good
<1>3. ASSUME NEW j, Sent(l, j) PROVE Sent(m, j)
  <2>1. j.basis \in 0 .. Len(m) /\ j.ifm \in 0 .. Len(m) /\ j.answer.n \in 0 .. Len(m)
    BY <1>1, <1>3 DEF Sent
  <2>2. Based(m, j)
    BY <1>1, <1>3 DEF Sent, Based
  <2> QED
    BY <2>1, <2>2, <1>3 DEF Sent
<1>4. ASSUME NEW s, Frames(l, s) PROVE Frames(m, s)
  BY <1>1, <1>4 DEF Frames
<1> QED
  BY <1>2, <1>3, <1>4 DEF m

-----------------------------------------------------------------------------
(***************************************************************************)
(* What waits.                                                             *)
(***************************************************************************)
LEMMA FramesAppend ==
  ASSUME NEW l, NEW s, NEW t, Frames(l, s), t.n \in 0 .. Len(l)
  PROVE  Frames(l, Append(s, t))
<1>1. PICK S : s \in Seq(S)
  BY DEF Frames
<1>2. s \in Seq(S \union {t}) /\ t \in S \union {t}
  BY <1>1, SeqMonotonic
<1>3. /\ Append(s, t) \in Seq(S \union {t}) /\ Len(s) \in Nat
      /\ Len(Append(s, t)) = Len(s) + 1 /\ Append(s, t)[Len(s) + 1] = t
      /\ \A n \in 1 .. Len(s) : Append(s, t)[n] = s[n]
  BY <1>2, AppendProperties
<1> QED
  BY <1>3 DEF Frames

LEMMA FramesTail ==
  ASSUME NEW l, NEW s, Frames(l, s), s # <<>>
  PROVE  Head(s).n \in 0 .. Len(l) /\ Frames(l, Tail(s))
<1>1. PICK S : s \in Seq(S)
  BY DEF Frames
<1>2. /\ Head(s) = s[1] /\ Tail(s) \in Seq(S) /\ Len(s) \in Nat /\ Len(s) >= 1
      /\ Len(Tail(s)) = Len(s) - 1 /\ \A i \in 1 .. Len(Tail(s)) : Tail(s)[i] = s[i + 1]
  BY <1>1, EmptySeq, HeadTailProperties
<1>3. s[1].n \in 0 .. Len(l)
  BY <1>2 DEF Frames
<1>4. \A i \in 1 .. Len(Tail(s)) : Tail(s)[i].n \in 0 .. Len(l)
  BY <1>2 DEF Frames
<1> QED
  BY <1>2, <1>3, <1>4 DEF Frames

LEMMA FramesEmpty == ASSUME NEW l PROVE Frames(l, <<>>)
<1>1. <<>> \in Seq({}) /\ Len(<<>>) = 0
  OBVIOUS
<1> QED
  BY <1>1 DEF Frames

-----------------------------------------------------------------------------
(***************************************************************************)
(* What becomes of the mirror, and of the request.                         *)
(***************************************************************************)
LEMMA MirrorGood ==
  ASSUME Kept(log), Good(log, entry)
  PROVE  /\ \A s : Good(log, Marked(s))
         /\ \A s : Good(log, [entry EXCEPT !.status = s])
         /\ \A n \in 0 .. Len(log) : \A e \in {0, n} : Good(log, Mirrored(n, e))
         /\ \A s : Good(log, Revalidated(s))
         /\ Good(log, Restored)
         /\ \A s : Good(log, Entry(0, 0, s))
<1>1. Len(log) \in Nat
  BY DEF Kept
<1>2. \A s : Good(log, [entry EXCEPT !.status = s])
  BY DEF Good
<1>3. \A s : Good(log, Marked(s))
  BY <1>2 DEF Marked
<1>4. \A n \in 0 .. Len(log) : \A e \in {0, n} : Good(log, Mirrored(n, e))
  BY <1>1 DEF Good, Mirrored, Entry, Value, Val
<1>5. \A s : Good(log, Revalidated(s))
  BY <1>3 DEF Revalidated
<1>6. Good(log, Restored)
  BY <1>3 DEF Restored
<1>7. \A s : Good(log, Entry(0, 0, s))
  BY <1>1 DEF Good, Entry, Val
<1> QED
  BY <1>2, <1>3, <1>4, <1>5, <1>6, <1>7

LEMMA LoadGood ==
  ASSUME Kept(log), Good(log, entry), Sent(log, job)
  PROVE  Good(log, GotLoad)
<1>1. CASE Stale
  BY <1>1, MirrorGood DEF GotLoad
<1>2. CASE ~Stale /\ job.answer.t = "got" /\ Accepted(slot, job.answer.n)
  <2>1. job.answer.n \in 0 .. Len(log)
    BY DEF Sent
  <2>2. Good(log, Mirrored(job.answer.n, job.answer.n))
    BY <2>1, MirrorGood
  <2> QED
    BY <1>2, <2>2 DEF GotLoad
<1>3. CASE ~Stale /\ ~(job.answer.t = "got" /\ Accepted(slot, job.answer.n))
  BY <1>3, MirrorGood DEF GotLoad
<1> QED
  BY <1>1, <1>2, <1>3

LEMMA ReloadGood ==
  ASSUME Kept(log), Good(log, entry), Sent(log, job)
  PROVE  Good(log, Reloaded)
<1>1. Good(log, GotLoad)
  BY LoadGood
<1>2. Good(log, [GotLoad EXCEPT !.status = entry.status])
  BY <1>1 DEF Good
<1> QED
  BY <1>2 DEF Reloaded

LEMMA IdleSent == ASSUME Kept(log) PROVE Sent(log, Idle)
<1>1. Len(log) \in Nat
  BY DEF Kept
<1> QED
  BY <1>1 DEF Sent, Based, Idle, Nothing

LEMMA GetSent ==
  ASSUME Kept(log), Good(log, entry), NEW op, NEW s, NEW marks, Get(op, s, marks)
  PROVE  Good(log, entry') /\ Sent(log, job')
<1>1. Good(log, entry')
  BY MirrorGood DEF Get
<1>2. Len(log) \in Nat
  BY DEF Kept
<1>3. job' = [op |-> op, slot |-> s, pc |-> "get", prior |-> entry.status, marks |-> marks,
              data |-> "clear", basis |-> 0, ifm |-> 0, tries |-> 0, conflict |-> FALSE,
              answer |-> Nothing]
  BY DEF Get, Idle
<1>4. Sent(log, job')
  BY <1>2, <1>3 DEF Sent, Based, Nothing
<1> QED
  BY <1>1, <1>4

LEMMA PostSent ==
  ASSUME Kept(log), NEW op, NEW s, NEW d, NEW b \in 0 .. Len(log), NEW e \in 0 .. Len(log),
         d = "clear" \/ (op = "update" /\ (e # 0 => b = Val(log, e))),
         Post(op, s, d, b, e)
  PROVE  Sent(log, job')
<1>1. Len(log) \in Nat
  BY DEF Kept
<1>2. job' = [op |-> op, slot |-> s, pc |-> "post", prior |-> "none", marks |-> {},
              data |-> d, basis |-> b, ifm |-> e, tries |-> MaxAttempts, conflict |-> FALSE,
              answer |-> Nothing]
  BY DEF Post, Idle
<1> QED
  BY <1>1, <1>2 DEF Sent, Based, Nothing

LEMMA AnswerSent ==
  ASSUME Kept(log), Sent(log, job), NEW t, NEW n \in 0 .. Len(log), Answer(t, n)
  PROVE  Sent(log, job')
<1>1. Based(log, job')
  BY DEF Answer, Sent, Based
<1> QED
  BY <1>1 DEF Answer, Sent

-----------------------------------------------------------------------------
(***************************************************************************)
(* The invariant holds.                                                    *)
(***************************************************************************)
LEMMA InitInv == ASSUME Init PROVE KvInv
<1>1. <<>> \in Seq({}) /\ Len(<<>>) = 0
  OBVIOUS
<1>2. Kept(log)
  BY <1>1 DEF Init, Kept
<1>3. Good(log, entry)
  BY <1>1 DEF Init, Good, NoEntry, Entry
<1>4. Sent(log, job)
  BY <1>2, IdleSent DEF Init
<1>5. Frames(log, wire) /\ Frames(log, lane)
  BY FramesEmpty DEF Init
<1> QED
  BY <1>2, <1>3, <1>4, <1>5 DEF KvInv

\* A write that fits: by another, or by this client from what it replaces.
LEMMA CommitStep ==
  ASSUME KvInv, NEW w, NEW cid, Fits(log, w), Commit(w, cid)
  PROVE  /\ Kept(log') /\ Good(log', entry) /\ Sent(log', job)
         /\ Frames(log', wire') /\ Frames(log', lane)
         /\ Newest + 1 \in 0 .. Len(log')
<1>1. log' = Append(log, w)
  BY DEF Commit
<1>2. /\ Kept(log') /\ Good(log', entry) /\ Sent(log', job)
      /\ Frames(log', wire) /\ Frames(log', lane)
  BY <1>1, KeptGrown, OthersGrown DEF KvInv
<1>3. Len(log) \in Nat /\ Len(log') = Len(log) + 1
  BY <1>1, Grown DEF KvInv
<1>4. Frames(log', Append(wire, Frame(Newest + 1, cid)))
  <2>1. Frame(Newest + 1, cid).n \in 0 .. Len(log')
    BY <1>3 DEF Frame, Newest
  <2> QED
    BY <1>2, <2>1, FramesAppend
<1>5. Frames(log', wire')
  BY <1>2, <1>4 DEF Commit
<1> QED
  BY <1>2, <1>3, <1>5 DEF Newest

LEMMA OthersWriteStep == ASSUME KvInv, OthersWrite PROVE KvInv'
<1>1. PICK d, cid : Commit(Written(d, FALSE, 0), cid)
  BY DEF OthersWrite
<1>2. Fits(log, Written(d, FALSE, 0))
  BY DEF Fits, Written
<1>3. /\ Kept(log') /\ Good(log', entry) /\ Sent(log', job)
      /\ Frames(log', wire') /\ Frames(log', lane)
  BY <1>1, <1>2, CommitStep
<1>4. UNCHANGED <<entry, job, lane>>
  BY DEF OthersWrite, mirrorVars, laneVars
<1> QED
  BY <1>3, <1>4 DEF KvInv

LEMMA ServePostStep == ASSUME KvInv, ServePost PROVE KvInv'
<1>1. UNCHANGED <<entry, lane>> /\ job.pc = "post"
  BY DEF ServePost, mirrorVars
<1>2. Len(log) \in Nat
  BY DEF KvInv, Kept
<1>3. ASSUME job.ifm = Newest, Commit(Written(job.data, TRUE, job.basis), TRUE),
             Answer("ok", Newest + 1)
      PROVE  KvInv'
  <2>1. Fits(log, Written(job.data, TRUE, job.basis))
    BY <1>1, <1>2, <1>3 DEF Fits, Written, KvInv, Sent, Based, Newest, Val
  <2>2. /\ Kept(log') /\ Good(log', entry) /\ Sent(log', job)
        /\ Frames(log', wire') /\ Frames(log', lane) /\ Newest + 1 \in 0 .. Len(log')
    BY <1>3, <2>1, CommitStep
  <2>3. Based(log', job')
    BY <1>3, <2>2 DEF Answer, Sent, Based
  <2>4. Sent(log', job')
    BY <1>3, <2>2, <2>3 DEF Answer, Sent
  <2> QED
    BY <1>1, <2>2, <2>4 DEF KvInv
<1>4. ASSUME UNCHANGED <<log, wire>>, Answer("conflict", Newest)
      PROVE  KvInv'
  <2>1. Newest \in 0 .. Len(log)
    BY <1>2 DEF Newest
  <2>2. Sent(log, job')
    BY <1>4, <2>1, AnswerSent DEF KvInv
  <2> QED
    BY <1>1, <1>4, <2>2 DEF KvInv
<1> QED
  BY <1>3, <1>4 DEF ServePost

\* A step that leaves the server alone keeps the invariant if it keeps these.
LEMMA ClientStep ==
  ASSUME KvInv, UNCHANGED log, Good(log, entry'), Sent(log, job'),
         Frames(log, wire'), Frames(log, lane')
  PROVE  KvInv'
BY DEF KvInv

LEMMA QueuedLoad ==
  ASSUME KvInv, NEW s PROVE Frames(log, Append(lane, Load(s)))
<1>1. Len(log) \in Nat
  BY DEF KvInv, Kept
<1>2. Load(s).n \in 0 .. Len(log)
  BY <1>1 DEF Load
<1> QED
  BY <1>2, FramesAppend DEF KvInv

LEMMA ApplicationStep == ASSUME KvInv, Application PROVE KvInv'
<1> USE DEF netVars, mirrorVars, laneVars, boundVars
<1>0. /\ Kept(log) /\ Good(log, entry) /\ Sent(log, job)
      /\ Frames(log, wire) /\ Frames(log, lane) /\ Frames(log, <<>>)
  BY FramesEmpty DEF KvInv
<1>1. CASE Reconcile
  <2>1. Good(log, entry')
    BY <1>0, <1>1, MirrorGood DEF Reconcile
  <2>2. Frames(log, lane')
    BY <1>1, QueuedLoad DEF Reconcile
  <2> QED
    BY <2>1, <2>2, <1>0, <1>1, ClientStep DEF Reconcile
<1>2. CASE CleanupContractRuntime
  <2>1. Good(log, entry')
    BY <1>0, <1>2, MirrorGood DEF CleanupContractRuntime, NoEntry
  <2> QED
    BY <2>1, <1>0, <1>2, ClientStep DEF CleanupContractRuntime
<1>3. CASE DefineSlot
  <2>1. Good(log, entry') /\ Frames(log, lane')
    BY <1>0, <1>3, MirrorGood, QueuedLoad DEF DefineSlot
  <2> QED
    BY <2>1, <1>0, <1>3, ClientStep DEF DefineSlot
<1>4. CASE Restart
  <2>1. Good(log, entry') /\ Sent(log, job')
    BY <1>0, <1>4, MirrorGood, IdleSent DEF Restart
  <2> QED
    BY <2>1, <1>0, <1>4, ClientStep DEF Restart
<1>5. ASSUME NEW op, Call(op) PROVE KvInv'
  <2>1. PICK t : t.n = 0 /\ lane' = Append(lane, t)
    BY <1>5 DEF Call
  <2>2. t.n \in 0 .. Len(log)
    BY <1>0, <2>1 DEF Kept
  <2>3. Frames(log, lane')
    BY <1>0, <2>1, <2>2, FramesAppend
  <2> QED
    BY <2>3, <1>0, <1>5, ClientStep DEF Call
<1> QED
  BY <1>1, <1>2, <1>3, <1>4, <1>5 DEF Application

LEMMA ConnectionStep == ASSUME KvInv, Connection PROVE KvInv'
<1> USE DEF netVars, mirrorVars, laneVars, boundVars
<1>0. /\ Kept(log) /\ Good(log, entry) /\ Sent(log, job)
      /\ Frames(log, wire) /\ Frames(log, lane) /\ Frames(log, <<>>)
  BY FramesEmpty DEF KvInv
<1>1. CASE Open \/ SubHandled \/ EchoExpires
  BY <1>0, <1>1, ClientStep DEF Open, SubHandled, EchoExpires
<1>2. CASE OnContractResynced
  <2>1. Frames(log, lane')
    BY <1>2, QueuedLoad DEF OnContractResynced
  <2> QED
    BY <2>1, <1>0, <1>2, ClientStep DEF OnContractResynced
<1>3. CASE Disconnect
  BY <1>0, <1>3, ClientStep DEF Disconnect
<1>4. CASE Receive
  <2>1. Head(wire).n \in 0 .. Len(log) /\ Frames(log, wire')
    BY <1>0, <1>4, FramesTail DEF Receive
  <2>2. Frames(log, lane')
    BY <1>0, <1>4, <2>1, FramesAppend DEF Receive
  <2> QED
    BY <2>1, <2>2, <1>0, <1>4, ClientStep DEF Receive
<1> QED
  BY <1>1, <1>2, <1>3, <1>4 DEF Connection

\* An update starts from the value of the mirror, in error or not.
LEMMA StartUpdateStep == ASSUME KvInv, StartUpdate PROVE KvInv'
<1>0. Kept(log) /\ Good(log, entry) /\ Sent(log, job) /\ Frames(log, lane)
  BY DEF KvInv
<1>1. Frames(log, lane')
  BY <1>0, FramesTail DEF StartUpdate, Turn
<1>2. UNCHANGED <<log, wire>>
  BY DEF StartUpdate, netVars
<1>3. Good(log, entry') /\ Sent(log, job')
  <2>1. CASE Get("update", slot, {})
    BY <2>1, <1>0, GetSent
  <2>2. ASSUME ~(entry.status = "error" /\ entry.value # 0), NEW d,
               Post("update", slot, d, Seed, entry.etag)
        PROVE  Sent(log, job')
    <3>1. Seed = entry.value
      BY <2>2 DEF Seed
    <3>2. /\ Seed \in 0 .. Len(log) /\ entry.etag \in 0 .. Len(log)
          /\ entry.etag # 0 => Seed = Val(log, entry.etag)
      BY <1>0, <3>1 DEF Good
    <3> QED
      BY <1>0, <2>2, <3>2, PostSent
  <2>3. CASE UNCHANGED <<job, entry>>
    BY <2>3, <1>0
  <2> QED
    BY <2>1, <2>2, <2>3, <1>0 DEF StartUpdate
<1> QED
  BY <1>1, <1>2, <1>3, ClientStep DEF KvInv

LEMMA StartFrameStep == ASSUME KvInv, StartFrame PROVE KvInv'
<1> DEFINE f == Head(lane)
<1>0. Kept(log) /\ Good(log, entry) /\ Sent(log, job) /\ Frames(log, lane)
  BY DEF KvInv
<1>1. Frames(log, lane') /\ f.n \in 0 .. Len(log)
  BY <1>0, FramesTail DEF StartFrame, Turn
<1>2. UNCHANGED <<log, wire>>
  BY DEF StartFrame, netVars
<1>3. Good(log, entry') /\ Sent(log, job')
  <2>1. CASE UNCHANGED <<entry, job>>
    BY <2>1, <1>0
  <2>2. CASE Ask(f)
    BY <2>2, <1>0, GetSent DEF Ask
  <2>3. CASE ApplyFrame(f)
    <3>1. (IF f.cid THEN f.n ELSE entry.etag) \in {0, f.n}
      BY <2>3 DEF ApplyFrame, Doubtful
    <3>2. Good(log, Mirrored(f.n, IF f.cid THEN f.n ELSE entry.etag))
      BY <1>0, <1>1, <3>1, MirrorGood
    <3>3. Good(log, Marked("error"))
      BY <1>0, MirrorGood
    <3> QED
      BY <2>3, <1>0, <3>2, <3>3 DEF ApplyFrame
  <2> QED
    BY <2>1, <2>2, <2>3 DEF StartFrame, Suppress
<1> QED
  BY <1>1, <1>2, <1>3, ClientStep DEF KvInv

LEMMA QueueStep == ASSUME KvInv, Queue PROVE KvInv'
<1> USE DEF netVars
<1>0. /\ Kept(log) /\ Good(log, entry) /\ Sent(log, job)
      /\ Frames(log, wire) /\ Frames(log, lane)
  BY DEF KvInv
<1>1. CASE StartLoad
  <2>1. Frames(log, lane')
    BY <1>0, <1>1, FramesTail DEF StartLoad, Turn
  <2>2. Good(log, entry') /\ Sent(log, job')
    BY <1>0, <1>1, GetSent DEF StartLoad
  <2> QED
    BY <2>1, <2>2, <1>0, <1>1, ClientStep DEF StartLoad
<1>2. CASE StartClear
  <2>1. Frames(log, lane')
    BY <1>0, <1>2, FramesTail DEF StartClear, Turn
  <2>2. 0 \in 0 .. Len(log) /\ entry.etag \in 0 .. Len(log)
    BY <1>0 DEF Good, Kept
  <2>3. Sent(log, job')
    <3>1. CASE Post("clear", slot, "clear", 0, entry.etag)
      BY <1>0, <2>2, <3>1, PostSent
    <3> QED
      BY <1>0, <1>2, <3>1 DEF StartClear
  <2>4. UNCHANGED <<log, wire, entry>>
    BY <1>2 DEF StartClear, mirrorVars
  <2> QED
    BY <2>1, <2>3, <2>4, <1>0, ClientStep
<1> QED
  BY <1>1, <1>2, StartUpdateStep, StartFrameStep DEF Queue

\* The answers: what was loaded is paired, and so is what a write is made again from.
LEMMA RequestStep == ASSUME KvInv, Request PROVE KvInv'
<1> USE DEF netVars, mirrorVars, laneVars, boundVars
<1>0. /\ Kept(log) /\ Good(log, entry) /\ Sent(log, job)
      /\ Frames(log, wire) /\ Frames(log, lane) /\ Sent(log, Idle)
      /\ Newest \in 0 .. Len(log) /\ 0 \in 0 .. Len(log) /\ job.answer.n \in 0 .. Len(log)
  BY IdleSent DEF KvInv, Kept, Newest, Sent
<1>1. CASE ServeGet
  <2>1. Sent(log, job')
    BY <1>0, <1>1, AnswerSent DEF ServeGet
  <2> QED
    BY <2>1, <1>0, <1>1, ClientStep DEF ServeGet
<1>2. CASE RequestFails
  <2>1. Sent(log, job')
    BY <1>0, <1>2, AnswerSent DEF RequestFails
  <2> QED
    BY <2>1, <1>0, <1>2, ClientStep DEF RequestFails
<1>3. CASE LoadDone
  <2>1. Good(log, entry') /\ Sent(log, job')
    BY <1>0, <1>3, LoadGood DEF LoadDone
  <2> QED
    BY <2>1, <1>0, <1>3, ClientStep DEF LoadDone
<1>4. CASE ReloadDone
  <2>1. Good(log, entry') /\ Good(log, Reloaded)
    BY <1>0, <1>4, ReloadGood DEF ReloadDone
  <2>2. ASSUME NEW d, Post("update", slot, d, Reloaded.value, Reloaded.etag)
        PROVE  Sent(log, job')
    <3>1. /\ Reloaded.value \in 0 .. Len(log) /\ Reloaded.etag \in 0 .. Len(log)
          /\ Reloaded.etag # 0 => Reloaded.value = Val(log, Reloaded.etag)
      BY <2>1 DEF Good
    <3> QED
      BY <1>0, <2>2, <3>1, PostSent
  <2>3. Sent(log, job')
    BY <1>0, <1>4, <2>2 DEF ReloadDone
  <2> QED
    BY <2>1, <2>3, <1>0, <1>4, ClientStep DEF ReloadDone
<1>5. CASE Succeeded
  <2>1. Good(log, Mirrored(job.answer.n, job.answer.n))
    BY <1>0, MirrorGood
  <2>2. Good(log, entry') /\ Sent(log, job')
    BY <1>0, <1>5, <2>1 DEF Succeeded
  <2> QED
    BY <2>2, <1>0, <1>5, ClientStep DEF Succeeded
<1>6. CASE Refused
  <2>1. ASSUME Retry PROVE Sent(log, job')
    <3>1. job' = [op |-> job.op, slot |-> job.slot, pc |-> job.pc, prior |-> job.prior,
                  marks |-> job.marks, data |-> job.data,
                  basis |-> IF job.op = "update" THEN Value(job.answer.n) ELSE 0,
                  ifm |-> job.answer.n, tries |-> job.tries - 1, conflict |-> TRUE,
                  answer |-> Nothing]
      BY <2>1, <1>0 DEF Retry, Sent
    <3>2. job'.basis \in 0 .. Len(log)
      BY <3>1, <1>0 DEF Value
    <3>3. Based(log, job')
      BY <3>1, <1>0 DEF Based, Sent, Value, Val
    <3> QED
      BY <1>0, <3>1, <3>2, <3>3 DEF Sent, Nothing
  <2>2. Sent(log, job')
    BY <1>0, <1>6, <2>1 DEF Refused
  <2> QED
    BY <2>2, <1>0, <1>6, ClientStep DEF Refused
<1>7. CASE WriteFails
  BY <1>0, <1>7, ClientStep DEF WriteFails
<1> QED
  BY <1>1, <1>2, <1>3, <1>4, <1>5, <1>6, <1>7, ServePostStep DEF Request

LEMMA StutterStep == ASSUME KvInv, UNCHANGED vars PROVE KvInv'
BY DEF KvInv, vars, netVars, laneVars, mirrorVars

LEMMA KvInvAlways == Spec => []KvInv
<1>1. Init => KvInv
  BY InitInv
<1>2. KvInv /\ [Next]_vars => KvInv'
  BY OthersWriteStep, ApplicationStep, ConnectionStep, QueueStep, RequestStep,
     StutterStep DEF Next
<1> QED
  BY <1>1, <1>2, PTL DEF Spec

-----------------------------------------------------------------------------
\* kv/update never overwrites a value it has not seen: whatever is released, redefined,
\* refused, retried, aborted or lost, and whoever else writes, each of its writes was
\* made from the value it replaced.
THEOREM UpdatesKept == Spec => []NoLostUpdate
<1>1. KvInv => NoLostUpdate
  <2> SUFFICES ASSUME KvInv, NEW n \in DOMAIN log, log[n].own, log[n].data # "clear"
               PROVE  log[n].basis = Value(n - 1)
    BY DEF NoLostUpdate
  <2>1. n \in 1 .. Len(log)
    BY DEF KvInv, Kept
  <2> QED
    BY <2>1 DEF KvInv, Kept, Val, Value
<1> QED
  BY <1>1, KvInvAlways, PTL

\* Value and etag of the mirror are those of the same write.
THEOREM PairedAlways == Spec => []Paired
<1>1. KvInv => Paired
  BY DEF KvInv, Good, Paired, Val, Value
<1> QED
  BY <1>1, KvInvAlways, PTL

-----------------------------------------------------------------------------
(***************************************************************************)
(* Nothing is missed.  What a client does not know yet of the writes of    *)
(* others is on its way: in the queue of the contract (Covered), in the    *)
(* answer of a load (Fetched), or in a frame or in a reload that the       *)
(* connection owes it (Due).                                               *)
(***************************************************************************)
IsSeq(s) == \E S : s \in Seq(S)

\* Behind the i-th of what waits there is a load, or the frame of the n-th write.
Loading(s, i) == \E j \in i + 1 .. Len(s) : s[j].op = "load"
Framed(s, i, n) == \E j \in i + 1 .. Len(s) : s[j].op = "frame" /\ s[j].n = n
Covered(s, i, n) == Loading(s, i) \/ Framed(s, i, n)

LEMMA Appended ==
  ASSUME NEW s, NEW t, IsSeq(s)
  PROVE  /\ IsSeq(Append(s, t))
         /\ Len(s) \in Nat /\ Len(Append(s, t)) = Len(s) + 1
         /\ Append(s, t)[Len(s) + 1] = t
         /\ \A n \in 1 .. Len(s) : Append(s, t)[n] = s[n]
<1>1. PICK S : s \in Seq(S)
  BY DEF IsSeq
<1>2. s \in Seq(S \union {t}) /\ t \in S \union {t}
  BY <1>1, SeqMonotonic
<1>3. /\ Append(s, t) \in Seq(S \union {t}) /\ Len(s) \in Nat
      /\ Len(Append(s, t)) = Len(s) + 1 /\ Append(s, t)[Len(s) + 1] = t
      /\ \A n \in 1 .. Len(s) : Append(s, t)[n] = s[n]
  BY <1>2, AppendProperties
<1> QED
  BY <1>3 DEF IsSeq

LEMMA Shortened ==
  ASSUME NEW s, IsSeq(s), s # <<>>
  PROVE  /\ IsSeq(Tail(s)) /\ Head(s) = s[1]
         /\ Len(s) \in Nat /\ Len(s) >= 1 /\ Len(Tail(s)) = Len(s) - 1
         /\ \A i \in 1 .. Len(Tail(s)) : Tail(s)[i] = s[i + 1]
<1>1. PICK S : s \in Seq(S)
  BY DEF IsSeq
<1>2. /\ Head(s) = s[1] /\ Tail(s) \in Seq(S) /\ Len(s) \in Nat /\ Len(s) >= 1
      /\ Len(Tail(s)) = Len(s) - 1 /\ \A i \in 1 .. Len(Tail(s)) : Tail(s)[i] = s[i + 1]
  BY <1>1, EmptySeq, HeadTailProperties
<1> QED
  BY <1>2 DEF IsSeq

LEMMA NoneWaits ==
  /\ IsSeq(<<>>) /\ Len(<<>>) = 0
  /\ \A n : ~Loading(<<>>, 0) /\ ~Framed(<<>>, 0, n)
<1>1. <<>> \in Seq({}) /\ Len(<<>>) = 0
  OBVIOUS
<1> QED
  BY <1>1 DEF IsSeq, Loading, Framed

\* What is queued last covers what is before it, and takes nothing from it.
LEMMA CoverAppend ==
  ASSUME NEW s, NEW t, IsSeq(s), NEW i \in Nat
  PROVE  /\ Loading(s, i) => Loading(Append(s, t), i)
         /\ \A n : Framed(s, i, n) => Framed(Append(s, t), i, n)
         /\ i <= Len(s) /\ t.op = "load" => Loading(Append(s, t), i)
         /\ i <= Len(s) /\ t.op = "frame" => Framed(Append(s, t), i, t.n)
<1> DEFINE r == Append(s, t)
<1>1. /\ Len(s) \in Nat /\ Len(r) = Len(s) + 1 /\ r[Len(s) + 1] = t
      /\ \A n \in 1 .. Len(s) : r[n] = s[n]
  BY Appended
<1> HIDE DEF r
<1>2. Loading(s, i) => Loading(r, i)
  BY <1>1 DEF Loading
<1>3. \A n : Framed(s, i, n) => Framed(r, i, n)
  BY <1>1 DEF Framed
<1>4. i <= Len(s) /\ t.op = "load" => Loading(r, i)
  BY <1>1 DEF Loading
<1>5. i <= Len(s) /\ t.op = "frame" => Framed(r, i, t.n)
  BY <1>1 DEF Framed
<1> QED
  BY <1>2, <1>3, <1>4, <1>5 DEF r

\* What is taken from the head covers nothing but what it is itself.
LEMMA CoverTail ==
  ASSUME NEW s, IsSeq(s), s # <<>>
  PROVE  /\ \A i \in Nat : Loading(s, i + 1) => Loading(Tail(s), i)
         /\ \A i \in Nat : \A n : Framed(s, i + 1, n) => Framed(Tail(s), i, n)
         /\ Loading(s, 0) /\ Head(s).op # "load" => Loading(Tail(s), 0)
         /\ \A n : Framed(s, 0, n) /\ ~(Head(s).op = "frame" /\ Head(s).n = n)
                     => Framed(Tail(s), 0, n)
<1> DEFINE r == Tail(s)
           h == Head(s)
<1>1. /\ h = s[1] /\ Len(s) \in Nat /\ Len(s) >= 1 /\ Len(r) = Len(s) - 1
      /\ \A i \in 1 .. Len(r) : r[i] = s[i + 1]
  BY Shortened
<1> HIDE DEF r, h
<1>2. ASSUME NEW j \in 2 .. Len(s) PROVE j - 1 \in 1 .. Len(r) /\ r[j - 1] = s[j]
  <2>1. j - 1 \in 1 .. Len(r) /\ (j - 1) + 1 = j
    BY <1>1
  <2> QED
    BY <1>1, <2>1
<1>3. ASSUME NEW i \in Nat, Loading(s, i + 1) PROVE Loading(r, i)
  <2>1. PICK j \in i + 2 .. Len(s) : s[j].op = "load"
    BY <1>3 DEF Loading
  <2>2. j \in 2 .. Len(s) /\ j - 1 \in i + 1 .. Len(r)
    BY <1>1, <2>1
  <2> QED
    BY <1>2, <2>1, <2>2 DEF Loading
<1>4. ASSUME NEW i \in Nat, NEW n, Framed(s, i + 1, n) PROVE Framed(r, i, n)
  <2>1. PICK j \in i + 2 .. Len(s) : s[j].op = "frame" /\ s[j].n = n
    BY <1>4 DEF Framed
  <2>2. j \in 2 .. Len(s) /\ j - 1 \in i + 1 .. Len(r)
    BY <1>1, <2>1
  <2> QED
    BY <1>2, <2>1, <2>2 DEF Framed
<1>5. ASSUME Loading(s, 0), h.op # "load" PROVE Loading(s, 0 + 1)
  BY <1>1, <1>5 DEF Loading
<1>6. ASSUME NEW n, Framed(s, 0, n), ~(h.op = "frame" /\ h.n = n) PROVE Framed(s, 0 + 1, n)
  BY <1>1, <1>6 DEF Framed
<1>7. Loading(s, 0) /\ h.op # "load" => Loading(r, 0)
  BY <1>3, <1>5
<1>8. \A n : Framed(s, 0, n) /\ ~(h.op = "frame" /\ h.n = n) => Framed(r, 0, n)
  BY <1>4, <1>6
<1> QED
  BY <1>3, <1>4, <1>7, <1>8 DEF r, h

-----------------------------------------------------------------------------
(***************************************************************************)
(* The mirror and the request, by kind.                                    *)
(***************************************************************************)
\* A frame's request is never left without an answer, a slot in error is not
\* redefined, and others write only while their frames reach the client.
Calm == {"gap", "refetch", "recover"} \cap Disturbances = {}

EntryOK ==
  /\ entry.status \in Statuses /\ (active => entry.status # "none")
  /\ entry.value = Val(log, entry.value)

Asked(j) ==
  /\ j.pc \in {"idle", "get", "post"}
  /\ j.op \in {"load", "frame"} => j.pc = "get"
  /\ j.pc = "get" => j.op \in {"load", "frame", "update"}
  /\ j.pc = "get" => j.answer.t \in {"wait", "got", "fail"}
  /\ j.pc = "post" => j.op \in {"update", "clear"}
  /\ j.pc = "post" => j.answer.t \in {"wait", "ok", "conflict", "fail"}
  /\ j.pc = "idle" => j.answer.t = "wait"
  /\ j.op = "frame" => j.answer.t # "fail"
  /\ j.answer.t = "wait" => j.answer = Nothing

JobOK ==
  /\ job.prior \in Statuses /\ (job.pc = "get" => job.prior # "none")
  /\ Asked(job)

StatusInv == slot \in Nat /\ (link => ~isNew) /\ EntryOK /\ JobOK

LEMMA GetFields ==
  ASSUME Good(log, entry), NEW op, NEW s, NEW marks, Get(op, s, marks)
  PROVE  /\ job'.op = op /\ job'.slot = s /\ job'.pc = "get" /\ job'.prior = entry.status
         /\ job'.answer = Nothing /\ entry'.value = entry.value
         /\ op = "update" => entry' = entry
         /\ op = "load" => entry'.status = "loading"
         /\ op = "frame" => entry'.status = "loading" \/ entry.status = "loaded"
         /\ entry'.status \in {"loading", entry.status}
<1>1. /\ job'.op = op /\ job'.slot = s /\ job'.pc = "get" /\ job'.prior = entry.status
      /\ job'.answer = Nothing
  BY DEF Get, Idle
<1>2. Marked("loading").value = entry.value /\ Marked("loading").status = "loading"
  BY DEF Good, Marked
<1>3. entry' = IF op = "update" \/ (op = "frame" /\ entry.status = "loaded")
               THEN entry ELSE Marked("loading")
  BY DEF Get
<1> QED
  BY <1>1, <1>2, <1>3

LEMMA PostFields ==
  ASSUME NEW op, NEW s, NEW d, NEW b, NEW e, Post(op, s, d, b, e)
  PROVE  /\ job'.op = op /\ job'.slot = s /\ job'.pc = "post" /\ job'.prior = "none"
         /\ job'.answer = Nothing
BY DEF Post, Idle

LEMMA AnswerFields ==
  ASSUME Sent(log, job), NEW t, NEW n, Answer(t, n)
  PROVE  /\ job'.op = job.op /\ job'.slot = job.slot /\ job'.pc = job.pc
         /\ job'.prior = job.prior /\ job'.answer = [t |-> t, n |-> n]
         /\ job'.conflict = job.conflict
BY DEF Sent, Answer

LEMMA IdleFields ==
  /\ Idle.op = "none" /\ Idle.pc = "idle" /\ Idle.prior = "none" /\ Idle.answer = Nothing
  /\ Nothing.t = "wait" /\ Nothing.n = 0
BY DEF Idle, Nothing

LEMMA IdleAsked == "none" \in Statuses /\ Asked(Idle)
BY IdleFields DEF Asked, Statuses

LEMMA MirrorFields ==
  ASSUME Kept(log), Good(log, entry), EntryOK
  PROVE  /\ \A s : Marked(s).value = entry.value /\ Marked(s).status = s
         /\ \A n \in 0 .. Len(log) : \A e :
              /\ Mirrored(n, e).value = Val(log, n)
              /\ Mirrored(n, e).value = Val(log, Mirrored(n, e).value)
              /\ Mirrored(n, e).status \in {"non-init", "loaded"}
         /\ \A s : /\ Revalidated(s).value = entry.value
                   /\ entry.value = 0 => Revalidated(s) = entry
                   /\ entry.value # 0 => Revalidated(s).status \in {"loaded", "error"}
         /\ Restored.value = entry.value
         /\ entry.status = "loading" => Restored.status = job.prior
         /\ entry.status # "loading" => Restored = entry
<1>1. \A s : Marked(s).value = entry.value /\ Marked(s).status = s
  BY DEF Good, Marked
<1>2. Len(log) \in Nat
  BY DEF Kept
<1>3. ASSUME NEW n \in 0 .. Len(log), NEW e
      PROVE  /\ Mirrored(n, e).value = Val(log, n)
             /\ Mirrored(n, e).value = Val(log, Mirrored(n, e).value)
             /\ Mirrored(n, e).status \in {"non-init", "loaded"}
  BY <1>2 DEF Mirrored, Entry, Value, Val
<1>4. \A s : /\ Revalidated(s).value = entry.value
             /\ entry.value = 0 => Revalidated(s) = entry
             /\ entry.value # 0 => Revalidated(s).status \in {"loaded", "error"}
  BY <1>1 DEF Revalidated
<1>5. /\ Restored.value = entry.value
      /\ entry.status = "loading" => Restored.status = job.prior
      /\ entry.status # "loading" => Restored = entry
  BY <1>1 DEF Restored
<1> QED
  BY <1>1, <1>3, <1>4, <1>5

LEMMA LoadFields ==
  ASSUME KvInv, EntryOK
  PROVE  /\ GotLoad.value = Val(log, GotLoad.value)
         /\ Stale => GotLoad = Restored
         /\ ~Stale /\ job.answer.t = "got" /\ Accepted(slot, job.answer.n) =>
              /\ GotLoad.value = Val(log, job.answer.n)
              /\ GotLoad.status \in {"non-init", "loaded"}
         /\ ~Stale /\ ~(job.answer.t = "got" /\ Accepted(slot, job.answer.n)) =>
              GotLoad = IF job.op = "frame" THEN Restored ELSE Marked("error")
<1>1. Kept(log) /\ Good(log, entry) /\ job.answer.n \in 0 .. Len(log)
  BY DEF KvInv, Sent
<1>2. /\ Stale => GotLoad = Restored
      /\ ~Stale /\ job.answer.t = "got" /\ Accepted(slot, job.answer.n) =>
           GotLoad = Mirrored(job.answer.n, job.answer.n)
      /\ ~Stale /\ ~(job.answer.t = "got" /\ Accepted(slot, job.answer.n)) =>
           GotLoad = IF job.op = "frame" THEN Restored ELSE Marked("error")
  BY DEF GotLoad
<1>3. /\ Mirrored(job.answer.n, job.answer.n).value = Val(log, job.answer.n)
      /\ Mirrored(job.answer.n, job.answer.n).value
           = Val(log, Mirrored(job.answer.n, job.answer.n).value)
      /\ Mirrored(job.answer.n, job.answer.n).status \in {"non-init", "loaded"}
      /\ Restored.value = entry.value /\ Marked("error").value = entry.value
  BY <1>1, MirrorFields
<1>4. entry.value = Val(log, entry.value)
  BY DEF EntryOK
<1> QED
  BY <1>2, <1>3, <1>4

\* Who writes changes nothing of the client.
LEMMA StatusCommit ==
  ASSUME KvInv, StatusInv, NEW w, log' = Append(log, w), UNCHANGED mirrorVars,
         UNCHANGED <<link, isNew>>, JobOK'
  PROVE  StatusInv'
<1>1. \A n \in 0 .. Len(log) : Val(log', n) = Val(log, n)
  BY Grown DEF KvInv
<1>2. entry.value \in 0 .. Len(log) /\ UNCHANGED <<entry, active, slot>>
  BY DEF KvInv, Good, mirrorVars
<1>3. EntryOK'
  BY <1>1, <1>2 DEF StatusInv, EntryOK
<1> QED
  BY <1>2, <1>3 DEF StatusInv

LEMMA AnswerOK ==
  ASSUME KvInv, StatusInv, NEW t, NEW n, Answer(t, n), job.pc # "idle", t # "wait",
         job.pc = "get" => t \in {"got", "fail"},
         job.pc = "post" => t \in {"ok", "conflict", "fail"},
         job.op = "frame" => t # "fail"
  PROVE  JobOK'
<1>1. /\ job'.op = job.op /\ job'.pc = job.pc /\ job'.prior = job.prior
      /\ job'.answer = [t |-> t, n |-> n]
  BY AnswerFields DEF KvInv
<1>2. Asked(job)
  BY DEF StatusInv, JobOK
<1>3. Asked(job')
  BY <1>1, <1>2 DEF Asked
<1> QED
  BY <1>1, <1>3 DEF StatusInv, JobOK

LEMMA PostOK ==
  ASSUME NEW op \in {"update", "clear"}, NEW s, NEW d, NEW b, NEW e, Post(op, s, d, b, e)
  PROVE  JobOK'
<1>1. job'.op = op /\ job'.pc = "post" /\ job'.prior = "none" /\ job'.answer = Nothing
  BY PostFields
<1>2. Asked(job')
  BY <1>1 DEF Asked, Nothing
<1> QED
  BY <1>1, <1>2 DEF JobOK, Statuses

LEMMA GetOK ==
  ASSUME KvInv, StatusInv, active, UNCHANGED <<log, active>>,
         NEW op \in {"load", "frame", "update"}, NEW s, NEW marks, Get(op, s, marks)
  PROVE  JobOK' /\ EntryOK'
<1>1. /\ job'.op = op /\ job'.pc = "get" /\ job'.prior = entry.status
      /\ job'.answer = Nothing /\ entry'.value = entry.value
      /\ entry'.status \in {"loading", entry.status}
  BY GetFields DEF KvInv
<1>2. Asked(job')
  BY <1>1 DEF Asked, Nothing
<1> QED
  BY <1>1, <1>2 DEF JobOK, EntryOK, StatusInv, Statuses

LEMMA StatusOthers == ASSUME KvInv, StatusInv, OthersWrite PROVE StatusInv'
<1>1. PICK w : log' = Append(log, w)
  BY DEF OthersWrite, Commit
<1>2. UNCHANGED <<link, isNew, mirrorVars, job>>
  BY DEF OthersWrite, laneVars
<1> QED
  BY <1>1, <1>2, StatusCommit DEF StatusInv, JobOK

LEMMA StatusApplication == ASSUME KvInv, StatusInv, Application PROVE StatusInv'
<1> USE DEF netVars, mirrorVars, laneVars, boundVars
<1>0. /\ Kept(log) /\ Good(log, entry) /\ EntryOK /\ JobOK /\ slot \in Nat
      /\ (link => ~isNew)
  BY DEF KvInv, StatusInv
<1>1. \A s : Revalidated(s).value = entry.value /\ Revalidated(s).status \in Statuses
  BY <1>0, MirrorFields DEF EntryOK, Statuses
<1>2. CASE Reconcile
  <2>1. /\ entry'.value = Val(log, entry'.value) /\ entry'.status \in Statuses
        /\ entry'.status # "none"
    BY <1>0, <1>2 DEF Reconcile, Entry, EntryOK, Statuses, Val
  <2> QED
    BY <2>1, <1>0, <1>2 DEF Reconcile, StatusInv, EntryOK, JobOK
<1>3. CASE CleanupContractRuntime
  <2>1. entry'.value = Val(log, entry'.value) /\ entry'.status \in Statuses
    BY <1>3 DEF CleanupContractRuntime, NoEntry, Entry, Statuses, Val
  <2> QED
    BY <2>1, <1>0, <1>3 DEF CleanupContractRuntime, StatusInv, EntryOK, JobOK
<1>4. CASE DefineSlot
  <2>1. slot' \in Nat /\ UNCHANGED <<log, link, isNew, active, job>>
    BY <1>0, <1>4 DEF DefineSlot
  <2>2. entry' = entry \/ entry' = Revalidated(slot + 1)
    BY <1>4 DEF DefineSlot
  <2>3. active => Revalidated(slot + 1).status # "none"
    BY <1>0, MirrorFields DEF EntryOK
  <2> QED
    BY <2>1, <2>2, <2>3, <1>0, <1>1 DEF StatusInv, EntryOK, JobOK
<1>5. CASE Restart
  <2>1. JobOK'
    BY <1>5, IdleFields, IdleAsked DEF Restart, JobOK
  <2>2. /\ UNCHANGED <<log, slot>> /\ ~link' /\ ~active' /\ entry' = Revalidated(slot)
    BY <1>5 DEF Restart
  <2> QED
    BY <2>1, <2>2, <1>0, <1>1 DEF StatusInv, EntryOK
<1>6. ASSUME NEW op, Call(op) PROVE StatusInv'
  BY <1>0, <1>6 DEF Call, StatusInv, EntryOK, JobOK
<1> QED
  BY <1>2, <1>3, <1>4, <1>5, <1>6 DEF Application

LEMMA StatusConnection == ASSUME KvInv, StatusInv, Connection PROVE StatusInv'
<1>1. UNCHANGED <<log, active, slot, entry, job>> /\ (link' => ~isNew')
  BY DEF Connection, Open, SubHandled, OnContractResynced, Disconnect, Receive,
         EchoExpires, netVars, mirrorVars, laneVars, StatusInv
<1> QED
  BY <1>1 DEF StatusInv, EntryOK, JobOK

LEMMA StatusQueue == ASSUME KvInv, StatusInv, Queue PROVE StatusInv'
<1> USE DEF netVars, mirrorVars
<1>1. UNCHANGED <<log, link, isNew, active, slot>>
  BY DEF Queue, StartLoad, StartUpdate, StartClear, StartFrame
<1>2. EntryOK' /\ JobOK'
  <2>0. EntryOK /\ JobOK
    BY DEF StatusInv
  <2>1. CASE UNCHANGED <<entry, job>>
    BY <1>1, <2>0, <2>1 DEF EntryOK, JobOK
  <2>2. ASSUME active, NEW op \in {"load", "frame", "update"}, NEW s, NEW m, Get(op, s, m)
        PROVE  EntryOK' /\ JobOK'
    BY <1>1, <2>2, GetOK
  <2>3. ASSUME NEW op \in {"update", "clear"}, NEW s, NEW d, NEW b, NEW e,
               Post(op, s, d, b, e), UNCHANGED entry
        PROVE  EntryOK' /\ JobOK'
    BY <1>1, <2>0, <2>3, PostOK DEF EntryOK
  <2>4. CASE StartLoad
    BY <2>1, <2>2, <2>4 DEF StartLoad
  <2>5. CASE StartUpdate
    BY <2>1, <2>2, <2>3, <2>5 DEF StartUpdate
  <2>6. CASE StartClear
    BY <2>1, <2>3, <2>6 DEF StartClear
  <2>7. CASE StartFrame
    <3> DEFINE f == Head(lane)
    <3>1. f.n \in 0 .. Len(log)
      BY <2>7, FramesTail DEF StartFrame, Turn, KvInv
    <3>2. ASSUME ApplyFrame(f) PROVE EntryOK' /\ JobOK'
      <4>1. Kept(log) /\ Good(log, entry)
        BY DEF KvInv
      <4>2. /\ entry'.value = Val(log, entry'.value)
            /\ entry'.status \in {"non-init", "loaded", "error"}
        BY <3>1, <3>2, <2>0, <4>1, MirrorFields DEF ApplyFrame, EntryOK
      <4> QED
        BY <1>1, <2>0, <3>2, <4>2 DEF ApplyFrame, EntryOK, JobOK, Statuses
    <3>3. CASE ~active
      BY <2>1, <2>7, <3>3 DEF StartFrame
    <3>4. CASE active
      <4>1. Suppress(f) \/ Ask(f) \/ ApplyFrame(f)
        BY <2>7, <3>4 DEF StartFrame
      <4>2. ASSUME Suppress(f) PROVE UNCHANGED <<entry, job>>
        BY <4>2 DEF Suppress
      <4>3. ASSUME Ask(f) PROVE Get("frame", slot, Conflicts)
        BY <4>3 DEF Ask
      <4> HIDE DEF f
      <4> QED
        BY <2>1, <2>2, <3>2, <3>4, <4>1, <4>2, <4>3
    <3> QED
      BY <3>3, <3>4
  <2> QED
    BY <2>4, <2>5, <2>6, <2>7 DEF Queue
<1> QED
  BY <1>1, <1>2 DEF StatusInv

\* What becomes of the mirror when the request of a load or a frame is done.
LEMMA LoadStatus ==
  ASSUME KvInv, StatusInv, job.pc = "get"
  PROVE  GotLoad.status \in Statuses /\ (active => GotLoad.status # "none")
<1>1. Kept(log) /\ Good(log, entry) /\ EntryOK /\ JobOK
  BY DEF KvInv, StatusInv
<1>2. Restored.status \in Statuses /\ (active => Restored.status # "none")
  BY <1>1, MirrorFields DEF EntryOK, JobOK
<1>3. Marked("error").status = "error"
  BY <1>1, MirrorFields
<1> QED
  BY <1>1, <1>2, <1>3, LoadFields DEF Statuses

LEMMA StatusRequest == ASSUME KvInv, StatusInv, Calm, Request PROVE StatusInv'
<1> USE DEF netVars, mirrorVars, laneVars, boundVars
<1>0. /\ Kept(log) /\ Good(log, entry) /\ EntryOK /\ JobOK /\ Asked(job) /\ slot \in Nat
      /\ (link => ~isNew) /\ job.answer.n \in 0 .. Len(log)
  BY DEF KvInv, StatusInv, JobOK, Sent
<1>1. ASSUME JobOK', EntryOK', UNCHANGED <<slot, link, isNew>> PROVE StatusInv'
  BY <1>0, <1>1 DEF StatusInv
<1>2. ASSUME UNCHANGED <<log, active, entry>> PROVE EntryOK'
  BY <1>0, <1>2 DEF EntryOK
<1>3. ASSUME job' = Idle PROVE JobOK'
  BY <1>3, IdleFields, IdleAsked DEF JobOK
<1>4. CASE ServeGet
  <2>1. JobOK'
    BY <1>0, <1>4, AnswerOK DEF ServeGet, Asked
  <2> QED
    BY <2>1, <1>1, <1>2, <1>4 DEF ServeGet
<1>5. CASE ServePost
  <2>1. JobOK'
    <3>1. job.pc = "post" /\ job.op # "frame"
      BY <1>0, <1>5 DEF ServePost, Asked
    <3>2. ASSUME NEW t \in {"ok", "conflict"}, NEW n, Answer(t, n) PROVE JobOK'
      BY <3>1, <3>2, AnswerOK
    <3> QED
      BY <1>5, <3>2 DEF ServePost
  <2>2. CASE UNCHANGED log
    BY <2>1, <2>2, <1>1, <1>2, <1>5 DEF ServePost
  <2>3. ASSUME NEW w, log' = Append(log, w) PROVE StatusInv'
    BY <2>1, <2>3, <1>5, StatusCommit DEF ServePost
  <2> QED
    BY <2>2, <2>3, <1>5 DEF ServePost, Commit
<1>6. CASE RequestFails
  <2>1. job.op # "frame"
    BY <1>6 DEF RequestFails, Calm
  <2>2. JobOK'
    BY <1>0, <1>6, <2>1, AnswerOK DEF RequestFails
  <2> QED
    BY <2>2, <1>1, <1>2, <1>6 DEF RequestFails
<1>7. CASE LoadDone
  <2>1. job.pc = "get" /\ entry' = GotLoad /\ job' = Idle /\ UNCHANGED <<log, active, slot, link, isNew>>
    BY <1>0, <1>7 DEF LoadDone, Asked
  <2>2. EntryOK'
    BY <2>1, <1>0, LoadFields, LoadStatus DEF EntryOK
  <2> QED
    BY <2>1, <2>2, <1>1, <1>3
<1>8. CASE ReloadDone
  <2>1. /\ job.pc = "get" /\ entry' = Reloaded
        /\ UNCHANGED <<log, active, slot, link, isNew>>
    BY <1>8 DEF ReloadDone
  <2>2. EntryOK'
    <3>1. GotLoad = [value |-> GotLoad.value, etag |-> GotLoad.etag, status |-> GotLoad.status]
      BY LoadGood DEF KvInv, Good
    <3>2. /\ [GotLoad EXCEPT !.status = entry.status].value = GotLoad.value
          /\ [GotLoad EXCEPT !.status = entry.status].status = entry.status
      BY <3>1
    <3>3. Reloaded.value = Val(log, Reloaded.value) /\ Reloaded.status = entry.status
      BY <3>2, <1>0, LoadFields DEF Reloaded, EntryOK
    <3> QED
      BY <2>1, <3>3, <1>0 DEF EntryOK
  <2>3. JobOK'
    BY <1>3, <1>8, PostOK DEF ReloadDone
  <2> QED
    BY <2>1, <2>2, <2>3, <1>1
<1>9. CASE Succeeded
  <2>1. job' = Idle /\ UNCHANGED <<log, active, slot, link, isNew>>
    BY <1>9 DEF Succeeded
  <2>2. entry' = entry \/ entry' = Mirrored(job.answer.n, job.answer.n)
    BY <1>9 DEF Succeeded
  <2>3. EntryOK'
    BY <2>1, <2>2, <1>0, MirrorFields DEF EntryOK, Statuses
  <2> QED
    BY <2>1, <2>3, <1>1, <1>3
<1>10. CASE Refused
  <2>1. ASSUME Retry PROVE JobOK'
    <3>1. job.pc = "post"
      BY <1>0, <1>10 DEF Refused, Asked
    <3>2. /\ job'.op = job.op /\ job'.pc = job.pc /\ job'.prior = job.prior
          /\ job'.answer = Nothing
      BY <2>1 DEF Retry, KvInv, Sent
    <3>3. Asked(job')
      BY <1>0, <3>1, <3>2, IdleFields DEF Asked
    <3> QED
      BY <1>0, <3>1, <3>2, <3>3 DEF JobOK
  <2>2. JobOK'
    BY <2>1, <1>3, <1>10 DEF Refused
  <2> QED
    BY <2>2, <1>1, <1>2, <1>10 DEF Refused
<1>11. CASE WriteFails
  BY <1>1, <1>2, <1>3, <1>11 DEF WriteFails
<1> QED
  BY <1>4, <1>5, <1>6, <1>7, <1>8, <1>9, <1>10, <1>11 DEF Request

LEMMA StatusStep == ASSUME KvInv, StatusInv, Calm, [Next]_vars PROVE StatusInv'
<1>1. CASE UNCHANGED vars
  BY <1>1 DEF StatusInv, EntryOK, JobOK, vars, netVars, laneVars, mirrorVars
<1> QED
  BY <1>1, StatusOthers, StatusApplication, StatusConnection, StatusQueue, StatusRequest
     DEF Next

LEMMA StatusInit == ASSUME Init PROVE StatusInv
<1>1. EntryOK
  BY DEF Init, EntryOK, NoEntry, Entry, Statuses, Val
<1>2. JobOK
  BY IdleFields, IdleAsked DEF Init, JobOK
<1> QED
  BY <1>1, <1>2 DEF Init, StatusInv

-----------------------------------------------------------------------------
(***************************************************************************)
(* The loads that a slot of a followed contract can count on.              *)
(***************************************************************************)
\* A slot does not show 'loading' unless it is being loaded or will be.
Reloads ==
  entry.status = "loading" => Loading(lane, 0) \/ (job.pc = "get" /\ job.op # "update")

\* An answer that will be dropped is one that a load is going to make up for.
Outdated == job.pc = "get" /\ slot # job.slot => Loading(lane, 0)
PriorOK == job.pc = "get" /\ job.op = "frame" /\ job.prior = "loading" => Loading(lane, 0)
UpdateOK == job.pc = "get" /\ job.op = "update" => entry.status = "error" \/ Loading(lane, 0)

\* The last load that waits is for the slot as it is.
LoadsLast ==
  \A i \in 1 .. Len(lane) : lane[i].op = "load" /\ lane[i].slot # slot => Loading(lane, i)

Promised == Reloads /\ Outdated /\ PriorOK /\ UpdateOK /\ LoadsLast
WireFrames == \A i \in 1 .. Len(wire) : wire[i].op = "frame"
PendInv == WireFrames /\ (active => Promised)

LEMMA LaneIsSeq == ASSUME KvInv PROVE IsSeq(lane) /\ IsSeq(wire)
BY DEF KvInv, Frames, IsSeq

LEMMA LoadQueued ==
  ASSUME KvInv, NEW t, lane' = Append(lane, t), t.op = "load", t.slot = slot'
  PROVE  Promised' /\ Loading(lane', 0) /\ \A i \in 1 .. Len(lane) : Loading(lane', i)
<1>1. /\ Len(lane) \in Nat /\ Len(lane') = Len(lane) + 1 /\ lane'[Len(lane) + 1] = t
  BY Appended, LaneIsSeq
<1>2. Loading(lane', 0) /\ \A i \in 1 .. Len(lane) : Loading(lane', i)
  BY <1>1, CoverAppend, LaneIsSeq
<1>3. LoadsLast'
  BY <1>1, <1>2 DEF LoadsLast
<1> QED
  BY <1>2, <1>3 DEF Promised, Reloads, Outdated, PriorOK, UpdateOK

LEMMA OtherQueued ==
  ASSUME KvInv, Promised, UNCHANGED <<entry, job, slot>>, NEW t,
         lane' = Append(lane, t), t.op # "load"
  PROVE  Promised'
<1>1. /\ Len(lane) \in Nat /\ Len(lane') = Len(lane) + 1 /\ lane'[Len(lane) + 1] = t
      /\ \A i \in 1 .. Len(lane) : lane'[i] = lane[i]
  BY Appended, LaneIsSeq
<1>2. \A i \in Nat : Loading(lane, i) => Loading(lane', i)
  BY CoverAppend, LaneIsSeq
<1>3. LoadsLast'
  <2> SUFFICES ASSUME NEW i \in 1 .. Len(lane'), lane'[i].op = "load", lane'[i].slot # slot
               PROVE  Loading(lane', i)
    BY DEF LoadsLast
  <2>1. i \in 1 .. Len(lane) /\ lane'[i] = lane[i]
    BY <1>1
  <2>2. Loading(lane, i)
    BY <2>1 DEF Promised, LoadsLast
  <2> QED
    BY <2>1, <2>2, <1>2
<1> QED
  BY <1>2, <1>3 DEF Promised, Reloads, Outdated, PriorOK, UpdateOK

LEMMA LastTaken ==
  ASSUME KvInv, LoadsLast, UNCHANGED slot, lane # <<>>, lane' = Tail(lane)
  PROVE  /\ LoadsLast'
         /\ Head(lane).op = "load" /\ Head(lane).slot # slot => Loading(lane', 0)
         /\ Head(lane).op # "load" /\ Loading(lane, 0) => Loading(lane', 0)
<1>1. /\ Head(lane) = lane[1] /\ Len(lane) \in Nat /\ Len(lane) >= 1
      /\ Len(lane') = Len(lane) - 1
      /\ \A i \in 1 .. Len(lane') : lane'[i] = lane[i + 1]
  BY Shortened, LaneIsSeq
<1>2. /\ \A i \in Nat : Loading(lane, i + 1) => Loading(lane', i)
      /\ Head(lane).op # "load" /\ Loading(lane, 0) => Loading(lane', 0)
  BY CoverTail, LaneIsSeq
<1>3. ASSUME NEW i \in 1 .. Len(lane'), lane'[i].op = "load", lane'[i].slot # slot
      PROVE  Loading(lane', i)
  <2>1. i + 1 \in 1 .. Len(lane) /\ i \in Nat /\ lane'[i] = lane[i + 1]
    BY <1>1
  <2>2. Loading(lane, i + 1)
    BY <1>3, <2>1 DEF LoadsLast
  <2> QED
    BY <1>2, <2>1, <2>2
<1>4. LoadsLast'
  BY <1>3 DEF LoadsLast
<1>5. ASSUME Head(lane).op = "load", Head(lane).slot # slot PROVE Loading(lane', 0)
  <2>1. Loading(lane, 0 + 1)
    BY <1>1, <1>5 DEF LoadsLast
  <2> QED
    BY <1>2, <2>1
<1> QED
  BY <1>2, <1>4, <1>5

LEMMA PendOthers == ASSUME KvInv, PendInv, OthersWrite PROVE PendInv'
<1>1. UNCHANGED <<lane, slot, entry, active, job>>
  BY DEF OthersWrite, mirrorVars, laneVars
<1>2. PICK n, cid : wire' = wire \/ wire' = Append(wire, Frame(n, cid))
  BY DEF OthersWrite, Commit
<1>3. WireFrames'
  BY <1>2, Appended, LaneIsSeq DEF PendInv, WireFrames, Frame
<1> QED
  BY <1>1, <1>3 DEF PendInv, Promised, Reloads, Outdated, PriorOK, UpdateOK, LoadsLast

LEMMA PendApplication ==
  ASSUME KvInv, StatusInv, PendInv, Application PROVE PendInv'
<1> USE DEF netVars, mirrorVars, laneVars, boundVars
<1>1. WireFrames'
  BY NoneWaits DEF Application, Reconcile, CleanupContractRuntime, DefineSlot, Restart, Call,
     PendInv, WireFrames
<1>2. CASE Reconcile
  BY <1>1, <1>2, LoadQueued DEF Reconcile, Load, PendInv
<1>3. CASE CleanupContractRuntime \/ Restart
  BY <1>1, <1>3 DEF CleanupContractRuntime, Restart, PendInv
<1>4. CASE DefineSlot
  <2>1. CASE lane' = Append(lane, Load(slot + 1))
    BY <1>1, <1>4, <2>1, LoadQueued DEF DefineSlot, Load, PendInv
  <2>2. ASSUME active, entry.value # 0, ~PendingLoad, entry' = Revalidated(slot + 1),
               UNCHANGED <<lane, job>>
        PROVE  Promised'
    <3>1. entry'.status \in {"loaded", "error"}
      BY <2>2, MirrorFields DEF KvInv, StatusInv
    <3>2. job'.pc # "get"
      BY <2>2 DEF PendingLoad
    <3>3. \A i \in 1 .. Len(lane) : lane[i] \in Range(lane)
      <4>1. PICK S : lane \in Seq(S)
        BY LaneIsSeq DEF IsSeq
      <4>2. DOMAIN lane = 1 .. Len(lane)
        BY <4>1
      <4> QED
        BY <4>2 DEF Range
    <3>4. LoadsLast'
      BY <2>2, <3>3 DEF LoadsLast, PendingLoad
    <3> QED
      BY <3>1, <3>2, <3>4 DEF Promised, Reloads, Outdated, PriorOK, UpdateOK
  <2>3. CASE ~active
    BY <1>1, <1>4, <2>3 DEF DefineSlot, PendInv
  <2> QED
    BY <1>1, <1>4, <2>1, <2>2, <2>3 DEF DefineSlot, PendInv
<1>5. ASSUME NEW op, Call(op) PROVE PendInv'
  <2>1. PICK t : lane' = Append(lane, t) /\ t.slot = slot
    BY <1>5 DEF Call
  <2>2. active /\ UNCHANGED <<entry, job, slot, active>>
    BY <1>5 DEF Call
  <2>3. Promised'
    BY <2>1, <2>2, LoadQueued, OtherQueued DEF PendInv
  <2> QED
    BY <1>1, <2>3 DEF PendInv
<1> QED
  BY <1>2, <1>3, <1>4, <1>5 DEF Application

LEMMA PendConnection ==
  ASSUME KvInv, PendInv, Connection PROVE PendInv'
<1> USE DEF netVars, mirrorVars, laneVars, boundVars
<1>1. CASE Open \/ SubHandled \/ EchoExpires
  BY <1>1 DEF Open, SubHandled, EchoExpires, PendInv, WireFrames, Promised, Reloads,
     Outdated, PriorOK, UpdateOK, LoadsLast
<1>2. CASE OnContractResynced
  BY <1>2, LoadQueued DEF OnContractResynced, Load, PendInv, WireFrames
<1>3. CASE Disconnect
  BY <1>3, NoneWaits DEF Disconnect, PendInv, WireFrames, Promised, Reloads,
     Outdated, PriorOK, UpdateOK, LoadsLast
<1>4. CASE Receive
  <2>1. /\ Head(wire) = wire[1] /\ Len(wire) \in Nat /\ Len(wire) >= 1
        /\ Len(wire') = Len(wire) - 1
        /\ \A i \in 1 .. Len(wire') : wire'[i] = wire[i + 1]
    BY <1>4, Shortened, LaneIsSeq DEF Receive
  <2>2. \A i \in 1 .. Len(wire') : i + 1 \in 1 .. Len(wire)
    BY <2>1
  <2>3. WireFrames' /\ Head(wire).op = "frame"
    BY <2>1, <2>2 DEF PendInv, WireFrames
  <2>4. UNCHANGED <<entry, job, slot, active>>
    BY <1>4 DEF Receive
  <2>5. ASSUME active PROVE Promised'
    BY <1>4, <2>3, <2>4, <2>5, OtherQueued DEF Receive, PendInv
  <2> QED
    BY <2>3, <2>4, <2>5 DEF PendInv
<1> QED
  BY <1>1, <1>2, <1>3, <1>4 DEF Connection

LEMMA PendQueue ==
  ASSUME KvInv, StatusInv, PendInv, Queue PROVE PendInv'
<1> USE DEF netVars, mirrorVars
<1>1. UNCHANGED <<wire, active, slot>> /\ job = Idle /\ lane # <<>> /\ lane' = Tail(lane)
  BY DEF Queue, StartLoad, StartUpdate, StartClear, StartFrame, Turn
<1> SUFFICES ASSUME active PROVE Promised'
  BY <1>1 DEF PendInv, WireFrames
<1>2. /\ LoadsLast'
      /\ Head(lane).op = "load" /\ Head(lane).slot # slot => Loading(lane', 0)
      /\ Head(lane).op # "load" /\ Loading(lane, 0) => Loading(lane', 0)
  BY <1>1, LastTaken DEF PendInv, Promised
<1>3. entry.status = "loading" => Loading(lane, 0)
  BY <1>1, IdleFields DEF PendInv, Promised, Reloads
<1>4. Good(log, entry)
  BY DEF KvInv
<1>5. ASSUME Head(lane).op # "load", entry' = entry \/ entry'.status # "loading", job'.pc # "get"
      PROVE  Promised'
  BY <1>2, <1>3, <1>5 DEF Promised, Reloads, Outdated, PriorOK, UpdateOK
<1>6. CASE StartLoad
  <2>1. Get("load", Head(lane).slot, {}) /\ Head(lane).op = "load"
    BY <1>6 DEF StartLoad, Turn
  <2>2. job'.op = "load" /\ job'.slot = Head(lane).slot /\ job'.pc = "get"
    BY <1>4, <2>1, GetFields
  <2> QED
    BY <1>1, <1>2, <2>1, <2>2 DEF Promised, Reloads, Outdated, PriorOK, UpdateOK
<1>7. CASE StartUpdate
  <2>0. Head(lane).op = "update"
    BY <1>7 DEF StartUpdate, Turn
  <2>1. ASSUME entry.status = "error", Get("update", slot, {}) PROVE Promised'
    <3>1. job'.op = "update" /\ job'.slot = slot /\ entry' = entry
      BY <1>4, <2>1, GetFields
    <3> QED
      BY <1>1, <1>2, <2>1, <3>1 DEF Promised, Reloads, Outdated, PriorOK, UpdateOK
  <2>2. ASSUME NEW d, NEW b, NEW e, Post("update", slot, d, b, e), UNCHANGED entry
        PROVE  Promised'
    BY <1>5, <2>0, <2>2, PostFields
  <2>3. ASSUME UNCHANGED <<job, entry>> PROVE Promised'
    BY <1>1, <1>5, <2>0, <2>3, IdleFields
  <2> QED
    BY <1>7, <2>1, <2>2, <2>3 DEF StartUpdate
<1>8. CASE StartClear
  <2>0. Head(lane).op = "clear" /\ UNCHANGED entry
    BY <1>8 DEF StartClear, Turn
  <2>1. job'.pc # "get"
    BY <1>1, <1>8, PostFields, IdleFields DEF StartClear
  <2> QED
    BY <1>5, <2>0, <2>1
<1>9. CASE StartFrame
  <2> DEFINE f == Head(lane)
  <2>0. f.op = "frame" /\ f.n \in 0 .. Len(log)
    BY <1>9, FramesTail DEF StartFrame, Turn, KvInv
  <2>1. Suppress(f) \/ Ask(f) \/ ApplyFrame(f)
    BY <1>9 DEF StartFrame
  <2>2. ASSUME Suppress(f) PROVE UNCHANGED <<entry, job>>
    BY <2>2 DEF Suppress
  <2>3. ASSUME Suppress(f) PROVE Promised'
    BY <1>1, <1>5, <2>0, <2>2, <2>3, IdleFields
  <2>4. ASSUME Ask(f) PROVE Promised'
    <3>1. /\ job'.op = "frame" /\ job'.slot = slot /\ job'.pc = "get"
          /\ job'.prior = entry.status
      BY <1>4, <2>4, GetFields DEF Ask
    <3> QED
      BY <1>1, <1>2, <1>3, <2>0, <3>1 DEF Promised, Reloads, Outdated, PriorOK, UpdateOK
  <2>5. ASSUME ApplyFrame(f) PROVE Promised'
    <3>1. UNCHANGED job
      BY <2>5 DEF ApplyFrame
    <3>2. entry'.status # "loading"
      BY <2>0, <2>5, MirrorFields DEF ApplyFrame, KvInv, StatusInv
    <3> QED
      BY <1>1, <1>5, <2>0, <3>1, <3>2, IdleFields
  <2> QED
    BY <2>1, <2>3, <2>4, <2>5
<1> QED
  BY <1>6, <1>7, <1>8, <1>9 DEF Queue

LEMMA PendRequest ==
  ASSUME KvInv, StatusInv, PendInv, Request PROVE PendInv'
<1> USE DEF netVars, mirrorVars, laneVars, boundVars
<1>0. UNCHANGED <<lane, active, slot>> /\ Asked(job) /\ EntryOK /\ Kept(log) /\ Good(log, entry)
  BY DEF Request, ServeGet, ServePost, RequestFails, LoadDone, ReloadDone, Succeeded, Refused,
     WriteFails, KvInv, StatusInv, JobOK
<1>1. WireFrames'
  <2>1. CASE ServePost
    <3>1. PICK n, cid : wire' = wire \/ wire' = Append(wire, Frame(n, cid))
      BY <2>1 DEF ServePost, Commit
    <3> QED
      BY <3>1, Appended, LaneIsSeq DEF PendInv, WireFrames, Frame
  <2>2. CASE ~ServePost
    BY <2>2 DEF Request, ServeGet, RequestFails, LoadDone, ReloadDone, Succeeded,
       Refused, WriteFails, PendInv, WireFrames
  <2> QED
    BY <2>1, <2>2
<1> SUFFICES ASSUME active PROVE Promised'
  BY <1>0, <1>1 DEF PendInv
<1>2. Promised /\ LoadsLast'
  BY <1>0 DEF PendInv, Promised, LoadsLast
<1>3. ASSUME UNCHANGED entry, NEW t, NEW n, Answer(t, n) PROVE Promised'
  <2>1. job'.op = job.op /\ job'.slot = job.slot /\ job'.pc = job.pc /\ job'.prior = job.prior
    BY <1>3, AnswerFields DEF KvInv
  <2> QED
    BY <1>0, <1>2, <1>3, <2>1 DEF Promised, Reloads, Outdated, PriorOK, UpdateOK
<1>4. ASSUME job'.pc # "get", entry'.status = "loading" => Loading(lane, 0) PROVE Promised'
  BY <1>0, <1>2, <1>4 DEF Promised, Reloads, Outdated, PriorOK, UpdateOK
<1>5. CASE ServeGet \/ ServePost \/ RequestFails
  BY <1>3, <1>5 DEF ServeGet, ServePost, RequestFails
<1>6. CASE LoadDone
  <2>1. job.pc = "get" /\ entry' = GotLoad /\ job' = Idle
    BY <1>0, <1>6 DEF LoadDone, Asked
  <2>2. ASSUME GotLoad.status = "loading" PROVE Loading(lane, 0)
    <3>1. CASE Stale
      BY <2>1, <3>1, <1>2 DEF Stale, Promised, Outdated
    <3>2. CASE ~Stale
      <4>1. job.op = "frame" /\ GotLoad = Restored
        BY <1>0, <2>2, <3>2, LoadFields, MirrorFields
      <4>2. job.prior = "loading"
        BY <1>0, <2>2, <4>1, MirrorFields
      <4> QED
        BY <2>1, <4>1, <4>2, <1>2 DEF Promised, PriorOK
    <3> QED
      BY <3>1, <3>2
  <2> QED
    BY <2>1, <2>2, <1>4, IdleFields
<1>7. CASE ReloadDone
  <2>1. entry'.status = entry.status
    <3>1. GotLoad = [value |-> GotLoad.value, etag |-> GotLoad.etag, status |-> GotLoad.status]
      BY LoadGood DEF KvInv, Good
    <3>2. [GotLoad EXCEPT !.status = entry.status].status = entry.status
      BY <3>1
    <3> QED
      BY <1>7, <3>2 DEF ReloadDone, Reloaded
  <2>2. job'.pc # "get"
    BY <1>7, IdleFields, PostFields DEF ReloadDone
  <2>3. entry.status = "loading" => Loading(lane, 0)
    BY <1>2, <1>7 DEF ReloadDone, Promised, Reloads
  <2> QED
    BY <2>1, <2>2, <2>3, <1>4
<1>8. CASE Succeeded
  <2>1. entry.status = "loading" => Loading(lane, 0)
    BY <1>0, <1>2, <1>8 DEF Succeeded, Promised, Reloads, Asked
  <2>2. entry' = entry \/ entry' = Mirrored(job.answer.n, job.answer.n)
    BY <1>8 DEF Succeeded
  <2>3. Mirrored(job.answer.n, job.answer.n).status # "loading"
    BY <1>0, MirrorFields DEF KvInv, Sent
  <2> QED
    BY <2>1, <2>2, <2>3, <1>4, <1>8, IdleFields DEF Succeeded
<1>9. CASE Refused \/ WriteFails
  <2>1. job.pc = "post"
    BY <1>0, <1>9 DEF Refused, WriteFails, Asked
  <2>2. job'.pc # "get"
    BY <2>1, <1>9, IdleFields DEF Refused, WriteFails, Retry, KvInv, Sent
  <2>3. UNCHANGED entry
    BY <1>9 DEF Refused, WriteFails
  <2> QED
    BY <2>1, <2>2, <2>3, <1>2, <1>4 DEF Promised, Reloads
<1> QED
  BY <1>5, <1>6, <1>7, <1>8, <1>9 DEF Request

LEMMA PendStep == ASSUME KvInv, StatusInv, PendInv, [Next]_vars PROVE PendInv'
<1>1. CASE UNCHANGED vars
  BY <1>1 DEF PendInv, WireFrames, Promised, Reloads, Outdated, PriorOK, UpdateOK, LoadsLast,
     vars, netVars, laneVars, mirrorVars
<1> QED
  BY <1>1, PendOthers, PendApplication, PendConnection, PendQueue, PendRequest DEF Next

LEMMA PendInit == ASSUME Init PROVE PendInv
BY NoneWaits DEF Init, PendInv, WireFrames

-----------------------------------------------------------------------------
(***************************************************************************)
(* What is taken for an echo is a write of this client.                    *)
(***************************************************************************)
Mine(l, n) == n \in 1 .. Len(l) /\ l[n].own

Echoes(l, s) ==
  /\ IsSeq(s)
  /\ \A i \in 1 .. Len(s) :
       s[i] = [cid |-> s[i].cid, conflict |-> s[i].conflict] /\ Mine(l, s[i].cid)

OwnInv ==
  /\ Echoes(log, echoes)
  /\ job.answer.t = "ok" => Mine(log, job.answer.n)

LEMMA LeastOf == ASSUME NEW S \in SUBSET Nat, S # {} PROVE Min(S) \in S
<1> DEFINE R == {ss \in Nat \X Nat : ss[1] < ss[2]}
<1>0. OpToRel(<, Nat) = R
  BY DEF OpToRel
<1>1. PICK x \in S : \A y \in S : ~ (<<y, x>> \in R)
  BY <1>0, NatLessThanWellFounded, WFMin
<1>2. ASSUME NEW y \in S PROVE x <= y
  <2>1. x \in Nat /\ y \in Nat /\ <<y, x>> \notin R
    BY <1>1
  <2>2. <<y, x>>[1] = y /\ <<y, x>>[2] = x /\ <<y, x>> \in Nat \X Nat
    BY <2>1
  <2>3. ~(y < x)
    BY <2>1, <2>2
  <2> QED
    BY <2>1, <2>3
<1> QED
  BY <1>2 DEF Min

LEMMA EchoRemoved ==
  ASSUME NEW l, NEW s, Echoes(l, s), NEW i \in 1 .. Len(s)
  PROVE  Echoes(l, RemoveAt(s, i))
<1> DEFINE S == {s[j] : j \in 1 .. Len(s)}
           a == SubSeq(s, 1, i - 1)
           b == SubSeq(s, i + 1, Len(s))
<1>1. Len(s) \in Nat
  BY DEF Echoes, IsSeq
<1>2. a \in Seq(S)
  <2>1. 1 \in Int /\ i - 1 \in Int /\ \A j \in 1 .. i - 1 : s[j] \in S
    BY <1>1
  <2> HIDE DEF S
  <2> QED
    BY <2>1, SubSeqProperties
<1>3. b \in Seq(S)
  <2>1. i + 1 \in Int /\ Len(s) \in Int /\ \A j \in i + 1 .. Len(s) : s[j] \in S
    BY <1>1
  <2> HIDE DEF S
  <2> QED
    BY <2>1, SubSeqProperties
<1>4. RemoveAt(s, i) = a \o b
  BY DEF RemoveAt
<1> DEFINE r == a \o b
<1>5. r \in Seq(S)
  <2> HIDE DEF a, b, S
  <2> QED
    BY <1>2, <1>3, ConcatProperties
<1> HIDE DEF a, b, r
<1>6. ASSUME NEW k \in 1 .. Len(r)
      PROVE  r[k] = [cid |-> r[k].cid, conflict |-> r[k].conflict] /\ Mine(l, r[k].cid)
  <2>1. r[k] \in S
    <3> HIDE DEF S
    <3> QED
      BY <1>5
  <2>2. PICK j \in 1 .. Len(s) : r[k] = s[j]
    BY <2>1
  <2> QED
    BY <2>2 DEF Echoes
<1>7. Echoes(l, r)
  <2> HIDE DEF S
  <2> QED
    BY <1>5, <1>6 DEF Echoes, IsSeq
<1> QED
  BY <1>4, <1>7 DEF r

LEMMA EchoAppended ==
  ASSUME NEW l, NEW s, NEW c, NEW n, Echoes(l, s), Mine(l, n)
  PROVE  Echoes(l, Append(s, [cid |-> n, conflict |-> c]))
<1> DEFINE t == [cid |-> n, conflict |-> c]
           r == Append(s, t)
<1>1. t = [cid |-> t.cid, conflict |-> t.conflict] /\ Mine(l, t.cid)
  OBVIOUS
<1> HIDE DEF t
<1>2. /\ IsSeq(r) /\ Len(s) \in Nat /\ Len(r) = Len(s) + 1 /\ r[Len(s) + 1] = t
      /\ \A j \in 1 .. Len(s) : r[j] = s[j]
  BY Appended DEF Echoes
<1> HIDE DEF r
<1>3. ASSUME NEW i \in 1 .. Len(r)
      PROVE  r[i] = [cid |-> r[i].cid, conflict |-> r[i].conflict] /\ Mine(l, r[i].cid)
  <2>1. CASE i = Len(s) + 1
    BY <1>1, <1>2, <2>1
  <2>2. CASE i \in 1 .. Len(s)
    BY <1>2, <2>2 DEF Echoes
  <2> QED
    BY <1>2, <2>1, <2>2
<1>4. Echoes(l, r)
  BY <1>2, <1>3 DEF Echoes
<1> QED
  BY <1>4 DEF r, t

LEMMA EchoShort ==
  ASSUME NEW l, NEW s, Echoes(l, s), s # <<>>
  PROVE  Echoes(l, Tail(s))
<1> DEFINE r == Tail(s)
<1>1. /\ IsSeq(r) /\ Len(s) \in Nat /\ Len(r) = Len(s) - 1
      /\ \A i \in 1 .. Len(r) : r[i] = s[i + 1]
  BY Shortened DEF Echoes
<1> HIDE DEF r
<1>2. ASSUME NEW i \in 1 .. Len(r)
      PROVE  r[i] = [cid |-> r[i].cid, conflict |-> r[i].conflict] /\ Mine(l, r[i].cid)
  <2>1. i + 1 \in 1 .. Len(s) /\ r[i] = s[i + 1]
    BY <1>1
  <2> QED
    BY <2>1 DEF Echoes
<1>3. Echoes(l, r)
  BY <1>1, <1>2 DEF Echoes
<1> QED
  BY <1>3 DEF r

LEMMA EchoDemoted == ASSUME Echoes(log, echoes) PROVE Echoes(log, Demoted)
<1>1. PICK S : echoes \in Seq(S)
  BY DEF Echoes, IsSeq
<1>2. Len(echoes) \in Nat /\ DOMAIN echoes = 1 .. Len(echoes)
  BY <1>1
<1> DEFINE c(i) == echoes[i].conflict /\ echoes[i].cid \notin job.marks
<1>3. \A i \in 1 .. Len(echoes) : Demoted[i] = [cid |-> echoes[i].cid, conflict |-> c(i)]
  BY <1>2 DEF Demoted, Echoes
<1>4. IsSeq(Demoted) /\ Len(Demoted) = Len(echoes)
  <2> DEFINE T == {Demoted[i] : i \in 1 .. Len(echoes)}
  <2>1. DOMAIN Demoted = 1 .. Len(echoes)
    BY <1>2 DEF Demoted
  <2>2. Demoted \in [1 .. Len(echoes) -> T]
    BY <2>1 DEF Demoted
  <2>3. Demoted \in Seq(T) /\ Len(Demoted) = Len(echoes)
    <3> HIDE DEF T
    <3> QED
      BY <1>2, <2>2
  <2> HIDE DEF T
  <2> QED
    BY <2>3 DEF IsSeq
<1>5. ASSUME NEW i \in 1 .. Len(Demoted)
      PROVE  /\ Demoted[i] = [cid |-> Demoted[i].cid, conflict |-> Demoted[i].conflict]
             /\ Mine(log, Demoted[i].cid)
  <2>1. Demoted[i] = [cid |-> echoes[i].cid, conflict |-> c(i)] /\ Mine(log, echoes[i].cid)
    BY <1>3, <1>4 DEF Echoes
  <2> HIDE DEF c
  <2> QED
    BY <2>1
<1> QED
  BY <1>4, <1>5 DEF Echoes

LEMMA EchoRecorded ==
  ASSUME Echoes(log, echoes), NEW n, Mine(log, n) PROVE Echoes(log, Recorded(n))
<1> DEFINE all == Append(echoes, [cid |-> n, conflict |-> job.conflict])
           plain == {i \in DOMAIN echoes : ~echoes[i].conflict}
<1>1. Echoes(log, all)
  BY EchoAppended
<1>2. Len(echoes) \in Nat /\ Len(all) = Len(echoes) + 1
  BY Appended DEF Echoes
<1>3. DOMAIN echoes = 1 .. Len(echoes)
  <2>1. PICK S : echoes \in Seq(S)
    BY DEF Echoes, IsSeq
  <2> QED
    BY <2>1
<1>4. plain \in SUBSET Nat /\ plain \subseteq 1 .. Len(echoes)
  BY <1>2, <1>3
<1>5. Recorded(n) = IF Len(all) <= EchoMax THEN all
                    ELSE RemoveAt(all, IF plain = {} THEN 1 ELSE Min(plain))
  BY DEF Recorded
<1> HIDE DEF all, plain
<1>6. (IF plain = {} THEN 1 ELSE Min(plain)) \in 1 .. Len(all)
  <2>1. CASE plain = {}
    BY <1>2, <2>1
  <2>2. CASE plain # {}
    <3>1. Min(plain) \in 1 .. Len(echoes)
      BY <1>4, <2>2, LeastOf
    <3> QED
      BY <1>2, <2>2, <3>1
  <2> QED
    BY <2>1, <2>2
<1>7. Echoes(log, RemoveAt(all, IF plain = {} THEN 1 ELSE Min(plain)))
  BY <1>1, <1>6, EchoRemoved
<1> QED
  BY <1>1, <1>5, <1>7

LEMMA MineGrown ==
  ASSUME NEW l, NEW w, Kept(l)
  PROVE  /\ \A n : Mine(l, n) => Mine(Append(l, w), n)
         /\ \A s : Echoes(l, s) => Echoes(Append(l, w), s)
         /\ w.own => Mine(Append(l, w), Len(l) + 1)
<1> DEFINE m == Append(l, w)
<1>1. /\ Len(l) \in Nat /\ Len(m) = Len(l) + 1 /\ m[Len(l) + 1] = w
      /\ \A n \in 1 .. Len(l) : m[n] = l[n]
  BY Grown
<1> HIDE DEF m
<1>2. \A n : Mine(l, n) => Mine(m, n)
  BY <1>1 DEF Mine
<1>3. \A s : Echoes(l, s) => Echoes(m, s)
  BY <1>2 DEF Echoes
<1>4. w.own => Mine(m, Len(l) + 1)
  BY <1>1 DEF Mine
<1> QED
  BY <1>2, <1>3, <1>4 DEF m

LEMMA NoEchoes == ASSUME NEW l PROVE Echoes(l, <<>>)
BY NoneWaits DEF Echoes

LEMMA OwnRequest ==
  ASSUME KvInv, StatusInv, OwnInv, Request PROVE OwnInv'
<1> USE DEF netVars, mirrorVars, laneVars, boundVars
<1>0. Kept(log) /\ Sent(log, job) /\ Asked(job) /\ Echoes(log, echoes)
  BY DEF KvInv, StatusInv, JobOK, OwnInv
<1>1. ASSUME UNCHANGED log, Echoes(log, echoes'), job'.answer.t # "ok" PROVE OwnInv'
  BY <1>1 DEF OwnInv
<1>2. ASSUME NEW t, NEW n, Answer(t, n) PROVE job'.answer.t = t /\ job'.answer.n = n
  <2>1. job'.answer = [t |-> t, n |-> n]
    BY <1>0, <1>2, AnswerFields
  <2> QED
    BY <2>1
<1>3. CASE ServeGet \/ RequestFails
  BY <1>0, <1>1, <1>2, <1>3 DEF ServeGet, RequestFails
<1>4. CASE ServePost
  <2>1. ASSUME Commit(Written(job.data, TRUE, job.basis), TRUE), Answer("ok", Newest + 1)
        PROVE  OwnInv'
    <3>1. Written(job.data, TRUE, job.basis).own
      BY DEF Written
    <3>2. log' = Append(log, Written(job.data, TRUE, job.basis)) /\ UNCHANGED echoes
      BY <1>4, <2>1 DEF Commit, ServePost
    <3>3. job'.answer.n = Len(log) + 1
      BY <1>2, <2>1 DEF Newest
    <3> QED
      BY <1>0, <3>1, <3>2, <3>3, MineGrown DEF OwnInv
  <2>2. ASSUME UNCHANGED log, Answer("conflict", Newest) PROVE OwnInv'
    BY <1>0, <1>1, <1>2, <1>4, <2>2 DEF ServePost
  <2> QED
    BY <1>4, <2>1, <2>2 DEF ServePost
<1>5. CASE LoadDone
  BY <1>0, <1>1, <1>5, EchoDemoted, IdleFields DEF LoadDone
<1>6. CASE ReloadDone
  BY <1>0, <1>1, <1>6, IdleFields, PostFields DEF ReloadDone
<1>7. CASE Succeeded
  <2>1. Mine(log, job.answer.n)
    BY <1>7 DEF Succeeded, OwnInv
  <2> QED
    BY <1>0, <1>1, <1>7, <2>1, EchoRecorded, IdleFields DEF Succeeded
<1>8. CASE Refused
  <2>1. job'.answer.t # "ok"
    BY <1>0, <1>8, IdleFields DEF Refused, Retry, Sent
  <2> QED
    BY <1>0, <1>1, <1>8, <2>1 DEF Refused
<1>9. CASE WriteFails
  BY <1>0, <1>1, <1>9, IdleFields DEF WriteFails
<1> QED
  BY <1>3, <1>4, <1>5, <1>6, <1>7, <1>8, <1>9 DEF Request

LEMMA OwnQueue == ASSUME KvInv, OwnInv, Queue PROVE OwnInv'
<1> USE DEF netVars, mirrorVars
<1>1. UNCHANGED log /\ job = Idle /\ Echoes(log, echoes) /\ Good(log, entry)
  BY DEF Queue, StartLoad, StartUpdate, StartClear, StartFrame, Turn, OwnInv, KvInv
<1>2. ASSUME Echoes(log, echoes'), job'.answer = Nothing PROVE OwnInv'
  BY <1>1, <1>2, IdleFields DEF OwnInv
<1>3. CASE StartLoad
  BY <1>1, <1>2, <1>3, GetFields, IdleFields DEF StartLoad
<1>4. CASE StartUpdate
  <2>1. job'.answer = Nothing
    BY <1>1, <1>4, GetFields, PostFields, IdleFields DEF StartUpdate
  <2> QED
    BY <1>1, <1>2, <1>4, <2>1 DEF StartUpdate
<1>5. CASE StartClear
  BY <1>1, <1>2, <1>5, PostFields, IdleFields DEF StartClear
<1>6. CASE StartFrame
  <2> DEFINE f == Head(lane)
  <2>1. CASE ~active
    BY <1>1, <1>2, <1>6, <2>1, IdleFields DEF StartFrame
  <2>2. ASSUME Suppress(f) PROVE OwnInv'
    <3>1. PICK i \in DOMAIN echoes :
            echoes' = IF f.n \in Conflicts THEN echoes ELSE RemoveAt(echoes, i)
      BY <2>2 DEF Suppress
    <3>2. i \in 1 .. Len(echoes)
      <4>1. PICK S : echoes \in Seq(S)
        BY <1>1 DEF Echoes, IsSeq
      <4> QED
        BY <4>1
    <3>3. Echoes(log, RemoveAt(echoes, i))
      BY <1>1, <3>2, EchoRemoved
    <3>4. UNCHANGED job
      BY <2>2 DEF Suppress
    <3> QED
      BY <1>1, <1>2, <3>1, <3>3, <3>4, IdleFields
  <2>3. ASSUME Ask(f) PROVE OwnInv'
    BY <1>1, <1>2, <2>3, GetFields DEF Ask
  <2>4. ASSUME ApplyFrame(f) PROVE OwnInv'
    <3>1. UNCHANGED <<echoes, job>>
      BY <2>4 DEF ApplyFrame
    <3> QED
      BY <1>1, <1>2, <3>1, IdleFields
  <2>5. CASE active
    <3>1. Suppress(f) \/ Ask(f) \/ ApplyFrame(f)
      BY <1>6, <2>5 DEF StartFrame
    <3> QED
      BY <2>2, <2>3, <2>4, <3>1
  <2> QED
    BY <2>1, <2>5
<1> QED
  BY <1>3, <1>4, <1>5, <1>6 DEF Queue

LEMMA OwnStep == ASSUME KvInv, StatusInv, OwnInv, [Next]_vars PROVE OwnInv'
<1> USE DEF netVars, mirrorVars, laneVars, boundVars
<1>1. CASE OthersWrite
  <2>1. PICK w : log' = Append(log, w)
    BY <1>1 DEF OthersWrite, Commit
  <2>2. UNCHANGED <<echoes, job>> /\ Kept(log)
    BY <1>1 DEF OthersWrite, KvInv
  <2> QED
    BY <2>1, <2>2, MineGrown DEF OwnInv
<1>2. CASE Application
  <2>1. /\ UNCHANGED log /\ (job' = job \/ job' = Idle)
        /\ (echoes' = echoes \/ echoes' = <<>>)
    BY <1>2 DEF Application, Reconcile, CleanupContractRuntime, DefineSlot, Restart, Call
  <2> QED
    BY <2>1, NoEchoes, IdleFields DEF OwnInv
<1>3. CASE Connection
  <2>1. UNCHANGED <<log, job>>
    BY <1>3 DEF Connection, Open, SubHandled, OnContractResynced, Disconnect, Receive, EchoExpires
  <2>2. echoes' = echoes \/ echoes' = <<>> \/ (echoes # <<>> /\ echoes' = Tail(echoes))
    BY <1>3 DEF Connection, Open, SubHandled, OnContractResynced, Disconnect, Receive, EchoExpires
  <2> QED
    BY <2>1, <2>2, NoEchoes, EchoShort DEF OwnInv
<1>4. CASE UNCHANGED vars
  BY <1>4 DEF OwnInv, vars
<1> QED
  BY <1>1, <1>2, <1>3, <1>4, OwnQueue, OwnRequest DEF Next

LEMMA OwnInit == ASSUME Init PROVE OwnInv
BY NoEchoes, IdleFields DEF Init, OwnInv

-----------------------------------------------------------------------------
(***************************************************************************)
(* What the mirror does not know yet is coming.                            *)
(***************************************************************************)
\* A write that OthersSeen does not ask for.
Exempt(n) == log[n].own \/ \E m \in n .. Newest : ~Plain(m)

\* The connection owes the client a load, or the frame of the n-th write.
Due(n) == refresh \/ (~link /\ ~isNew) \/ Framed(wire, 0, n)
Coming(i, n) == Exempt(n) \/ Covered(lane, i, n) \/ Due(n)

\* The answer of the request under way has it.
Fetched(n) ==
  /\ job.pc = "get" /\ job.op \in {"load", "frame"}
  /\ job.answer.t \in {"wait", "fail"} \/ n <= job.answer.n

\* Of what is newer than a frame, nothing is lost by applying it.
WireSeen ==
  \A i \in 1 .. Len(wire) : \A n \in wire[i].n + 1 .. Newest :
     log[n].own \/ Framed(wire, i, n)
FrameSeen ==
  \A i \in 1 .. Len(lane) : lane[i].op = "frame" =>
     \A n \in lane[i].n + 1 .. Newest : Coming(i, n)

\* The same of an answer, and of the mirror.
AnswerSeen ==
  job.answer.t \in {"got", "ok"} => \A n \in job.answer.n + 1 .. Newest : Coming(0, n)
SeenUpTo(k) ==
  /\ entry.value = Value(k)
  /\ \A n \in k + 1 .. Newest : Coming(0, n) \/ Fetched(n)
MirrorSeen == entry.status # "error" => \E k \in Numbers : SeenUpTo(k)

SeenInv == WireSeen /\ (active => FrameSeen /\ AnswerSeen /\ MirrorSeen)

AllInv == KvInv /\ StatusInv /\ PendInv /\ OwnInv

\* The log and the definitions of the slot only grow.
LEMMA ExemptKept ==
  ASSUME KvInv, slot \in Nat, slot' \in {slot, slot + 1},
         log' = log \/ \E w : log' = Append(log, w)
  PROVE  \A n \in 1 .. Len(log) : Exempt(n) => Exempt(n)'
<1>1. /\ Len(log) \in Nat /\ Len(log') \in Nat /\ Len(log) <= Len(log')
      /\ \A n \in 1 .. Len(log) : log'[n] = log[n]
  BY Grown DEF KvInv, Kept
<1>2. ASSUME NEW m \in 1 .. Len(log), ~Plain(m) PROVE ~Plain(m)'
  <2>1. PICK s \in 0 .. slot : ~Accepted(s, m)
    BY <1>2 DEF Plain
  <2>2. s \in 0 .. slot'
    BY <2>1
  <2>3. ~Accepted(s, m)'
    BY <1>1, <2>1 DEF Accepted
  <2> QED
    BY <2>2, <2>3 DEF Plain
<1> SUFFICES ASSUME NEW n \in 1 .. Len(log), Exempt(n) PROVE Exempt(n)'
  OBVIOUS
<1>3. CASE log[n].own
  BY <1>1, <1>3 DEF Exempt
<1>4. ASSUME NEW m \in n .. Newest, ~Plain(m) PROVE Exempt(n)'
  <2>1. m \in 1 .. Len(log) /\ m \in n .. Newest'
    BY <1>1, <1>4 DEF Newest
  <2>2. ~Plain(m)'
    BY <1>2, <1>4, <2>1
  <2> QED
    BY <2>1, <2>2 DEF Exempt
<1> QED
  BY <1>3, <1>4 DEF Exempt

\* The value that is there is that of its own number.
LEMMA OwnValue ==
  ASSUME KvInv, EntryOK PROVE entry.value \in Numbers /\ entry.value = Value(entry.value)
BY DEF KvInv, Good, EntryOK, Numbers, Val, Value

\* When a load is queued, or owed, all is coming.
LEMMA AllComing ==
  ASSUME KvInv', StatusInv',
         \A i \in 0 .. Len(lane') : i = 0 \/ lane'[i].op = "frame" =>
            Loading(lane', i) \/ refresh' \/ (~link' /\ ~isNew')
  PROVE  FrameSeen' /\ AnswerSeen' /\ MirrorSeen'
<1>1. Len(lane') \in Nat /\ Len(log') \in Nat
  BY DEF KvInv, Frames, Kept
<1>2. ASSUME NEW i \in 0 .. Len(lane'), i = 0 \/ lane'[i].op = "frame", NEW n
      PROVE  Coming(i, n)'
  BY <1>2 DEF Coming, Covered, Due
<1>3. FrameSeen'
  BY <1>1, <1>2 DEF FrameSeen
<1>4. \A n : Coming(0, n)'
  BY <1>1, <1>2
<1>5. (entry.value \in Numbers /\ entry.value = Value(entry.value))'
  <2>1. (KvInv /\ EntryOK => entry.value \in Numbers /\ entry.value = Value(entry.value))'
    BY DEF KvInv, Good, EntryOK, Numbers, Val, Value
  <2> QED
    BY <2>1 DEF StatusInv
<1>6. MirrorSeen'
  BY <1>4, <1>5 DEF MirrorSeen, SeenUpTo
<1> QED
  BY <1>3, <1>4, <1>6 DEF AnswerSeen

\* What is queued takes nothing away.
LEMMA SeenQueued ==
  ASSUME KvInv, active, SeenInv, NEW t, t.op \notin {"frame", "load"},
         lane' = Append(lane, t),
         UNCHANGED <<log, wire, link, isNew, refresh, slot, entry, job>>
  PROVE  FrameSeen' /\ AnswerSeen' /\ MirrorSeen'
<1>1. /\ Len(lane) \in Nat /\ Len(lane') = Len(lane) + 1 /\ lane'[Len(lane) + 1] = t
      /\ \A i \in 1 .. Len(lane) : lane'[i] = lane[i]
  BY Appended, LaneIsSeq
<1>2. \A i \in Nat : \A n : Covered(lane, i, n) => Covered(lane', i, n)
  BY CoverAppend, LaneIsSeq DEF Covered
<1>3. \A i \in Nat : \A n : Coming(i, n) => Coming(i, n)'
  BY <1>2 DEF Coming, Exempt, Due, Plain, Accepted, Newest
<1>4. FrameSeen'
  <2> SUFFICES ASSUME NEW i \in 1 .. Len(lane'), lane'[i].op = "frame",
                      NEW n \in lane'[i].n + 1 .. Newest
               PROVE  Coming(i, n)'
    BY DEF FrameSeen, Newest
  <2>1. i \in 1 .. Len(lane) /\ i \in Nat /\ lane'[i] = lane[i]
    BY <1>1
  <2>2. Coming(i, n)
    BY <2>1 DEF SeenInv, FrameSeen
  <2> QED
    BY <1>3, <2>1, <2>2
<1>5. \A n : Coming(0, n) => Coming(0, n)'
  BY <1>3
<1>6. AnswerSeen'
  BY <1>5 DEF SeenInv, AnswerSeen, Newest
<1>7. MirrorSeen'
  BY <1>5 DEF SeenInv, MirrorSeen, SeenUpTo, Fetched, Newest, Numbers, Value
<1> QED
  BY <1>4, <1>6, <1>7

\* A step that leaves alone what is coming.
LEMMA SeenSame ==
  ASSUME KvInv, StatusInv, SeenInv, UNCHANGED <<log, wire, lane, refresh, active>>,
         slot' \in {slot, slot + 1}, ~link /\ ~isNew => ~link' /\ ~isNew'
  PROVE  /\ WireSeen' /\ (active => FrameSeen')
         /\ \A n \in 1 .. Newest : Coming(0, n) => Coming(0, n)'
<1>1. \A n \in 1 .. Len(log) : Exempt(n) => Exempt(n)'
  BY ExemptKept DEF StatusInv
<1>2. \A i : \A n \in 1 .. Len(log) : Coming(i, n) => Coming(i, n)'
  BY <1>1 DEF Coming, Covered, Due
<1>3. WireSeen'
  BY DEF SeenInv, WireSeen, Newest
<1>4. ASSUME active PROVE FrameSeen'
  <2> SUFFICES ASSUME NEW i \in 1 .. Len(lane), lane[i].op = "frame",
                      NEW n \in lane[i].n + 1 .. Newest
               PROVE  Coming(i, n)'
    BY DEF FrameSeen, Newest
  <2>1. Coming(i, n)
    BY <1>4 DEF SeenInv, FrameSeen
  <2>2. n \in 1 .. Len(log)
    BY DEF KvInv, Frames, Newest
  <2> QED
    BY <1>2, <2>1, <2>2
<1> QED
  BY <1>2, <1>3, <1>4 DEF Newest

\* A write by another comes with its frame, or a load will follow.
LEMMA SeenCommit ==
  ASSUME KvInv, StatusInv, PendInv, SeenInv, NEW w, NEW cid, Commit(w, cid),
         UNCHANGED <<lane, refresh, active, slot, link, isNew, entry>>,
         w.own \/ sub \/ (wire = <<>> /\ (active => refresh \/ (~link /\ ~isNew))),
         \A n : Fetched(n) => Fetched(n)'
  PROVE  /\ WireSeen' /\ Newest' = Newest + 1
         /\ active => FrameSeen' /\ MirrorSeen'
         /\ \A n \in 1 .. Newest : Coming(0, n) => Coming(0, n)'
         /\ active => \A n : n = Newest + 1 => Coming(0, n)'
<1> DEFINE t == Frame(Newest + 1, cid)
<1>1. log' = Append(log, w) /\ wire' = IF sub THEN Append(wire, t) ELSE wire
  BY DEF Commit
<1>2. /\ Len(log) \in Nat /\ Len(log') = Len(log) + 1 /\ log'[Len(log) + 1] = w
      /\ \A n \in 1 .. Len(log) : log'[n] = log[n]
      /\ \A n \in 0 .. Len(log) : Val(log', n) = Val(log, n)
  BY <1>1, Grown DEF KvInv
<1>3. /\ Len(wire) \in Nat /\ Len(Append(wire, t)) = Len(wire) + 1
      /\ Append(wire, t)[Len(wire) + 1] = t
      /\ \A i \in 1 .. Len(wire) : Append(wire, t)[i] = wire[i]
  BY Appended, LaneIsSeq
<1>4. t.op = "frame" /\ t.n = Newest + 1
  BY DEF Frame
<1>5. /\ \A i \in Nat : \A n : Framed(wire, i, n) => Framed(wire', i, n)
      /\ sub => \A i \in 0 .. Len(wire) : Framed(wire', i, Newest + 1)
  <2>1. \A i \in Nat : /\ \A n : Framed(wire, i, n) => Framed(Append(wire, t), i, n)
                       /\ i <= Len(wire) => Framed(Append(wire, t), i, Newest + 1)
    <3> HIDE DEF t
    <3> QED
      BY <1>4, CoverAppend, LaneIsSeq
  <2> HIDE DEF t
  <2> QED
    BY <1>1, <1>3, <2>1
<1> HIDE DEF t
<1>6. Newest' = Newest + 1
  BY <1>2 DEF Newest
<1>7. WireSeen'
  <2> SUFFICES ASSUME NEW i \in 1 .. Len(wire'), NEW n \in wire'[i].n + 1 .. Newest + 1
               PROVE  log'[n].own \/ Framed(wire', i, n)
    BY <1>6 DEF WireSeen
  <2>1. CASE i \in 1 .. Len(wire)
    <3>1. i \in Nat /\ wire'[i] = wire[i] /\ wire[i].n \in 0 .. Len(log)
      BY <1>1, <1>3, <2>1 DEF KvInv, Frames
    <3>2. CASE n = Newest + 1
      <4>1. wire # <<>>
        BY <2>1, NoneWaits
      <4>2. w.own \/ sub
        BY <4>1
      <4>3. i \in 0 .. Len(wire)
        BY <1>3, <2>1
      <4> QED
        BY <1>2, <1>5, <3>2, <4>2, <4>3 DEF Newest
    <3>3. CASE n \in wire[i].n + 1 .. Newest
      <4>1. log[n].own \/ Framed(wire, i, n)
        BY <2>1, <3>3 DEF SeenInv, WireSeen
      <4>2. n \in 1 .. Len(log)
        BY <1>2, <3>1, <3>3 DEF Newest
      <4> QED
        BY <1>2, <1>5, <3>1, <4>1, <4>2
    <3> QED
      BY <1>2, <3>1, <3>2, <3>3 DEF Newest
  <2>2. CASE i \notin 1 .. Len(wire)
    <3>1. sub /\ i = Len(wire) + 1
      BY <1>1, <1>3, <2>2
    <3>2. wire'[i].n = Newest + 1
      BY <1>1, <1>3, <1>4, <3>1
    <3> QED
      BY <1>2, <3>2 DEF Newest
  <2> QED
    BY <2>1, <2>2
<1>8. \A i \in Nat : \A n \in 1 .. Newest : Coming(i, n) => Coming(i, n)'
  <2>1. \A n \in 1 .. Newest : Exempt(n) => Exempt(n)'
    <3>1. slot \in Nat /\ slot' \in {slot, slot + 1}
      BY DEF StatusInv
    <3> QED
      BY <1>1, <3>1, ExemptKept DEF Newest
  <2>2. 0 \in Nat
    OBVIOUS
  <2> QED
    BY <1>5, <2>1, <2>2 DEF Coming, Covered, Due
<1>9. ASSUME active, NEW n, n = Newest + 1, NEW i PROVE Coming(i, n)'
  <2>1. CASE w.own
    <3>1. log'[n].own
      BY <1>2, <1>9, <2>1 DEF Newest
    <3> QED
      BY <3>1 DEF Coming, Exempt
  <2>2. CASE sub
    <3>1. Framed(wire', 0, n)
      BY <1>3, <1>5, <1>9, <2>2
    <3> QED
      BY <3>1 DEF Coming, Due
  <2>3. CASE refresh \/ (~link /\ ~isNew)
    BY <2>3 DEF Coming, Due
  <2> QED
    BY <1>9, <2>1, <2>2, <2>3
<1>10. ASSUME active PROVE FrameSeen'
  <2> SUFFICES ASSUME NEW i \in 1 .. Len(lane), lane[i].op = "frame",
                      NEW n \in lane[i].n + 1 .. Newest + 1
               PROVE  Coming(i, n)'
    BY <1>6 DEF FrameSeen
  <2>1. i \in Nat /\ lane[i].n \in 0 .. Len(log)
    BY DEF KvInv, Frames
  <2>2. CASE n = Newest + 1
    BY <1>9, <1>10, <2>2
  <2>3. CASE n \in lane[i].n + 1 .. Newest
    <3>1. Coming(i, n) /\ n \in 1 .. Newest
      BY <1>2, <1>10, <2>1, <2>3 DEF SeenInv, FrameSeen, Newest
    <3> QED
      BY <1>8, <2>1, <3>1
  <2> QED
    BY <1>2, <2>1, <2>2, <2>3 DEF Newest
<1>11. ASSUME active, entry.status # "error" PROVE (\E k \in Numbers : SeenUpTo(k))'
  <2>1. PICK k \in Numbers : SeenUpTo(k)
    BY <1>11 DEF SeenInv, MirrorSeen
  <2>2. k \in 0 .. Len(log) /\ k \in Numbers'
    BY <1>2, <2>1 DEF Numbers
  <2>3. Value(k)' = Value(k)
    <3>1. Value(k) = Val(log, k) /\ Value(k)' = Val(log', k)
      BY DEF Value, Val
    <3> QED
      BY <1>2, <2>2, <3>1
  <2>4. ASSUME NEW n \in k + 1 .. Newest + 1 PROVE Coming(0, n)' \/ Fetched(n)'
    <3>1. CASE n = Newest + 1
      BY <1>9, <1>11, <3>1
    <3>2. CASE n \in k + 1 .. Newest
      <4>1. n \in 1 .. Newest /\ (Coming(0, n) \/ Fetched(n))
        BY <1>2, <2>1, <2>2, <3>2 DEF SeenUpTo, Newest
      <4> QED
        BY <1>8, <4>1
    <3> QED
      BY <1>2, <2>2, <3>1, <3>2 DEF Newest
  <2> QED
    BY <1>6, <2>1, <2>2, <2>3, <2>4 DEF SeenUpTo
<1>12. active => MirrorSeen'
  BY <1>11 DEF MirrorSeen
<1> QED
  BY <1>6, <1>7, <1>8, <1>9, <1>10, <1>12

\* A mirror whose value stays is behind by no more than it was.
LEMMA MirrorKept ==
  ASSUME KvInv, MirrorSeen, UNCHANGED log, entry'.value = entry.value,
         entry'.status # "error" => entry.status # "error",
         \A n \in 1 .. Newest : Coming(0, n) => Coming(0, n)',
         \A n \in 1 .. Newest : Fetched(n) => Coming(0, n)' \/ Fetched(n)'
  PROVE  MirrorSeen'
<1> SUFFICES ASSUME entry'.status # "error" PROVE (\E k \in Numbers : SeenUpTo(k))'
  BY DEF MirrorSeen
<1>1. PICK k \in Numbers : SeenUpTo(k)
  BY DEF MirrorSeen
<1>2. k \in Nat /\ Len(log) \in Nat /\ k \in Numbers'
  BY DEF Numbers, KvInv, Kept
<1>3. Value(k)' = Value(k) /\ Newest' = Newest
  BY DEF Value, Newest
<1>4. ASSUME NEW n \in k + 1 .. Newest PROVE Coming(0, n)' \/ Fetched(n)'
  <2>1. n \in 1 .. Newest /\ (Coming(0, n) \/ Fetched(n))
    BY <1>1, <1>2 DEF SeenUpTo, Newest
  <2> QED
    BY <2>1
<1> QED
  BY <1>1, <1>2, <1>3, <1>4 DEF SeenUpTo

LEMMA AnswerKept ==
  ASSUME KvInv, AnswerSeen, UNCHANGED log,
         job'.answer.t \in {"got", "ok"} =>
           job'.answer = job.answer \/ job'.answer.n = Newest,
         \A n \in 1 .. Newest : Coming(0, n) => Coming(0, n)'
  PROVE  AnswerSeen'
<1> SUFFICES ASSUME job'.answer.t \in {"got", "ok"}, NEW n \in job'.answer.n + 1 .. Newest
             PROVE  Coming(0, n)'
  BY DEF AnswerSeen, Newest
<1>1. Len(log) \in Nat /\ job.answer.n \in 0 .. Len(log)
  BY DEF KvInv, Kept, Sent
<1>2. job'.answer = job.answer
  BY <1>1 DEF Newest
<1>3. n \in 1 .. Newest /\ Coming(0, n)
  BY <1>1, <1>2 DEF AnswerSeen, Newest
<1> QED
  BY <1>3

LEMMA SeenLoad ==
  ASSUME KvInv, KvInv', StatusInv', NEW t, lane' = Append(lane, t), t.op = "load",
         t.slot = slot'
  PROVE  FrameSeen' /\ AnswerSeen' /\ MirrorSeen'
<1>1. /\ Len(lane) \in Nat /\ Len(lane') = Len(lane) + 1 /\ lane'[Len(lane) + 1] = t
      /\ Loading(lane', 0) /\ \A i \in 1 .. Len(lane) : Loading(lane', i)
  BY LoadQueued, Appended, LaneIsSeq
<1>2. \A i \in 0 .. Len(lane') : i = 0 \/ lane'[i].op = "frame" => Loading(lane', i)
  BY <1>1
<1> QED
  BY <1>2, AllComing

LEMMA SeenOthers ==
  ASSUME KvInv, StatusInv, PendInv, SeenInv, Calm, OthersWrite PROVE SeenInv'
<1>1. /\ UNCHANGED <<link, isNew, sub, active, slot, entry, refresh, lane, job>>
      /\ ~Gap
  BY DEF OthersWrite, Calm, mirrorVars, laneVars
<1>2. PICK d, cid : Commit(Written(d, FALSE, 0), cid)
  BY DEF OthersWrite
<1>3. sub \/ (wire = <<>> /\ (active => refresh \/ (~link /\ ~isNew)))
  BY <1>1 DEF Gap
<1>4. \A n : Fetched(n) => Fetched(n)'
  BY <1>1 DEF Fetched
<1>5. /\ WireSeen' /\ Newest' = Newest + 1
      /\ active => FrameSeen' /\ MirrorSeen'
      /\ \A n \in 1 .. Newest : Coming(0, n) => Coming(0, n)'
      /\ active => \A n : n = Newest + 1 => Coming(0, n)'
  BY <1>1, <1>2, <1>3, <1>4, SeenCommit
<1>6. ASSUME active PROVE AnswerSeen'
  <2> SUFFICES ASSUME job.answer.t \in {"got", "ok"},
                      NEW n \in job.answer.n + 1 .. Newest + 1
               PROVE  Coming(0, n)'
    BY <1>1, <1>5 DEF AnswerSeen
  <2>1. Len(log) \in Nat /\ job.answer.n \in 0 .. Len(log)
    BY DEF KvInv, Kept, Sent
  <2>2. CASE n = Newest + 1
    BY <1>5, <1>6, <2>2
  <2>3. CASE n \in job.answer.n + 1 .. Newest
    <3>1. n \in 1 .. Newest /\ Coming(0, n)
      BY <1>6, <2>1, <2>3 DEF SeenInv, AnswerSeen, Newest
    <3> QED
      BY <1>5, <3>1
  <2> QED
    BY <2>1, <2>2, <2>3 DEF Newest
<1> QED
  BY <1>1, <1>5, <1>6 DEF SeenInv

LEMMA SeenApplication ==
  ASSUME AllInv, AllInv', SeenInv, Calm, Application PROVE SeenInv'
<1> USE DEF netVars, mirrorVars, laneVars, boundVars
<1>0. KvInv /\ StatusInv /\ KvInv' /\ StatusInv' /\ Len(lane) \in Nat
  BY DEF AllInv, KvInv, Frames
<1>1. WireSeen'
  <2>1. UNCHANGED log /\ (wire' = wire \/ wire' = <<>>)
    BY DEF Application, Reconcile, CleanupContractRuntime, DefineSlot, Restart, Call
  <2> QED
    BY <2>1, NoneWaits DEF SeenInv, WireSeen, Newest
<1>2. ASSUME NEW t, lane' = Append(lane, t), t.op = "load", t.slot = slot' PROVE SeenInv'
  BY <1>0, <1>1, <1>2, SeenLoad DEF SeenInv
<1>3. CASE Reconcile
  BY <1>2, <1>3 DEF Reconcile, Load
<1>4. CASE CleanupContractRuntime \/ Restart
  BY <1>1, <1>4 DEF CleanupContractRuntime, Restart, SeenInv
<1>5. CASE DefineSlot
  <2>1. CASE lane' = Append(lane, Load(slot + 1))
    BY <1>2, <1>5, <2>1 DEF DefineSlot, Load
  <2>2. CASE entry' = Revalidated(slot + 1) /\ UNCHANGED lane
    <3>1. /\ UNCHANGED <<log, wire, lane, refresh, active, link, isNew, job>>
          /\ slot' = slot + 1 /\ entry.status # "error"
      BY <1>5, <2>2 DEF DefineSlot, Calm
    <3>2. /\ active => FrameSeen'
          /\ \A n \in 1 .. Newest : Coming(0, n) => Coming(0, n)'
      BY <1>0, <3>1, SeenSame
    <3>3. \A n : Fetched(n) => Fetched(n)'
      BY <3>1 DEF Fetched
    <3>4. entry'.value = entry.value
      BY <1>0, <2>2, MirrorFields DEF KvInv, StatusInv
    <3>5. ASSUME active PROVE MirrorSeen' /\ AnswerSeen'
      BY <1>0, <3>1, <3>2, <3>3, <3>4, <3>5, MirrorKept, AnswerKept DEF SeenInv
    <3> QED
      BY <1>1, <3>1, <3>2, <3>5 DEF SeenInv
  <2> QED
    BY <1>5, <2>1, <2>2 DEF DefineSlot
<1>6. ASSUME NEW op \in {"update", "clear", "load"}, Call(op) PROVE SeenInv'
  <2> DEFINE t == [op |-> op, n |-> 0, cid |-> FALSE, slot |-> slot]
  <2>1. /\ lane' = Append(lane, t) /\ active
        /\ UNCHANGED <<log, wire, link, isNew, refresh, slot, entry, job, active>>
    BY <1>6 DEF Call
  <2>2. t.op = op /\ t.slot = slot
    OBVIOUS
  <2> HIDE DEF t
  <2>3. CASE op = "load"
    BY <1>2, <2>1, <2>2, <2>3
  <2>4. CASE op # "load"
    <3>1. FrameSeen' /\ AnswerSeen' /\ MirrorSeen'
      BY <1>0, <1>6, <2>1, <2>2, <2>4, SeenQueued
    <3> QED
      BY <1>1, <3>1 DEF SeenInv
  <2> QED
    BY <2>3, <2>4
<1> QED
  BY <1>3, <1>4, <1>5, <1>6 DEF Application

\* A frame that is handed over waits in the queue, and not on the wire.
LEMMA SeenReceive == ASSUME AllInv, SeenInv, Receive PROVE SeenInv'
<1> USE DEF netVars, mirrorVars, laneVars, boundVars
<1> DEFINE h == Head(wire)
<1>0. KvInv /\ StatusInv /\ PendInv
  BY DEF AllInv
<1>1. /\ UNCHANGED <<log, link, isNew, active, slot, entry, refresh, job>>
      /\ wire # <<>> /\ wire' = Tail(wire)
      /\ active => lane' = Append(lane, h)
  BY DEF Receive
<1>2. /\ h = wire[1] /\ Len(wire) \in Nat /\ Len(wire) >= 1
      /\ Len(wire') = Len(wire) - 1
      /\ \A i \in 1 .. Len(wire') : wire'[i] = wire[i + 1]
  BY <1>0, <1>1, Shortened, LaneIsSeq
<1>3. /\ \A i \in Nat : \A n : Framed(wire, i + 1, n) => Framed(wire', i, n)
      /\ \A n : Framed(wire, 0, n) /\ ~(h.op = "frame" /\ h.n = n) => Framed(wire', 0, n)
  BY <1>0, <1>1, CoverTail, LaneIsSeq
<1> HIDE DEF h
<1>4. h.op = "frame"
  BY <1>0, <1>2 DEF PendInv, WireFrames
<1>5. WireSeen'
  <2> SUFFICES ASSUME NEW i \in 1 .. Len(wire'), NEW n \in wire'[i].n + 1 .. Newest
               PROVE  log[n].own \/ Framed(wire', i, n)
    BY <1>1 DEF WireSeen, Newest
  <2>1. i \in Nat /\ i + 1 \in 1 .. Len(wire) /\ wire'[i] = wire[i + 1]
    BY <1>2
  <2>2. log[n].own \/ Framed(wire, i + 1, n)
    BY <2>1 DEF SeenInv, WireSeen
  <2> QED
    BY <1>3, <2>1, <2>2
<1> SUFFICES ASSUME active PROVE FrameSeen' /\ AnswerSeen' /\ MirrorSeen'
  BY <1>1, <1>5 DEF SeenInv
<1>6. /\ Len(lane) \in Nat /\ Len(lane') = Len(lane) + 1 /\ lane'[Len(lane) + 1] = h
      /\ \A i \in 1 .. Len(lane) : lane'[i] = lane[i]
  BY <1>0, <1>1, Appended, LaneIsSeq
<1>7. ASSUME NEW i \in 0 .. Len(lane)
      PROVE  (\A n : Covered(lane, i, n) => Covered(lane', i, n)) /\ Covered(lane', i, h.n)
  <2>1. i \in Nat /\ i <= Len(lane) /\ lane' = Append(lane, h) /\ IsSeq(lane)
    BY <1>0, <1>1, <1>6, LaneIsSeq
  <2>2. /\ Loading(lane, i) => Loading(lane', i)
        /\ \A n : Framed(lane, i, n) => Framed(lane', i, n)
        /\ Framed(lane', i, h.n)
    BY <1>4, <2>1, CoverAppend
  <2> QED
    BY <2>2 DEF Covered
<1>8. \A n : Exempt(n) => Exempt(n)'
  BY <1>1 DEF Exempt, Plain, Accepted, Newest
<1>9. \A i \in 0 .. Len(lane) : \A n : Coming(i, n) => Coming(i, n)'
  BY <1>1, <1>3, <1>7, <1>8 DEF Coming, Due
<1>10. FrameSeen'
  <2> SUFFICES ASSUME NEW i \in 1 .. Len(lane'), lane'[i].op = "frame",
                      NEW n \in lane'[i].n + 1 .. Newest
               PROVE  Coming(i, n)'
    BY <1>1 DEF FrameSeen, Newest
  <2>1. CASE i \in 1 .. Len(lane)
    <3>1. Coming(i, n)
      BY <1>6, <2>1 DEF SeenInv, FrameSeen
    <3>2. i \in 0 .. Len(lane)
      BY <1>6, <2>1
    <3> QED
      BY <1>9, <3>1, <3>2
  <2>2. CASE i \notin 1 .. Len(lane)
    <3>1. lane'[i] = wire[1] /\ 1 \in 1 .. Len(wire)
      BY <1>2, <1>6, <2>2
    <3>2. log[n].own \/ Framed(wire, 0 + 1, n)
      BY <3>1 DEF SeenInv, WireSeen
    <3>3. log'[n].own \/ Framed(wire', 0, n)
      BY <1>1, <1>3, <3>2
    <3> QED
      BY <3>3 DEF Coming, Exempt, Due
  <2> QED
    BY <2>1, <2>2
<1>11. 0 \in 0 .. Len(lane)
  BY <1>6
<1>12. \A n : Fetched(n) => Fetched(n)'
  BY <1>1 DEF Fetched
<1>13. AnswerSeen'
  BY <1>0, <1>1, <1>9, <1>11, AnswerKept DEF SeenInv
<1>14. MirrorSeen'
  BY <1>0, <1>1, <1>9, <1>11, <1>12, MirrorKept DEF SeenInv
<1> QED
  BY <1>10, <1>13, <1>14

LEMMA SeenConnection ==
  ASSUME AllInv, AllInv', SeenInv, Connection PROVE SeenInv'
<1> USE DEF netVars, mirrorVars, laneVars, boundVars
<1>0. KvInv /\ StatusInv /\ KvInv' /\ StatusInv' /\ Len(lane) \in Nat
  BY DEF AllInv, KvInv, Frames
<1>1. ASSUME UNCHANGED <<log, wire, lane, refresh, active, slot, entry, job>>,
             ~link /\ ~isNew => ~link' /\ ~isNew'
      PROVE  SeenInv'
  <2>1. /\ WireSeen' /\ (active => FrameSeen')
        /\ \A n \in 1 .. Newest : Coming(0, n) => Coming(0, n)'
    BY <1>0, <1>1, SeenSame
  <2>2. \A n : Fetched(n) => Fetched(n)'
    BY <1>1 DEF Fetched
  <2>3. ASSUME active PROVE MirrorSeen' /\ AnswerSeen'
    BY <1>0, <1>1, <2>1, <2>2, <2>3, MirrorKept, AnswerKept DEF SeenInv
  <2> QED
    BY <1>1, <2>1, <2>3 DEF SeenInv
<1>2. ASSUME UNCHANGED <<log, active>>, wire' = wire \/ wire' = <<>>,
             active => refresh' \/ (~link' /\ ~isNew')
      PROVE  SeenInv'
  <2>1. WireSeen'
    BY <1>2, NoneWaits DEF SeenInv, WireSeen, Newest
  <2>2. ASSUME active PROVE FrameSeen' /\ AnswerSeen' /\ MirrorSeen'
    BY <1>0, <1>2, <2>2, AllComing
  <2> QED
    BY <1>2, <2>1, <2>2 DEF SeenInv
<1>3. CASE Open
  <2>1. CASE isNew
    BY <1>1, <1>3, <2>1 DEF Open
  <2>2. CASE ~isNew
    BY <1>2, <1>3, <2>2 DEF Open
  <2> QED
    BY <2>1, <2>2
<1>4. CASE SubHandled
  BY <1>1, <1>4 DEF SubHandled
<1>5. CASE EchoExpires
  BY <1>1, <1>5 DEF EchoExpires
<1>6. CASE OnContractResynced
  <2>1. /\ UNCHANGED <<log, wire, active>> /\ lane' = Append(lane, Load(slot))
        /\ slot' = slot
    BY <1>6 DEF OnContractResynced
  <2>2. FrameSeen' /\ AnswerSeen' /\ MirrorSeen'
    BY <1>0, <2>1, SeenLoad DEF Load
  <2>3. WireSeen'
    BY <2>1 DEF SeenInv, WireSeen, Newest
  <2> QED
    BY <2>2, <2>3 DEF SeenInv
<1>7. CASE Disconnect
  <2>1. ~link' /\ ~isNew'
    BY <1>0, <1>7 DEF Disconnect, StatusInv
  <2> QED
    BY <1>2, <1>7, <2>1 DEF Disconnect
<1> QED
  BY <1>3, <1>4, <1>5, <1>6, <1>7, SeenReceive DEF Connection

\* What is taken from the queue takes with it what it covered, and no more.
LEMMA SeenTaken ==
  ASSUME AllInv, SeenInv, active, lane # <<>>, lane' = Tail(lane),
         UNCHANGED <<log, wire, refresh, link, isNew, slot>>
  PROVE  /\ FrameSeen'
         /\ Head(lane).op # "load" =>
              \A n : Coming(0, n) /\ ~(Head(lane).op = "frame" /\ Head(lane).n = n)
                       => Coming(0, n)'
         /\ Head(lane).op = "frame" =>
              \A n \in Head(lane).n + 1 .. Newest : Coming(0, n)'
<1> DEFINE h == Head(lane)
<1>0. IsSeq(lane)
  BY LaneIsSeq DEF AllInv
<1>1. /\ h = lane[1] /\ Len(lane) \in Nat /\ Len(lane) >= 1
      /\ Len(lane') = Len(lane) - 1
      /\ \A i \in 1 .. Len(lane') : lane'[i] = lane[i + 1]
  BY <1>0, Shortened
<1>2. /\ \A i \in Nat : \A n : Covered(lane, i + 1, n) => Covered(lane', i, n)
      /\ h.op # "load" => \A n : Covered(lane, 0, n) /\ ~(h.op = "frame" /\ h.n = n)
                                   => Covered(lane', 0, n)
  BY <1>0, CoverTail DEF Covered
<1> HIDE DEF h
<1>3. \A n : (Exempt(n) => Exempt(n)') /\ (Due(n) => Due(n)')
  BY DEF Exempt, Plain, Accepted, Newest, Due
<1>4. \A i \in Nat : \A n : Coming(i + 1, n) => Coming(i, n)'
  BY <1>2, <1>3 DEF Coming
<1>5. h.op # "load" => \A n : Coming(0, n) /\ ~(h.op = "frame" /\ h.n = n) => Coming(0, n)'
  BY <1>2, <1>3 DEF Coming
<1>6. FrameSeen'
  <2> SUFFICES ASSUME NEW i \in 1 .. Len(lane'), lane'[i].op = "frame",
                      NEW n \in lane'[i].n + 1 .. Newest
               PROVE  Coming(i, n)'
    BY DEF FrameSeen, Newest
  <2>1. i \in Nat /\ i + 1 \in 1 .. Len(lane) /\ lane'[i] = lane[i + 1]
    BY <1>1
  <2>2. Coming(i + 1, n)
    BY <2>1 DEF SeenInv, FrameSeen
  <2> QED
    BY <1>4, <2>1, <2>2
<1>7. ASSUME h.op = "frame", NEW n \in h.n + 1 .. Newest PROVE Coming(0, n)'
  <2>1. 1 \in 1 .. Len(lane)
    BY <1>1
  <2>2. Coming(0 + 1, n)
    BY <1>1, <1>7, <2>1 DEF SeenInv, FrameSeen
  <2> QED
    BY <1>4, <2>2
<1> QED
  BY <1>5, <1>6, <1>7 DEF h

\* What has been asked for is fetched as it is when it is served.
LEMMA AllFetched ==
  ASSUME KvInv', StatusInv', job'.pc = "get", job'.op \in {"load", "frame"},
         job'.answer = Nothing
  PROVE  MirrorSeen' /\ AnswerSeen'
<1>1. \A n : Fetched(n)'
  BY IdleFields DEF Fetched
<1>2. (entry.value \in Numbers /\ entry.value = Value(entry.value))'
  <2>1. (KvInv /\ EntryOK => entry.value \in Numbers /\ entry.value = Value(entry.value))'
    BY DEF KvInv, Good, EntryOK, Numbers, Val, Value
  <2> QED
    BY <2>1 DEF StatusInv
<1>3. MirrorSeen'
  BY <1>1, <1>2 DEF MirrorSeen, SeenUpTo
<1> QED
  BY <1>3, IdleFields DEF AnswerSeen

LEMMA SeenQueue == ASSUME AllInv, AllInv', SeenInv, Queue PROVE SeenInv'
<1> USE DEF netVars, mirrorVars
<1>0. /\ KvInv /\ StatusInv /\ KvInv' /\ StatusInv' /\ Good(log, entry) /\ Kept(log)
      /\ EntryOK /\ Echoes(log, echoes)
  BY DEF AllInv, KvInv, StatusInv, OwnInv
<1>1. /\ UNCHANGED <<log, wire, refresh, link, isNew, slot, active>>
      /\ job = Idle /\ lane # <<>> /\ lane' = Tail(lane)
  BY DEF Queue, StartLoad, StartUpdate, StartClear, StartFrame, Turn
<1>2. WireSeen'
  BY <1>1 DEF SeenInv, WireSeen, Newest
<1> SUFFICES ASSUME active PROVE FrameSeen' /\ AnswerSeen' /\ MirrorSeen'
  BY <1>1, <1>2 DEF SeenInv
<1> DEFINE h == Head(lane)
<1>3. /\ FrameSeen'
      /\ h.op # "load" =>
           \A n : Coming(0, n) /\ ~(h.op = "frame" /\ h.n = n) => Coming(0, n)'
      /\ h.op = "frame" => \A n \in h.n + 1 .. Newest : Coming(0, n)'
  BY <1>1, SeenTaken
<1>4. \A n : ~Fetched(n)
  BY <1>1, IdleFields DEF Fetched
<1>5. MirrorSeen
  BY DEF SeenInv
<1>6. ASSUME job'.answer = Nothing PROVE AnswerSeen'
  BY <1>6, IdleFields DEF AnswerSeen
<1>7. ASSUME h.op \in {"update", "clear"}, UNCHANGED entry, job'.answer = Nothing
      PROVE  AnswerSeen' /\ MirrorSeen'
  <2>1. \A n \in 1 .. Newest : Coming(0, n) => Coming(0, n)'
    BY <1>3, <1>7
  <2> QED
    BY <1>0, <1>1, <1>4, <1>5, <1>6, <1>7, <2>1, MirrorKept
<1>8. CASE StartLoad
  <2>1. Get("load", h.slot, {})
    BY <1>8 DEF StartLoad
  <2>2. job'.op = "load" /\ job'.pc = "get" /\ job'.answer = Nothing
    BY <1>0, <2>1, GetFields
  <2> QED
    BY <1>0, <1>3, <2>2, AllFetched
<1>9. CASE StartUpdate
  <2>0. h.op = "update"
    BY <1>9 DEF StartUpdate, Turn
  <2>1. ASSUME Get("update", slot, {}) PROVE UNCHANGED entry /\ job'.answer = Nothing
    BY <1>0, <2>1, GetFields
  <2>2. UNCHANGED entry /\ job'.answer = Nothing
    BY <1>1, <1>9, <2>1, PostFields, IdleFields DEF StartUpdate
  <2> QED
    BY <1>3, <1>7, <2>0, <2>2
<1>10. CASE StartClear
  <2>1. h.op = "clear" /\ UNCHANGED entry
    BY <1>10 DEF StartClear, Turn
  <2>2. job'.answer = Nothing
    BY <1>1, <1>10, PostFields, IdleFields DEF StartClear
  <2> QED
    BY <1>3, <1>7, <2>1, <2>2
<1>11. CASE StartFrame
  <2>0. h.op = "frame" /\ h.n \in 0 .. Len(log)
    BY <1>0, <1>11, FramesTail DEF StartFrame, Turn, KvInv
  <2>1. Suppress(h) \/ Ask(h) \/ ApplyFrame(h)
    BY <1>11 DEF StartFrame
  <2> HIDE DEF h
  <2>2. ASSUME Suppress(h) PROVE AnswerSeen' /\ MirrorSeen'
    <3>1. PICK i \in DOMAIN echoes : echoes[i].cid = h.n
      BY <2>2 DEF Suppress
    <3>2. i \in 1 .. Len(echoes)
      <4>1. PICK S : echoes \in Seq(S)
        BY <1>0 DEF Echoes, IsSeq
      <4> QED
        BY <4>1
    <3>3. log'[h.n].own
      BY <1>0, <1>1, <3>1, <3>2 DEF Echoes, Mine
    <3>4. \A n : n = h.n => Coming(0, n)'
      BY <3>3 DEF Coming, Exempt
    <3>5. \A n \in 1 .. Newest : Coming(0, n) => Coming(0, n)'
      BY <1>3, <2>0, <3>4
    <3>6. UNCHANGED <<entry, job>>
      BY <2>2 DEF Suppress
    <3>7. AnswerSeen'
      BY <1>1, <1>6, <3>6, IdleFields
    <3> QED
      BY <1>0, <1>1, <1>4, <1>5, <3>5, <3>6, <3>7, MirrorKept
  <2>3. ASSUME Ask(h) PROVE AnswerSeen' /\ MirrorSeen'
    <3>1. Get("frame", slot, Conflicts)
      BY <2>3 DEF Ask
    <3>2. job'.op = "frame" /\ job'.pc = "get" /\ job'.answer = Nothing
      BY <1>0, <3>1, GetFields
    <3> QED
      BY <1>0, <3>2, AllFetched
  <2>4. ASSUME ApplyFrame(h) PROVE AnswerSeen' /\ MirrorSeen'
    <3>1. UNCHANGED job
      BY <2>4 DEF ApplyFrame
    <3>2. AnswerSeen'
      BY <1>1, <1>6, <3>1, IdleFields
    <3>3. entry'.status # "error" => entry'.value = Val(log, h.n)
      BY <1>0, <2>0, <2>4, MirrorFields DEF ApplyFrame
    <3>4. PICK k : k = h.n
      OBVIOUS
    <3>5. k \in Numbers' /\ Newest' = Newest /\ Value(k)' = Val(log, k)
      BY <1>1, <2>0, <3>4 DEF Numbers, Newest, Value, Val
    <3>6. \A n \in k + 1 .. Newest : Coming(0, n)'
      BY <1>3, <2>0, <3>4
    <3>7. entry'.status # "error" => SeenUpTo(k)'
      BY <3>3, <3>4, <3>5, <3>6 DEF SeenUpTo
    <3>8. MirrorSeen'
      BY <3>5, <3>7 DEF MirrorSeen
    <3> QED
      BY <3>2, <3>8
  <2> QED
    BY <1>3, <2>1, <2>2, <2>3, <2>4
<1> QED
  BY <1>8, <1>9, <1>10, <1>11 DEF Queue

\* A mirror for which all is coming.
LEMMA MirrorComing ==
  ASSUME KvInv', StatusInv', \A n \in 1 .. Newest' : Coming(0, n)'
  PROVE  MirrorSeen'
<1>1. (entry.value \in Numbers /\ entry.value = Value(entry.value))'
  <2>1. (KvInv /\ EntryOK => entry.value \in Numbers /\ entry.value = Value(entry.value))'
    BY DEF KvInv, Good, EntryOK, Numbers, Val, Value
  <2> QED
    BY <2>1 DEF StatusInv
<1>2. PICK k : k = entry'.value
  OBVIOUS
<1>3. k \in Numbers' /\ k \in Nat /\ entry'.value = Value(k)'
  BY <1>1, <1>2 DEF Numbers, KvInv, Kept
<1>4. \A n \in k + 1 .. Newest' : n \in 1 .. Newest'
  BY <1>3 DEF KvInv, Kept, Newest
<1> QED
  BY <1>3, <1>4 DEF MirrorSeen, SeenUpTo

LEMMA SeenLoadDone ==
  ASSUME AllInv, AllInv', SeenInv, LoadDone, active,
         \A n \in 1 .. Newest : Coming(0, n) => Coming(0, n)'
  PROVE  MirrorSeen'
<1> USE DEF netVars, boundVars
<1>0. /\ KvInv /\ StatusInv /\ KvInv' /\ StatusInv' /\ Kept(log) /\ Good(log, entry)
      /\ EntryOK /\ Asked(job) /\ job.answer.n \in 0 .. Len(log) /\ Len(log) \in Nat
      /\ Promised
  BY DEF AllInv, KvInv, StatusInv, JobOK, PendInv, Sent, Kept
<1>1. /\ job.pc = "get" /\ job.op \in {"load", "frame"} /\ job.answer.t # "wait"
      /\ entry' = GotLoad /\ UNCHANGED <<log, slot, lane>>
  BY <1>0 DEF LoadDone, Asked
<1>2. Newest' = Newest
  BY <1>1 DEF Newest
<1>3. ASSUME Loading(lane, 0) PROVE MirrorSeen'
  <2>1. \A n : Coming(0, n)'
    BY <1>1, <1>3 DEF Coming, Covered
  <2> QED
    BY <1>0, <2>1, MirrorComing
<1>4. CASE Stale
  BY <1>0, <1>1, <1>3, <1>4 DEF Stale, Promised, Outdated
<1>5. CASE ~Stale /\ job.answer.t = "got" /\ Accepted(slot, job.answer.n)
  <2>1. PICK k : k = job.answer.n
    OBVIOUS
  <2>2. k \in Numbers' /\ Value(k)' = Val(log, k)
    BY <1>0, <1>1, <2>1 DEF Numbers, Value, Val
  <2>3. entry'.value = Val(log, k)
    BY <1>0, <1>1, <1>5, <2>1, LoadFields
  <2>4. ASSUME NEW n \in k + 1 .. Newest PROVE Coming(0, n)'
    <3>1. n \in 1 .. Newest /\ Coming(0, n)
      BY <1>0, <1>5, <2>1 DEF SeenInv, AnswerSeen, Newest
    <3> QED
      BY <3>1
  <2> QED
    BY <1>2, <2>2, <2>3, <2>4 DEF MirrorSeen, SeenUpTo
<1>6. CASE ~Stale /\ ~(job.answer.t = "got" /\ Accepted(slot, job.answer.n))
  <2>1. GotLoad = IF job.op = "frame" THEN Restored ELSE Marked("error")
    BY <1>0, <1>6, LoadFields
  <2>2. CASE job.op = "load"
    <3>1. entry'.status = "error"
      BY <1>0, <1>1, <2>1, <2>2, MirrorFields
    <3> QED
      BY <3>1 DEF MirrorSeen
  <2>3. CASE job.op = "frame"
    <3>1. job.answer.t = "got" /\ ~Accepted(slot, job.answer.n)
      BY <1>0, <1>1, <1>6, <2>3 DEF Asked
    <3>2. ~Plain(job.answer.n)
      BY <1>0, <3>1 DEF Plain, StatusInv
    <3>3. ASSUME NEW n \in 1 .. Newest PROVE Coming(0, n)
      <4>1. CASE n <= job.answer.n
        <5>1. job.answer.n \in n .. Newest
          BY <1>0, <4>1 DEF Newest
        <5> QED
          BY <3>2, <5>1 DEF Coming, Exempt
      <4>2. CASE n > job.answer.n
        <5>1. n \in job.answer.n + 1 .. Newest
          BY <1>0, <4>2 DEF Newest
        <5> QED
          BY <3>1, <5>1 DEF SeenInv, AnswerSeen
      <4> QED
        BY <1>0, <4>1, <4>2 DEF Newest
    <3> QED
      BY <1>0, <1>2, <3>3, MirrorComing
  <2> QED
    BY <1>1, <2>2, <2>3
<1> QED
  BY <1>4, <1>5, <1>6

LEMMA SeenRequest ==
  ASSUME AllInv, AllInv', SeenInv, Calm, Request PROVE SeenInv'
<1> USE DEF netVars, mirrorVars, laneVars, boundVars
<1>0. /\ KvInv /\ StatusInv /\ PendInv /\ KvInv' /\ StatusInv' /\ Kept(log)
      /\ Good(log, entry) /\ EntryOK /\ Asked(job) /\ job.answer.n \in 0 .. Len(log)
      /\ Len(log) \in Nat
  BY DEF AllInv, KvInv, StatusInv, JobOK, Sent, Kept
<1>1. UNCHANGED <<lane, refresh, active, slot, link, isNew>>
  BY DEF Request, ServeGet, ServePost, RequestFails, LoadDone, ReloadDone, Succeeded, Refused,
     WriteFails
<1>2. job.pc = "post" => \A n : ~Fetched(n)
  BY DEF Fetched
<1>3. ASSUME NEW t, NEW n, Answer(t, n)
      PROVE  /\ job'.op = job.op /\ job'.pc = job.pc
             /\ job'.answer.t = t /\ job'.answer.n = n
  <2>1. job'.op = job.op /\ job'.pc = job.pc /\ job'.answer = [t |-> t, n |-> n]
    BY <1>0, <1>3, AnswerFields DEF KvInv
  <2> QED
    BY <2>1
<1>4. ASSUME ServePost, Commit(Written(job.data, TRUE, job.basis), TRUE),
             Answer("ok", Newest + 1)
      PROVE  SeenInv'
  <2>1. PICK w : Commit(w, TRUE) /\ w.own
    <3>1. Written(job.data, TRUE, job.basis).own
      BY DEF Written
    <3> QED
      BY <1>4, <3>1
  <2>2. job.pc = "post" /\ UNCHANGED entry
    BY <1>4 DEF ServePost
  <2>3. \A n : Fetched(n) => Fetched(n)'
    BY <1>2, <2>2
  <2>4. WireSeen' /\ Newest' = Newest + 1 /\ (active => FrameSeen' /\ MirrorSeen')
    BY <1>0, <1>1, <2>1, <2>2, <2>3, SeenCommit
  <2>5. job'.answer.n = Newest'
    BY <1>3, <1>4, <2>4
  <2>6. AnswerSeen'
    BY <1>0, <2>4, <2>5 DEF AnswerSeen, Newest
  <2> QED
    BY <1>1, <2>4, <2>6 DEF SeenInv
<1>5. ASSUME UNCHANGED <<log, wire>>, ServePost => Answer("conflict", Newest)
      PROVE  SeenInv'
  <2>0. UNCHANGED <<log, wire>>
    BY <1>5
  <2>1. /\ WireSeen' /\ (active => FrameSeen')
        /\ \A n \in 1 .. Newest : Coming(0, n) => Coming(0, n)'
    BY <1>0, <1>1, <2>0, SeenSame
  <2> SUFFICES ASSUME active PROVE AnswerSeen' /\ MirrorSeen'
    BY <1>1, <2>1 DEF SeenInv
  <2>2. AnswerSeen /\ MirrorSeen /\ Promised
    BY <1>0 DEF SeenInv, PendInv
  <2>3. ASSUME job'.answer = Nothing PROVE AnswerSeen'
    BY <2>3, IdleFields DEF AnswerSeen
  <2>4. ASSUME UNCHANGED entry,
               \A n \in 1 .. Newest : Fetched(n) => Fetched(n)'
        PROVE  MirrorSeen'
    BY <1>0, <2>0, <2>1, <2>2, <2>4, MirrorKept
  <2>5. CASE ServeGet
    <3>1. Answer("got", Newest) /\ UNCHANGED entry
      BY <2>5 DEF ServeGet
    <3>2. \A n \in 1 .. Newest : Fetched(n) => Fetched(n)'
      BY <1>0, <1>3, <3>1 DEF Fetched, Newest
    <3>3. AnswerSeen'
      BY <1>0, <1>3, <2>0, <2>1, <2>2, <3>1, AnswerKept
    <3> QED
      BY <2>4, <3>1, <3>2, <3>3
  <2>6. CASE ServePost
    <3>1. job.pc = "post" /\ UNCHANGED entry
      BY <2>6 DEF ServePost
    <3>2. ASSUME NEW t, NEW n, Answer(t, n), t = "conflict" PROVE AnswerSeen'
      BY <1>3, <3>2 DEF AnswerSeen
    <3>4. AnswerSeen'
      BY <1>5, <2>6, <3>2
    <3> QED
      BY <1>2, <2>4, <3>1, <3>4
  <2>7. CASE RequestFails
    <3>1. Answer("fail", 0) /\ UNCHANGED entry /\ job.answer.t \in {"wait", "ok"}
      BY <2>7 DEF RequestFails
    <3>2. \A n \in 1 .. Newest : Fetched(n) => Fetched(n)'
      BY <1>3, <3>1 DEF Fetched
    <3>3. AnswerSeen'
      BY <1>3, <3>1 DEF AnswerSeen
    <3> QED
      BY <2>4, <3>1, <3>2, <3>3
  <2>8. CASE LoadDone
    <3>1. job'.answer = Nothing
      BY <2>8, IdleFields DEF LoadDone
    <3> QED
      BY <2>1, <2>3, <2>8, <3>1, SeenLoadDone
  <2>9. CASE ReloadDone
    <3>1. entry'.status = entry.status
      <4>1. GotLoad = [value |-> GotLoad.value, etag |-> GotLoad.etag,
                       status |-> GotLoad.status]
        BY <1>0, LoadGood DEF KvInv, Good
      <4>2. [GotLoad EXCEPT !.status = entry.status].status = entry.status
        BY <4>1
      <4> QED
        BY <2>9, <4>2 DEF ReloadDone, Reloaded
    <3>2. job'.answer = Nothing
      BY <2>9, PostFields, IdleFields DEF ReloadDone
    <3>3. CASE entry.status = "error"
      BY <2>3, <3>1, <3>2, <3>3 DEF MirrorSeen
    <3>4. CASE Loading(lane, 0)
      <4>1. \A n : Coming(0, n)'
        BY <1>1, <3>4 DEF Coming, Covered
      <4> QED
        BY <1>0, <2>3, <3>2, <4>1, MirrorComing
    <3>5. entry.status = "error" \/ Loading(lane, 0)
      BY <2>2, <2>9 DEF ReloadDone, Promised, UpdateOK
    <3> QED
      BY <2>3, <3>2, <3>3, <3>4, <3>5
  <2>10. CASE Succeeded
    <3>1. job.answer.t = "ok" /\ job.pc = "post" /\ job'.answer = Nothing
      BY <1>0, <2>10, IdleFields DEF Succeeded, Asked
    <3>2. CASE UNCHANGED entry
      BY <1>2, <2>3, <2>4, <3>1, <3>2
    <3>3. CASE entry' = Mirrored(job.answer.n, job.answer.n)
      <4>1. PICK k : k = job.answer.n
        OBVIOUS
      <4>2. k \in Numbers' /\ Value(k)' = Val(log, k) /\ Newest' = Newest
        BY <1>0, <2>0, <4>1 DEF Numbers, Value, Val, Newest
      <4>3. entry'.value = Val(log, k)
        BY <1>0, <3>3, <4>1, MirrorFields
      <4>4. ASSUME NEW n \in k + 1 .. Newest PROVE Coming(0, n)'
        <5>1. n \in 1 .. Newest /\ Coming(0, n)
          BY <1>0, <2>2, <3>1, <4>1 DEF AnswerSeen, Newest
        <5> QED
          BY <2>1, <5>1
      <4>5. MirrorSeen'
        BY <4>2, <4>3, <4>4 DEF MirrorSeen, SeenUpTo
      <4> QED
        BY <2>3, <3>1, <4>5
    <3> QED
      BY <2>10, <3>2, <3>3 DEF Succeeded
  <2>11. CASE Refused \/ WriteFails
    <3>1. job.pc = "post" /\ UNCHANGED entry
      BY <1>0, <2>11 DEF Refused, WriteFails, Asked
    <3>2. job'.answer = Nothing
      BY <2>11, IdleFields DEF Refused, WriteFails, Retry, KvInv, Sent, AllInv
    <3> QED
      BY <1>2, <2>3, <2>4, <3>1, <3>2
  <2> QED
    BY <2>5, <2>6, <2>7, <2>8, <2>9, <2>10, <2>11 DEF Request
<1>6. CASE ServePost
  BY <1>4, <1>5, <1>6 DEF ServePost
<1>7. CASE ~ServePost
  <2>1. UNCHANGED <<log, wire>>
    BY <1>7 DEF Request, ServeGet, RequestFails, LoadDone, ReloadDone, Succeeded, Refused,
       WriteFails
  <2> QED
    BY <1>5, <1>7, <2>1
<1> QED
  BY <1>6, <1>7

LEMMA AllInvStep == ASSUME AllInv, Calm, [Next]_vars PROVE AllInv'
<1>1. KvInv'
  BY OthersWriteStep, ApplicationStep, ConnectionStep, QueueStep, RequestStep,
     StutterStep DEF AllInv, Next
<1> QED
  BY <1>1, StatusStep, PendStep, OwnStep DEF AllInv

LEMMA SeenStep == ASSUME AllInv, AllInv', SeenInv, Calm, [Next]_vars PROVE SeenInv'
<1>1. CASE UNCHANGED vars
  BY <1>1 DEF SeenInv, WireSeen, FrameSeen, AnswerSeen, MirrorSeen, SeenUpTo, Coming, Exempt,
     Plain, Accepted, Covered, Due, Fetched, Newest, Numbers, Value, vars, netVars,
     mirrorVars, laneVars
<1> QED
  BY <1>1, SeenOthers, SeenApplication, SeenConnection, SeenQueue, SeenRequest
     DEF Next, AllInv

LEMMA SeenAlways == ASSUME Calm PROVE Spec => [](AllInv /\ SeenInv)
<1>1. Init => AllInv /\ SeenInv
  <2> SUFFICES ASSUME Init PROVE AllInv /\ SeenInv
    OBVIOUS
  <2>1. WireSeen /\ ~active
    BY NoneWaits DEF Init, WireSeen
  <2> QED
    BY <2>1, InitInv, StatusInit, PendInit, OwnInit DEF AllInv, SeenInv
<1>2. AllInv /\ SeenInv /\ [Next]_vars => (AllInv /\ SeenInv)'
  BY AllInvStep, SeenStep
<1> QED
  BY <1>1, <1>2, PTL DEF Spec

\* Nothing is in the queue, on the wire or under way: so nothing is coming.
LEMMA SeenAtRest == ASSUME AllInv, SeenInv PROVE OthersSeen
<1> SUFFICES ASSUME Quiet, entry.status # "error"
             PROVE  /\ entry.status \in {"loaded", "non-init"}
                    /\ \E k \in Numbers : SeenUpTo(k) /\ \A n \in k + 1 .. Newest : Exempt(n)
  BY DEF OthersSeen, SeenUpTo, Exempt
<1>1. /\ active /\ link /\ ~refresh /\ wire = <<>> /\ lane = <<>> /\ job.pc = "idle"
  BY IdleFields DEF Quiet
<1>2. /\ entry.status \in Statuses /\ entry.status # "none" /\ entry.status # "loading"
      /\ MirrorSeen
  <2>1. ~Loading(lane, 0)
    BY <1>1, NoneWaits
  <2> QED
    BY <1>1, <2>1 DEF AllInv, StatusInv, EntryOK, PendInv, Promised, Reloads, SeenInv
<1>3. \A n : ~Fetched(n) /\ (Coming(0, n) => Exempt(n))
  BY <1>1, NoneWaits DEF Fetched, Coming, Covered, Due
<1>4. PICK k \in Numbers : SeenUpTo(k)
  BY <1>2 DEF MirrorSeen
<1>5. \A n \in k + 1 .. Newest : Exempt(n)
  BY <1>3, <1>4 DEF SeenUpTo
<1> QED
  BY <1>2, <1>4, <1>5 DEF Statuses

\* Once the queue, the wire and the requests are done with, a slot that is not in error
\* shows every write of the others up to the last that a schema refuses, whatever was
\* lost, retried, redefined, released, or taken for an echo meanwhile (_handleRemote,
\* _loadSlotNow, recordEchoCID, _onReconnect), in the absence of three faults: frames
\* that are missed before the subscription, a frame's request that fails, and a slot in
\* error that is redefined.
THEOREM OthersSeenAlways ==
  ASSUME {"gap", "refetch", "recover"} \cap Disturbances = {}
  PROVE  Spec => []OthersSeen
<1>1. AllInv /\ SeenInv => OthersSeen
  BY SeenAtRest
<1>2. Spec => [](AllInv /\ SeenInv)
  BY SeenAlways DEF Calm
<1> QED
  BY <1>1, <1>2, PTL

-----------------------------------------------------------------------------
(***************************************************************************)
(* Type correctness.  KvInv says which numbers there can be; what is left  *)
(* is the kind of each variable, that the mirror of a contract that is     *)
(* followed has an entry, and so that what a load would put back is one    *)
(* (Prior), and that the echoes do not exceed their limit.                 *)
(***************************************************************************)
StatusOK == entry.status \in Statuses /\ (active => entry.status # "none")
Prior == job.op \in {"load", "frame"} => job.prior # "none"
WorkOK == job \in JobType /\ Prior
EchoOK == echoes \in Seq(EchoType) /\ Len(echoes) <= EchoMax
LogOK == log \in Seq(WriteType) /\ wire \in Seq(FrameType)
LaneOK == lane \in Seq(TaskType)
LineOK ==
  /\ link \in BOOLEAN /\ isNew \in BOOLEAN /\ sub \in BOOLEAN /\ active \in BOOLEAN
  /\ slot \in Slots /\ refresh \in BOOLEAN
  /\ calls \in 0 .. CallBound /\ budget \in 0 .. DisturbBound

KindInv == StatusOK /\ WorkOK /\ EchoOK /\ LogOK /\ LaneOK /\ LineOK

LEMMA KindTypes == ASSUME KvInv, KindInv PROVE TypeOK
<1>1. /\ entry = [value |-> entry.value, etag |-> entry.etag, status |-> entry.status]
      /\ entry.value \in Numbers /\ entry.etag \in Numbers /\ Len(log) \in Nat
  BY DEF KvInv, Good, Kept, Numbers
<1>2. entry.value \in Nat /\ entry.etag \in Nat /\ entry.status \in Statuses
  BY <1>1 DEF Numbers, KindInv, StatusOK
<1>3. entry \in EntryType
  BY <1>1, <1>2 DEF EntryType
<1> QED
  BY <1>1, <1>3 DEF KindInv, StatusOK, WorkOK, EchoOK, LogOK, LaneOK, LineOK, TypeOK

LEMMA LineStep == ASSUME LineOK, [Next]_vars PROVE LineOK'
<1> USE DEF netVars, mirrorVars, laneVars, boundVars
<1>0. MaxSlot \in Nat /\ CallBound \in Nat /\ DisturbBound \in Nat
  BY SlotsAssumption, BoundAssumption
<1>1. UNCHANGED budget \/ \E k : Disturb(k)
  <2>1. CASE OthersWrite
    BY <2>1 DEF OthersWrite
  <2>2. CASE Application
    BY <2>2 DEF Application, Reconcile, CleanupContractRuntime, DefineSlot, Restart, Call
  <2>3. CASE Connection
    BY <2>3 DEF Connection, Open, SubHandled, OnContractResynced, Disconnect, Receive, EchoExpires
  <2>4. CASE Queue
    BY <2>4 DEF Queue, StartLoad, StartUpdate, StartClear, StartFrame
  <2>5. CASE Request
    BY <2>5 DEF Request, ServeGet, ServePost, RequestFails, LoadDone, ReloadDone, Succeeded,
       Refused, WriteFails
  <2>6. CASE UNCHANGED vars
    BY <2>6 DEF vars
  <2> QED
    BY <2>1, <2>2, <2>3, <2>4, <2>5, <2>6 DEF Next
<1>2. budget' \in 0 .. DisturbBound
  BY <1>0, <1>1 DEF LineOK, Disturb
<1>3. UNCHANGED calls \/ (calls < CallBound /\ calls' = calls + 1)
  BY DEF Next, OthersWrite, Application, Reconcile, CleanupContractRuntime, DefineSlot, Restart,
     Call, Connection, Open, SubHandled, OnContractResynced, Disconnect, Receive, EchoExpires,
     Queue, StartLoad, StartUpdate, StartClear, StartFrame, Request, ServeGet, ServePost,
     RequestFails, LoadDone, ReloadDone, Succeeded, Refused, WriteFails, vars
<1>4. calls' \in 0 .. CallBound
  BY <1>0, <1>3 DEF LineOK
<1>5. UNCHANGED slot \/ (slot < MaxSlot /\ slot' = slot + 1)
  BY DEF Next, OthersWrite, Application, Reconcile, CleanupContractRuntime, DefineSlot, Restart,
     Call, Connection, Open, SubHandled, OnContractResynced, Disconnect, Receive, EchoExpires,
     Queue, StartLoad, StartUpdate, StartClear, StartFrame, Request, ServeGet, ServePost,
     RequestFails, LoadDone, ReloadDone, Succeeded, Refused, WriteFails, vars
<1>6. slot' \in Slots
  BY <1>0, <1>5 DEF LineOK, Slots
<1>7. /\ link' \in BOOLEAN /\ isNew' \in BOOLEAN /\ sub' \in BOOLEAN
      /\ active' \in BOOLEAN /\ refresh' \in BOOLEAN
  <2> USE DEF LineOK
  <2>1. CASE UNCHANGED <<link, isNew, sub, active, refresh>>
    BY <2>1
  <2>2. CASE OthersWrite \/ Queue \/ Request \/ UNCHANGED vars
    BY <2>1, <2>2 DEF OthersWrite, Queue, StartLoad, StartUpdate, StartClear, StartFrame, Request,
       ServeGet, ServePost, RequestFails, LoadDone, ReloadDone, Succeeded, Refused, WriteFails, vars
  <2>3. CASE Application
    BY <2>1, <2>3 DEF Application, Reconcile, CleanupContractRuntime, DefineSlot, Restart, Call
  <2>4. CASE Open
    BY <2>4 DEF Open
  <2>5. CASE Connection /\ ~Open
    BY <2>1, <2>5 DEF Connection, SubHandled, OnContractResynced, Disconnect, Receive, EchoExpires
  <2> QED
    BY <2>2, <2>3, <2>4, <2>5 DEF Next
<1> QED
  BY <1>2, <1>4, <1>6, <1>7 DEF LineOK

LEMMA TaskKinds ==
  /\ \A s \in Slots : Load(s) \in TaskType
  /\ \A s \in Slots : \A op \in {"update", "clear", "load"} :
       [op |-> op, n |-> 0, cid |-> FALSE, slot |-> s] \in TaskType
  /\ FrameType \subseteq TaskType
  /\ \A n \in Nat, c \in BOOLEAN : Frame(n, c) \in FrameType
  /\ 0 \in Slots
BY SlotsAssumption DEF Load, TaskType, FrameType, Ops, Frame, Slots

LEMMA LaneStep == ASSUME LaneOK, LogOK, LineOK, LineOK', [Next]_vars PROVE LaneOK'
<1> USE DEF LaneOK, netVars, mirrorVars, laneVars, boundVars
<1>0. slot \in Slots /\ slot' \in Slots /\ wire \in Seq(FrameType)
  BY DEF LineOK, LogOK
<1>1. CASE UNCHANGED lane
  BY <1>1
<1>2. ASSUME NEW t \in TaskType, lane' = Append(lane, t) PROVE LaneOK'
  BY <1>2
<1>3. CASE lane # <<>> /\ lane' = Tail(lane)
  BY <1>3
<1>4. CASE lane' = <<>>
  BY <1>4
<1>5. CASE Application
  <2>1. \/ UNCHANGED lane \/ lane' = <<>>
        \/ lane' = Append(lane, Load(slot)) \/ lane' = Append(lane, Load(slot'))
        \/ \E op \in {"update", "clear", "load"} :
             lane' = Append(lane, [op |-> op, n |-> 0, cid |-> FALSE, slot |-> slot])
    BY <1>5 DEF Application, Reconcile, CleanupContractRuntime, DefineSlot, Restart, Call
  <2> QED
    BY <2>1, <1>0, <1>1, <1>2, <1>4, TaskKinds
<1>6. CASE Connection
  <2>1. CASE Receive
    <3>1. Head(wire) \in TaskType
      BY <1>0, <2>1, TaskKinds DEF Receive
    <3> QED
      BY <2>1, <3>1, <1>1, <1>2 DEF Receive
  <2>2. UNCHANGED lane \/ lane' = Append(lane, Load(slot)) \/ Receive
    BY <1>6 DEF Connection, Open, SubHandled, OnContractResynced, Disconnect, EchoExpires
  <2> QED
    BY <2>1, <2>2, <1>0, <1>1, <1>2, TaskKinds
<1>7. CASE Queue
  BY <1>3, <1>7 DEF Queue, StartLoad, StartUpdate, StartClear, StartFrame, Turn
<1>8. CASE OthersWrite \/ Request \/ UNCHANGED vars
  BY <1>1, <1>8 DEF OthersWrite, Request, ServeGet, ServePost, RequestFails, LoadDone, ReloadDone,
     Succeeded, Refused, WriteFails, vars
<1> QED
  BY <1>5, <1>6, <1>7, <1>8 DEF Next

LEMMA LogStep == ASSUME LogOK, WorkOK, [Next]_vars PROVE LogOK'
<1> USE DEF LogOK, netVars, mirrorVars, laneVars, boundVars
<1>1. ASSUME NEW w \in WriteType, NEW c \in BOOLEAN, Commit(w, c) PROVE LogOK'
  <2>1. Len(log) + 1 \in Nat
    OBVIOUS
  <2>2. Frame(Newest + 1, c) \in FrameType
    BY <2>1, TaskKinds DEF Newest
  <2> QED
    BY <2>2, <1>1 DEF Commit
<1>2. CASE UNCHANGED <<log, wire>>
  BY <1>2
<1>3. CASE UNCHANGED log /\ wire' = <<>>
  BY <1>3
<1>4. CASE OthersWrite
  <2>1. \A d \in Shapes \union {"clear"} : Written(d, FALSE, 0) \in WriteType
    BY DEF Written, WriteType
  <2> QED
    BY <2>1, <1>1, <1>4 DEF OthersWrite
<1>5. CASE ServePost
  <2>1. Written(job.data, TRUE, job.basis) \in WriteType
    BY DEF Written, WriteType, WorkOK, JobType
  <2> QED
    BY <2>1, <1>1, <1>2, <1>5 DEF ServePost
<1>6. CASE Receive
  BY <1>6 DEF Receive
<1>7. CASE Application
  BY <1>2, <1>3, <1>7 DEF Application, Reconcile, CleanupContractRuntime, DefineSlot, Restart, Call
<1>8. CASE Connection
  BY <1>2, <1>3, <1>6, <1>8 DEF Connection, Open, SubHandled, OnContractResynced, Disconnect, EchoExpires
<1>9. CASE Queue \/ UNCHANGED vars
  BY <1>2, <1>9 DEF Queue, StartLoad, StartUpdate, StartClear, StartFrame, vars
<1>10. CASE Request
  BY <1>2, <1>5, <1>10 DEF Request, ServeGet, RequestFails, LoadDone, ReloadDone, Succeeded, Refused, WriteFails
<1> QED
  BY <1>4, <1>7, <1>8, <1>9, <1>10 DEF Next

LEMMA RemoveType ==
  ASSUME NEW T, NEW s \in Seq(T), NEW i \in 1 .. Len(s)
  PROVE  RemoveAt(s, i) \in Seq(T) /\ Len(RemoveAt(s, i)) = Len(s) - 1
<1> DEFINE a == SubSeq(s, 1, i - 1)
           b == SubSeq(s, i + 1, Len(s))
<1>1. Len(s) \in Nat /\ \A j \in 1 .. Len(s) : s[j] \in T
  OBVIOUS
<1>2. a \in Seq(T) /\ Len(a) = i - 1
  <2>1. 1 \in Int /\ i - 1 \in Int /\ \A j \in 1 .. i - 1 : s[j] \in T
    BY <1>1
  <2> QED
    BY <1>1, <2>1, SubSeqProperties
<1>3. b \in Seq(T) /\ Len(b) = Len(s) - i
  <2>1. i + 1 \in Int /\ Len(s) \in Int /\ \A j \in i + 1 .. Len(s) : s[j] \in T
    BY <1>1
  <2> QED
    BY <1>1, <2>1, SubSeqProperties
<1>4. RemoveAt(s, i) = a \o b
  BY DEF RemoveAt
<1> HIDE DEF a, b
<1>5. a \o b \in Seq(T) /\ Len(a \o b) = Len(a) + Len(b)
  BY <1>2, <1>3, ConcatProperties
<1> QED
  BY <1>1, <1>2, <1>3, <1>4, <1>5

\* The limit holds: over it, one echo goes for each that comes.
LEMMA RecordedType == ASSUME EchoOK, WorkOK, NEW n \in Nat
                      PROVE  Recorded(n) \in Seq(EchoType) /\ Len(Recorded(n)) <= EchoMax
<1> DEFINE t == [cid |-> n, conflict |-> job.conflict]
           all == Append(echoes, t)
           plain == {i \in DOMAIN echoes : ~echoes[i].conflict}
<1>1. t \in EchoType
  BY DEF WorkOK, JobType, EchoType
<1>2. EchoMax \in Nat /\ echoes \in Seq(EchoType) /\ Len(echoes) \in Nat /\ Len(echoes) <= EchoMax
  BY BoundAssumption DEF EchoOK
<1> HIDE DEF t
<1>3. all \in Seq(EchoType) /\ Len(all) = Len(echoes) + 1
  BY <1>1, <1>2
<1>4. plain \in SUBSET Nat /\ plain \subseteq 1 .. Len(echoes)
  BY <1>2
<1>5. Recorded(n) = IF Len(all) <= EchoMax THEN all
                    ELSE RemoveAt(all, IF plain = {} THEN 1 ELSE Min(plain))
  BY DEF Recorded, t
<1> HIDE DEF all, plain
<1>6. (IF plain = {} THEN 1 ELSE Min(plain)) \in 1 .. Len(all)
  <2>1. CASE plain = {}
    BY <1>2, <1>3, <2>1
  <2>2. CASE plain # {}
    <3>1. Min(plain) \in 1 .. Len(echoes)
      BY <1>4, <2>2, LeastOf
    <3> QED
      BY <1>2, <1>3, <2>2, <3>1
  <2> QED
    BY <2>1, <2>2
<1> DEFINE less == RemoveAt(all, IF plain = {} THEN 1 ELSE Min(plain))
<1>7. less \in Seq(EchoType) /\ Len(less) = Len(all) - 1
  BY <1>3, <1>6, RemoveType
<1> HIDE DEF less
<1> QED
  BY <1>2, <1>3, <1>5, <1>7 DEF less

LEMMA DemotedType ==
  ASSUME EchoOK PROVE Demoted \in Seq(EchoType) /\ Len(Demoted) = Len(echoes)
<1>1. Len(echoes) \in Nat /\ DOMAIN echoes = 1 .. Len(echoes)
  BY DEF EchoOK
<1>2. ASSUME NEW i \in 1 .. Len(echoes)
      PROVE  [echoes[i] EXCEPT !.conflict = @ /\ echoes[i].cid \notin job.marks] \in EchoType
  <2>1. echoes[i] \in EchoType
    BY <1>1 DEF EchoOK
  <2> DEFINE e == echoes[i]
             c == e.conflict /\ e.cid \notin job.marks
  <2>2. c \in BOOLEAN
    OBVIOUS
  <2>3. [e EXCEPT !.conflict = c] \in EchoType
    <3> HIDE DEF c, e
    <3>1. e \in EchoType
      BY <2>1 DEF e
    <3> QED
      BY <2>2, <3>1 DEF EchoType
  <2> QED
    BY <2>3
<1>3. Demoted \in [1 .. Len(echoes) -> EchoType]
  BY <1>1, <1>2 DEF Demoted
<1> QED
  BY <1>1, <1>3

LEMMA EchoStep == ASSUME EchoOK, WorkOK, [Next]_vars PROVE EchoOK'
<1> USE DEF netVars, mirrorVars, laneVars, boundVars
<1>0. EchoMax \in Nat
  BY BoundAssumption
<1>1. CASE UNCHANGED echoes
  BY <1>1 DEF EchoOK
<1>2. CASE echoes' = <<>>
  BY <1>0, <1>2 DEF EchoOK
<1>3. CASE echoes # <<>> /\ echoes' = Tail(echoes)
  BY <1>0, <1>3 DEF EchoOK
<1>4. ASSUME NEW i \in DOMAIN echoes, echoes' = RemoveAt(echoes, i) PROVE EchoOK'
  <2>1. i \in 1 .. Len(echoes) /\ echoes \in Seq(EchoType) /\ Len(echoes) <= EchoMax
        /\ Len(echoes) \in Nat
    BY DEF EchoOK
  <2>2. echoes' \in Seq(EchoType) /\ Len(echoes') = Len(echoes) - 1
    BY <1>4, <2>1, RemoveType
  <2> QED
    BY <1>0, <2>1, <2>2 DEF EchoOK
<1>5. CASE Application
  BY <1>1, <1>2, <1>5 DEF Application, Reconcile, CleanupContractRuntime, DefineSlot, Restart, Call
<1>6. CASE Connection
  BY <1>1, <1>2, <1>3, <1>6
  DEF Connection, Open, SubHandled, OnContractResynced, Disconnect, Receive, EchoExpires
<1>7. CASE Queue
  <2>1. UNCHANGED echoes \/ \E i \in DOMAIN echoes : echoes' = RemoveAt(echoes, i)
    BY <1>7 DEF Queue, StartLoad, StartUpdate, StartClear, StartFrame, Suppress, Ask, ApplyFrame
  <2> QED
    BY <2>1, <1>1, <1>4
<1>8. CASE LoadDone
  BY <1>8, DemotedType DEF LoadDone, EchoOK
<1>9. CASE Succeeded
  <2>1. job.answer.n \in Nat
    BY DEF WorkOK, JobType
  <2> QED
    BY <1>9, <2>1, RecordedType DEF Succeeded, EchoOK
<1>10. CASE OthersWrite \/ ServeGet \/ ServePost \/ RequestFails \/ ReloadDone \/ Refused
             \/ WriteFails \/ UNCHANGED vars
  BY <1>1, <1>10 DEF OthersWrite, ServeGet, ServePost, RequestFails, ReloadDone, Refused,
     WriteFails, vars
<1> QED
  BY <1>5, <1>6, <1>7, <1>8, <1>9, <1>10 DEF Next, Request

-----------------------------------------------------------------------------
\* The request under way.
LEMMA IdleType == Idle \in JobType /\ Idle.op = "none"
<1>1. 0 \in Slots /\ "none" \in Statuses
  BY TaskKinds DEF Statuses
<1> QED
  BY <1>1 DEF Idle, JobType, Nothing

LEMMA GetType ==
  ASSUME NEW op \in Ops, NEW s \in Slots, NEW marks \in SUBSET Nat, Get(op, s, marks),
         entry.status \in Statuses
  PROVE  job' \in JobType /\ job'.op = op /\ job'.prior = entry.status
<1>1. job' = [op |-> op, slot |-> s, pc |-> "get", prior |-> entry.status, marks |-> marks,
              data |-> "clear", basis |-> 0, ifm |-> 0, tries |-> 0, conflict |-> FALSE,
              answer |-> Nothing]
  BY DEF Get, Idle
<1> QED
  BY <1>1 DEF JobType, Nothing

LEMMA PostType ==
  ASSUME NEW op \in {"update", "clear"}, NEW s \in Slots, NEW d \in Shapes \union {"clear"},
         NEW b \in Nat, NEW e \in Nat, Post(op, s, d, b, e)
  PROVE  WorkOK'
<1>1. job' = [op |-> op, slot |-> s, pc |-> "post", prior |-> "none", marks |-> {},
              data |-> d, basis |-> b, ifm |-> e, tries |-> MaxAttempts, conflict |-> FALSE,
              answer |-> Nothing]
  BY DEF Post, Idle
<1>2. MaxAttempts \in Nat /\ "none" \in Statuses /\ op \in Ops
  BY BoundAssumption DEF Statuses, Ops
<1> QED
  BY <1>1, <1>2 DEF WorkOK, Prior, JobType, Nothing

LEMMA AnswerType ==
  ASSUME WorkOK, NEW t \in {"wait", "got", "ok", "conflict", "fail"}, NEW n \in Nat, Answer(t, n)
  PROVE  WorkOK'
<1>1. [t |-> t, n |-> n] \in [t : {"wait", "got", "ok", "conflict", "fail"}, n : Nat]
  OBVIOUS
<1>2. job' \in JobType /\ job'.op = job.op /\ job'.prior = job.prior
  BY <1>1 DEF Answer, WorkOK, JobType
<1> QED
  BY <1>2 DEF WorkOK, Prior

LEMMA RetryType == ASSUME KvInv, WorkOK, Retry, job.tries > 1 PROVE WorkOK'
<1>1. job' = [op |-> job.op, slot |-> job.slot, pc |-> job.pc, prior |-> job.prior,
              marks |-> job.marks, data |-> job.data,
              basis |-> IF job.op = "update" THEN Value(job.answer.n) ELSE 0,
              ifm |-> job.answer.n, tries |-> job.tries - 1, conflict |-> TRUE,
              answer |-> Nothing]
  BY DEF Retry, KvInv, Sent
<1>2. /\ job.op \in Ops \union {"none"} /\ job.slot \in Slots
      /\ job.pc \in {"idle", "get", "post"} /\ job.prior \in Statuses
      /\ job.marks \in SUBSET Nat /\ job.data \in Shapes \union {"clear"}
      /\ job.answer.n \in Nat /\ job.tries - 1 \in Nat
  BY DEF WorkOK, JobType
<1>3. (IF job.op = "update" THEN Value(job.answer.n) ELSE 0) \in Nat
  BY <1>2 DEF Value
<1>4. job' \in JobType
  BY <1>1, <1>2, <1>3 DEF JobType, Nothing
<1>5. job'.op = job.op /\ job'.prior = job.prior
  BY <1>1
<1> QED
  BY <1>4, <1>5 DEF WorkOK, Prior

LEMMA WorkQueue ==
  ASSUME StatusOK, WorkOK, EchoOK, LaneOK, LineOK, KvInv, Queue PROVE WorkOK'
<1>0. /\ slot \in Slots /\ entry.status \in Statuses /\ (active => entry.status # "none")
      /\ entry.value \in Nat /\ entry.etag \in Nat /\ 0 \in Nat
      /\ Accepts[slot] \subseteq Shapes
  BY SlotsAssumption DEF LineOK, StatusOK, KvInv, Good, Kept
<1>1. CASE UNCHANGED job
  BY <1>1 DEF WorkOK, Prior
<1>2. ASSUME active, NEW op \in Ops, NEW s \in Slots, NEW m \in SUBSET Nat, Get(op, s, m)
      PROVE  WorkOK'
  BY <1>0, <1>2, GetType DEF WorkOK, Prior
<1>3. CASE StartLoad
  <2>1. Head(lane).slot \in Slots
    <3>1. Head(lane) \in TaskType
      BY <1>3 DEF StartLoad, Turn, LaneOK
    <3> QED
      BY <3>1 DEF TaskType
  <2>2. "load" \in Ops /\ {} \in SUBSET Nat
    BY DEF Ops
  <2> QED
    BY <1>1, <1>2, <1>3, <2>1, <2>2 DEF StartLoad
<1>4. CASE StartUpdate
  <2>1. "update" \in Ops /\ {} \in SUBSET Nat
    BY DEF Ops
  <2>2. Seed \in Nat
    BY <1>0 DEF Seed
  <2>3. ASSUME NEW d \in Accepts[slot], Post("update", slot, d, Seed, entry.etag) PROVE WorkOK'
    BY <1>0, <2>2, <2>3, PostType
  <2> QED
    BY <1>0, <1>1, <1>2, <1>4, <2>1, <2>3 DEF StartUpdate
<1>5. CASE StartClear
  <2>1. ASSUME Post("clear", slot, "clear", 0, entry.etag) PROVE WorkOK'
    BY <1>0, <2>1, PostType
  <2> QED
    BY <1>1, <1>5, <2>1 DEF StartClear
<1>6. CASE StartFrame
  <2>1. Conflicts \in SUBSET Nat
    <3>1. ASSUME NEW e \in Range(echoes) PROVE e.cid \in Nat
      <4>1. e \in EchoType
        BY DEF EchoOK, Range
      <4> QED
        BY <4>1 DEF EchoType
    <3> QED
      BY <3>1 DEF Conflicts
  <2>2. "frame" \in Ops
    BY DEF Ops
  <2>3. UNCHANGED job \/ (active /\ Get("frame", slot, Conflicts))
    BY <1>6 DEF StartFrame, Suppress, Ask, ApplyFrame
  <2> QED
    BY <1>0, <1>1, <1>2, <2>1, <2>2, <2>3
<1> QED
  BY <1>3, <1>4, <1>5, <1>6 DEF Queue

LEMMA ReloadedFields ==
  ASSUME KvInv
  PROVE  /\ Reloaded.value \in Nat /\ Reloaded.etag \in Nat
         /\ Reloaded.status = entry.status
<1>1. Good(log, GotLoad) /\ Good(log, Reloaded)
  BY LoadGood, ReloadGood DEF KvInv
<1>2. [GotLoad EXCEPT !.status = entry.status].status = entry.status
  BY <1>1 DEF Good
<1>3. Reloaded.status = entry.status
  BY <1>2 DEF Reloaded
<1> QED
  BY <1>1, <1>3 DEF Good, KvInv, Kept

LEMMA WorkStep == ASSUME KindInv, KvInv, [Next]_vars PROVE WorkOK'
<1> USE DEF laneVars
<1>0. WorkOK /\ slot \in Slots /\ Accepts[slot] \subseteq Shapes /\ Len(log) \in Nat
  BY SlotsAssumption DEF KindInv, LineOK, KvInv, Kept
<1>1. CASE UNCHANGED job
  BY <1>0, <1>1 DEF WorkOK, Prior
<1>2. CASE job' = Idle
  BY <1>2, IdleType DEF WorkOK, Prior
<1>3. CASE OthersWrite \/ Connection
  BY <1>1, <1>3 DEF OthersWrite, Connection, Open, SubHandled, OnContractResynced, Disconnect,
     Receive, EchoExpires
<1>4. CASE Application
  BY <1>1, <1>2, <1>4
  DEF Application, Reconcile, CleanupContractRuntime, DefineSlot, Restart, Call
<1>5. CASE Queue
  BY <1>5, WorkQueue DEF KindInv
<1>6. CASE ServeGet \/ ServePost \/ RequestFails
  <2>1. ASSUME NEW t \in {"wait", "got", "ok", "conflict", "fail"}, NEW n \in Nat, Answer(t, n)
        PROVE  WorkOK'
    BY <1>0, <2>1, AnswerType
  <2>2. Newest \in Nat /\ Newest + 1 \in Nat /\ 0 \in Nat
    BY <1>0 DEF Newest
  <2>3. \/ Answer("got", Newest) \/ Answer("ok", Newest + 1)
        \/ Answer("conflict", Newest) \/ Answer("fail", 0)
    BY <1>6 DEF ServeGet, ServePost, RequestFails
  <2> QED
    BY <2>1, <2>2, <2>3
<1>7. CASE ReloadDone
  <2>1. ASSUME NEW d \in Accepts[slot], Post("update", slot, d, Reloaded.value, Reloaded.etag)
        PROVE  WorkOK'
    BY <1>0, <2>1, ReloadedFields, PostType
  <2> QED
    BY <1>2, <1>7, <2>1 DEF ReloadDone
<1>8. CASE Refused
  BY <1>0, <1>2, <1>8, RetryType DEF Refused
<1>9. CASE LoadDone \/ Succeeded \/ WriteFails
  BY <1>2, <1>9 DEF LoadDone, Succeeded, WriteFails
<1>10. CASE UNCHANGED vars
  BY <1>1, <1>10 DEF vars
<1> QED
  BY <1>3, <1>4, <1>5, <1>6, <1>7, <1>8, <1>9, <1>10 DEF Next, Request

\* The status of what the mirror is replaced by.
LEMMA StatusFields ==
  ASSUME KvInv, StatusOK, WorkOK
  PROVE  /\ \A s : Marked(s).status = s
         /\ \A n, e : Mirrored(n, e).status \in {"non-init", "loaded"}
         /\ \A s : Revalidated(s).status \in {entry.status, "loaded", "error"}
         /\ job.op \in {"load", "frame"} =>
              GotLoad.status \in Statuses /\ (active => GotLoad.status # "none")
<1>1. \A s : Marked(s).status = s
  BY DEF KvInv, Good, Marked
<1>2. \A n, e : Mirrored(n, e).status \in {"non-init", "loaded"}
  BY DEF Mirrored, Entry
<1>3. \A s : Revalidated(s).status \in {entry.status, "loaded", "error"}
  BY <1>1 DEF Revalidated
<1>4. job.prior \in Statuses /\ (job.op \in {"load", "frame"} => job.prior # "none")
  BY DEF WorkOK, Prior, JobType
<1>5. job.op \in {"load", "frame"} =>
        Restored.status \in Statuses /\ (active => Restored.status # "none")
  BY <1>1, <1>4 DEF Restored, StatusOK
<1>6. \/ GotLoad = Restored \/ GotLoad = Marked("error")
      \/ GotLoad = Mirrored(job.answer.n, job.answer.n)
  BY DEF GotLoad
<1> QED
  BY <1>1, <1>2, <1>3, <1>5, <1>6 DEF Statuses

LEMMA KindStatus == ASSUME KindInv, KvInv, [Next]_vars PROVE StatusOK'
<1> USE DEF netVars, mirrorVars, laneVars
<1>0. /\ StatusOK /\ WorkOK
      /\ \A s : Marked(s).status = s
      /\ \A n, e : Mirrored(n, e).status \in {"non-init", "loaded"}
      /\ \A s : Revalidated(s).status \in {entry.status, "loaded", "error"}
      /\ job.op \in {"load", "frame"} =>
              GotLoad.status \in Statuses /\ (active => GotLoad.status # "none")
  BY StatusFields DEF KindInv
<1>1. CASE UNCHANGED <<active, entry>>
  BY <1>0, <1>1 DEF StatusOK
<1>2. ASSUME UNCHANGED active,
             entry'.status \in {entry.status, "non-init", "loading", "loaded", "error"}
      PROVE  StatusOK'
  BY <1>0, <1>2 DEF StatusOK, Statuses
<1>3. CASE Reconcile
  <2>1. Entry(0, 0, "non-init").status = "non-init"
    BY DEF Entry
  <2> QED
    BY <1>0, <1>3, <2>1 DEF Reconcile, StatusOK, Statuses
<1>4. CASE CleanupContractRuntime
  <2>1. NoEntry.status = "none"
    BY DEF NoEntry, Entry
  <2> QED
    BY <1>4, <2>1 DEF CleanupContractRuntime, StatusOK, Statuses
<1>5. CASE DefineSlot
  BY <1>0, <1>2, <1>5 DEF DefineSlot
<1>6. CASE Restart
  BY <1>0, <1>6 DEF Restart, StatusOK, Statuses
<1>7. CASE OthersWrite \/ Connection \/ UNCHANGED vars \/ \E op \in {"update", "clear", "load"} : Call(op)
  BY <1>1, <1>7 DEF OthersWrite, Connection, Open, SubHandled, OnContractResynced, Disconnect,
     Receive, EchoExpires, Call, vars
<1>8. ASSUME NEW op, NEW s, NEW m, Get(op, s, m)
      PROVE  entry'.status \in {entry.status, "loading"}
  BY <1>0, <1>8 DEF Get
<1>9. CASE Queue
  <2>1. UNCHANGED active
    BY <1>9 DEF Queue, StartLoad, StartUpdate, StartClear, StartFrame
  <2>2. CASE StartLoad \/ StartUpdate \/ StartClear
    <3>1. UNCHANGED entry \/ \E op, s, m : Get(op, s, m)
      BY <2>2 DEF StartLoad, StartUpdate, StartClear
    <3> QED
      BY <1>2, <1>8, <2>1, <3>1
  <2>3. CASE StartFrame
    <3>1. \/ UNCHANGED entry \/ \E op, s, m : Get(op, s, m)
          \/ entry' = Marked("error") \/ \E n, e : entry' = Mirrored(n, e)
      BY <2>3 DEF StartFrame, Suppress, Ask, ApplyFrame
    <3> QED
      BY <1>0, <1>2, <1>8, <2>1, <3>1
  <2> QED
    BY <1>9, <2>2, <2>3 DEF Queue
<1>10. CASE LoadDone
  BY <1>0, <1>10 DEF LoadDone, StatusOK
<1>11. CASE ReloadDone
  BY <1>2, <1>11, ReloadedFields DEF ReloadDone
<1>12. CASE Succeeded
  <2>1. UNCHANGED active /\ (UNCHANGED entry \/ \E n, e : entry' = Mirrored(n, e))
    BY <1>12 DEF Succeeded
  <2> QED
    BY <1>0, <1>2, <2>1
<1>13. CASE ServeGet \/ ServePost \/ RequestFails \/ Refused \/ WriteFails
  BY <1>1, <1>13 DEF ServeGet, ServePost, RequestFails, Refused, WriteFails
<1> QED
  BY <1>3, <1>4, <1>5, <1>6, <1>7, <1>9, <1>10, <1>11, <1>12, <1>13
  DEF Next, Application, Request

\* Every variable keeps its kind, every number is of a write there is, the mirror of a
\* contract that is followed has an entry, and no more echoes are kept than KV_ECHO_CID_MAX,
\* whatever happens while a request is under way.
THEOREM TypeCorrect == Spec => []TypeOK
<1>1. Init => KindInv
  <2> SUFFICES ASSUME Init PROVE KindInv
    OBVIOUS
  <2>1. StatusOK
    BY DEF Init, StatusOK, NoEntry, Entry, Statuses
  <2>2. WorkOK
    BY IdleType DEF Init, WorkOK, Prior
  <2>3. EchoOK /\ LogOK /\ LaneOK
    BY BoundAssumption DEF Init, EchoOK, LogOK, LaneOK
  <2>4. LineOK
    <3>1. 0 \in 0 .. CallBound /\ DisturbBound \in 0 .. DisturbBound /\ 0 \in Slots
      BY BoundAssumption, TaskKinds
    <3> QED
      BY <3>1 DEF Init, LineOK
  <2> QED
    BY <2>1, <2>2, <2>3, <2>4 DEF KindInv
<1>2. KvInv /\ KindInv /\ [Next]_vars => KindInv'
  <2> SUFFICES ASSUME KvInv, KindInv, [Next]_vars PROVE KindInv'
    OBVIOUS
  <2>1. WorkOK' /\ StatusOK'
    BY WorkStep, KindStatus
  <2>2. WorkOK /\ EchoOK /\ LogOK /\ LaneOK /\ LineOK
    BY DEF KindInv
  <2>3. LineOK' /\ EchoOK' /\ LogOK'
    BY <2>2, LineStep, EchoStep, LogStep
  <2>4. LaneOK'
    BY <2>2, <2>3, LaneStep
  <2> QED
    BY <2>1, <2>3, <2>4 DEF KindInv
<1> QED
  BY <1>1, <1>2, KindTypes, KvInvAlways, PTL DEF Spec

=============================================================================
