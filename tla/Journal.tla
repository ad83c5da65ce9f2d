------------------------------ MODULE Journal ------------------------------
(***************************************************************************)
(* What the journal of one contract does with an event                     *)
(* (src/src/journal.ts): a window of snapshots and patches of the state,   *)
(* cut behind the latest snapshot when it is too long, and the state       *)
(* rebuilt from it.  The differ, the applier and the redactions are        *)
(* configurable in the code and parameters here.                           *)
(*                                                                         *)
(* An event is its height.  The operation's type and description, which an *)
(* entry also carries, are left out; of an error, that there was one.      *)
(***************************************************************************)
EXTENDS Integers, Sequences

CONSTANTS
  States,            \* the values a contract state can have
  Patches,           \* the patches the differ can emit
  Corrupt,           \* what applying a patch that does not fit leaves
  diff(_, _),        \* config.journal.diff, or defaultDiff
  applyPatch(_, _),  \* config.journal.applyPatch, or defaultApplyPatch
  redact(_),         \* applyRedactions with config.journal.redactions
  EmptyPatch         \* the patch of an event that failed

ASSUME RedactAssumption == \A s \in States : redact(s) \in States
ASSUME DiffAssumption == \A b, a \in States : diff(b, a) \in Patches
ASSUME CorruptAssumption == Corrupt \notin States
ASSUME EmptyAssumption ==
  /\ EmptyPatch \in Patches
  /\ \A s \in States : applyPatch(s, EmptyPatch) = s

\* A patch takes the state it was made from to the state it was made for.
ASSUME RoundTrip == \A b, a \in States : applyPatch(b, diff(b, a)) = a

Snapshot(h, err, s) == [kind |-> "snapshot", h |-> h, err |-> err, body |-> s]
Patch(h, err, p) == [kind |-> "patch", h |-> h, err |-> err, body |-> p]

Entries == [kind : {"snapshot"}, h : Nat, err : BOOLEAN, body : States]
           \cup [kind : {"patch"}, h : Nat, err : BOOLEAN, body : Patches]

Last(es) == es[Len(es)]

indexOfLastSnapshot(es) ==
  LET at == {i \in DOMAIN es : es[i].kind = "snapshot"}
  IN  IF at = {} THEN 0 ELSE CHOOSE i \in at : \A j \in at : j <= i

(***************************************************************************)
(* appendAndTrim: a snapshot of the state follows the patch that completes *)
(* an interval, and beyond twice the interval whatever is before the       *)
(* latest snapshot goes.                                                   *)
(***************************************************************************)
WithSnapshot(es, interval, post) ==
  IF Len(es) - indexOfLastSnapshot(es) >= interval
  THEN Append(es, Snapshot(Last(es).h, Last(es).err, post))
  ELSE es

\* The mutant cuts at the length, not at the latest snapshot.
TrimmedToLength(es, interval) ==
  IF Len(es) > 2 * interval THEN SubSeq(es, 2, Len(es)) ELSE es

Trimmed(es, interval) ==
  IF Len(es) > 2 * interval /\ indexOfLastSnapshot(es) > 1
  THEN SubSeq(es, indexOfLastSnapshot(es), Len(es))
  ELSE es

appendAndTrim(es, entry, interval, post) ==
  Trimmed(WithSnapshot(Append(es, entry), interval, post), interval)

(***************************************************************************)
(* recordEvent, for an enabled journal and a contract that has its row.    *)
(* An event at the height of the last entry came twice; one below it, or   *)
(* more than one above it, means that the entries are of another pass over *)
(* the log, and the window starts again.                                   *)
(***************************************************************************)
\* The mutant takes a gap in the heights for the next event.
ReseedsBackwardsOnly(es, h) == es = <<>> \/ h < Last(es).h

Reseeds(es, h) == es = <<>> \/ h < Last(es).h \/ h > Last(es).h + 1

recordEvent(es, h, before, after, err, interval) ==
  CASE Reseeds(es, h) -> << Snapshot(h, err, redact(after)) >>
    [] ~Reseeds(es, h) /\ h = Last(es).h -> es
    [] ~Reseeds(es, h) /\ h # Last(es).h ->
         appendAndTrim(es,
           Patch(h, err, IF err THEN EmptyPatch
                                ELSE diff(redact(before), redact(after))),
           interval, redact(after))

(***************************************************************************)
(* reconstruct: the patches after the latest snapshot, applied to it.      *)
(***************************************************************************)
Step(s, entry) ==
  IF s = Corrupt THEN Corrupt ELSE applyPatch(s, entry.body)

reconstruct(es) ==
  LET from == indexOfLastSnapshot(es)
      R[i \in from .. Len(es)] ==
        IF i = from THEN es[from].body ELSE Step(R[i - 1], es[i])
  IN  R[Len(es)]
=============================================================================
