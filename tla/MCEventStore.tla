---------------------------- MODULE MCEventStore ----------------------------
(***************************************************************************)
(* Instances of EventStore for TLC.  Each event leaves one document of     *)
(* JournalValues; key operations also delete what other code wrote under   *)
(* "_volatile".                                                            *)
(***************************************************************************)
EXTENDS JournalValues, EventStore

MCStates == 1 .. N
MCPatches == (1 .. N) \X (1 .. N)
MCCorrupt == 0
MCEmptyPatch == <<1, 1>>
MCEmptyState == Place(J!Obj([name |-> V("none")]))
MCDiff(b, a) == <<b, a>>
MCApplyPatch(s, p) == Place(J!defaultApplyPatch(Values[s], PatchOf[p[1]][p[2]]))
MCRedact(s) == RedactedAt[s]
MCWritten(s) == MarkedAt[s]

\* An event leaves its document; one that is no key operation, "_volatile" as well.
MCMutated(h, s) ==
  IF h \in KeyOps \/ Unmarked[s] THEN DocAt[h + 1] ELSE MarkedAt[DocAt[h + 1]]

MCIntervals == {-1, 1}
=============================================================================
