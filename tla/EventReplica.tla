--------------------------- MODULE EventReplica ---------------------------
(***************************************************************************)
(* What a client promises about one contract: its state is the server's    *)
(* log, folded in order, one event at a time, none skipped and none twice, *)
(* except that an event it cannot take may leave the state as it was.  At  *)
(* any moment it may start over from nothing.                              *)
(***************************************************************************)
EXTENDS Integers

CONSTANT Skippable   \* events whose mutation may be left out of the state
VARIABLES last,      \* position of the newest event in the log
          at,        \* position of the last event processed, -1 for none
          folded     \* positions of the events whose mutation was folded in

rvars == <<last, at, folded>>

RInit == last = 0 /\ at = -1 /\ folded = {}

AppendEvent ==
  /\ last' = last + 1
  /\ UNCHANGED <<at, folded>>

ProcessNext ==
  /\ at < last
  /\ at' = at + 1
  /\ \/ folded' = folded \union {at'}
     \/ at' \in Skippable /\ folded' = folded
  /\ UNCHANGED last

StartOver ==
  /\ at' = -1 /\ folded' = {}
  /\ UNCHANGED last

RNext == AppendEvent \/ ProcessNext \/ StartOver

RSpec == RInit /\ [][RNext]_rvars

=============================================================================
