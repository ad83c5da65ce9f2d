-------------------------------- MODULE MCKv --------------------------------
(***************************************************************************)
(* Instances of Kv for TLC: an old and a new definition of the slot, and   *)
(* data that only the new one accepts.                                     *)
(***************************************************************************)
EXTENDS Kv

AcceptsMC == 0 :> {"v"} @@ 1 :> {"v", "w"}

=============================================================================
