------------------------ MODULE MCPersistentActions ------------------------
(***************************************************************************)
(* Instances of PersistentActions for TLC.                                 *)
(***************************************************************************)
EXTENDS PersistentActions

Unlimited == Infinity

=============================================================================
