-------------------------- MODULE MCContractSync --------------------------
(***************************************************************************)
(* Instances of ContractSync for TLC.                                      *)
(***************************************************************************)
EXTENDS ContractSync

=============================================================================
