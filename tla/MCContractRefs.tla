--------------------------- MODULE MCContractRefs ---------------------------
(***************************************************************************)
(* Instances of ContractRefs for TLC: a group, and an identity whose keys  *)
(* it uses.                                                                *)
(***************************************************************************)
EXTENDS ContractRefs, TLC

KeysOfOne == [c \in Contracts |-> IF c = "group" THEN {"identity"} ELSE {}]

UserSymmetry == Permutations(Users)

=============================================================================
