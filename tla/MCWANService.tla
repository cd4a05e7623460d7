---------------------------- MODULE MCWANService ----------------------------
(***************************************************************************)
(* Finite instances of WANService.                                         *)
(***************************************************************************)
EXTENDS WANService, TLC

CONSTANTS mb, rn

RequestSymmetry == Permutations(Requests)
=============================================================================
