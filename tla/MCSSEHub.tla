------------------------------ MODULE MCSSEHub ------------------------------
(***************************************************************************)
(* Finite instances of SSEHub.                                             *)
(***************************************************************************)
EXTENDS SSEHub, TLC

ClientSymmetry == Permutations(Clients)
=============================================================================
