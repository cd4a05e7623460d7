----------------------------- MODULE MCHotspot -----------------------------
(***************************************************************************)
(* Finite instances of Hotspot.                                            *)
(***************************************************************************)
EXTENDS Hotspot, TLC

RequestSymmetry == Permutations(Requests)
=============================================================================
