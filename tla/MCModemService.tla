--------------------------- MODULE MCModemService ---------------------------
(***************************************************************************)
(* Finite instances of ModemService.                                       *)
(***************************************************************************)
EXTENDS ModemService, TLC

CONSTANTS p1, p2, m1, m2

\* Two modems with one AT port each.
OnePortEach == (m1 :> {p1}) @@ (m2 :> {p2})

RequestSymmetry == Permutations(Requests)
=============================================================================
