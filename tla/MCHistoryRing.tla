--------------------------- MODULE MCHistoryRing ---------------------------
(***************************************************************************)
(* A finite instance of HistoryRing.                                       *)
(***************************************************************************)
EXTENDS HistoryRing
=============================================================================
