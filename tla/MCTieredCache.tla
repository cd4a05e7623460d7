--------------------------- MODULE MCTieredCache ---------------------------
(***************************************************************************)
(* Finite instances of TieredCache.                                        *)
(***************************************************************************)
EXTENDS TieredCache

CONSTANTS tty0, tty1, modem0, modem1, internet, private, home, sim0, sim1

=============================================================================
