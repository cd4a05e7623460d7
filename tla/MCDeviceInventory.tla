------------------------- MODULE MCDeviceInventory -------------------------
(***************************************************************************)
(* Finite instances of DeviceInventory.                                    *)
(***************************************************************************)
EXTENDS DeviceInventory

CONSTANTS tty0, tty1, go1, go2

=============================================================================
