---------------------------- MODULE MCSlotManager ----------------------------
(* The slot manager of the devices that Devices describes.                 *)
EXTENDS SlotManager, Devices
=============================================================================
