---------------------------- MODULE MCSlotStore ----------------------------
(* The refinement, for the devices that Devices describes.                 *)
EXTENDS SlotStore, Devices
=============================================================================
