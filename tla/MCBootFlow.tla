----------------------------- MODULE MCBootFlow -----------------------------
(* The boot flow of the devices that Devices describes.                    *)
EXTENDS BootFlow, Devices
=============================================================================
