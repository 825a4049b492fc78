--------------------------- MODULE MCDeviceState ---------------------------
(* The lock state of one device, for TLC.                                  *)
EXTENDS DeviceState
=============================================================================
