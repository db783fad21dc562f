-------------------------- MODULE MCDeviceObjects --------------------------
(* The instances of DeviceObjects that TLC checks. *)
EXTENDS DeviceObjects
=============================================================================
