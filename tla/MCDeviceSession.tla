-------------------------- MODULE MCDeviceSession --------------------------
(* DeviceSession for TLC; the bounds are in the configuration files. *)
EXTENDS DeviceSession
=============================================================================
