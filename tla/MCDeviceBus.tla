---------------------------- MODULE MCDeviceBus ----------------------------
(* DeviceBus for TLC. *)
EXTENDS DeviceBus
=============================================================================
