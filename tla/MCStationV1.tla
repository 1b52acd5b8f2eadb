---------------------------- MODULE MCStationV1 ----------------------------
(* Small instances of StationV1 for TLC. *)
EXTENDS StationV1
=============================================================================
