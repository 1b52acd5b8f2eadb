---------------------------- MODULE MCStationSync ----------------------------
(* StationSync, with its inductive invariant, for TLC. *)
EXTENDS StationSyncInv
=============================================================================
