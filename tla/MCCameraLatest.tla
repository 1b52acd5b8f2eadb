---------------------------- MODULE MCCameraLatest ----------------------------
(* Instances of CameraLatest for TLC. *)
EXTENDS CameraLatest, TLC

\* The requests are alike.
MCSymmetry == Permutations(Requests)
=============================================================================
