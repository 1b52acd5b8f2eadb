--------------------------- MODULE MCDelayedBroker ---------------------------
(* Instances of DelayedBroker for TLC. *)
EXTENDS DelayedBroker, TLC

(* Publishers are interchangeable. *)
PublisherSymmetry == Permutations(Publishers)
=============================================================================
