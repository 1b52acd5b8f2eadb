----------------------------- MODULE MCRelayConfig -----------------------------
(* Instances of RelayConfig for TLC. *)
EXTENDS RelayConfig

(* The devices are alike until one has been announced: the first one is     *)
(* always the same.                                                         *)
FirstDevice == CHOOSE d \in Devices : TRUE
FirstAnnounced == syncs = 0 /\ syncs' = 1 => DevicesOf(info') \subseteq {FirstDevice}
=============================================================================
