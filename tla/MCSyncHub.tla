----------------------------- MODULE MCSyncHub -----------------------------
\* The instances of SyncHub that TLC checks: the connections
\* meet only at the lock, so each kind is checked by itself.
EXTENDS SyncHub, TLC

MCPopulations == {DataBrowsers, GlobalBrowsers, Relays}

MCSymmetry == Permutations(Items) \cup Permutations(Stations)
=============================================================================
