--------------------------- MODULE MCOfflineQueue ---------------------------
(* Instances of OfflineQueue for TLC. *)
EXTENDS OfflineQueue, TLC

Symmetric == Permutations(Tabs) \cup Permutations(Users)

TransportFaults == {"network", "server", "reload"}
EveryFault == AllFaults
=============================================================================
