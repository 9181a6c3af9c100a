--------------------------- MODULE MCSynchronizer ---------------------------
(* Instances of Synchronizer for TLC.                                      *)
EXTENDS Synchronizer, TLC

CONSTANTS c1, c2

OneClient == {c1}
TwoClients == {c1, c2}
Anyone == Permutations(TwoClients)
=============================================================================
