---------------------------- MODULE MCSyncClient ----------------------------
(* Small numbers of homes, namespaces, threads and user edits.             *)
EXTENDS SyncClient, TLC

CONSTANTS alice, bob, n1, n2, t1, t2

OneNs == {n1}
TwoNs == {n1, n2}
OneThread == {t1}
TwoThreads == {t1, t2}
OneClient == {alice}
TwoClients == {alice, bob}
TwoEdits == 1..2
ThreeEdits == 1..3
FourEdits == 1..4
ClientSymmetry == Permutations(TwoClients)
=============================================================================
