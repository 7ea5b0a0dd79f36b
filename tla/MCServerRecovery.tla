-------------------------- MODULE MCServerRecovery --------------------------
(* One revision, its thread descriptor thr_d and its content blob_x, so that faults *)
(* and crashes can be explored everywhere.                                 *)
EXTENDS SyncServer, TLC

CONSTANTS n1, r1, thr_d, blob_x, p1, p2

MCNs == {n1}
MCRev == {r1}
MCObj == {r1, thr_d, blob_x}
MCProc == {p1, p2}
MCParent == r1 :> None
MCRevNs == r1 :> n1
MCRefs == r1 :> {thr_d} @@ thr_d :> {blob_x} @@ blob_x :> {}
ProcSymmetry == Permutations(MCProc)
=============================================================================
