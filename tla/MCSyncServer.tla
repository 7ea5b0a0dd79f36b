---------------------------- MODULE MCSyncServer ----------------------------
(* Two revisions in a row that share a thread descriptor thr_d and its content *)
(* blob_x; two requests in flight.                                              *)
EXTENDS SyncServer, TLC

CONSTANTS n1, r1, r2, thr_d, blob_x, p1, p2

MCNs == {n1}
MCRev == {r1, r2}
MCObj == {r1, r2, thr_d, blob_x}
MCProc == {p1, p2}
MCParent == r1 :> None @@ r2 :> r1
MCRevNs == r1 :> n1 @@ r2 :> n1
MCRefs == r1 :> {thr_d} @@ r2 :> {thr_d} @@ thr_d :> {blob_x} @@ blob_x :> {}
ProcSymmetry == Permutations(MCProc)
=============================================================================
