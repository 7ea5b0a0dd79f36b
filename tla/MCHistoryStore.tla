--------------------------- MODULE MCHistoryStore ---------------------------
(* A history with a fork (rev_b and rev_c both follow rev_a) and a second namespace.   *)
EXTENDS HistoryStore, TLC

CONSTANTS n1, n2, rev_a, rev_b, rev_c, rev_z, c1, c2

MCNs == {n1, n2}
MCRev == {rev_a, rev_b, rev_c, rev_z}
MCClient == {c1, c2}
MCParent == rev_a :> None @@ rev_b :> rev_a @@ rev_c :> rev_a @@ rev_z :> None
MCRevNs == rev_a :> n1 @@ rev_b :> n1 @@ rev_c :> n1 @@ rev_z :> n2
ClientSymmetry == Permutations(MCClient)
=============================================================================
