-------------------------- MODULE MCLocalRepository --------------------------
(* Two processes run jobs at the same time. *)
EXTENDS LocalRepository, TLC

CONSTANTS t1, p1, p2

MCThreads == {t1}
MCProcs == {p1, p2}
MCSymmetry == Permutations(MCProcs)
=============================================================================
