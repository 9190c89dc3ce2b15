---------------------------- MODULE MCThreadpool ----------------------------
(* Instances of PooledGraphs for TLC.                                      *)
EXTENDS PooledGraphs, TLC

Symmetry == Permutations(Callers)
=============================================================================
