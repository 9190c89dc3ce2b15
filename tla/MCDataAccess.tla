---------------------------- MODULE MCDataAccess ----------------------------
(* Instances of DataAccess for TLC.                                        *)
EXTENDS DataAccess, TLC

Symmetry == Permutations(Threads)
=============================================================================
