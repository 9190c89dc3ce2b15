-------------------------- MODULE MCGraphSchedule --------------------------
(* Instances of GraphSchedule for TLC.                                     *)
EXTENDS GraphSchedule, TLC
Symmetry == Permutations(Graphs)
=============================================================================
