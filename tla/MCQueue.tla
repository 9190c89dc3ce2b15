------------------------------ MODULE MCQueue ------------------------------
(* An instance of Queue for TLC.                                           *)
EXTENDS Queue

CONSTANTS w1, w2, r1, p1, a, b
=============================================================================
