------------------------------ MODULE MCDelay -------------------------------
(* Instances of Delay for TLC.                                             *)
EXTENDS Delay
=============================================================================
