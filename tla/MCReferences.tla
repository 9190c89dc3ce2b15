---------------------------- MODULE MCReferences ----------------------------
(* Instances of References for TLC.                                        *)
EXTENDS References
=============================================================================
