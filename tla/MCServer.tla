------------------------------ MODULE MCServer ------------------------------
(* A TLC instance of Server.  The workers are interchangeable where no      *)
(* liveness property is checked.                                            *)
EXTENDS Server, TLC

CONSTANTS w1, w2

Symmetry == Permutations({w1, w2})
=============================================================================
