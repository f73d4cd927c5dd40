-------------------------- MODULE MCTracePipeline --------------------------
(* TracePipeline for TLC.  Compactors are interchangeable in the safety    *)
(* runs.                                                                   *)
EXTENDS TracePipeline, TLC

Symmetry == Permutations(Compactors)
=============================================================================
