----------------------------- MODULE MCWalGroup -----------------------------
(* WalGroup for TLC.  Members are interchangeable, and so are partitions.  *)
EXTENDS WalGroup, TLC

Symmetry == Permutations(Members) \cup Permutations(Partitions)
=============================================================================
