---------------------------- MODULE MCLogQuerier ----------------------------
\* Instances of LogQuerier.
EXTENDS LogQuerier, TLC

Symmetric == Permutations(Requests)
=============================================================================
