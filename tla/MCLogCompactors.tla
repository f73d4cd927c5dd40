--------------------------- MODULE MCLogCompactors ---------------------------
\* Instances of LogCompactors: one partition has a chunk per record, in the
\* others neighbours share a chunk.
EXTENDS LogCompactors, TLC

Mixed == CHOOSE p \in Partitions : TRUE
Tenants == [p \in Partitions |-> [o \in Offsets |-> IF p = Mixed THEN o % 2 ELSE 0]]
FirstRecords == {<<p, 1>> : p \in Partitions \ {Mixed}}
Symmetric == Permutations(Compactors)
=============================================================================
