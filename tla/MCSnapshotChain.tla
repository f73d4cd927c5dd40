-------------------------- MODULE MCSnapshotChain --------------------------
(* Small instances of SnapshotChain for TLC.                               *)
EXTENDS SnapshotChain

CONSTANTS k1, k2

Record(key, rank, span) == [key |-> key, rank |-> rank, span |-> span]

\* One key written with two spans.
Rewritten == {Record(k1, 1, {0}), Record(k1, 2, {0, 1})}

Output == {Record(k2, 1, {0, 1})}

=============================================================================
