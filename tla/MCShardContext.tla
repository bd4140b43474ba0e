--------------------------- MODULE MCShardContext ---------------------------
(* Small instances of ShardContext for TLC.                                *)
EXTENDS ShardContext, TLC

CONSTANTS c1, c2

ContextSymmetry == Permutations(Contexts)

\* Bound: task IDs and queue states do not read each other, so a behaviour
\* works on one of them; each meets every renewal, error and late call.
OneConcern ==
    \/ \A c \in Contexts : issued[c] = {}
    \/ \A c \in Contexts : queueState[c] = 0

\* Bound: one late call at a time
OneLate == Cardinality(lateUpdates) + Cardinality(lateWrites) <= 1
=============================================================================
