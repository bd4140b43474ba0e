------------------------ MODULE MCMatchingTaskQueue -------------------------
(* Instances of MatchingTaskQueue: the managers are interchangeable. *)
EXTENDS MatchingTaskQueue, TLC

Symmetry == Permutations(Managers)

NothingDeleted ==
    \A m \in Managers : mgr[m].collecting = NoGC /\ mgr[m].collected = 0

\* Bound: a behaviour has a call of unknown outcome, or deletes tasks.
TimeoutOrDeletion == timeouts = 0 \/ NothingDeleted

\* Bound: a behaviour in which a task is written back deletes none, and has a call
\* of unknown outcome or two managers at a time.
RewriteBound ==
    \/ rewrites = 0
    \/ /\ expired = {} /\ NothingDeleted
       /\ timeouts = 0 \/ \E m \in Managers : mgr[m].st \in {"new", "stopped"}
=============================================================================
