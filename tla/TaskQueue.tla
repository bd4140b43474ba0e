------------------------------ MODULE TaskQueue ------------------------------
(***************************************************************************)
(* What a history task queue promises to the shard: a task that has been   *)
(* written is executed at least once, and the store keeps it until then.   *)
(***************************************************************************)
EXTENDS Integers

CONSTANT MaxKey     \* bound: task keys 1 .. MaxKey

VARIABLES
    written,        \* keys of the tasks ever written
    rows,           \* keys of the tasks in the store
    executed        \* keys of the tasks executed

vars == <<written, rows, executed>>

Keys == 1 .. MaxKey

TypeOK ==
    /\ written \subseteq Keys /\ rows \subseteq written
    /\ executed \subseteq written

\* A task leaves the store only after it has been executed.
Durable == written \ executed \subseteq rows

Init == written = {} /\ rows = {} /\ executed = {}

Write(k) ==
    /\ k \notin written
    /\ written' = written \cup {k}
    /\ rows' = rows \cup {k}
    /\ UNCHANGED executed

Execute(k) ==
    /\ k \in rows
    /\ executed' = executed \cup {k}
    /\ UNCHANGED <<written, rows>>

Delete(K) ==
    /\ K \subseteq executed
    /\ rows' = rows \ K
    /\ UNCHANGED <<written, executed>>

Next ==
    \/ \E k \in Keys : Write(k) \/ Execute(k)
    \/ \E K \in SUBSET Keys : Delete(K)

Spec == Init /\ [][Next]_vars

\* Every task that has been written is executed.
AllExecuted == \A k \in Keys : (k \in written) ~> (k \in executed)

=============================================================================
