-------------------------- MODULE MCTaskScheduler ---------------------------
(* Two tasks, two task channels of one namespace, one worker, and room for *)
(* one task in each channel.                                               *)
EXTENDS TaskScheduler, TLC

CONSTANTS high, low

OneNamespace == {Keys}
HighTwice == {[k \in Keys |-> IF k = high THEN 2 ELSE 1]}
Interchangeable == Permutations(Tasks)

\* At most one of these is explored at a time: a task is cancelled, the
\* scheduler stops, the rescheduler stops, a round is throttled, an execution
\* has failed.
OneConcern ==
    LET concerns == <<\E t \in Tasks : state[t] = "cancelled", status = "stopped",
                      reschedulerStatus = "stopped", round.throttle \/ dispatchTimer,
                      failures > 0>>
    IN  Cardinality({c \in DOMAIN concerns : concerns[c]}) <= 1

\* A task that has failed is given the low priority and is alone in the
\* rescheduler, and the reader loads no more.
FailedApart ==
    \A t \in Tasks :
        attempt[t] > 1 => /\ key[t] = low \/ \E g \in Workers : arg[g] = t
                          /\ Rescheduled \subseteq {t} /\ pc[Reader] = "idle"

\* Not all tasks start with the low priority.
HighToStart ==
    (\A t \in Tasks : state[t] = "unloaded") => \E t \in Tasks : key[t] = high

\* The rescheduler is at work while the scheduler neither throttles nor stops.
OneBusy ==
    Rescheduled # {} \/ pc[Loop] # "idle" =>
        status = "started" /\ ~round.throttle /\ ~dispatchTimer
=============================================================================
