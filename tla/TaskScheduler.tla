--------------------------- MODULE TaskScheduler ----------------------------
(***************************************************************************)
(* How the executables of a history queue are run: the interleaved weighted *)
(* round robin scheduler in front of the FIFO scheduler and its workers     *)
(* (common/tasks), the rescheduler, and the executable's own Ack, Nack,     *)
(* Abort and Cancel (service/history/queues).                               *)
(*                                                                          *)
(* The goroutines are the reader of the queue, the loop of the rescheduler, *)
(* the event loop of the round robin scheduler (the dispatcher) and the     *)
(* workers.  A call that takes several steps is in the pc of its goroutine. *)
(* A task channel is keyed by namespace and priority.                       *)
(***************************************************************************)
EXTENDS Integers, Sequences, FiniteSetsExt

CONSTANTS
    Tasks, Keys, Workers,
    Namespaces,          \* the keys of each namespace
    Weights,             \* what ChannelWeightFn may answer: functions on Keys
    QueueSize,           \* capacity of the FIFO scheduler's tasksChan
    ChannelSize,         \* WeightedChannelDefaultSize
    ResubmitMaxAttempts,
    MaxFailures          \* bound: executions that end in an error

ASSUME SchedulerConstants ==
    /\ {QueueSize, ChannelSize} \subseteq Nat \ {0}
    /\ {ResubmitMaxAttempts, MaxFailures} \subseteq Nat
    /\ UNION Namespaces = Keys
    /\ "none" \notin Tasks
    /\ {"reader", "rescheduler", "dispatcher"} \cap Workers = {}
    /\ Weights # {} /\ Weights \subseteq [Keys -> Nat \ {0}]

VARIABLES
    state, attempt, key,      \* of the executables
    tasksChan, fifoStatus,    \* FIFOScheduler
    retired,                  \* workers whose shutdownCh is closed
    channels, known,          \* weightedChannels, and those that exist
    numInflightTask, notifyChan, dispatchTimer, status,
    round,                    \* doDispatchTasksWithWeight of the dispatcher
    waiting, due,             \* rescheduler: tasks before and after their time
    armed, fired,             \* its timer gate: running, and a token in FireCh
    scan,                     \* keys the rescheduler's loop has still to look at
    reschedulerStatus,
    stopper,                  \* pc of the scheduler's Stop
    pc, arg,                  \* the goroutines, and the task each has in hand
    failures

taskVars == <<state, attempt, key, failures>>
fifoVars == <<tasksChan, fifoStatus, retired>>
wrrVars == <<channels, known, numInflightTask, notifyChan, dispatchTimer>>
rescheduleVars == <<waiting, due, armed, fired, scan, reschedulerStatus>>
stopVars == <<status, stopper>>
goVars == <<pc, arg>>
vars == <<taskVars, fifoVars, wrrVars, round, rescheduleVars, stopVars, goVars>>

Reader == "reader"
Loop == "rescheduler"
Dispatcher == "dispatcher"
Goroutines == Workers \cup {Reader, Loop, Dispatcher}
NoTask == "none"
NoRound == [left |-> << >>, keys |-> {}, throttled |-> {}, dispatched |-> 0, throttle |-> FALSE]

Idle(g) == IF g \in Workers THEN "head" ELSE IF g = Loop THEN "scan" ELSE "idle"

Init ==
    /\ state = [t \in Tasks |-> "unloaded"]
    /\ attempt = [t \in Tasks |-> 1] /\ key \in [Tasks -> Keys]
    /\ tasksChan = << >> /\ fifoStatus = "started" /\ retired = {}
    /\ channels = [k \in Keys |-> << >>] /\ known = {}
    /\ numInflightTask = 0 /\ notifyChan = FALSE /\ dispatchTimer = FALSE
    /\ status = "started" /\ round = NoRound
    /\ waiting = {} /\ due = {} /\ armed = FALSE /\ fired = FALSE /\ scan = {}
    /\ reschedulerStatus = "started" /\ stopper = "none"
    /\ pc = [g \in Goroutines |-> IF g \in Workers THEN "head" ELSE "idle"]
    /\ arg = [g \in Goroutines |-> NoTask]
    /\ failures = 0

Goes(g, to, t) == pc' = [pc EXCEPT ![g] = to] /\ arg' = [arg EXCEPT ![g] = t]
Moves(g, from, to) == pc[g] = from /\ Goes(g, to, arg[g])

\* executableImpl.Abort, for the tasks of S
Aborted(S) ==
    [t \in Tasks |-> IF t \in S /\ state[t] = "pending" THEN "aborted" ELSE state[t]]

-----------------------------------------------------------------------------
(* FIFOScheduler *)

\* drainTasks: what is in tasksChan, whoever put it there, is aborted
DrainTasks ==
    /\ state' = Aborted(Range(tasksChan))
    /\ tasksChan' = << >>

\* the status is not looked at again
DrainIfStopped_Never == UNCHANGED <<state, tasksChan>>

\* the end of Submit and TrySubmit
DrainIfStopped ==
    IF fifoStatus = "stopped" THEN DrainTasks ELSE UNCHANGED <<state, tasksChan>>

HasRoom == Len(tasksChan) < QueueSize

(* The round robin scheduler: TrySubmit, by goroutine g *)

\* numInflightTask is raised; the only task goes to the FIFO scheduler.
TrySubmit(g) ==
    /\ pc[g] = "submit"
    /\ numInflightTask' = numInflightTask + 1
    /\ Goes(g, IF numInflightTask = 0 THEN "direct" ELSE "enqueue", arg[g])
    /\ UNCHANGED <<taskVars, fifoVars, channels, known, notifyChan, dispatchTimer,
                   round, rescheduleVars, stopVars>>

\* the task is submitted, yet false is returned
DispatchDirectly_Unreported(g) ==
    /\ pc[g] = "direct"
    /\ \/ HasRoom /\ tasksChan' = Append(tasksChan, arg[g])
       \/ UNCHANGED tasksChan
    /\ Goes(g, "enqueue", arg[g])
    /\ UNCHANGED <<taskVars, fifoStatus, retired, wrrVars, round, rescheduleVars,
                   stopVars>>

\* tryDispatchTaskDirectly, unless the rate limiter or a full channel is in
\* the way
DispatchDirectly(g) ==
    /\ pc[g] = "direct"
    /\ \/ /\ HasRoom
          /\ tasksChan' = Append(tasksChan, arg[g])
          /\ Goes(g, "dispatched", NoTask)
       \/ Goes(g, "enqueue", arg[g]) /\ UNCHANGED tasksChan
    /\ UNCHANGED <<taskVars, fifoStatus, retired, wrrVars, round, rescheduleVars,
                   stopVars>>

DispatchedDirectly(g) ==
    /\ pc[g] = "dispatched"
    /\ DrainIfStopped
    /\ numInflightTask' = numInflightTask - 1
    /\ Goes(g, Idle(g), NoTask)
    /\ UNCHANGED <<attempt, key, failures, fifoStatus, retired, channels, known,
                   notifyChan, dispatchTimer, round, rescheduleVars, stopVars>>

\* The task goes into the channel of its key, or TrySubmit returns false.
Enqueue(g) ==
    LET k == key[arg[g]]
    IN  /\ pc[g] = "enqueue"
        /\ known' = known \cup {k}
        /\ IF Len(channels[k]) < ChannelSize
           THEN /\ channels' = [channels EXCEPT ![k] = Append(@, arg[g])]
                /\ Goes(g, "notify", NoTask)
                /\ UNCHANGED numInflightTask
           ELSE /\ numInflightTask' = numInflightTask - 1
                /\ Goes(g, "refused", arg[g])
                /\ UNCHANGED channels
        /\ UNCHANGED <<taskVars, fifoVars, notifyChan, dispatchTimer, round,
                       rescheduleVars, stopVars>>

\* the tasks in all channels, the places they have there, and how many these are
Channeled == UNION {Range(channels[k]) : k \in Keys}
Slots == UNION {{k} \X DOMAIN channels[k] : k \in Keys}
Queued == Cardinality(Slots)

\* the aborted tasks are still counted
AbortTasks_Counted ==
    /\ state' = Aborted(Channeled)
    /\ channels' = [k \in Keys |-> << >>]
    /\ UNCHANGED numInflightTask

\* abortTasks
AbortTasks ==
    /\ state' = Aborted(Channeled)
    /\ channels' = [k \in Keys |-> << >>]
    /\ numInflightTask' = numInflightTask - Queued

NotifyDispatcher ==
    IF status = "stopped" THEN AbortTasks /\ UNCHANGED notifyChan
    ELSE notifyChan' = TRUE /\ UNCHANGED <<state, channels, numInflightTask>>

Notify(g) ==
    /\ pc[g] = "notify"
    /\ NotifyDispatcher
    /\ Goes(g, Idle(g), NoTask)
    /\ UNCHANGED <<attempt, key, failures, fifoVars, known, dispatchTimer, round,
                   rescheduleVars, stopVars>>

-----------------------------------------------------------------------------
(* The round robin scheduler: the dispatcher *)

\* Sorted by weight: each round of the flattening has the keys whose weight is
\* not used up, the heaviest first; keys of one weight come in any order.
Sorted(K, w) ==
    {q \in [1 .. Cardinality(K) -> K] :
        IsInjective(q) /\ \A i, j \in DOMAIN q : i < j => w[q[i]] >= w[q[j]]}

FlattenWeightedChannels(q, w) ==
    LET n == Max({w[q[i]] : i \in DOMAIN q})
        Layer(r) == SelectSeq(q, LAMBDA k : w[k] > n - r)
    IN  MapThenFoldSet(LAMBDA p, rest : p \o rest, << >>, Layer, Min, 1 .. n)

Rotated(q, i) == SubSeq(q, i, Len(q)) \o SubSeq(q, 1, i - 1)

\* eventLoop
ReceiveNotification ==
    /\ notifyChan
    /\ Moves(Dispatcher, "idle", "check")
    /\ notifyChan' = FALSE
    /\ UNCHANGED <<taskVars, fifoVars, channels, known, numInflightTask, dispatchTimer,
                   round, rescheduleVars, stopVars>>

EventLoopStops ==
    /\ status = "stopped"
    /\ Moves(Dispatcher, "idle", "exit")
    /\ UNCHANGED <<taskVars, fifoVars, wrrVars, round, rescheduleVars, stopVars>>

\* The head of the loop of dispatchTasksWithWeight: a round starts anywhere in
\* the flattened channels, whose weights, like the rate limiter's switch, may
\* have changed.
BeginRound ==
    /\ pc[Dispatcher] = "check"
    /\ IF numInflightTask > 0
       THEN /\ \E w \in Weights, throttle \in BOOLEAN : \E q \in Sorted(known, w) :
                 LET flat == FlattenWeightedChannels(q, w)
                 IN  \E i \in DOMAIN flat :
                         round' = [left |-> Rotated(flat, i), keys |-> known,
                                   throttled |-> {}, dispatched |-> 0,
                                   throttle |-> throttle]
            /\ Goes(Dispatcher, "visit", NoTask)
       ELSE Goes(Dispatcher, "idle", NoTask) /\ UNCHANGED round
    /\ UNCHANGED <<taskVars, fifoVars, wrrVars, rescheduleVars, stopVars>>

Visiting == pc[Dispatcher] = "visit" /\ round.left # << >>
Visited == Head(round.left)
CanVisit == Visited \in round.keys \ round.throttled /\ channels[Visited] # << >>

SkipChannel ==
    /\ Visiting /\ ~CanVisit
    /\ round' = [round EXCEPT !.left = Tail(@)]
    /\ UNCHANGED <<taskVars, fifoVars, wrrVars, rescheduleVars, stopVars, goVars>>

\* The rate limiter refuses; the round is over if it has refused all.
ThrottleChannel ==
    LET throttled == round.throttled \cup {Visited}
    IN  /\ Visiting /\ CanVisit /\ round.throttle
        /\ round' = [round EXCEPT !.throttled = throttled,
                                  !.left = IF throttled = round.keys THEN << >> ELSE Tail(@)]
        /\ UNCHANGED <<taskVars, fifoVars, wrrVars, rescheduleVars, stopVars, goVars>>

\* One task of the channel is on its way to the FIFO scheduler.
TakeTask ==
    /\ Visiting /\ CanVisit
    /\ Goes(Dispatcher, "hand over", Head(channels[Visited]))
    /\ channels' = [channels EXCEPT ![Visited] = Tail(@)]
    /\ round' = [round EXCEPT !.left = Tail(@), !.dispatched = @ + 1]
    /\ UNCHANGED <<taskVars, fifoVars, known, numInflightTask, notifyChan, dispatchTimer,
                   rescheduleVars, stopVars>>

\* FIFOScheduler.Submit blocks while tasksChan is full.
HandOver ==
    /\ pc[Dispatcher] = "hand over" /\ HasRoom
    /\ tasksChan' = Append(tasksChan, arg[Dispatcher])
    /\ Goes(Dispatcher, "handed over", NoTask)
    /\ UNCHANGED <<taskVars, fifoStatus, retired, wrrVars, round, rescheduleVars, stopVars>>

HandedOver ==
    /\ Moves(Dispatcher, "handed over", "visit")
    /\ DrainIfStopped
    /\ UNCHANGED <<attempt, key, failures, fifoStatus, retired, wrrVars, round,
                   rescheduleVars, stopVars>>

\* no timer unless all channels are throttled
EndRound_AllThrottled ==
    /\ pc[Dispatcher] = "visit" /\ round.left = << >>
    /\ numInflightTask' = numInflightTask - round.dispatched
    /\ IF round.throttle /\ \A k \in round.keys \ round.throttled : channels[k] = << >>
       THEN /\ dispatchTimer' = (dispatchTimer \/ round.throttled = round.keys)
            /\ Goes(Dispatcher, "idle", NoTask)
       ELSE Goes(Dispatcher, "check", NoTask) /\ UNCHANGED dispatchTimer
    /\ round' = NoRound
    /\ UNCHANGED <<taskVars, fifoVars, channels, known, notifyChan, rescheduleVars, stopVars>>

\* Another round at once, or when throttled channels may be served again.  The
\* counter, the lengths of the channels and the timer are one step.
EndRound ==
    /\ pc[Dispatcher] = "visit" /\ round.left = << >>
    /\ numInflightTask' = numInflightTask - round.dispatched
    /\ IF round.throttle /\ \A k \in round.keys \ round.throttled : channels[k] = << >>
       THEN /\ dispatchTimer' = (dispatchTimer \/ round.throttled # {})
            /\ Goes(Dispatcher, "idle", NoTask)
       ELSE Goes(Dispatcher, "check", NoTask) /\ UNCHANGED dispatchTimer
    /\ round' = NoRound
    /\ UNCHANGED <<taskVars, fifoVars, channels, known, notifyChan, rescheduleVars, stopVars>>

\* setupDispatchTimer's function
DispatchTimerFires ==
    /\ dispatchTimer
    /\ dispatchTimer' = FALSE
    /\ NotifyDispatcher
    /\ UNCHANGED <<attempt, key, failures, fifoVars, known, round, rescheduleVars,
                   stopVars, goVars>>

-----------------------------------------------------------------------------
(* The reader, and the executable on a worker *)

\* ReaderImpl.submit: a task whose fire time has not quite come is added to
\* the rescheduler.
Load(t) ==
    /\ pc[Reader] = "idle" /\ state[t] = "unloaded"
    /\ state' = [state EXCEPT ![t] = "pending"]
    /\ \E to \in {"submit", "add"} : Goes(Reader, to, t)
    /\ UNCHANGED <<attempt, key, failures, fifoVars, wrrVars, round, rescheduleVars, stopVars>>

\* Reschedule of a task that could not be submitted; a task that is not
\* pending any more is left alone.
Reschedule ==
    LET t == arg[Reader]
    IN  /\ pc[Reader] = "refused"
        /\ IF state[t] = "pending"
           THEN (\E k \in Keys : key' = [key EXCEPT ![t] = k]) /\ Goes(Reader, "add", t)
           ELSE Goes(Reader, "idle", NoTask) /\ UNCHANGED key
        /\ UNCHANGED <<state, attempt, failures, fifoVars, wrrVars, round, rescheduleVars,
                       stopVars>>

\* tracker.clear
Cancel(t) ==
    /\ state[t] = "pending"
    /\ state' = [state EXCEPT ![t] = "cancelled"]
    /\ UNCHANGED <<attempt, key, failures, fifoVars, wrrVars, round, rescheduleVars,
                   stopVars, goVars>>

\* processTask
WorkerLoop(w) ==
    /\ Moves(w, "head", IF fifoStatus = "stopped" \/ w \in retired THEN "exit" ELSE "select")
    /\ UNCHANGED <<taskVars, fifoVars, wrrVars, round, rescheduleVars, stopVars>>

WorkerStops(w) ==
    /\ w \in retired
    /\ Moves(w, "select", "exit")
    /\ UNCHANGED <<taskVars, fifoVars, wrrVars, round, rescheduleVars, stopVars>>

ReceiveTask(w) ==
    /\ pc[w] = "select" /\ tasksChan # << >>
    /\ tasksChan' = Tail(tasksChan)
    /\ Goes(w, "execute", Head(tasksChan))
    /\ UNCHANGED <<taskVars, fifoStatus, retired, wrrVars, round, rescheduleVars, stopVars>>

\* Execute and HandleErr.  An error that HandleErr turns into nil counts as
\* success; "busy" are the errors that may be resubmitted at once.  When the
\* namespace fails over the attempts start over.
Execute(w) ==
    LET t == arg[w]
    IN  /\ pc[w] = "execute"
        /\ \/ Goes(w, "ack", t) /\ UNCHANGED <<attempt, failures>>
           \/ /\ state[t] = "pending" /\ failures < MaxFailures
              /\ failures' = failures + 1
              /\ \E n \in {1, attempt[t]} : attempt' = [attempt EXCEPT ![t] = n + 1]
              /\ \E to \in {"busy", "failed"} : Goes(w, to, t)
        /\ UNCHANGED <<state, key, fifoVars, wrrVars, round, rescheduleVars, stopVars>>

Ack(w) ==
    LET t == arg[w]
    IN  /\ pc[w] = "ack"
        /\ state' = [state EXCEPT ![t] = IF @ = "pending" THEN "acked" ELSE @]
        /\ Goes(w, "head", NoTask)
        /\ UNCHANGED <<attempt, key, failures, fifoVars, wrrVars, round, rescheduleVars, stopVars>>

\* The rest of executeTask: Abort, or Nack with or without shouldResubmitOnNack
Nack(w) ==
    LET t == arg[w]
    IN  /\ pc[w] \in {"busy", "failed"}
        /\ IF fifoStatus = "stopped"
           THEN state' = Aborted({t}) /\ Goes(w, "head", NoTask) /\ UNCHANGED key
           ELSE IF state[t] # "pending"
           THEN Goes(w, "head", NoTask) /\ UNCHANGED <<state, key>>
           ELSE /\ \E k \in Keys : key' = [key EXCEPT ![t] = k]
                /\ Goes(w, IF pc[w] = "busy" /\ attempt[t] <= ResubmitMaxAttempts
                           THEN "submit" ELSE "add", t)
                /\ UNCHANGED state
        /\ UNCHANGED <<attempt, failures, fifoVars, wrrVars, round, rescheduleVars, stopVars>>

\* the result of TrySubmit is not looked at
NotSubmitted_Ignored(w) ==
    /\ pc[w] = "refused"
    /\ Goes(w, "head", NoTask)
    /\ UNCHANGED <<taskVars, fifoVars, wrrVars, round, rescheduleVars, stopVars>>

\* TrySubmit has returned false in Nack.
NotSubmitted(w) ==
    /\ Moves(w, "refused", "add")
    /\ UNCHANGED <<taskVars, fifoVars, wrrVars, round, rescheduleVars, stopVars>>

\* workerMonitor: at shutdown it retires all workers.
MonitorStops ==
    /\ fifoStatus = "stopped" /\ retired # Workers
    /\ retired' = Workers
    /\ UNCHANGED <<taskVars, tasksChan, fifoStatus, wrrVars, round, rescheduleVars,
                   stopVars, goVars>>

-----------------------------------------------------------------------------
(* The rescheduler.  Its lock is held by its loop from the moment the gate  *)
(* has fired until all keys are looked at; other calls hold it in one step. *)

Unlocked == pc[Loop] \in {"idle", "exit"}
Rescheduled == waiting \cup due

\* Add: for a time to come, or one that has come already (Due below)
Add(g) ==
    /\ pc[g] = "add" /\ Unlocked
    /\ waiting' = waiting \cup {arg[g]}
    /\ armed' = TRUE
    /\ Goes(g, "added", NoTask)
    /\ UNCHANGED <<taskVars, fifoVars, wrrVars, round, due, fired, scan,
                   reschedulerStatus, stopVars>>

\* no second look at the status
Added_Unchecked(g) ==
    /\ pc[g] = "added"
    /\ Goes(g, Idle(g), NoTask)
    /\ UNCHANGED <<taskVars, fifoVars, wrrVars, round, rescheduleVars, stopVars>>

Added(g) ==
    /\ pc[g] = "added"
    /\ IF reschedulerStatus = "stopped"
       THEN Unlocked /\ waiting' = {} /\ due' = {}
       ELSE UNCHANGED <<waiting, due>>
    /\ Goes(g, Idle(g), NoTask)
    /\ UNCHANGED <<taskVars, fifoVars, wrrVars, round, armed, fired, scan,
                   reschedulerStatus, stopVars>>

\* The rescheduling time of t comes.
Due(t) ==
    /\ t \in waiting /\ Unlocked
    /\ waiting' = waiting \ {t} /\ due' = due \cup {t}
    /\ UNCHANGED <<taskVars, fifoVars, wrrVars, round, armed, fired, scan,
                   reschedulerStatus, stopVars, goVars>>

\* Reschedule of a namespace, after a failover: the keys K are its own.
RescheduleNamespace(K) ==
    LET now == {t \in waiting : key[t] \in K}
    IN  /\ Unlocked /\ now # {}
        /\ waiting' = waiting \ now /\ due' = due \cup now
        /\ armed' = TRUE
        /\ UNCHANGED <<taskVars, fifoVars, wrrVars, round, fired, scan,
                       reschedulerStatus, stopVars, goVars>>

\* The timer gate, until it is closed
GateFires ==
    /\ armed /\ reschedulerStatus = "started"
    /\ armed' = FALSE /\ fired' = TRUE
    /\ UNCHANGED <<taskVars, fifoVars, wrrVars, round, waiting, due, scan,
                   reschedulerStatus, stopVars, goVars>>

\* rescheduleLoop: a closed gate can always be received from.
ReceiveFire ==
    /\ pc[Loop] = "idle"
    /\ fired \/ reschedulerStatus = "stopped"
    /\ fired' = FALSE
    /\ scan' = {key[t] : t \in Rescheduled}
    /\ Goes(Loop, IF Rescheduled = {} THEN "idle" ELSE "scan", NoTask)
    /\ UNCHANGED <<taskVars, fifoVars, wrrVars, round, waiting, due, armed,
                   reschedulerStatus, stopVars>>

\* reschedule, for one key: up to the first task that is not due
KeyDone(k) ==
    /\ pc[Loop] = "scan" /\ k \in scan
    /\ ~\E t \in due : key[t] = k
    /\ armed' = (armed \/ \E t \in waiting : key[t] = k)
    /\ scan' = scan \ {k}
    /\ Goes(Loop, IF scan = {k} THEN "idle" ELSE "scan", NoTask)
    /\ UNCHANGED <<taskVars, fifoVars, wrrVars, round, waiting, due, fired,
                   reschedulerStatus, stopVars>>

\* The task is taken out before the call of TrySubmit, not after: nobody else
\* can tell while the lock is held.
RescheduleDue(t) ==
    /\ pc[Loop] = "scan" /\ t \in due /\ key[t] \in scan
    /\ due' = due \ {t}
    /\ IF state[t] = "cancelled" THEN UNCHANGED goVars ELSE Goes(Loop, "submit", t)
    /\ UNCHANGED <<taskVars, fifoVars, wrrVars, round, waiting, armed, fired, scan,
                   reschedulerStatus, stopVars>>

\* the gate is left as it is
SubmitLater_Unarmed ==
    LET t == arg[Loop]
    IN  /\ pc[Loop] = "refused"
        /\ due' = due \cup {t}
        /\ scan' = scan \ {key[t]}
        /\ Goes(Loop, IF scan = {key[t]} THEN "idle" ELSE "scan", NoTask)
        /\ UNCHANGED <<taskVars, fifoVars, wrrVars, round, waiting, armed, fired,
                       reschedulerStatus, stopVars>>

\* TrySubmit has returned false: the task is still the key's first, for later.
SubmitLater ==
    LET t == arg[Loop]
    IN  /\ pc[Loop] = "refused"
        /\ due' = due \cup {t}
        /\ armed' = TRUE
        /\ scan' = scan \ {key[t]}
        /\ Goes(Loop, IF scan = {key[t]} THEN "idle" ELSE "scan", NoTask)
        /\ UNCHANGED <<taskVars, fifoVars, wrrVars, round, waiting, fired,
                       reschedulerStatus, stopVars>>

StopRescheduler ==
    /\ reschedulerStatus = "started"
    /\ reschedulerStatus' = "stopped"
    /\ UNCHANGED <<taskVars, fifoVars, wrrVars, round, waiting, due, armed, fired, scan,
                   stopVars, goVars>>

\* drain, by the loop
ReschedulerDrains ==
    /\ reschedulerStatus = "stopped"
    /\ Moves(Loop, "idle", "exit")
    /\ waiting' = {} /\ due' = {}
    /\ UNCHANGED <<taskVars, fifoVars, wrrVars, round, armed, fired, scan,
                   reschedulerStatus, stopVars>>

-----------------------------------------------------------------------------
(* Stop of the round robin scheduler, and of the FIFO scheduler within *)

Stop ==
    /\ stopper = "none"
    /\ status' = "stopped" /\ stopper' = "fifo"
    /\ UNCHANGED <<taskVars, fifoVars, wrrVars, round, rescheduleVars, goVars>>

StopFIFO ==
    /\ stopper = "fifo"
    /\ fifoStatus' = "stopped" /\ stopper' = "drain"
    /\ UNCHANGED <<taskVars, tasksChan, retired, wrrVars, round, rescheduleVars, status, goVars>>

StopDrains ==
    /\ stopper = "drain"
    /\ DrainTasks
    /\ stopper' = "abort"
    /\ UNCHANGED <<attempt, key, failures, fifoStatus, retired, wrrVars, round,
                   rescheduleVars, status, goVars>>

StopAborts ==
    /\ stopper = "abort"
    /\ AbortTasks
    /\ stopper' = "done"
    /\ UNCHANGED <<attempt, key, failures, fifoVars, known, notifyChan, dispatchTimer,
                   round, rescheduleVars, status, goVars>>

-----------------------------------------------------------------------------

Submitters == Workers \cup {Reader, Loop}

SubmitStep(g) ==
    \/ TrySubmit(g) \/ DispatchDirectly(g) \/ DispatchedDirectly(g)
    \/ Enqueue(g) \/ Notify(g) \/ Add(g) \/ Added(g)

DispatcherStep ==
    \/ ReceiveNotification \/ EventLoopStops \/ BeginRound \/ SkipChannel
    \/ ThrottleChannel \/ TakeTask \/ HandOver \/ HandedOver \/ EndRound
    \/ DispatchTimerFires

WorkerStep(w) ==
    \/ WorkerLoop(w) \/ WorkerStops(w) \/ ReceiveTask(w) \/ Execute(w) \/ Ack(w)
    \/ Nack(w) \/ NotSubmitted(w)

ReschedulerStep ==
    \/ GateFires \/ ReceiveFire \/ SubmitLater \/ StopRescheduler \/ ReschedulerDrains
    \/ \E k \in Keys : KeyDone(k)
    \/ \E t \in Tasks : Due(t) \/ RescheduleDue(t)
    \/ \E K \in Namespaces : RescheduleNamespace(K)

StopStep == Stop \/ StopFIFO \/ StopDrains \/ StopAborts \/ MonitorStops

Next ==
    \/ \E t \in Tasks : Load(t) \/ Cancel(t)
    \/ Reschedule
    \/ \E g \in Submitters : SubmitStep(g)
    \/ \E w \in Workers : WorkerStep(w)
    \/ DispatcherStep \/ ReschedulerStep \/ StopStep

Spec == Init /\ [][Next]_vars

-----------------------------------------------------------------------------

\* the tasks the goroutines have in hand
InHand == {arg[g] : g \in Goroutines} \ {NoTask}

(* A task is in one place only: in the hand of one goroutine, once in one   *)
(* queue, or in the rescheduler.  So no two workers run it at once, and a   *)
(* resubmission by Nack, Reschedule or the rescheduler never doubles it.    *)
NeverTwice ==
    /\ \A g, h \in Goroutines : arg[g] = arg[h] /\ arg[g] # NoTask => g = h
    /\ IsInjective(tasksChan) /\ \A k \in Keys : IsInjective(channels[k])
    /\ \A k, l \in Keys : k # l => Range(channels[k]) \cap Range(channels[l]) = {}
    /\ InHand \cap (Range(tasksChan) \cup Channeled \cup Rescheduled) = {}
    /\ Range(tasksChan) \cap (Channeled \cup Rescheduled) = {}
    /\ Channeled \cap Rescheduled = {}
    /\ waiting \cap due = {}

(* While the rescheduler runs a pending task is in some place: none of      *)
(* TrySubmit, Nack, Reschedule, the dispatcher and the rescheduler's loop   *)
(* drops it, however full the channels are and whatever stops meanwhile.    *)
NotLost ==
    reschedulerStatus = "started" =>
        \A t \in Tasks : state[t] = "pending" =>
            t \in InHand \cup Range(tasksChan) \cup Channeled \cup Rescheduled

\* the goroutines whose task TrySubmit has counted and not yet put into a channel
Submitting == {g \in Submitters : pc[g] \in {"direct", "dispatched", "enqueue"}}

(* numInflightTask, which decides whether a task may pass the others and    *)
(* whether the dispatcher goes on, counts the tasks in the channels, those  *)
(* being submitted, and those the dispatcher has not yet accounted for.     *)
InflightExact ==
    numInflightTask = Queued + Cardinality(Submitting) + round.dispatched

(* No task waits in a channel for a notification that never comes, whatever *)
(* the rate limiter refuses and whatever goes on while the dispatcher ends  *)
(* its loop.                                                                *)
DispatcherAwake ==
    status = "started" /\ Channeled # {} =>
        \/ notifyChan \/ dispatchTimer
        \/ pc[Dispatcher] # "idle"
        \/ \E g \in Submitters : pc[g] = "notify"

(* The rescheduler looks at its tasks again: its gate is armed, has fired,  *)
(* or its loop has still to come to the task's key.                         *)
GateArmed ==
    reschedulerStatus = "started" =>
        \A t \in Rescheduled : armed \/ fired \/ key[t] \in scan

(* After the scheduler has stopped nothing is left in its channels but what *)
(* the submitter that has just put it there is about to abort.              *)
StoppedIsDrained ==
    stopper = "done" =>
        /\ tasksChan # << >> =>
              \/ pc[Dispatcher] = "handed over"
              \/ \E g \in Submitters : pc[g] = "dispatched"
        /\ Channeled # {} => \E g \in Submitters : pc[g] = "notify"

(* The same for a rescheduler whose loop has ended. *)
ReschedulerDrained ==
    pc[Loop] = "exit" /\ Rescheduled # {} => \E g \in Submitters : pc[g] = "added"

=============================================================================
