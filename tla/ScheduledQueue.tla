--------------------------- MODULE ScheduledQueue ---------------------------
(***************************************************************************)
(* What wakes up the timer queue of a shard: queue_scheduled.go of         *)
(* service/history/queues and LocalGateImpl of common/timer, with the      *)
(* notifications the shard sends (transactions, notifyQueueProcessor).     *)
(*                                                                         *)
(* The queue has no poll timer.  Its event loop loads a new range when the *)
(* timer gate fires, and the gate is armed by a notification of a new      *)
(* timer or by the look-ahead that follows a completed load.  A load that  *)
(* fails arms nothing.                                                     *)
(*                                                                         *)
(* A timer is its fire time.  The reader is reduced to whether it has      *)
(* something to load: HistoryQueue has the rest.                           *)
(***************************************************************************)
EXTENDS Integers, FiniteSets

CONSTANTS
    MaxTime,       \* bound: the clock runs from 1 to MaxTime
    Shift,         \* config.TimerProcessorMaxTimeShift
    MaxPoll,       \* options.MaxPollInterval
    Delay,         \* lookAheadRateLimitDelay
    MaxTimers,     \* bound: timers written
    MaxLosses,     \* bound: times the shard goes back to Acquiring
    MaxRestarts    \* bound: crashes and moves of the shard

ASSUME TimeBounds ==
    /\ {MaxTime, MaxTimers, Shift, MaxPoll, Delay} \subseteq Nat \ {0}
    /\ {MaxLosses, MaxRestarts} \subseteq Nat

VARIABLES
    now,           \* the clock
    shard,         \* whether the shard context is Acquired, and how many
                   \* acquireShard have still to call notifyQueueProcessor
    level,         \* scheduledTaskMaxReadLevel of the shard context
    rows,          \* timers in the store
    limbo,         \* writes of unknown outcome
    toNotify,      \* timers of writers that have still to notify the queue
    newTime,       \* scheduledQueue.newTime
    newTimerCh,    \* a token is in the channel
    lookAheadCh,   \* a token is in the channel
    gate,          \* LocalGateImpl: its timer, and a token in fireCh
    loop,          \* pc of processEventLoop, and the time it will arm
    unread,        \* start of nonReadableScope
    saved,         \* the persisted watermark, and whether the persisted state
                   \* has slices for the default reader
    loading,       \* the default reader has something to load
    loaded,        \* history: the timers that have been loaded
    losses, restarts

storeVars == <<rows, limbo, saved>>
queueVars == <<newTime, newTimerCh, lookAheadCh, gate, loop, unread, loading, loaded>>
boundVars == <<losses, restarts>>
vars == <<now, shard, level, storeVars, toNotify, queueVars, boundVars>>

Times == 1 .. MaxTime

\* time.Time{}, which newTime is also when it is not set
Zero == 0

Later(a, b) == IF a >= b THEN a ELSE b

Idle == [pc |-> "idle", wake |-> Zero]
NoGate == [active |-> FALSE, at |-> Zero, fired |-> FALSE]

Init ==
    /\ now = 1
    /\ shard = [acquired |-> FALSE, notify |-> 0]
    /\ rows = {} /\ limbo = {} /\ toNotify = {}
    /\ saved = [high |-> 1, slices |-> FALSE] /\ level = 2
    /\ newTime = Zero /\ newTimerCh = TRUE /\ lookAheadCh = FALSE
    /\ gate = NoGate /\ loop = Idle /\ unread = 1
    /\ loading = FALSE /\ loaded = {}
    /\ losses = 0 /\ restarts = 0

-----------------------------------------------------------------------------
(* notify, and LocalGateImpl.Update *)

Notify(t) ==
    IF newTime # Zero /\ t >= newTime THEN UNCHANGED <<newTime, newTimerCh>>
    ELSE newTime' = t /\ newTimerCh' = TRUE

Updated_Latest(g, t) ==
    IF g.active /\ g.at > t THEN g ELSE [g EXCEPT !.active = TRUE, !.at = t]

Updated(g, t) ==
    IF g.active /\ g.at < t THEN g ELSE [g EXCEPT !.active = TRUE, !.at = t]

-----------------------------------------------------------------------------
(* The clock, the shard and the writers *)

Tick ==
    /\ now < MaxTime
    /\ now' = now + 1
    /\ UNCHANGED <<shard, level, storeVars, toNotify, queueVars, boundVars>>

\* The timer of the gate fires and its goroutine hands the signal on.  The
\* wake-up time of a timer that is not active is never looked at.
GateFires ==
    /\ gate.active /\ gate.at <= now
    /\ gate' = [active |-> FALSE, at |-> Zero, fired |-> TRUE]
    /\ UNCHANGED <<now, shard, level, storeVars, toNotify, newTime, newTimerCh, lookAheadCh,
                   loop, unread, loading, loaded, boundVars>>

ScheduledAt_AsRequested(ts) == ts

\* A timer is moved forward if it is behind the read level or the clock.
ScheduledAt(ts) ==
    LET min == Later(level, now) IN IF ts < min THEN min + 1 ELSE ts

MoreTimers == Cardinality(rows \cup limbo) < MaxTimers

\* A transaction with a timer succeeds; the notification comes after it.
WriteTimer(ts) ==
    LET t == ScheduledAt(ts)
    IN  /\ shard.acquired
        /\ MoreTimers /\ t \in Times \ rows
        /\ rows' = rows \cup {t}
        /\ toNotify' = toNotify \cup {t}
        /\ UNCHANGED <<now, shard, level, limbo, saved, queueVars, boundVars>>

\* Its outcome is unknown: the shard has to be acquired again, and the queue
\* is notified since the write has possibly succeeded.
WriteUnknown(ts) ==
    LET t == ScheduledAt(ts)
    IN  /\ shard.acquired
        /\ losses < MaxLosses
        /\ MoreTimers /\ t \in Times \ rows
        /\ limbo' = limbo \cup {t}
        /\ shard' = [shard EXCEPT !.acquired = FALSE]
        /\ toNotify' = toNotify \cup {t}
        /\ losses' = losses + 1
        /\ UNCHANGED <<now, level, rows, saved, queueVars, restarts>>

\* A write of unknown outcome lands, as long as the range is not renewed.
WriteLands(t) ==
    /\ t \in limbo
    /\ limbo' = limbo \ {t}
    /\ rows' = rows \cup {t}
    /\ UNCHANGED <<now, shard, level, saved, toNotify, queueVars, boundVars>>

NotifyNewTasks(t) ==
    /\ t \in toNotify
    /\ toNotify' = toNotify \ {t}
    /\ Notify(t)
    /\ UNCHANGED <<now, shard, level, storeVars, lookAheadCh, gate, loop, unread, loading,
                   loaded, boundVars>>

Acquired_Silent ==
    /\ ~shard.acquired
    /\ shard' = [shard EXCEPT !.acquired = TRUE]
    /\ limbo' = {}
    /\ UNCHANGED <<now, level, rows, saved, toNotify, queueVars, boundVars>>

\* acquireShard renews the range and the shard is Acquired.
Acquired ==
    /\ ~shard.acquired
    /\ shard' = [acquired |-> TRUE, notify |-> shard.notify + 1]
    /\ limbo' = {}
    /\ UNCHANGED <<now, level, rows, saved, toNotify, queueVars, boundVars>>

NotifyQueueProcessor ==
    /\ shard.notify > 0
    /\ shard' = [shard EXCEPT !.notify = @ - 1]
    /\ Notify(now)
    /\ UNCHANGED <<now, level, storeVars, toNotify, lookAheadCh, gate, loop, unread,
                   loading, loaded, boundVars>>

-----------------------------------------------------------------------------
(* processEventLoop *)

\* case <-newTimerCh, up to the lock in processNewTime
ReceiveNewTimer ==
    /\ loop.pc = "idle" /\ newTimerCh
    /\ newTimerCh' = FALSE
    /\ loop' = [loop EXCEPT !.pc = "newTime"]
    /\ UNCHANGED <<now, shard, level, storeVars, toNotify, newTime, lookAheadCh, gate, unread,
                   loading, loaded, boundVars>>

ProcessNewTime ==
    /\ loop.pc = "newTime"
    /\ newTime' = Zero
    /\ gate' = Updated(gate, newTime)
    /\ loop' = Idle
    /\ UNCHANGED <<now, shard, level, storeVars, toNotify, newTimerCh, lookAheadCh, unread,
                   loading, loaded, boundVars>>

\* case <-timerGate.FireCh().  While the shard is not Acquired its read
\* level is an error, and the handler returns.
ProcessNewRange ==
    /\ loop.pc = "idle" /\ gate.fired
    /\ gate' = [gate EXCEPT !.fired = FALSE]
    /\ IF shard.acquired
       THEN /\ level' = Later(level, now + Shift)
            /\ unread' = level'
            /\ loading' = TRUE
       ELSE UNCHANGED <<level, unread, loading>>
    /\ UNCHANGED <<now, shard, storeVars, toNotify, newTime, newTimerCh, lookAheadCh,
                   loop, loaded, boundVars>>

\* case <-lookAheadCh: lookAheadTask, up to the answer of the store.  What it
\* will arm the gate for is the next timer of the window, the end of the
\* window, the start of the window after an error, or a delay.
LookAheadTask ==
    LET window == {t \in rows : unread <= t /\ t < unread + MaxPoll}
        first == IF window = {} THEN unread + MaxPoll
                 ELSE CHOOSE t \in window : \A u \in window : t <= u
    IN  /\ loop.pc = "idle" /\ lookAheadCh
        /\ lookAheadCh' = FALSE
        /\ \E t \in {first, unread} \cup ({now + Delay} \cap Times) :
                loop' = [pc |-> "update", wake |-> t]
        /\ UNCHANGED <<now, shard, level, storeVars, toNotify, newTime, newTimerCh, gate,
                       unread, loading, loaded, boundVars>>

UpdateGate ==
    /\ loop.pc = "update"
    /\ gate' = Updated(gate, loop.wake)
    /\ loop' = Idle
    /\ UNCHANGED <<now, shard, level, storeVars, toNotify, newTime, newTimerCh, lookAheadCh,
                   unread, loading, loaded, boundVars>>

\* case <-checkpointTimer.C, as far as the watermark is concerned.  What is
\* saved after the last restart of the instance is of no consequence.
Checkpoint ==
    /\ loop.pc = "idle" /\ shard.acquired
    /\ \E slices \in BOOLEAN :
           /\ loading => slices
           /\ saved' = IF restarts = MaxRestarts THEN saved
                       ELSE [high |-> unread, slices |-> slices]
    /\ UNCHANGED <<now, shard, level, rows, limbo, toNotify, queueVars, boundVars>>

\* The default reader has loaded what there is and calls completionFn.  That it
\* can do so with slices still to be read (NothingLeftToLoad of HistoryQueue) is
\* left out: it reads them with the next new range, for which the look-ahead
\* arms the gate.
ReaderCompletion ==
    /\ loading
    /\ loading' = FALSE
    /\ loaded' = loaded \cup {t \in rows : t < unread}
    /\ lookAheadCh' = TRUE
    /\ UNCHANGED <<now, shard, level, storeVars, toNotify, newTime, newTimerCh, gate, loop,
                   unread, boundVars>>

\* The shard is lost and loaded again, and the engine starts the queue before
\* the shard is Acquired.  The default reader has something to load at once
\* if the persisted state has slices for it.
Restart ==
    /\ restarts < MaxRestarts
    /\ restarts' = restarts + 1
    /\ shard' = [acquired |-> FALSE, notify |-> 0]
    /\ level' = saved.high + 1
    /\ limbo' = {} /\ toNotify' = {}
    /\ newTime' = Zero /\ newTimerCh' = TRUE /\ lookAheadCh' = FALSE
    /\ gate' = NoGate /\ loop' = Idle
    /\ unread' = saved.high
    /\ loading' = saved.slices
    /\ UNCHANGED <<now, rows, saved, loaded, losses>>

LoopStep ==
    \/ ReceiveNewTimer \/ ProcessNewTime \/ ProcessNewRange
    \/ LookAheadTask \/ UpdateGate \/ Checkpoint

Next ==
    \/ Tick \/ GateFires
    \/ \E t \in Times : WriteTimer(t) \/ WriteUnknown(t) \/ WriteLands(t)
                        \/ NotifyNewTasks(t)
    \/ Acquired \/ NotifyQueueProcessor
    \/ LoopStep
    \/ ReaderCompletion
    \/ Restart

Spec == Init /\ [][Next]_vars

\* The clock runs, goroutines go on, a lost shard is acquired again, and
\* Go's select serves every channel that is ready again and again.
Fairness ==
    /\ WF_vars(Tick) /\ WF_vars(GateFires)
    /\ \A t \in Times : WF_vars(NotifyNewTasks(t))
    /\ WF_vars(Acquired) /\ WF_vars(NotifyQueueProcessor)
    /\ SF_vars(ReceiveNewTimer) /\ WF_vars(ProcessNewTime)
    /\ SF_vars(ProcessNewRange)
    /\ SF_vars(LookAheadTask) /\ WF_vars(UpdateGate)
    /\ WF_vars(ReaderCompletion)

FairSpec == Spec /\ Fairness

-----------------------------------------------------------------------------
(* Properties *)

\* Nothing is under way that would still arm the gate or load a range.
Quiet ==
    /\ shard.acquired /\ shard.notify = 0 /\ toNotify = {}
    /\ ~newTimerCh /\ ~lookAheadCh /\ ~gate.fired
    /\ loop.pc = "idle" /\ ~loading

\* When nothing is under way, the gate is armed, and for no later than the
\* first timer that has not been loaded or the delay of a throttled
\* look-ahead: the queue, which polls only through its gate, does not sleep
\* through a timer.
ArmedInTime ==
    Quiet => gate.active /\ \A t \in rows \ loaded : gate.at <= Later(t, now + Delay)

\* A timer in the store that has not been loaded is still ahead of the read
\* position, or is about to be loaded: no write lands behind it, whatever
\* becomes of the shard between the choice of the fire time and the write.
\* Nor is the read position ever beyond the level the shard guards.
NoTimerSkipped ==
    /\ unread <= level
    /\ \A t \in rows \ loaded : t >= unread \/ loading

\* Every timer in the store is loaded in the end, through failed loads,
\* look-ahead errors, the loss of the shard and restarts.
TimersLoaded ==
    \A t \in Times : (t \in rows) ~> (t \in loaded)

=============================================================================
