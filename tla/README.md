# A TLA+ model of the Temporal server

TLA+ specifications of the concurrent core of the server, the TLC
configurations that check them on small instances and TLAPS proofs of the most
important properties. Everything is translated from the Go sources; a module's
comments name the functions it stands for, and `PROJECT.json` gives the lines of
every definition.

## The system

A Temporal cluster runs four services. **Frontend** validates and routes
requests. **History** owns the state of workflow executions, partitioned into
shards; **matching** owns task queues and hands tasks to workers; **worker** runs
system workflows. The state is in a database (Cassandra or SQL).

| part | state | operations | where it is hard |
|---|---|---|---|
| shard context (`service/history/shard/context_impl.go`) | shard row in memory, RangeId, task ID sequence, read levels, queue states, handover namespaces, lifecycle state | acquire and renew the range, allocate task IDs, write, save queue states, read levels, handover | several hosts hold contexts for one shard; writes and renewals time out and land late |
| shard controller (`controller_impl.go`) | map of shard contexts, status | get or create, close, callback, acquire loop, shutdown | five kinds of goroutines stop, replace and finish the same context |
| history task queues (`service/history/queues`) | readers, slices, iterators, pending tasks, deletion watermark | load, split, merge, shrink, checkpoint, reload | a task must not be lost between memory, saved queue state and deletion |
| executables, rescheduler, schedulers (`queues`, `common/tasks`) | task states, priority queues, worker channels | submit, nack, reschedule, cancel, drain | shutdown against submission |
| mutable state and workflow tasks (`service/history/workflow`) | workflow execution record, pending items, update registry | schedule, start, complete, fail, time out workflow tasks | transient and speculative workflow tasks that are lost on purpose |
| replication and nDC (`service/history/replication`, `ndc`) | version histories, streams, ack levels | send, receive, acknowledge, resolve conflicts | reordering, duplication, branches |
| matching (`service/matching`) | lease, task ID block, ack manager, matcher | write, read, complete, delete tasks, forward | two hosts own a partition; acks out of order |
| deletion and archival | stages of a delete task | delete visibility, execution, history | failure between two stages |
| locks, caches, clocks (`common`) | waiters, pins, timestamps | lock, evict, advance | priorities, wakeups |
| frontend, worker, persistence queries, tools, configuration | little protocol state of their own | | not modelled |

`PROJECT.json` lists the components one by one with what is and what is not
modelled, and the hazards of the code at the lines where they bite.

## Modules

| module | what it models |
|---|---|
| `ShardState` | `transition()`: the states of a shard context, and which request each kind of write error makes |
| `ShardContext` | the contexts of one shard, on any hosts, and the shard row they fight for |
| `ShardController` | the contexts one host creates for one shard, from creation to the last `finishStop` |
| `QueueSlice` | ranges, scopes, predicates, trackers and slices of a history task queue, as operators on records |
| `SliceMerge` | the merge and the compaction of slices and of their iterators |
| `HistoryQueue` | a history task queue: its event loop, its readers, mitigation, checkpoint and reload |
| `TaskQueue` | what such a queue promises; `HistoryQueue` is shown to implement it |
| `ScheduledQueue` | what wakes up the timer queue: notifications, look-ahead, timer gate, scheduled read level of the shard |
| `TaskScheduler` | how executables are run: round robin scheduler, FIFO scheduler, workers, rescheduler |
| `MatchingTaskQueue` | a partition of the matching service: lease, writer, reader, ack manager, collector |
| `MCShardContext`, `MCShardController`, `MCHistoryQueue`, `MCScheduledQueue`, `MCTaskScheduler`, `MCMatchingTaskQueue` | instances for TLC |
| `ShardContextProofs`, `ShardControllerProofs` | the proofs about `ShardContext` and `ShardController` |
| `QueueProofs` | the proofs about `QueueSlice` and `ScheduledQueue` |
| `TaskSchedulerProofs`, `TaskSchedulerInflight` | the proofs about `TaskScheduler`: where its tasks are, and its counter of tasks in flight |
| `MatchingTaskQueueInvariant`, `MatchingTaskQueueWrite`, `MatchingTaskQueueProofs` | the proofs about `MatchingTaskQueue`, in the order in which they build on each other |

A definition whose name has a suffix (`EndRound_AllThrottled`) is a faulty
variant of the one that follows it: with it in place the property it is paired
with in `PROJECT.json` ("mutants") fails.

### ShardContext

The persistence store is `dbRange`, `dbQueueState` and `rows` (task IDs); a call
whose outcome the caller does not learn stays in `lateUpdates` or `lateWrites`
until it lands or for ever. The store applies an update or a write only if the
row still has the RangeId the call carries, as `lockShard` and `readLockShard`
of the SQL store and the conditional batch of the Cassandra store do. A context
is a member of `Contexts`; its memory is a function of it (`state`, `rangeID`,
`seq`, `maxSeq`, `level`, `queueState`, `handover`, ...).

One step is one persistence call with what the code does around it under the
same lock. The shard lock is held over several steps only by an operation that
allocates task IDs, because `generateTaskIDLocked` may renew the range in the
middle: such an operation is `request[c]`. All operations that write tasks
(`AddTasks`, `CreateWorkflowExecution`, `UpdateWorkflowExecution`,
`ConflictResolveWorkflowExecution`, `SetWorkflowExecution`) have the same
control: check the state, check the handover, allocate, write, handle the error;
they are `BeginWrite`, `GenerateTaskID`, `GenerateRenew`, `PersistWriteOK` and
`PersistWriteError`. What they write besides tasks is left out. Errors are
classified as `handleWriteErrorAndUpdateMaxReadLevelLocked` does: surely not
committed, ownership lost, unknown. A stopped context stays in Stopping, because
how it is finished makes no difference to the row.

`handover` is the entry of one namespace in `handoverNamespaces`. While it is
there, `errorByNamespaceStateLocked` refuses the writes for this namespace, and
two kinds of writes go on: those for other namespaces (`BeginOtherWrite`), and
the visibility task of `DeleteWorkflowExecution`, which checks the state of the
shard and not that of the namespace. Both draw IDs above the recorded
`MaxReplicationTaskID`, renew the range and raise the read level, from which a
later notification takes a new value. `NotificationVersion` is left out: a
notification that is not newer changes nothing, any other may come at any time.

History variables: `granted` (whose update created a RangeId), `issued` (the IDs
handed out), `exempt` (those of the two kinds of writes above), `saved` (the
queue state a context knows to be stored).

### ShardController

`shard` is the entry of the controller's map, `created` counts the contexts. The
goroutines are program counters: `getter` (`getOrCreateShardContext` of API
callers and of the pump), `pump`, `acquirer` (`acquireShard`), `callback`
(`shardClosedCallback`, started when a context enters Stopping) and `closer`
(`CloseShardByID`). Checks made before a lock is taken are steps of their own:
the owner that `Lookup` returned may be out of date when the context is created
or closed. `engine` follows the engine from `createEngine`, while only
`acquireShard` knows it, into `engineFuture` and to its `Stop`.

### QueueSlice, SliceMerge, HistoryQueue and TaskQueue

A task key is a number; for timers several successive keys may share a fire
time. `QueueSlice` and `SliceMerge` have no state: a slice is a record of its
scope, the ranges of its iterators, the tasks its tracker holds and the count per
namespace, and each method of `SliceImpl`, `executableTracker` and `Scope` is an
operator.

`HistoryQueue` has one queue of either category. `reader[r]` is a reader's list
of slices, the slice it reads next and whether it is awake; `loop` is the event
loop, with the checkpoint in its three steps (compute, delete, save), between
which readers load and workers execute. `written`, `rows` and `executed` are the
tasks in the store and their fate; `saved` is the persisted queue state. The
four mitigation actions are four actions, enabled under the conditions on which
they act; the alerts that lead to them may be raised at any time, up to
`MaxAlerts`. A reload (crash, or the shard moves) starts from `saved`.

Abstracted: which of several namespaces `splitAndClearSlice` unloads first is
left open; an executable is pending or done here (`TaskScheduler` has the rest);
a persisted state that another caller of the shard writes later is one that some
earlier save could have left.

`TaskQueue` is three sets and three actions: write, execute what is in the
store, delete what has been executed. The refinement mapping is the identity on
`written`, `rows` and `executed`.

### ScheduledQueue

A timer is its fire time. The event loop is `loop`, the gate is `gate` (armed or
not, for when, and whether a token is in `fireCh`), `newTime` and the two
channels carry notifications. A write has two steps, because the fire time is
chosen under the shard lock and the queue is notified after it is released; a
write of unknown outcome waits in `limbo`. The reader is reduced to whether it
has something to load, and when it reports completion it has loaded all there
was: the spurious completion of the finding `queue_completion` is not part of
this module, where the default reader would go on with the next new range.
`Stop` is not modelled: a stopped queue is replaced by `Restart`.

### TaskScheduler

The goroutines are the reader, the rescheduler's loop, the dispatcher (event
loop of the round robin scheduler) and the workers; `pc` and `arg` say where each
is and which task it has in hand. A task is in a hand, in a task channel
(`channels`, per namespace and priority), in `tasksChan` of the FIFO scheduler or
in the rescheduler (`waiting` before its time, `due` after). An access to a
channel, `numInflightTask`, a status or the rescheduler's lock is a step of its
own, with the exceptions below. `round` is a round of `doDispatchTasksWithWeight`.

Abstracted: the rate limiter refuses or not; the end of a round lowers the
counter, looks at the lengths of the channels and sets the timer in one step;
`abortTasks` drains and adjusts the counter in one step, and so does `drainTasks`
drain; a refused `TrySubmit` finds the channel full and lowers the counter in one
step; the priority queues of the rescheduler are sets, since a task that is not
due never hides one that is; a task the loop submits is taken out of its queue
before the call, which nobody can tell while the lock is held; the number of
workers does not change.

### MatchingTaskQueue

`row` is the row of the task queue (range ID and ack level), `rows` the tasks,
`late` the store calls that timed out and may still land. A manager is a record
with its lease, block of IDs, writer, reader (read level, batch), outstanding
tasks of the ack manager and state; several may be loaded at once and meet in the
store only. The deletion of tasks is not conditional on the lease, as in the
code. The ranges that one `getTaskBatch` tries are read in one step. An error of
unknown outcome while the lease is taken is retried from the start; the code does
so for transient errors and unloads the manager otherwise, and the next manager
then starts in the same way.

## Runs

| run | instance | shows |
|---|---|---|
| `shard` | 2 contexts, ranges of 1 ID, RangeIds up to 2, writes of at most 2 tasks, 2 queue states, 1 late call at a time | `SingleWriter`, `UniqueTaskIDs`, `LevelCoversRows`, `SavedStateDurable`, `Inv`, `ReadLevelMonotonic`, `NoRowBelowRead` |
| `shard_handover` | 1 context, ranges of 2 IDs, RangeIds up to 2, writes for the namespace and for another one, deletions, 1 late write and 1 late update | `HandoverIsFinal` |
| `shard_mid_batch` | 1 context, writes of 2 tasks, ranges of 1 ID | violates `QueueSeesEveryWrite`, see Findings |
| `controller` | 2 contexts, 1 API caller and the pump | `AcquiringIsDriven`, `ServedHasEngine`, `NoOrphan`, `MapHasNoStopped`, `NoEngineLeft`, `NothingAfterShutdown` |
| `controller_liveness` | 1 context, 1 API caller, 1 retry | `AcquiringEnds`, `ShutdownReleasesAll`, `LostOwnershipUnloads`, `RemovedIsReleased` |
| `queue` | both categories, 2 tasks of 2 namespaces, 2 readers, 1 mitigation, 1 reload | `WellFormed` (no panic), `CountsExact`, `OneSlicePerTask`, `NoTaskLost`, `ImplementsTaskQueue` |
| `queue_liveness` | 2 tasks, 1 reader, 1 mitigation, 1 reload | `AllExecuted` |
| `queue_completion` | 3 tasks, 2 readers | violates `NothingLeftToLoad`, see Findings |
| `scheduled_queue` | 1 timer, 2 moments, 1 loss of the shard, 1 restart | `ArmedInTime`, `NoTimerSkipped`, `TimersLoaded` |
| `task_scheduler` | 2 tasks, 2 channels of weights 2 and 1, 1 worker, capacities of 1, 1 failure | `NeverTwice`, `NotLost`, `InflightExact`, `DispatcherAwake`, `GateArmed`, `StoppedIsDrained`, `ReschedulerDrained` |
| `matching` | 1 manager, 2 tasks, 2 leases, 1 task written back | `NoTaskLost`, `TasksStarted` |
| `matching_takeover` | 2 managers, 1 task that may expire or be written back, 2 leases, 1 late call or the deletion of tasks | `NothingOwedBelowAck`, `UniqueTaskIDs` |

The type invariants of `ShardController` and `MatchingTaskQueue` are checked in
the first run of the module; that of `ShardContext` is part of `Inv`, and that of
`HistoryQueue` of `WellFormed`; the types of `TaskScheduler` are in the inductive
invariant of its proofs.

### Bounds

The bounds are chosen so that what can go wrong happens.

* Shard: with ranges of one ID every second task ID of a write renews the range,
  and two RangeIds let a context lose the shard to another one. The constraint
  `OneConcern` lets a behaviour either hand out task IDs or save queue states,
  which do not read each other, and `OneLate` allows one late call at a time.
  Several late calls and larger instances are left to the proofs, which cover all
  of these properties. Contexts are symmetric. With a handover the read level and
  the recorded ID matter: two RangeIds of two IDs let a write for the namespace
  and one that the handover does not stop have their IDs in the same range, in
  either order, before and after the shard is acquired again.
* Queue: limits of 1 or 2 make every threshold (pending tasks, slices, readers)
  reachable with two tasks; both tasks share a fire time in the scheduled queue,
  so that the deletion range is cut inside one.
* Timer queue: one timer and two moments are enough for every order of
  notification, look-ahead, gate and write; the properties also hold with 2
  timers, 3 moments (1.56 million states) and with 2 timers, 4 moments, one loss
  and one restart (18.1 million states).
* Task scheduler: channels of one task are full as often as possible. The
  constraints of `MCTaskScheduler` cut the number of states: at any moment at most
  one of cancellation, the two shutdowns, throttling and a failed execution is
  explored, the rescheduler is at work only while the scheduler neither throttles
  nor stops, and a failed task has the low priority. The combinations this leaves
  out are covered by the proofs, which have no constraint.
* Matching: two leases are a takeover, or a renewal by the manager itself. A crash
  while a call is under way is a call that times out before the crash. The
  constraint `TimeoutOrDeletion` lets a behaviour with two managers either have a
  late call or delete tasks. `RewriteBound` lets a task that could not be started
  be written back without deletions, either with no late call or with one manager
  at a time: a write back that times out, lands late, fails or meets a crash is
  among these cases. In the run `matching` no call is late, since its two leases
  would not outlast one and `TasksStarted` would fail for lack of leases. All of
  these together, and any number of managers, tasks, leases and late calls, are
  left to the proofs, which cover the four safety properties.

`CHECK_DEADLOCK FALSE` is set where the system really may stop: a shard whose
contexts are all stopped, a scheduler that has been shut down or has run all its
tasks, a partition all of whose managers are unloaded.

### Fairness

* `ShardController`: weak fairness of every goroutine that has been started and
  of the pump, whose ticker keeps ticking; it includes that `Lookup` does not fail
  for ever. Ring changes, requests, admin calls and errors are never assumed to
  happen. `acquireShard` may fail every attempt; what bounds it is the retry
  policy.
* `HistoryQueue`: the workers execute what is submitted, a reader that is awake
  reads, the event loop gets its poll and checkpoint timers; a read or a range
  that is tried again and again succeeds in the end. No mitigation and no reload
  is assumed.
* `ScheduledQueue`: the clock, the gate and the goroutines go on; a shard that is
  being acquired is acquired; strong fairness where a step can fail (a load while
  the shard is not acquired, a look-ahead that meets an error) and is tried again,
  and where the event loop chooses between ready channels.
* `MatchingTaskQueue`: the manager's goroutines go on and a poller finishes the
  tasks it is given; strong fairness of the read and of the ack timer, which the
  pump's `select` chooses among ready cases. `TasksStarted` promises nothing once
  the manager is unloaded: what loads it again is the next request.

## Proofs

The theorems hold for every value of the constants that satisfies the named
assumptions of the modules, which TLC evaluates in the runs. Each safety property
of a specification below follows from an inductive invariant: it holds initially
and every action preserves it. TLC has checked each of these invariants on the
instances of the runs; `Inv` of `ShardContext` stays a property of its run.

### ShardContext

For every set of contexts, range size and bound, `ShardContextProofs` proves
`TypeOK`, `SingleWriter`, `UniqueTaskIDs`, `LevelCoversRows`,
`ReadLevelMonotonic`, `NoRowBelowRead`, `HandoverIsFinal` and
`SavedStateDurable`. The assumptions are that `RangeSize` is a positive natural
number, that the bounds are natural numbers and that `NoOwner` is not a context.

None of the properties is inductive: that two contexts cannot both write follows
from who was granted a range, not from their states. The invariant `Inv` says of
every RangeId who created it (`GrantInv`), that a context that draws IDs does so
from the range granted to it (`BlockInv`), that every ID ever issued lies in a
range granted to its issuer (`IssuedInv`), and what a call that may still land
can do: a late write under the row's RangeId belongs to a context that cannot
write before it has renewed the range (`LateInv`), a late update of the queue
state is not older than what its context has saved (`QueueInv`). `RequestInv`
and `RowInv` relate the IDs of the write in progress and the rows to the read
level. The steps that change the store (renewals, late updates) share the lemmas
that move a range from one context to another. The theorems follow from `Inv`,
the two action properties also from what each action does to the level and the
rows.

`HandoverIsFinal` needs more, and `HandoverInv`, which every step keeps from a
state of `Inv`, says it: a write that has checked the namespace is under way only
while there is no handover; the IDs of the other writes are `exempt` from the
moment they are drawn; and a write that may still land under the row's RangeId is
exempt, or its context has no handover with a number, because it is not Acquired
and `UpdateHandoverNamespace` records the pending value. A renewal of the range
leaves every such write behind, and a number is recorded in state Acquired only,
where `RowInv` has all rows of the context below its read level. The theorem
bounds the tasks of the namespace itself, except those that delete visibility
records, which no replication waits for.

### ShardController

For any number of contexts and retries (`ControllerBounds`),
`ShardControllerProofs` proves `TypeOK`, `AcquiringIsDriven`, `ServedHasEngine`,
`NoOrphan`, `MapHasNoStopped`, `NoEngineLeft` and `NothingAfterShutdown`. The
invariant `LifeInv` says of every context which goroutine is responsible for it
in each state: a context that is Acquiring has its `acquireShard`, one that is
Stopping its callback, and one that has left the map and is not Stopped has a
goroutine that will finish it. That an engine is never left running needs in
addition who knows the engine: `created` only while `acquireShard` is about to
make the transition, and `set` only before Stopped.

### QueueSlice

`QueueProofs` proves about the operators, for any namespaces and any slice:

* `AndPasses`, `OrPasses`: `predicates.And` and `Or` pass the namespaces that
  both or either pass, whichever of their simplifications applies.
* `TrackerSplitExact`, `TrackersMergeExact`: splitting and merging trackers loses
  no task and keeps `pendingPerNamespace` exact, also when `merge` swaps the two
  because the second is larger.
* `SplitByPredicateExact`: every task of a slice is in the scope of exactly one of
  the two parts, and what the slice has still to execute one of them executes.
* `ShrinkScopeExact`: `ShrinkScope` narrows range and predicate and drops nothing
  that is still to be executed; a slice with nothing left gets an empty scope.
* `ClearExact`: what a slice had still to execute it reads again after `Clear`.

The argument is about `WillProcess`: a task is in the scope of a slice and either
tracked and not done, or in the range of an iterator. `ShrinkScope` needs that the
iterators are ordered and in the scope (`ValidSlice`), since it looks at the first
one only, and that the counts are exact (`ExactCount`), since it narrows the
predicate to the namespaces with a count. TLC checks both as `WellFormed` and
`CountsExact` of `HistoryQueue`.

### ScheduledQueue

For any bounds, shift, delay and poll interval, `QueueProofs` proves
`NoTimerSkipped` and `ArmedInTime`. In `TimerInv` a timer that has not been loaded
is not below the start of what is still to be read, also not for a queue that
starts again from the saved state (`SavedInv`), and a write of unknown outcome
exists only while the shard is not Acquired (`LimboInv`). `WakeInv` says of every
such timer what will wake the queue in time for it: the writer that has still to
notify it, `newTime`, the time the loop is about to arm, the gate, or a load that
is due anyway. `NewTimeInv` is what makes `newTime` count: a token or the loop is
on its way. The assumption `TimeBounds` says that times, shift, delay and poll
interval are positive.

### TaskScheduler

For any tasks, keys, namespaces, weights, workers, capacities and bounds,
`TaskSchedulerProofs` proves `NeverTwice`, `NotLost`, `GateArmed`,
`StoppedIsDrained` and `ReschedulerDrained`, and `TaskSchedulerInflight` proves
`InflightExact` and `DispatcherAwake`. They assume what `SchedulerConstants` says:
positive capacities and weights, every key in some namespace, and that the names
of the goroutines are distinct.

The inductive invariant has five parts. `Places` says task by task that the
places are disjoint and that a pending task is in one of them; a task that is not
loaded is in none, which is why `Load` cannot double one. `GoInv` says at which
program counters a goroutine has a task in hand: without it a step could let go
of a task it was not known to hold. `KeyInv` has the types of keys and rounds.
`GateInv` is `GateArmed`; it needs `Places`, because the key of a task may change
while it is in a hand and not while it is in the rescheduler. `DrainInv` follows
the two shutdowns: from the moment each queue has been drained, only a submitter
that is about to look at the status again can have put something there. There is
a lemma for each kind of move between two places, and each action is shown to be
one of these moves.

`InflightExact` needs `CountInv`: the occupied places in the channels and the
submitters between the increment and the channel are finite sets, and what the
dispatcher has taken out and not yet subtracted is of its present round, so that
nothing is left over when it goes to sleep. `DispatcherAwake` needs `AwakeInv`:
whenever a channel has a task, its key is in the dispatcher's round or a
notification, a timer or another round is to come; that the dispatcher may sleep
when the counter is zero rests on the counter being exact.

### MatchingTaskQueue

For any managers, tasks, leases, late calls and rewrites, the three
`MatchingTaskQueue` proof modules establish `TypeOK`, `UniqueTaskIDs`,
`NoTaskLost` and `NothingOwedBelowAck`, assuming `MatchingBounds`. `QueueInv` has
five parts. `LeaseInv` says how far everybody has come: no level of any manager,
of the row or of a late call is above what the holder of the lease has published
as its read limit, and blocks of two managers are apart. `ClaimInv` says that an
ID written, or that a batch or a late call may still write, is claimed once and
lies in no block that is still being handed out. `KnownInv` says that managers
hold only tasks that were written. `SafeInv` is the heart: of a task that was
accepted and neither started nor expired some row is `Safe`, which means that no
manager, however old its lease, has passed it, no late call carries an ack level
above it and no collection has it in its range. It mentions all managers because
the deletion of tasks is not conditional on the lease.

`MatchingTaskQueueInvariant` has the invariant and the steps that write no task,
`MatchingTaskQueueWrite` the writer, `MatchingTaskQueueProofs` the induction and
the theorems. The lemmas on steps take two facts about numbers and finite sets as
hypotheses (`LeastElement`, `Counting`), which the last module derives from the
library's theorems.

### Only model-checked

* All liveness properties, which are out of the prover's reach.
* The safety of `HistoryQueue` and its refinement of `TaskQueue`. A reader is a
  sequence of slices that `SliceMerge`, `FoldLeft` and `SelectSeq` rebuild, and
  what a fold or a selection yields for every sequence needs induction over the
  sequence. The same holds for `SplitByRange`, the merge of iterators and the
  merge of slices. The operators they are made of are the ones proved about above.

## Findings

`shard_mid_batch`: `renewRangeLocked` moves the immediate read level to the start
of the new range also when it is called between two task IDs of one write. If
this write then times out, the immediate queue may read up to the new range
before the write lands: the task with the ID from the old range appears behind
the reader. `NoRowBelowRead`, which holds and is proved, says that this is the
only way.

`queue_completion`: `ShrinkSlices` removes elements from a reader's list of
slices without resetting `nextReadSlice`. If it removes the element the reader
reads next, the reader finds no successor and reports that nothing is left to
load, although later slices have tasks. The default reader recovers with the next
new range; another reader stays that way until slices are moved into it, it is
mitigated, or the shard is reloaded. No task is lost (`NoTaskLost`), but with more
than one reader `AllExecuted` does not hold, which is why `queue_liveness` has
one.

An observation without a run: `actionReaderStuck` creates the next reader without
looking at `MaxReaderCount`, which the two other actions that move slices to the
next reader respect.

## Not modelled

* Shard context: the stages of `DeleteWorkflowExecution` after its visibility
  task, remote cluster clocks, replication status.
* Schedulers: `SequentialScheduler` (used by replication only), the blocking
  `Submit` of the round robin scheduler (not called by the history service), the
  resizing of the worker pool.
* Matching: sync match, forwarding between partitions, user data and its
  replication, worker version sets.
* A composition of `ShardContext` with `HistoryQueue`. They meet in three places,
  each of which one side takes from the other as it is shown there: the read
  level (`LevelCoversRows`, `NoRowBelowRead`), the saved queue state
  (`SavedStateDurable`) and the reload.
* Workflow task state machine, update registry, mutable state, timer sequence,
  replication, conflict resolution, history branches, locks and caches: each is a
  project of its own on top of the core that is modelled here. The pure
  algorithms among them have table tests.
* Queries against the databases, visibility, RPC, metrics, configuration,
  authorization, tools and generated code, which keep no protocol state, and the
  worker service's workflows, whose state is kept by the SDK.
