------------------------- MODULE MatchingTaskQueue --------------------------
(***************************************************************************)
(* A task queue partition of the matching service: the lease and its blocks *)
(* of task IDs (db.go, taskWriter.go), the reader (taskReader.go), the ack  *)
(* manager (ackManager.go), the deletion of tasks (taskGC.go), and loading, *)
(* completion and unloading (taskQueueManager.go).                          *)
(*                                                                          *)
(* Managers are the taskQueueManagerImpl that are ever loaded for the       *)
(* partition, on one host or several; they meet in the store only.  A store *)
(* call may time out and land later.                                        *)
(***************************************************************************)
EXTENDS Integers, Sequences, FiniteSetsExt

CONSTANTS
    Managers, Tasks,
    Expiring,        \* tasks with an expiry time
    RangeSize,       \* task IDs per lease
    BatchSize,       \* tasks per write, and per read
    ReadsPerPump,    \* ranges getTaskBatch tries before it yields
    MaxRange,        \* bound: leases
    MaxTimeouts,     \* bound: store calls that time out
    MaxRewrites      \* bound: tasks that fail to start

ASSUME MatchingBounds ==
    /\ {RangeSize, BatchSize, ReadsPerPump, MaxRange} \subseteq Nat \ {0}
    /\ BatchSize <= RangeSize /\ Expiring \subseteq Tasks
    /\ {MaxTimeouts, MaxRewrites} \subseteq Nat

VARIABLES
    row,        \* the task queue's row: range ID and ack level
    rows,       \* the tasks' rows
    late,       \* store calls that timed out and may still land
    mgr,        \* the managers
    promised,   \* tasks whose AddTask has returned without error
    started,    \* tasks a poller has started
    expired,    \* tasks whose expiry time has passed
    created,    \* history: rows ever written, and under which lease
    timeouts, rewrites

storeVars == <<row, rows, late, created, timeouts>>
taskVars == <<promised, started, expired, rewrites>>
vars == <<storeVars, mgr, taskVars>>

-----------------------------------------------------------------------------
(* The store *)

\* A conditional write: a lease, an ack level, or a batch of tasks
Call(prev, range, ack, tasks) ==
    [prev |-> prev, range |-> range, ack |-> ack, tasks |-> tasks]

\* CreateTasks also writes the queue's info in Cassandra, and not in SQL.
Apply(c) ==
    /\ row.range = c.prev
    /\ \E a \in {c.ack} \cup (IF c.tasks = {} THEN {} ELSE {row.ack}) :
           row' = [range |-> c.range, ack |-> a]
    /\ rows' = rows \cup c.tasks
    /\ created' = created \cup {[id |-> r.id, task |-> r.task, lease |-> c.range] : r \in c.tasks}

Succeeds(c) == Apply(c) /\ UNCHANGED <<late, timeouts>>

Refused(c) == row.range # c.prev /\ UNCHANGED storeVars

TimesOut(c) ==
    /\ timeouts < MaxTimeouts
    /\ timeouts' = timeouts + 1
    /\ late' = late \cup {c}
    /\ UNCHANGED <<row, rows, created>>

Lands(c) ==
    /\ Apply(c)
    /\ late' = late \ {c}
    /\ UNCHANGED <<timeouts, mgr, taskVars>>

-----------------------------------------------------------------------------
(* Ranges, the ack manager and the collector *)

RangeIDToTaskIDBlock_Overlap(r) ==
    [start |-> IF r = 1 THEN 1 ELSE (r - 1) * RangeSize, end |-> r * RangeSize]

RangeIDToTaskIDBlock(r) == [start |-> (r - 1) * RangeSize + 1, end |-> r * RangeSize]

AckComplete_Highest(g, id) ==
    [g EXCEPT !.open = @ \ {id}, !.ack = Max({@, id})]

\* completeTask of the ack manager
AckComplete(g, id) ==
    LET open == g.open \ {id}
        acked == IF id \in g.open THEN g.acked \cup {id} ELSE g.acked
        passed == {i \in acked : \A o \in open : i < o}
    IN  [g EXCEPT !.open = open, !.acked = acked \ passed,
                  !.ack = IF passed = {} THEN @ ELSE Max(passed)]

SetReadLevelAfterGap_Always(g, level) ==
    [g EXCEPT !.ack = level, !.read = level]

SetReadLevelAfterGap(g, level) ==
    [g EXCEPT !.ack = IF g.ack = g.read THEN level ELSE @, !.read = level]

\* taskGC: at most one deletion at a time, and only of new ground
NoGC == -1
CanCollect(g) == g.collecting = NoGC /\ g.ack > g.collected
Collect(g) == [g EXCEPT !.collecting = g.ack]

\* Run, which also waits for a batch or for some time
RunGC(g) == {g} \cup (IF CanCollect(g) THEN {Collect(g)} ELSE {})
RunGCNow(g) == IF CanCollect(g) THEN Collect(g) ELSE g

-----------------------------------------------------------------------------
(* Loading a manager: takeOverTaskQueueLocked and initReadWriteState *)

NewManager ==
    [st |-> "new", seen |-> [range |-> 0, ack |-> 0], range |-> 0, dbAck |-> 0,
     block |-> [start |-> 1, end |-> 0], maxRead |-> 0,
     read |-> -1, ack |-> -1, open |-> {}, acked |-> {}, held |-> {},
     queue |-> {}, wpc |-> "idle", batch |-> {}, replies |-> {},
     signal |-> FALSE, reading |-> {}, collecting |-> NoGC, collected |-> 0]

Init ==
    /\ row = [range |-> 0, ack |-> 0]
    /\ rows = {} /\ late = {} /\ created = {} /\ timeouts = 0
    /\ mgr = [m \in Managers |-> NewManager]
    /\ promised = {} /\ started = {} /\ expired = {} /\ rewrites = 0

\* GetTaskQueue
Load(m) ==
    /\ mgr[m].st = "new" /\ row.range < MaxRange
    /\ mgr' = [mgr EXCEPT ![m].st = "leasing", ![m].seen = row]
    /\ UNCHANGED <<storeVars, taskVars>>

Leased_OldBlock(g) ==
    LET block == RangeIDToTaskIDBlock(g.seen.range)
    IN  [g EXCEPT !.st = "up", !.seen = NewManager.seen, !.range = g.seen.range + 1, !.dbAck = g.seen.ack,
                  !.block = block, !.maxRead = block.start - 1,
                  !.ack = g.seen.ack, !.read = g.seen.ack, !.signal = TRUE]

Leased(g) ==
    LET block == RangeIDToTaskIDBlock(g.seen.range + 1)
    IN  [g EXCEPT !.st = "up", !.seen = NewManager.seen, !.range = g.seen.range + 1, !.dbAck = g.seen.ack,
                  !.block = block, !.maxRead = block.start - 1,
                  !.ack = g.seen.ack, !.read = g.seen.ack, !.signal = TRUE]

\* UpdateTaskQueue.  A refused update unloads the manager, which has no ack
\* level to save yet; any other error is retried from the start.  (An error that is
\* not transient unloads the manager: the next one then starts as this one would.)
TakeOver(m) ==
    LET g == mgr[m]
        c == Call(g.seen.range, g.seen.range + 1, g.seen.ack, {})
    IN  /\ g.st = "leasing"
        /\ \/ Succeeds(c) /\ mgr' = [mgr EXCEPT ![m] = Leased(g)]
           \/ Refused(c) /\ mgr' = [mgr EXCEPT ![m].st = "stopped"]
           \/ TimesOut(c) /\ mgr' = [mgr EXCEPT ![m].st = "new"]
        /\ UNCHANGED taskVars

-----------------------------------------------------------------------------
(* taskWriter *)

Running(m) == mgr[m].st \in {"up", "stopping", "closing"}

\* signalIfFatal and unloadFromEngine: Stop does something only once
Unload(g) == [g EXCEPT !.st = IF @ = "up" THEN "stopping" ELSE @]

\* A request to the writer: a task, and the row it comes from if it is
\* written back (0 if it is new)
Request(t, of) == [task |-> t, of |-> of]

Adding(t) ==
    \E m \in Managers :
        \/ Request(t, 0) \in mgr[m].queue
        \/ \E e \in mgr[m].batch : mgr[m].wpc = "write" /\ e.req = Request(t, 0)
        \/ \E p \in mgr[m].replies : p.req = Request(t, 0)

\* AddTask without sync match, as far as the writer's channel.  The history
\* service adds a task again until it succeeds, one call at a time.
AddTask(m, t) ==
    /\ Running(m)
    /\ t \notin promised /\ ~Adding(t)
    /\ mgr' = [mgr EXCEPT ![m].queue = @ \cup {Request(t, 0)}]
    /\ UNCHANGED <<storeVars, taskVars>>

Batches(q) ==
    LET n == Min({Cardinality(q), BatchSize})
    IN  {b \in [1 .. n -> q] : \A i, j \in 1 .. n : b[i] = b[j] => i = j}

\* An AddTask that fails leaves nothing behind.
Answer(reqs, ok) ==
    {[req |-> r, ok |-> ok] : r \in IF ok THEN reqs ELSE {q \in reqs : q.of # 0}}

\* The batch gets the rest of the block and the start of the next one.
Allocated(g, b, next) ==
    LET left == g.block.end - g.block.start + 1
        idOf(i) == IF i <= left THEN g.block.start + i - 1 ELSE next.start + i - left - 1
    IN  [g EXCEPT !.queue = @ \ Range(b), !.wpc = "write",
                  !.batch = {[id |-> idOf(i), req |-> b[i]] : i \in DOMAIN b},
                  !.block = IF Len(b) <= left
                            THEN [g.block EXCEPT !.start = g.block.start + Len(b)]
                            ELSE [next EXCEPT !.start = next.start + Len(b) - left]]

NotAllocated(g, b) ==
    [g EXCEPT !.queue = @ \ Range(b), !.replies = @ \cup Answer(Range(b), FALSE),
              !.block.start = g.block.end + 1]

\* allocTaskIDs, with allocTaskIDBlock and RenewLease if the block runs out
AllocTaskIDs(m) ==
    LET g == mgr[m]
        c == Call(g.range, g.range + 1, g.dbAck, {})
        next == RangeIDToTaskIDBlock(g.range + 1)
    IN  /\ Running(m) /\ g.wpc = "idle" /\ g.queue # {}
        /\ \E b \in Batches(g.queue) :
               IF g.block.start + Len(b) - 1 <= g.block.end
               THEN mgr' = [mgr EXCEPT ![m] = Allocated(g, b, next)] /\ UNCHANGED storeVars
               ELSE \/ /\ g.range < MaxRange /\ Succeeds(c)
                       /\ mgr' = [mgr EXCEPT ![m] = [Allocated(g, b, next)
                                                      EXCEPT !.range = g.range + 1]]
                    \/ Refused(c) /\ mgr' = [mgr EXCEPT ![m] = Unload(NotAllocated(g, b))]
                    \/ /\ g.range < MaxRange /\ TimesOut(c)
                       /\ mgr' \in {mgr, [mgr EXCEPT ![m] = NotAllocated(g, b)]}
        /\ UNCHANGED taskVars

Written(g, ok) ==
    [g EXCEPT !.wpc = "publish",
              !.replies = @ \cup Answer({e.req : e \in g.batch}, ok)]

\* CreateTasks and sendWriteResponse
AppendTasks(m) ==
    LET g == mgr[m]
        c == Call(g.range, g.range, g.dbAck,
                  {[id |-> e.id, task |-> e.req.task] : e \in g.batch})
    IN  /\ Running(m) /\ g.wpc = "write"
        /\ \/ Succeeds(c) /\ mgr' = [mgr EXCEPT ![m] = Written(g, TRUE)]
           \/ Refused(c) /\ mgr' = [mgr EXCEPT ![m] = Unload(Written(g, FALSE))]
           \/ TimesOut(c) /\ mgr' = [mgr EXCEPT ![m] = Written(g, FALSE)]
        /\ UNCHANGED taskVars

\* The read level of the writer moves after the answers, whatever they are.
PublishReadLevel(m) ==
    LET g == mgr[m]
    IN  /\ Running(m) /\ g.wpc = "publish"
        /\ mgr' = [mgr EXCEPT ![m].wpc = "idle", ![m].batch = {},
                              ![m].maxRead = Max({e.id : e \in g.batch})]
        /\ UNCHANGED <<storeVars, taskVars>>

\* AddTask returns without error.
AddTaskReturns(m, p) ==
    /\ p \in mgr[m].replies /\ p.req.of = 0
    /\ promised' = promised \cup {p.req.task}
    /\ mgr' = [mgr EXCEPT ![m].replies = @ \ {p}, ![m].signal = Running(m)]
    /\ UNCHANGED <<storeVars, started, expired, rewrites>>

-----------------------------------------------------------------------------
(* taskReader *)

\* The first page of the first range that has tasks
Page(found) ==
    {r \in found : Cardinality({q \in found : q.id < r.id}) < BatchSize}

\* getTaskBatch: ranges of RangeSize up to the writer's read level
GetTaskBatch(m) ==
    LET g == mgr[m]
        upper(k) == Min({g.maxRead, g.read + k * RangeSize})
        found(k) == {r \in rows : g.read < r.id /\ r.id <= upper(k)}
        hits == {k \in 1 .. ReadsPerPump : found(k) # {}}
        level == IF g.read < g.maxRead THEN upper(ReadsPerPump) ELSE g.read
    IN  /\ Running(m) /\ g.reading = {} /\ g.signal
        /\ mgr' = [mgr EXCEPT ![m] =
               IF hits = {}
               THEN [SetReadLevelAfterGap(g, level) EXCEPT !.signal = level # g.maxRead]
               ELSE [g EXCEPT !.reading = Page(found(Min(hits))), !.signal = FALSE]]
        /\ UNCHANGED <<storeVars, taskVars>>

\* addTasksToBuffer, one task at a time and in order; the pump signals itself at
\* the end.
AddTaskToBuffer(m) ==
    LET g == mgr[m]
        h(r) == [g EXCEPT !.read = r.id, !.reading = @ \ {r},
                          !.signal = @ \/ g.reading = {r}]
    IN  /\ Running(m)
        /\ \E r \in g.reading :
               /\ \A q \in g.reading : r.id <= q.id
               /\ mgr' = [mgr EXCEPT ![m] =
                      IF r.task \in expired THEN h(r)
                      ELSE [h(r) EXCEPT !.open = @ \cup {r.id}, !.held = @ \cup {r}]]
        /\ UNCHANGED <<storeVars, taskVars>>

UpdateAck_Silent(m) ==
    LET g == mgr[m]
        h == g
        c == Call(g.range, g.range, g.ack, {})
    IN  /\ Running(m) /\ g.reading = {}
        /\ \/ Succeeds(c) /\ mgr' = [mgr EXCEPT ![m] = [h EXCEPT !.dbAck = g.ack]]
           \/ Refused(c) /\ mgr' = [mgr EXCEPT ![m] = Unload(h)]
           \/ TimesOut(c) /\ mgr' = [mgr EXCEPT ![m] = h]
        /\ UNCHANGED taskVars

\* updateAckTimer: persistAckLevel, and a signal to the pump
UpdateAck(m) ==
    LET g == mgr[m]
        h == [g EXCEPT !.signal = TRUE]
        c == Call(g.range, g.range, g.ack, {})
    IN  /\ Running(m) /\ g.reading = {}
        /\ \/ Succeeds(c) /\ mgr' = [mgr EXCEPT ![m] = [h EXCEPT !.dbAck = g.ack]]
           \/ Refused(c) /\ mgr' = [mgr EXCEPT ![m] = Unload(h)]
           \/ TimesOut(c) /\ mgr' = [mgr EXCEPT ![m] = h]
        /\ UNCHANGED taskVars

-----------------------------------------------------------------------------
(* completeTask *)

Expire(t) ==
    /\ t \in (promised \cap Expiring) \ expired
    /\ expired' = expired \cup {t}
    /\ UNCHANGED <<storeVars, mgr, promised, started, rewrites>>

\* A poller has started the task, or it has expired in the buffer.  The
\* manager may have been stopped, or have lost its lease, in the meantime.
FinishTask(m, r) ==
    LET g == mgr[m]
    IN  /\ r \in g.held
        /\ \/ started' = started \cup {r.task}
           \/ r.task \in expired /\ UNCHANGED started
        /\ \E h \in RunGC(AckComplete([g EXCEPT !.held = @ \ {r}], r.id)) :
               mgr' = [mgr EXCEPT ![m] = h]
        /\ UNCHANGED <<storeVars, promised, expired, rewrites>>

\* A task that could not be started is written back first; a writer that is
\* gone refuses, and the task stays where it is.
FailTask(m, r) ==
    LET g == [mgr[m] EXCEPT !.held = @ \ {r}]
    IN  /\ r \in mgr[m].held /\ rewrites < MaxRewrites
        /\ rewrites' = rewrites + 1
        /\ mgr' = [mgr EXCEPT ![m] =
               IF Running(m) THEN [g EXCEPT !.queue = @ \cup {Request(r.task, r.id)}] ELSE g]
        /\ UNCHANGED <<storeVars, promised, started, expired>>

RewriteReturns(m, p) ==
    LET g == [mgr[m] EXCEPT !.replies = @ \ {p}]
    IN  /\ p \in mgr[m].replies /\ p.req.of # 0
        /\ IF p.ok
           THEN \E h \in RunGC(AckComplete([g EXCEPT !.signal = Running(m)], p.req.of)) :
                    mgr' = [mgr EXCEPT ![m] = h]
           ELSE \/ mgr' = [mgr EXCEPT ![m] = Unload(g)]
                \/ /\ Running(m)
                   /\ mgr' = [mgr EXCEPT ![m] = [g EXCEPT !.queue = @ \cup {p.req}]]
        /\ UNCHANGED <<storeVars, taskVars>>

\* CompleteTasksLessThan, which is not conditional on the lease, deletes a
\* limited number of rows, and may fail
DeleteTasks(m) ==
    LET g == mgr[m]
        below == {r \in rows : r.id <= g.collecting}
    IN  /\ g.collecting # NoGC
        /\ \E gone \in {{r \in below : r.id <= i} : i \in 0 .. g.collecting} :
               /\ rows' = rows \ gone
               /\ mgr' = [mgr EXCEPT ![m].collecting = NoGC,
                                     ![m].collected = IF gone = below THEN g.collecting ELSE @]
        /\ UNCHANGED <<row, late, created, timeouts, taskVars>>

-----------------------------------------------------------------------------
(* Stop, and a crash of the host *)

\* The queue is idle, or belongs to another host.
UnloadTaskQueue(m) ==
    /\ mgr[m].st = "up"
    /\ mgr' = [mgr EXCEPT ![m] = Unload(@)]
    /\ UNCHANGED <<storeVars, taskVars>>

StopPersist(m) ==
    LET g == mgr[m]
        h == [RunGCNow(g) EXCEPT !.st = "closing"]
        c == Call(g.range, g.range, g.ack, {})
    IN  /\ g.st = "stopping"
        /\ \/ Succeeds(c) /\ mgr' = [mgr EXCEPT ![m] = [h EXCEPT !.dbAck = g.ack]]
           \/ (Refused(c) \/ TimesOut(c)) /\ mgr' = [mgr EXCEPT ![m] = h]
        /\ UNCHANGED taskVars

\* Writer and reader are cancelled; requests still in the channel fail, and
\* tasks with pollers may be finished later.
Stopped(g) ==
    [NewManager EXCEPT !.st = "stopped", !.ack = g.ack, !.open = g.open, !.acked = g.acked,
                       !.held = g.held, !.replies = g.replies,
                       !.collecting = g.collecting, !.collected = g.collected]

StopCancel(m) ==
    /\ mgr[m].st = "closing"
    /\ mgr' = [mgr EXCEPT ![m] = Stopped(@)]
    /\ UNCHANGED <<storeVars, taskVars>>

Crash(m) ==
    /\ mgr[m].st \in {"up", "stopping", "closing"}
    /\ mgr' = [mgr EXCEPT ![m] = 
                                [NewManager EXCEPT !.st = "stopped", !.collecting = mgr[m].collecting]]
    /\ UNCHANGED <<storeVars, taskVars>>

ManagerStep(m) ==
    \/ Load(m) \/ TakeOver(m)
    \/ \E t \in Tasks : AddTask(m, t)
    \/ AllocTaskIDs(m) \/ AppendTasks(m) \/ PublishReadLevel(m)
    \/ \E p \in mgr[m].replies : AddTaskReturns(m, p) \/ RewriteReturns(m, p)
    \/ GetTaskBatch(m) \/ AddTaskToBuffer(m) \/ UpdateAck(m)
    \/ \E r \in mgr[m].held : FinishTask(m, r) \/ FailTask(m, r)
    \/ DeleteTasks(m)
    \/ UnloadTaskQueue(m) \/ StopPersist(m) \/ StopCancel(m) \/ Crash(m)

Next ==
    \/ \E m \in Managers : ManagerStep(m)
    \/ \E c \in late : Lands(c)
    \/ \E t \in Tasks : Expire(t)

Spec == Init /\ [][Next]_vars

\* Goroutines go on, pollers come, and the pump's select serves both of its
\* channels again and again.
Fairness ==
    \A m \in Managers :
        /\ WF_vars(Load(m)) /\ WF_vars(TakeOver(m))
        /\ WF_vars(AllocTaskIDs(m)) /\ WF_vars(AppendTasks(m)) /\ WF_vars(PublishReadLevel(m))
        /\ WF_vars(\E p \in mgr[m].replies : AddTaskReturns(m, p) \/ RewriteReturns(m, p))
        /\ SF_vars(GetTaskBatch(m)) /\ WF_vars(AddTaskToBuffer(m)) /\ SF_vars(UpdateAck(m))
        /\ \A t \in Tasks : WF_vars(\E r \in mgr[m].held : r.task = t /\ FinishTask(m, r))

FairSpec == Spec /\ Fairness

-----------------------------------------------------------------------------
(* Properties *)

IDs == 1 .. MaxRange * RangeSize

TypeOK ==
    /\ row.range \in 0 .. MaxRange /\ row.ack \in {0} \cup IDs
    /\ rows \subseteq [id : IDs, task : Tasks]
    /\ \A m \in Managers : mgr[m].st \notin {"new", "leasing", "stopped"} =>
           \* what allocTaskIDBlock checks before it renews
           mgr[m].block.end = RangeIDToTaskIDBlock(mgr[m].range).end

\* Tasks that have still to be started
Owed == promised \ (started \cup expired)

\* A task that AddTask has accepted is in the store, above the ack level from
\* which the next manager reads, until it is started or expires: whatever the
\* managers complete out of order, write back, delete late or leave behind.
NoTaskLost ==
    \A t \in Owed : \E r \in rows : r.task = t /\ r.id > row.ack

\* What a manager deletes, or would delete, is not the only copy of a task
\* that has still to be started, although its deletions are not fenced by the
\* lease.
NothingOwedBelowAck ==
    \A m \in Managers : \A t \in Owed :
        \E r \in rows : r.task = t /\ r.id > mgr[m].ack

\* No task ID is used for two rows, by one manager or by two.
UniqueTaskIDs ==
    \A x, y \in created : x.id = y.id => x = y

\* An accepted task is started or expires, as long as a manager stays loaded.
\* The pump can miss the signal of AddTask, which is sent before the writer
\* publishes its read level; the ack timer makes up for it.
TasksStarted ==
    \A t \in Tasks :
        (t \in promised) ~> (t \in started \cup expired
                             \/ \A m \in Managers : mgr[m].st # "up")

=============================================================================
