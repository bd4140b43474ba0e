---------------------------- MODULE ShardContext ----------------------------
(***************************************************************************)
(* The history shard context (service/history/shard/context_impl.go).      *)
(*                                                                         *)
(* One shard row in persistence is fought over by the ContextImpl objects  *)
(* that hosts create for it.  A context owns the shard while the RangeId   *)
(* it holds in memory equals the one in the row: every write carries the   *)
(* RangeId and the store applies it only when the row still has it.  The   *)
(* RangeId is also the upper part of every task ID the context hands out.  *)
(*                                                                         *)
(* A persistence call whose outcome the caller does not learn (a timeout,  *)
(* a cancelled lifecycle context) stays in lateWrites or lateUpdates and   *)
(* may reach the store at any later time, or never.                        *)
(*                                                                         *)
(* A step models one persistence call together with what the code does     *)
(* before and after it under the same lock.  The shard lock (rwLock) is    *)
(* held across several calls only by an operation that allocates task IDs; *)
(* such an operation is the record request[c], and the lock is free when   *)
(* request[c] = Idle.                                                      *)
(***************************************************************************)
EXTENDS Integers, FiniteSets, ShardState

CONSTANTS
    Contexts,        \* the ContextImpl objects created for the shard
    RangeSize,       \* 2^RangeSizeBits, task IDs per RangeId
    MaxRangeID,      \* bound: no renewal goes past this RangeId
    MaxBatch,        \* bound: tasks in one write request
    MaxGenerate,     \* bound: IDs asked for by one GenerateTaskIDs
    MaxQueueState,   \* bound: queue states a context may produce
    MaxLate,         \* bound: calls with unknown outcome outstanding at once
    HandoverContexts,\* the contexts whose host hears of a namespace handover
    OtherWriters     \* the contexts that write for other namespaces and delete
                     \* workflow executions as well

ASSUME RangeSizeAssumption == RangeSize \in Nat \ {0}
ASSUME BoundsAssumption ==
    /\ MaxRangeID \in Nat
    /\ MaxBatch \in Nat
    /\ MaxGenerate \in Nat
    /\ MaxQueueState \in Nat
    /\ MaxLate \in Nat
    /\ HandoverContexts \subseteq Contexts
    /\ OtherWriters \subseteq Contexts

VARIABLES
    \* the persistence store
    dbRange,         \* range_id of the shard row
    dbQueueState,    \* queue state stored in the shard row
    rows,            \* IDs of the history task rows
    lateWrites,      \* workflow or task writes with unknown outcome
    lateUpdates,     \* UpdateShard calls with unknown outcome
    \* lifecycle of a context
    state,           \* contextState
    acquirer,        \* program counter of the acquireShard goroutine
    notifying,       \* contexts whose acquireShard is past the transition
    \* shardInfo and task IDs of a context
    rangeID,         \* shardInfo.RangeId, Unloaded while shardInfo is nil
    queueState,      \* shardInfo.QueueStates
    seq,             \* taskSequenceNumber
    maxSeq,          \* maxTaskSequenceNumber
    level,           \* immediateTaskExclusiveMaxReadLevel
    request,         \* the ID-allocating operation that holds the lock
    handover,        \* handoverNamespaces[ns].MaxReplicationTaskID
    queueRead,       \* how far the immediate queue has read
    \* history variables
    issued,          \* task IDs generated by a context so far
    exempt,          \* those of tasks that a handover does not hold back
    granted,         \* the context whose UpdateShard created a RangeId
    saved            \* last queue state a context knows to be stored

storeVars == <<dbRange, dbQueueState, rows, lateWrites, lateUpdates, granted>>
lifeVars  == <<state, acquirer, notifying>>
idVars    == <<rangeID, seq, maxSeq, level, issued, exempt>>
queueVars == <<queueState, saved, queueRead, handover>>
vars == <<storeVars, lifeVars, idVars, queueVars, request>>

-----------------------------------------------------------------------------
(* Values                                                                  *)

AcquirerPCs == {"none", "check", "renew", "transition"}

Unloaded == -1                       \* shardInfo == nil
NoHandover == -2                     \* no entry in handoverNamespaces
PendingMaxReplicationTaskID == -1    \* math.MaxInt64 in the code
NoOwner == "no owner"

ASSUME NoOwnerAssumption == NoOwner \notin Contexts

RangeIDs == 0 .. MaxRangeID
TaskIDs == Nat
\* RangeId << RangeSizeBits, the first task ID of a range
RangeStart(r) == r * RangeSize
Idle == [kind |-> "idle", need |-> 0, ids |-> {}, newLevel |-> 0]
\* a write for the namespace, a write for another one, and the write of the task
\* that deletes a visibility record; the handover stops the first only
ExemptKinds == {"other", "delete"}
WriteKinds == {"write"} \cup ExemptKinds
RequestRecords == [kind : WriteKinds \cup {"idle", "generate"}, need : Nat,
                   ids : SUBSET TaskIDs, newLevel : Nat]
WriteRecords == [range : RangeIDs, ids : SUBSET TaskIDs]
UpdateRecords == [ctx : Contexts, prev : RangeIDs, new : RangeIDs,
                  queueState : Nat]

IsValid(c) == state[c] \in ValidStates
\* lifecycleCtx is cancelled as soon as the context is Stopping or Stopped
LifecycleEnded(c) == ~IsValid(c)
Unlocked(c) == request[c] = Idle
\* the engine is created after the first renewal and before state Acquired
HasEngine(c) == maxSeq[c] > 0

StoreTypeOK ==
    /\ dbRange \in RangeIDs
    /\ dbQueueState \in Nat
    /\ rows \in SUBSET TaskIDs
    /\ lateWrites \in SUBSET WriteRecords
    /\ lateUpdates \in SUBSET UpdateRecords
    /\ granted \in [RangeIDs -> Contexts \cup {NoOwner}]

LifeTypeOK ==
    /\ state \in [Contexts -> States]
    /\ acquirer \in [Contexts -> AcquirerPCs]
    /\ notifying \in SUBSET Contexts
    /\ request \in [Contexts -> RequestRecords]

IdTypeOK ==
    /\ rangeID \in [Contexts -> RangeIDs \cup {Unloaded}]
    /\ seq \in [Contexts -> Nat]
    /\ maxSeq \in [Contexts -> Nat]
    /\ level \in [Contexts -> Nat]
    /\ issued \in [Contexts -> SUBSET TaskIDs]
    /\ exempt \in SUBSET TaskIDs

QueueTypeOK ==
    /\ queueState \in [Contexts -> Nat]
    /\ saved \in [Contexts -> Nat]
    /\ queueRead \in [Contexts -> Nat]
    /\ handover \in [Contexts -> Int]

\* Every variable has its type: the row's RangeId and the RangeId of a context
\* stay in range, IDs, levels and queue states stay natural numbers.
TypeOK == StoreTypeOK /\ LifeTypeOK /\ IdTypeOK /\ QueueTypeOK

Init ==
    /\ dbRange = 0
    /\ dbQueueState = 0
    /\ rows = {}
    /\ lateWrites = {}
    /\ lateUpdates = {}
    /\ state = [c \in Contexts |-> "Initialized"]
    /\ acquirer = [c \in Contexts |-> "none"]
    /\ notifying = {}
    /\ rangeID = [c \in Contexts |-> Unloaded]
    /\ queueState = [c \in Contexts |-> 0]
    /\ seq = [c \in Contexts |-> 0]
    /\ maxSeq = [c \in Contexts |-> 0]
    /\ level = [c \in Contexts |-> 0]
    /\ request = [c \in Contexts |-> Idle]
    /\ handover = [c \in Contexts |-> NoHandover]
    /\ queueRead = [c \in Contexts |-> 0]
    /\ issued = [c \in Contexts |-> {}]
    /\ exempt = {}
    /\ granted = [r \in RangeIDs |-> NoOwner]
    /\ saved = [c \in Contexts |-> 0]

-----------------------------------------------------------------------------
\* transition(): entering Acquiring starts the acquireShard goroutine, which
\* otherwise continues at pc
Transition(c, req, pc) ==
    LET new == NextState(state[c], req)
    IN  /\ state' = [state EXCEPT ![c] = new]
        /\ acquirer' = [acquirer EXCEPT
              ![c] = IF new = "Acquiring" /\ state[c] # "Acquiring"
                     THEN "check" ELSE pc]

-----------------------------------------------------------------------------
(* Persistence calls.  A call on an ended lifecycle context returns        *)
(* "unknown": what was sent before the cancellation may still arrive.      *)

\* faulty: no condition on PreviousRangeID
UpdateShardOK_Unconditional(c, new) ==
    /\ ~LifecycleEnded(c)
    /\ dbRange' = new
    /\ dbQueueState' = queueState'[c]
    /\ granted' = [granted EXCEPT ![new] = c]
    /\ UNCHANGED <<rows, lateWrites, lateUpdates>>

UpdateShardOK(c, new) ==
    /\ ~LifecycleEnded(c)
    /\ dbRange = rangeID[c]
    /\ dbRange' = new
    /\ dbQueueState' = queueState'[c]
    /\ granted' = IF new = dbRange THEN granted
                                   ELSE [granted EXCEPT ![new] = c]
    /\ UNCHANGED <<rows, lateWrites, lateUpdates>>

UpdateShardError(c, new, err) ==
    LET u == [ctx |-> c, prev |-> rangeID[c], new |-> new,
              queueState |-> queueState'[c]]
        room == new <= MaxRangeID /\ Cardinality(lateUpdates) < MaxLate
    IN  /\ err \in WriteErrors
        /\ LifecycleEnded(c) => err = "unknown"
        /\ err = "ownershipLost" => dbRange # rangeID[c]
        /\ lateUpdates' = IF err = "unknown" /\ room
                          THEN lateUpdates \cup {u} ELSE lateUpdates
        /\ UNCHANGED <<dbRange, dbQueueState, rows, lateWrites, granted>>

\* a call with unknown outcome reaches the store, which applies it only if
\* the row still has the RangeId the call was made for
LandUpdate(u) ==
    /\ lateUpdates' = lateUpdates \ {u}
    /\ IF u.prev = dbRange
       THEN /\ dbRange' = u.new
            /\ dbQueueState' = u.queueState
            /\ granted' = IF u.new = dbRange THEN granted
                                      ELSE [granted EXCEPT ![u.new] = u.ctx]
       ELSE UNCHANGED <<dbRange, dbQueueState, granted>>
    /\ UNCHANGED <<rows, lateWrites, lifeVars, idVars, queueVars, request>>

LandWrite(w) ==
    /\ lateWrites' = lateWrites \ {w}
    /\ rows' = IF w.range = dbRange THEN rows \cup w.ids ELSE rows
    /\ UNCHANGED <<dbRange, dbQueueState, lateUpdates, granted, lifeVars,
                   idVars, queueVars, request>>

-----------------------------------------------------------------------------
(* renewRangeLocked                                                        *)

\* faulty: the read level stays in the old range
RenewRangeOK_LevelKept(c) ==
    LET new == rangeID[c] + 1
    IN  /\ new <= MaxRangeID
        /\ UNCHANGED <<queueState, queueRead, handover, issued, exempt, level>>
        /\ UpdateShardOK(c, new)
        /\ rangeID' = [rangeID EXCEPT ![c] = new]
        /\ seq' = [seq EXCEPT ![c] = RangeStart(new)]
        /\ maxSeq' = [maxSeq EXCEPT ![c] = RangeStart(new + 1)]
        /\ saved' = [saved EXCEPT ![c] = queueState[c]]

RenewRangeOK(c) ==
    LET new == rangeID[c] + 1
    IN  /\ new <= MaxRangeID
        /\ UNCHANGED <<queueState, queueRead, handover, issued, exempt>>
        /\ UpdateShardOK(c, new)
        /\ rangeID' = [rangeID EXCEPT ![c] = new]
        /\ seq' = [seq EXCEPT ![c] = RangeStart(new)]
        /\ maxSeq' = [maxSeq EXCEPT ![c] = RangeStart(new + 1)]
        /\ level' = [level EXCEPT ![c] = RangeStart(new)]
        /\ saved' = [saved EXCEPT ![c] = queueState[c]]

RenewRangeError(c, err) ==
    /\ UNCHANGED <<idVars, queueVars>>
    /\ UpdateShardError(c, rangeID[c] + 1, err)

-----------------------------------------------------------------------------
(* acquireShard, the background goroutine of a context in state Acquiring  *)

\* the attempt has failed: another one while the lifecycle context and the
\* retry policy allow it, or transition(Stop)
AttemptFailed(c, req) ==
    \/ /\ NextState(state[c], req) \in ValidStates
       /\ Transition(c, req, "check")
    \/ /\ state' = [state EXCEPT ![c] = NextState(NextState(@, req), "Stop")]
       /\ acquirer' = [acquirer EXCEPT ![c] = "none"]

\* IsValid() and loadShardMetadata(), which loads the row only once
AcquireCheck(c) ==
    /\ acquirer[c] = "check"
    /\ \/ /\ IsValid(c)
          /\ acquirer' = [acquirer EXCEPT ![c] = "renew"]
          /\ IF rangeID[c] = Unloaded
             THEN /\ rangeID' = [rangeID EXCEPT ![c] = dbRange]
                  /\ queueState' = [queueState EXCEPT ![c] = dbQueueState]
             ELSE UNCHANGED <<rangeID, queueState>>
          /\ UNCHANGED state
       \/ /\ ~IsValid(c) \/ rangeID[c] = Unloaded
          /\ AttemptFailed(c, "none")
          /\ UNCHANGED <<rangeID, queueState>>
    /\ UNCHANGED <<storeVars, notifying, seq, maxSeq, level, issued, exempt,
                   saved, queueRead, handover, request>>

\* renewRangeLocked(true), and createEngine() the first time
AcquireRenew(c) ==
    /\ acquirer[c] = "renew"
    /\ Unlocked(c)
    /\ \/ /\ RenewRangeOK(c)
          /\ acquirer' = [acquirer EXCEPT ![c] = "transition"]
          /\ UNCHANGED state
       \/ \E err \in WriteErrors :
             /\ RenewRangeError(c, err)
             /\ AttemptFailed(c, WriteErrorRequest(err))
    /\ UNCHANGED <<notifying, request>>

\* transition(contextRequestAcquired)
AcquireTransition(c) ==
    /\ acquirer[c] = "transition"
    /\ \/ /\ state[c] = "Acquiring"
          /\ Transition(c, "Acquired", "none")
          /\ notifying' = notifying \cup ({c} \cap HandoverContexts)
       \/ /\ state[c] # "Acquiring"
          /\ AttemptFailed(c, "none")
          /\ UNCHANGED notifying
    /\ UNCHANGED <<storeVars, idVars, queueVars, request>>

\* updateHandoverNamespacePendingTaskID(), after the transition; only a
\* context that hears of a handover has anything to update
AcquireNotify(c) ==
    /\ c \in notifying
    /\ Unlocked(c)
    /\ notifying' = notifying \ {c}
    /\ handover' = IF /\ state[c] = "Acquired"
                      /\ handover[c] = PendingMaxReplicationTaskID
                   THEN [handover EXCEPT ![c] = level[c] - 1] ELSE handover
    /\ UNCHANGED <<storeVars, state, acquirer, idVars, queueState, saved,
                   queueRead, request>>

-----------------------------------------------------------------------------
(* Task IDs and writes, under the shard lock                               *)

\* an operation that has passed errorByState() keeps the lock, with n tasks to write
AddTasks(c, kind, n) ==
    /\ Unlocked(c)
    /\ state[c] = "Acquired"
    /\ request' = [request EXCEPT ![c] = [Idle EXCEPT !.kind = kind, !.need = n]]
    /\ UNCHANGED <<storeVars, lifeVars, idVars, queueVars>>

\* AddTasks, CreateWorkflowExecution, UpdateWorkflowExecution,
\* ConflictResolveWorkflowExecution and SetWorkflowExecution, which also pass
\* errorByNamespaceStateLocked()
BeginWrite(c) ==
    /\ handover[c] = NoHandover
    /\ \E n \in 0 .. MaxBatch : AddTasks(c, "write", n)

\* the same for a namespace that is not in handover
BeginOtherWrite(c) ==
    /\ c \in OtherWriters
    /\ \E n \in 0 .. MaxBatch : AddTasks(c, "other", n)

\* DeleteWorkflowExecution does not look at the namespace and writes the one
\* task that deletes the visibility record.  Its other stages carry no RangeId
\* and no task; a stage that fails is tried again by a later call.
DeleteWorkflowExecution(c) ==
    /\ c \in OtherWriters
    /\ AddTasks(c, "delete", 1)

\* GenerateTaskID, GenerateTaskIDs and NewVectorClock check no state
BeginGenerate(c) ==
    /\ Unlocked(c)
    /\ HasEngine(c)
    /\ \E n \in 1 .. MaxGenerate :
          request' = [request EXCEPT ![c] = [Idle EXCEPT !.kind = "generate",
                                                         !.need = n]]
    /\ UNCHANGED <<storeVars, lifeVars, idVars, queueVars>>

\* faulty: one ID past the end of the range
GenerateTaskID_PastEnd(c) ==
    /\ request[c].need > 0
    /\ seq[c] <= maxSeq[c]
    /\ seq' = [seq EXCEPT ![c] = @ + 1]
    /\ issued' = [issued EXCEPT ![c] = @ \cup {seq[c]}]
    /\ exempt' = IF request[c].kind \in ExemptKinds THEN exempt \cup {seq[c]}
                                                    ELSE exempt
    /\ request' = [request EXCEPT ![c] = [kind |-> @.kind,
                                           need |-> @.need - 1,
                                           ids |-> @.ids \cup {seq[c]},
                                           newLevel |-> seq[c] + 1]]
    /\ UNCHANGED <<storeVars, lifeVars, rangeID, maxSeq, level, queueVars>>

\* generateTaskIDLocked while the range is not used up
GenerateTaskID(c) ==
    /\ request[c].need > 0
    /\ seq[c] < maxSeq[c]
    /\ seq' = [seq EXCEPT ![c] = @ + 1]
    /\ issued' = [issued EXCEPT ![c] = @ \cup {seq[c]}]
    /\ exempt' = IF request[c].kind \in ExemptKinds THEN exempt \cup {seq[c]}
                                                    ELSE exempt
    /\ request' = [request EXCEPT ![c] = [kind |-> @.kind,
                                           need |-> @.need - 1,
                                           ids |-> @.ids \cup {seq[c]},
                                           newLevel |-> seq[c] + 1]]
    /\ UNCHANGED <<storeVars, lifeVars, rangeID, maxSeq, level, queueVars>>

\* updateRangeIfNeededLocked: the range is used up in the middle of a request
GenerateRenew(c) ==
    /\ request[c].need > 0
    /\ seq[c] >= maxSeq[c]
    /\ \/ RenewRangeOK(c) /\ UNCHANGED <<lifeVars, request>>
       \/ /\ \E err \in WriteErrors :
                /\ RenewRangeError(c, err)
                /\ Transition(c, WriteErrorRequest(err), acquirer[c])
          /\ request' = [request EXCEPT ![c] = Idle]
          /\ UNCHANGED notifying

EndGenerate(c) ==
    /\ request[c].kind = "generate"
    /\ request[c].need = 0
    /\ request' = [request EXCEPT ![c] = Idle]
    /\ UNCHANGED <<storeVars, lifeVars, idVars, queueVars>>

\* faulty: the read level is set, not raised
PersistWriteOK_LevelSet(c) ==
    /\ request[c].kind \in WriteKinds
    /\ request[c].need = 0
    /\ ~LifecycleEnded(c)
    /\ dbRange = rangeID[c]
    /\ rows' = rows \cup request[c].ids
    /\ level' = [level EXCEPT ![c] = request[c].newLevel]
    /\ request' = [request EXCEPT ![c] = Idle]
    /\ UNCHANGED <<dbRange, dbQueueState, lateWrites, lateUpdates, granted,
                   lifeVars, rangeID, seq, maxSeq, issued, exempt, queueVars>>

\* the store applies the write, which carries the current RangeId, and
\* updateMaxReadLevelLocked raises the read level
PersistWriteOK(c) ==
    /\ request[c].kind \in WriteKinds
    /\ request[c].need = 0
    /\ ~LifecycleEnded(c)
    /\ dbRange = rangeID[c]
    /\ rows' = rows \cup request[c].ids
    /\ level' = [level EXCEPT ![c] = IF request[c].newLevel > @
                                     THEN request[c].newLevel ELSE @]
    /\ request' = [request EXCEPT ![c] = Idle]
    /\ UNCHANGED <<dbRange, dbQueueState, lateWrites, lateUpdates, granted,
                   lifeVars, rangeID, seq, maxSeq, issued, exempt, queueVars>>

\* faulty: the read level is raised whatever the outcome
PersistWriteError_LevelRaised(c) ==
    /\ request[c].kind \in WriteKinds
    /\ request[c].need = 0
    /\ lateWrites' = IF Cardinality(lateWrites) < MaxLate
                     THEN lateWrites \cup {[range |-> rangeID[c],
                                            ids |-> request[c].ids]}
                     ELSE lateWrites
    /\ level' = [level EXCEPT ![c] = IF request[c].newLevel > @
                                     THEN request[c].newLevel ELSE @]
    /\ Transition(c, "Lost", acquirer[c])
    /\ request' = [request EXCEPT ![c] = Idle]
    /\ UNCHANGED <<dbRange, dbQueueState, rows, lateUpdates, granted,
                   notifying, rangeID, seq, maxSeq, issued, exempt, queueVars>>

PersistWriteError(c) ==
    /\ request[c].kind \in WriteKinds
    /\ request[c].need = 0
    /\ \E err \in WriteErrors :
          /\ LifecycleEnded(c) => err = "unknown"
          /\ err = "ownershipLost" => dbRange # rangeID[c]
          /\ lateWrites' = IF /\ err = "unknown"
                              /\ Cardinality(lateWrites) < MaxLate
                           THEN lateWrites \cup {[range |-> rangeID[c],
                                                  ids |-> request[c].ids]}
                           ELSE lateWrites
          /\ Transition(c, WriteErrorRequest(err), acquirer[c])
    /\ request' = [request EXCEPT ![c] = Idle]
    /\ UNCHANGED <<dbRange, dbQueueState, rows, lateUpdates, granted,
                   notifying, idVars, queueVars>>

-----------------------------------------------------------------------------
(* Queue states, queue reads and namespace handover                        *)

\* SetQueueState changes shardInfo in memory whatever the state; the row is
\* updated if the context is Acquired and ShardUpdateMinInterval has passed
SetQueueState(c) ==
    /\ Unlocked(c)
    /\ HasEngine(c)
    /\ queueState[c] < MaxQueueState
    /\ queueState' = [queueState EXCEPT ![c] = @ + 1]
    /\ \/ UNCHANGED <<storeVars, state, acquirer, saved>>
       \/ /\ state[c] = "Acquired"
          /\ UpdateShardOK(c, rangeID[c])
          /\ saved' = [saved EXCEPT ![c] = queueState'[c]]
          /\ UNCHANGED <<state, acquirer>>
       \/ /\ state[c] = "Acquired"
          /\ \E err \in WriteErrors :
                /\ UpdateShardError(c, rangeID[c], err)
                /\ Transition(c, WriteErrorRequest(err), acquirer[c])
          /\ UNCHANGED saved
    /\ UNCHANGED <<notifying, idVars, queueRead, handover, request>>

\* GetImmediateQueueExclusiveHighReadWatermark and the read up to it by the
\* immediate queue of a running engine
ReadQueue(c) ==
    /\ Unlocked(c)
    /\ HasEngine(c)
    /\ queueRead' = [queueRead EXCEPT ![c] = level[c]]
    /\ UNCHANGED <<storeVars, lifeVars, idVars, queueState, saved, handover,
                   request>>

\* faulty: the level is recorded while writes may be in flight
RecordHandover_NotPending(c) ==
    /\ c \in HandoverContexts
    /\ Unlocked(c)
    /\ HasEngine(c)
    /\ handover' = [handover EXCEPT ![c] = level[c] - 1]
    /\ UNCHANGED <<storeVars, lifeVars, idVars, queueState, saved, queueRead,
                   request>>

\* UpdateHandoverNamespace for a namespace in handover, and for one that no
\* longer is.  A notification that is not newer than the entry changes nothing;
\* any other may come at any time.
RecordHandover(c) ==
    /\ c \in HandoverContexts
    /\ Unlocked(c)
    /\ HasEngine(c)
    /\ handover' = [handover EXCEPT ![c] =
                      IF state[c] = "Acquired" THEN level[c] - 1
                      ELSE PendingMaxReplicationTaskID]
    /\ UNCHANGED <<storeVars, lifeVars, idVars, queueState, saved, queueRead,
                   request>>

ClearHandover(c) ==
    /\ Unlocked(c)
    /\ HasEngine(c)
    /\ handover' = [handover EXCEPT ![c] = NoHandover]
    /\ UNCHANGED <<storeVars, lifeVars, idVars, queueState, saved, queueRead,
                   request>>

-----------------------------------------------------------------------------
(* Starting and stopping.  ShardController models who does it and how the  *)
(* stop is completed; here a context that is stopped in whatever way stays *)
(* in Stopping.                                                            *)

Start(c) ==
    /\ state[c] = "Initialized"
    /\ Transition(c, "Acquire", acquirer[c])
    /\ UNCHANGED <<storeVars, notifying, idVars, queueVars, request>>

Unload(c) ==
    /\ state[c] \in {"Acquiring", "Acquired"}
    /\ Transition(c, "Stop", acquirer[c])
    /\ UNCHANGED <<storeVars, notifying, idVars, queueVars, request>>

-----------------------------------------------------------------------------
Acquire(c) ==
    \/ Start(c) \/ AcquireCheck(c) \/ AcquireRenew(c)
    \/ AcquireTransition(c) \/ AcquireNotify(c) \/ Unload(c)

Operate(c) ==
    \/ BeginWrite(c) \/ BeginOtherWrite(c) \/ DeleteWorkflowExecution(c)
    \/ BeginGenerate(c) \/ GenerateTaskID(c) \/ GenerateRenew(c) \/ EndGenerate(c)
    \/ PersistWriteOK(c) \/ PersistWriteError(c)
    \/ SetQueueState(c) \/ ReadQueue(c)
    \/ RecordHandover(c) \/ ClearHandover(c)

Next ==
    \/ \E c \in Contexts : Acquire(c) \/ Operate(c)
    \/ \E u \in lateUpdates : LandUpdate(u)
    \/ \E w \in lateWrites : LandWrite(w)

Spec == Init /\ [][Next]_vars

-----------------------------------------------------------------------------
(* Safety                                                                  *)

\* errorByState() lets a write through while the store still has the RangeId
\* that the write will carry
CanWrite(c) == state[c] = "Acquired" /\ rangeID[c] = dbRange

\* What the range lock is for: at most one context can have a write accepted,
\* however contexts load, renew, lose and re-acquire the shard.
SingleWriter == \A c, d \in Contexts : CanWrite(c) /\ CanWrite(d) => c = d

\* generateTaskIDLocked never hands out an ID twice, whatever contexts lose
\* and win the shard and whatever renewals time out: IDs issued by different
\* contexts differ, and no ID that was ever issued is still to come in the
\* unused part taskSequenceNumber .. maxTaskSequenceNumber-1 of any context.
UniqueTaskIDs ==
    \A c, d \in Contexts :
        /\ c # d => issued[c] \cap issued[d] = {}
        /\ \A i \in issued[d] : ~(seq[c] <= i /\ i < maxSeq[c])

\* The read level of the owner is above every task row, those of former owners
\* and those whose write timed out before the shard was re-acquired included:
\* "reacquiring the shard will cause the max read level to be updated to the
\* new range (i.e. past newMaxReadLevel)" (handleWriteErrorAndUpdateMaxRead-
\* LevelLocked).  No task is out of reach of the owner's immediate queues.
LevelCoversRows ==
    \A c \in Contexts : CanWrite(c) => \A i \in rows : i < level[c]

LevelsGrow == \A c \in Contexts : level'[c] >= level[c]

\* "updateMaxReadLevelLocked ensures that the read level never goes backwards"
\* (handleWriteErrorLocked); renewRangeLocked assigns the level directly, so
\* this also needs every range to start above the level reached in the last.
ReadLevelMonotonic == [][LevelsGrow]_vars

NewRowsUnread ==
    \A i \in rows' \ rows :
        i >= RangeStart(dbRange) => \A c \in Contexts : i >= queueRead[c]

\* A row appears in the store below the point up to which an immediate queue
\* has read only if its ID is from an older range than the one the write was
\* made under: the queue of neither the writer nor a former or later owner can
\* miss a task that was written under the range its ID comes from.
NoRowBelowRead == [][NewRowsUnread]_vars

\* "If successful, we'll get a new RangeID, to guarantee that subsequent reads
\* will either see that write, or know for certain that it failed"
\* (handleWriteErrorAndUpdateMaxReadLevelLocked).  For the reads of the
\* immediate queue: a row never appears below the point the queue has read up
\* to.  The code does not have this property when a write renews the range
\* between two of its task IDs and then times out.
QueueSeesEveryWrite ==
    [][\A i \in rows' \ rows : \A c \in Contexts : i >= queueRead[c]]_vars

\* MaxReplicationTaskID of a namespace in handover bounds every task of the
\* namespace that may be a replication task, that is, every task of a write that
\* passed errorByNamespaceStateLocked for it, whether the write succeeded or will
\* be found to have succeeded: writes whose outcome is unknown are covered by the
\* pending value until the shard is re-acquired (UpdateHandoverNamespace,
\* updateHandoverNamespacePendingTaskID).  Writes for other namespaces, and the
\* visibility tasks of DeleteWorkflowExecution, go on above it and raise the read
\* level meanwhile.
HandoverIsFinal ==
    \A c \in Contexts : handover[c] >= 0 =>
        \A i \in (rows \cap issued[c]) \ exempt : i <= handover[c]

\* A queue state that UpdateShard has acknowledged to the owner is not
\* overwritten by an older one that was delayed, as long as it is the owner
\* (updateShardInfoLocked, renewRangeLocked).
SavedStateDurable ==
    \A c \in Contexts :
        granted[dbRange] = c /\ rangeID[c] = dbRange => dbQueueState >= saved[c]

-----------------------------------------------------------------------------
(* The parts of an inductive invariant from which the safety follows       *)

\* no RangeId above the row's has been granted
GrantInv == \A r \in RangeIDs : r > dbRange => granted[r] = NoOwner

\* an UpdateShard keeps the RangeId it was made for or raises it by one
UpdateInv ==
    \A u \in lateUpdates : u.new \in {u.prev, u.prev + 1} /\ u.prev <= dbRange

LoadInv ==
    \A c \in Contexts :
        /\ rangeID[c] <= dbRange
        /\ acquirer[c] \in {"renew", "transition"} => rangeID[c] \in RangeIDs

\* a context that has never renewed the range has done nothing yet
FreshInv ==
    \A c \in Contexts : maxSeq[c] = 0 =>
        /\ seq[c] = 0 /\ level[c] = 0 /\ issued[c] = {} /\ request[c] = Idle
        /\ state[c] # "Acquired" /\ acquirer[c] # "transition"
        /\ saved[c] = 0

\* the range a context draws IDs from was granted to it alone
BlockInv ==
    \A c \in Contexts : maxSeq[c] > 0 =>
        /\ rangeID[c] \in RangeIDs /\ granted[rangeID[c]] = c
        /\ maxSeq[c] = RangeStart(rangeID[c] + 1)
        /\ RangeStart(rangeID[c]) <= level[c]
        /\ level[c] <= seq[c] /\ seq[c] <= maxSeq[c]

ReadInv == \A c \in Contexts : queueRead[c] <= level[c]

\* every ID came from a range granted to the context that issued it
IssuedInv ==
    \A c \in Contexts : \A i \in issued[c] :
        /\ i < seq[c]
        /\ \E r \in RangeIDs : /\ granted[r] = c
                               /\ RangeStart(r) <= i /\ i < RangeStart(r + 1)

\* acquireShard runs only while the context is not Acquired, and an operation
\* that has begun to write keeps the lock to itself
LockInv ==
    \A c \in Contexts :
        /\ state[c] = "Acquired" => acquirer[c] = "none"
        /\ request[c].kind \in WriteKinds =>
              /\ acquirer[c] = "none"
              /\ state[c] \notin {"Initialized", "Acquiring"}

\* the IDs of the request in progress: those of the current range are not yet
\* below the read level
RequestInv ==
    \A c \in Contexts :
        /\ request[c].newLevel <= seq[c]
        /\ \A i \in request[c].ids :
              /\ i \in issued[c]
              /\ i < request[c].newLevel
              /\ i >= RangeStart(rangeID[c]) => i >= level[c]

\* a write that may still land is one of the range's owner, who cannot write
\* again before it has renewed the range
LateInv ==
    \A w \in lateWrites :
        /\ w.range <= dbRange
        /\ granted[w.range] \in Contexts
        /\ w.ids \subseteq issued[granted[w.range]]
        /\ \A d \in Contexts : d = granted[w.range] /\ w.range = dbRange =>
              /\ state[d] # "Acquired" /\ acquirer[d] # "transition"
              /\ request[d].kind \notin WriteKinds
              /\ \A i \in w.ids : i >= RangeStart(dbRange) => i >= level[d]

\* the rows of a context are below its level once it is about to be Acquired
RowInv ==
    /\ \A i \in rows : \E d \in Contexts : i \in issued[d]
    /\ \A c \in Contexts :
          state[c] = "Acquired" \/ acquirer[c] = "transition" =>
             \A i \in rows \cap issued[c] : i < level[c]

\* a delayed update of the queue state that may still land is not older than
\* what its context has saved, and the context saves nothing before it renews
QueueInv ==
    /\ \A c \in Contexts : saved[c] <= queueState[c]
    /\ \A u \in lateUpdates : u.new = u.prev /\ u.prev = dbRange =>
          /\ granted[dbRange] = u.ctx
          /\ state[u.ctx] # "Acquired" /\ acquirer[u.ctx] # "transition"
          /\ u.queueState >= saved[u.ctx]

\* What ties the context to the store: every grant, every ID, every row and
\* every call still under way is accounted for, and the saved queue state is what
\* it should be.  Every step keeps it.
Inv ==
    /\ TypeOK
    /\ GrantInv /\ UpdateInv /\ LoadInv /\ FreshInv /\ BlockInv /\ ReadInv
    /\ IssuedInv /\ LockInv /\ RequestInv /\ LateInv /\ RowInv /\ QueueInv
    /\ SavedStateDurable

\* What a handover adds: a write that checks the namespace is not under way while
\* the namespace is in handover, and one that may still land keeps the handover
\* pending.  The IDs of the other writes are exempt.
HandoverInv ==
    /\ \A c \in Contexts :
          /\ request[c].kind = "write" => handover[c] = NoHandover
          /\ request[c].kind \in ExemptKinds => request[c].ids \subseteq exempt
    /\ \A w \in lateWrites : \A d \in Contexts :
          d = granted[w.range] /\ w.range = dbRange =>
             handover[d] < 0 \/ w.ids \subseteq exempt
    /\ HandoverIsFinal
=============================================================================
