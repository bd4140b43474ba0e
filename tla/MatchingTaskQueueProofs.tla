---------------------- MODULE MatchingTaskQueueProofs -----------------------
(***************************************************************************)
(* The invariant holds of every reachable state, and what follows from it. *)
(***************************************************************************)
EXTENDS MatchingTaskQueueWrite, FiniteSetTheorems, TLAPS

-----------------------------------------------------------------------------
(* The library *)

\* LeastElement holds: a nonempty set of numbers has a least one.
LEMMA LeastNatural == LeastElement
  <1> SUFFICES ASSUME NEW S \in SUBSET Nat, S # {} PROVE \E x \in S : \A y \in S : x <= y
    BY Zenon DEF LeastElement
  <1>1. \E x \in S : \A y \in S : ~(<<y, x>> \in OpToRel(<, Nat))
    BY ZenonT(60), NatLessThanWellFounded, WFMin
  <1>2. PICK x \in S : \A y \in S : ~(<<y, x>> \in OpToRel(<, Nat))
    BY ZenonT(60), <1>1
  <1>3. ASSUME NEW y \in S PROVE x <= y
    <2>1. ~(<<y, x>> \in {ss \in Nat \X Nat : ss[1] < ss[2]})
      BY ZenonT(60), <1>2 DEF OpToRel
    <2>2. x \in Nat /\ y \in Nat
      OBVIOUS
    <2> QED
      BY SMTT(60), <2>1, <2>2
  <1> QED
    BY ZenonT(60), <1>3

\* The library has the facts about cardinalities.
LEMMA FiniteCounting == Counting
  <1> SUFFICES ASSUME NEW S, IsFiniteSet(S)
               PROVE  /\ Cardinality(S) \in Nat /\ (Cardinality(S) = 0 => S = {})
                      /\ \A T \in SUBSET S : Cardinality(T) <= Cardinality(S)
    BY ZenonT(60) DEF Counting
  <1>1. Cardinality(S) \in Nat
    BY SMTT(60), FS_CardinalityType
  <1>2. Cardinality(S) = 0 => S = {}
    BY SMTT(60), FS_EmptySet
  <1>3. ASSUME NEW T \in SUBSET S PROVE Cardinality(T) <= Cardinality(S)
    BY SMTT(60), FS_Subset
  <1> QED
    BY SMTT(60), <1>1, <1>2, <1>3

-----------------------------------------------------------------------------
(* Steps of no manager *)

\* A call that timed out and takes effect later keeps the invariant.
LEMMA LandsStep ==
    ASSUME QueueInv, NEW c \in late, Lands(c)
    PROVE  QueueInv'
  <1> DEFINE top == row.range * RangeSize
             top1 == row'.range * RangeSize
  <1>1. Types /\ LeaseInv /\ ClaimInv /\ KnownInv /\ SafeInv
    BY ZenonT(60) DEF QueueInv
  <1>2. /\ c \in [prev : Nat, range : Nat, ack : Nat, tasks : SUBSET Rows] /\ CallInv(c)
        /\ row.range \in Nat /\ row.ack \in Nat /\ MaxRange \in Nat
    BY ZenonT(60), <1>1, MatchingBounds DEF Types, LeaseInv
  <1>3. /\ row.range = c.prev /\ rows' = rows \cup c.tasks /\ created' = created \cup CallClaims(c)
        /\ late' = late \ {c} /\ UNCHANGED <<mgr, promised, started, expired>>
    BY ZenonT(60) DEF Lands, Apply, CallClaims, taskVars
  <1>4. /\ row' \in [range : Nat, ack : Nat] /\ row'.range = c.range
        /\ (row'.ack = c.ack \/ row'.ack = row.ack)
    <2>1. PICK a : row' = [range |-> c.range, ack |-> a] /\ (a = c.ack \/ a = row.ack)
      BY ZenonT(60) DEF Lands, Apply
    <2> QED
      BY ZenonT(60), <1>2, <2>1
  <1>5. /\ row'.range = row.range \/ row'.range = row.range + 1
        /\ row.range <= row'.range /\ row'.range <= MaxRange /\ row'.range \in Nat /\ row'.ack \in Nat
    BY SMTT(60), <1>2, <1>3, <1>4 DEF CallInv
  <1>6. top \in Nat /\ top1 \in Nat /\ top <= top1
    BY ZenonT(60), <1>2, <1>5, TopGrows
  <1>7. CallClaims(c) \subseteq Claims /\ created \subseteq Claims
    BY ZenonT(60) DEF Claims
  <1>8. Types'
    <2>1. rows' \in SUBSET Rows /\ late' \in SUBSET [prev : Nat, range : Nat, ack : Nat, tasks : SUBSET Rows]
      BY ZenonT(60), <1>1, <1>2, <1>3 DEF Types
    <2>2. created' \in SUBSET [id : Nat, task : Tasks, lease : Nat]
      BY ZenonT(60), <1>1, <1>3, <1>7, ClaimTypes
    <2> QED
      BY ZenonT(60), <1>1, <1>3, <1>4, <2>1, <2>2 DEF Types
  <1> HIDE DEF top, top1
  <1>9. LeaseInv'
    <2>1. /\ row.ack <= top /\ \A d \in late : CallInv(d) /\ d.prev <= row.range /\ d.ack <= top
          /\ \A d \in late : d.prev \in Nat /\ d.ack \in Nat
      BY ZenonT(60), <1>1 DEF LeaseInv, Types, top
    <2>2. row'.ack <= top1 /\ \A d \in late' : CallInv(d) /\ d.prev <= row'.range /\ d.ack <= top1
      BY SMTT(60), <1>2, <1>3, <1>4, <1>5, <1>6, <2>1
    <2>3. ASSUME NEW m \in Managers
          PROVE  /\ LocalInv(mgr[m]) /\ UpTo(mgr[m], top1)
                 /\ mgr[m].seen.range <= row'.range
                 /\ mgr[m].st = "leasing" => mgr[m].seen.range < MaxRange
                 /\ Alive(mgr[m]) => mgr[m].range <= row'.range
      <3>1. /\ LocalInv(mgr[m]) /\ UpTo(mgr[m], top) /\ mgr[m].seen.range <= row.range
            /\ mgr[m].st = "leasing" => mgr[m].seen.range < MaxRange
            /\ Alive(mgr[m]) => mgr[m].range <= row.range
            /\ mgr[m] \in Manager
        BY ZenonT(60), <1>1 DEF LeaseInv, Types, top
      <3>2. mgr[m].seen.range \in Nat /\ mgr[m].range \in Nat
        BY ZenonT(60), <3>1 DEF Manager
      <3> QED
        BY SMTT(60), <1>2, <1>5, <1>6, <3>1, <3>2, UpToMonotonic
    <2>4. ASSUME NEW m \in Managers, Alive(mgr[m]), mgr[m].range = row'.range
          PROVE  /\ row'.ack <= mgr[m].maxRead /\ \A d \in late' : d.ack <= mgr[m].maxRead
                 /\ \A n \in Managers : UpTo(mgr[n], mgr[m].maxRead)
      <3>1. mgr[m].range <= row.range
        BY ZenonT(60), <1>1, <2>4 DEF LeaseInv
      <3>2. Holds(m)
        BY SMTT(60), <1>2, <1>5, <2>4, <3>1 DEF Holds
      <3>3. /\ row.ack <= mgr[m].maxRead /\ \A d \in late : d.ack <= mgr[m].maxRead
            /\ \A n \in Managers : UpTo(mgr[n], mgr[m].maxRead)
        BY ZenonT(60), <1>1, <3>2 DEF LeaseInv
      <3> QED
        BY ZenonT(60), <1>3, <1>4, <3>3
    <2>5. \A m, n \in Managers : m # n /\ Alive(mgr[m]) /\ Alive(mgr[n]) =>
           /\ mgr[m].range # mgr[n].range
           /\ mgr[m].range < mgr[n].range => mgr[m].block.end <= mgr[n].maxRead
      BY ZenonT(60), <1>1 DEF LeaseInv
    <2>6. mgr' = mgr
      BY ZenonT(60), <1>3
    <2> QED
      BY SMTT(60), <1>5, <2>2, <2>3, <2>4, <2>5, <2>6 DEF LeaseInv, Holds, top1
  <1>10. ClaimInv'
    <2>1. Claims' \subseteq Claims
      <3>1. created' \subseteq Claims
        BY ZenonT(60), <1>3, <1>7
      <3>2. UNION {CallClaims(d) : d \in late'} \subseteq Claims
        BY ZenonT(60), <1>3 DEF Claims
      <3>3. UNION {BatchClaims(mgr'[n]) : n \in Managers} \subseteq Claims
        BY ZenonT(60), <1>3 DEF Claims
      <3>4. Claims' = created' \cup (UNION {CallClaims(d) : d \in late'})
                             \cup (UNION {BatchClaims(mgr'[n]) : n \in Managers})
        BY ZenonT(60) DEF Claims, CallClaims, BatchClaims
      <3> QED
        BY ZenonT(60), <3>1, <3>2, <3>3, <3>4
    <2>2. \A x \in Claims : x.id \in Nat /\ 1 <= x.id /\ x.id <= top
      BY ZenonT(60), <1>1, ClaimTypes DEF ClaimInv, top
    <2>3. \A x \in Claims' : 1 <= x.id /\ x.id <= top1
      BY SMTT(60), <1>6, <2>1, <2>2
    <2>4. \A x, y \in Claims' : x.id = y.id => x = y
      BY ZenonT(60), <1>1, <2>1 DEF ClaimInv
    <2>5. \A n \in Managers : Alive(mgr'[n]) =>
             \A x \in Claims' : x.id < mgr'[n].block.start \/ x.id > mgr'[n].block.end
      BY ZenonT(60), <1>1, <1>3, <2>1 DEF ClaimInv
    <2> QED
      BY ZenonT(60), <2>3, <2>4, <2>5 DEF ClaimInv, top1
  <1>11. KnownInv'
    <2>1. IsFiniteSet(rows')
      <3>1. IsFiniteSet(rows) /\ IsFiniteSet(c.tasks)
        BY ZenonT(60), <1>1, <1>2 DEF KnownInv, CallInv
      <3> QED
        BY ZenonT(60), <1>3, <3>1, UnionFinite
    <2>2. ASSUME NEW i, NEW t, Known(i, t) PROVE Known(i, t)'
      BY ZenonT(60), <1>3, <2>2 DEF Known
    <2>3. ASSUME NEW r \in rows' PROVE Known(r.id, r.task)'
      <3>1. CASE r \in c.tasks
        <4>1. [id |-> r.id, task |-> r.task, lease |-> c.range] \in created'
          BY ZenonT(60), <1>3, <3>1 DEF CallClaims
        <4> QED
          BY ZenonT(60), <4>1 DEF Known
      <3>2. CASE r \in rows
        BY ZenonT(60), <1>1, <2>2, <3>2 DEF KnownInv
      <3> QED
        BY ZenonT(60), <1>3, <3>1, <3>2
    <2>4. ASSUME NEW m \in Managers
          PROVE  /\ \A r \in mgr'[m].held \cup mgr'[m].reading : Known(r.id, r.task)'
                 /\ \A q \in RequestsOf(mgr'[m]) : q.of # 0 => Known(q.of, q.task)'
      BY ZenonT(60), <1>1, <1>3, <2>2 DEF KnownInv
    <2> QED
      BY ZenonT(60), <2>1, <2>3, <2>4 DEF KnownInv
  <1>12. SafeInv'
    <2> SUFFICES ASSUME NEW t \in Tasks, t \notin started' \cup expired', Accepted(t)'
                 PROVE  \E r \in rows' : r.task = t /\ Safe(r)'
      BY ZenonT(60) DEF SafeInv
    <2>1. Accepted(t)
      BY ZenonT(60), <1>3 DEF Accepted
    <2>2. PICK r \in rows : r.task = t /\ Safe(r)
      BY ZenonT(60), <1>1, <1>3, <2>1 DEF SafeInv
    <2>3. row'.ack < r.id /\ \A d \in late' : d.ack < r.id
      BY ZenonT(60), <1>3, <1>4, <2>2 DEF Safe
    <2>4. \A n \in Managers : Beyond(mgr'[n], r)
      BY ZenonT(60), <1>3, <2>2 DEF Safe
    <2>5. Safe(r)'
      BY ZenonT(60), <2>3, <2>4 DEF Safe
    <2> QED
      BY ZenonT(60), <1>3, <2>2, <2>5
  <1> QED
    BY SMTT(60), <1>8, <1>9, <1>10, <1>11, <1>12 DEF QueueInv

\* Time passes, or nothing happens.
LEMMA IdleStep ==
    ASSUME QueueInv, UNCHANGED <<row, rows, late, mgr, created, promised, started>>,
           expired \subseteq expired', expired' \in SUBSET Tasks
    PROVE  QueueInv'
  <1>1. Types /\ LeaseInv /\ ClaimInv /\ KnownInv /\ SafeInv
    BY ZenonT(60) DEF QueueInv
  <1>2. Types'
    BY ZenonT(60), <1>1 DEF Types
  <1>3. LeaseInv'
    BY ZenonT(60), <1>1 DEF LeaseInv, Holds
  <1>4. ClaimInv'
    <2>1. Claims' = Claims
      BY ZenonT(60) DEF Claims
    <2> QED
      BY ZenonT(60), <1>1, <2>1 DEF ClaimInv
  <1>5. KnownInv'
    BY SMTT(60), <1>1 DEF KnownInv, Known
  <1>6. SafeInv'
    <2> SUFFICES ASSUME NEW t \in Tasks, t \notin started' \cup expired', Accepted(t)'
                 PROVE  \E r \in rows' : r.task = t /\ Safe(r)'
      BY ZenonT(60) DEF SafeInv
    <2>1. Accepted(t)
      BY ZenonT(60) DEF Accepted
    <2>2. PICK r \in rows : r.task = t /\ Safe(r)
      BY ZenonT(60), <1>1, <2>1 DEF SafeInv
    <2>3. Safe(r)'
      BY ZenonT(60), <2>2 DEF Safe
    <2> QED
      BY ZenonT(60), <2>2, <2>3
  <1> QED
    BY ZenonT(60), <1>2, <1>3, <1>4, <1>5, <1>6 DEF QueueInv

\* The expiration of a task keeps the invariant.
LEMMA ExpireStep ==
    ASSUME QueueInv, NEW t \in Tasks, Expire(t)
    PROVE  QueueInv'
  <1>1. /\ UNCHANGED <<row, rows, late, mgr, created, promised, started>>
        /\ expired' = expired \cup {t} /\ expired \in SUBSET Tasks
    BY ZenonT(60) DEF Expire, storeVars, QueueInv, Types
  <1> QED
    BY ZenonT(60), <1>1, IdleStep

-----------------------------------------------------------------------------
(* The theorems *)

\* A take-over of the lease keeps the invariant, whatever comes of it.
LEMMA TakeOverStep ==
    ASSUME QueueInv, NEW m \in Managers, TakeOver(m)
    PROVE  QueueInv'
  <1> DEFINE c == Call(mgr[m].seen.range, mgr[m].seen.range + 1, mgr[m].seen.ack, {})
  <1>1. /\ mgr[m].st = "leasing" /\ UNCHANGED taskVars
        /\ \/ Succeeds(c) /\ mgr' = [mgr EXCEPT ![m] = Leased(mgr[m])]
           \/ Refused(c) /\ mgr' = [mgr EXCEPT ![m].st = "stopped"]
           \/ TimesOut(c) /\ mgr' = [mgr EXCEPT ![m].st = "new"]
    BY ZenonT(60) DEF TakeOver
  <1>2. CASE Succeeds(c) /\ mgr' = [mgr EXCEPT ![m] = Leased(mgr[m])]
    BY ZenonT(60), <1>1, <1>2, TakeOverSucceedsStep
  <1>3. CASE \/ Refused(c) /\ mgr' = [mgr EXCEPT ![m].st = "stopped"]
             \/ TimesOut(c) /\ mgr' = [mgr EXCEPT ![m].st = "new"]
    <2> HIDE DEF c
    <2> QED
      BY ZenonT(60), <1>1, <1>3, TakeOverFailsStep DEF c
  <1> QED
    BY ZenonT(60), <1>1, <1>2, <1>3

\* The allocation of IDs keeps the invariant, with or without a new block.
LEMMA AllocTaskIDsStep ==
    ASSUME QueueInv, NEW m \in Managers, AllocTaskIDs(m)
    PROVE  QueueInv'
  <1> DEFINE g == mgr[m]
             c == Call(g.range, g.range + 1, g.dbAck, {})
             k(b) == Allocated(g, b, RangeIDToTaskIDBlock(g.range + 1))
  <1>1. /\ Running(m) /\ g.wpc = "idle" /\ g.queue # {} /\ UNCHANGED taskVars
        /\ \E b \in Batches(g.queue) :
               IF g.block.start + Len(b) - 1 <= g.block.end
               THEN mgr' = [mgr EXCEPT ![m] = k(b)] /\ UNCHANGED storeVars
               ELSE \/ /\ g.range < MaxRange /\ Succeeds(c)
                       /\ mgr' = [mgr EXCEPT ![m] = [k(b) EXCEPT !.range = g.range + 1]]
                    \/ Refused(c) /\ mgr' = [mgr EXCEPT ![m] = Unload(NotAllocated(g, b))]
                    \/ /\ g.range < MaxRange /\ TimesOut(c)
                       /\ mgr' \in {mgr, [mgr EXCEPT ![m] = NotAllocated(g, b)]}
    BY ZenonT(60) DEF AllocTaskIDs
  <1>2. PICK b \in Batches(g.queue) :
               IF g.block.start + Len(b) - 1 <= g.block.end
               THEN mgr' = [mgr EXCEPT ![m] = k(b)] /\ UNCHANGED storeVars
               ELSE \/ /\ g.range < MaxRange /\ Succeeds(c)
                       /\ mgr' = [mgr EXCEPT ![m] = [k(b) EXCEPT !.range = g.range + 1]]
                    \/ Refused(c) /\ mgr' = [mgr EXCEPT ![m] = Unload(NotAllocated(g, b))]
                    \/ /\ g.range < MaxRange /\ TimesOut(c)
                       /\ mgr' \in {mgr, [mgr EXCEPT ![m] = NotAllocated(g, b)]}
    BY ZenonT(60), <1>1
  <1>3. Alive(g) /\ IsFiniteSet(g.queue)
    BY ZenonT(60), <1>1, Facts DEF LocalInv
  <1>4. Range(b) \subseteq g.queue
    BY ZenonT(60), <1>1, <1>3, BatchFacts, FiniteCounting
  <1> DEFINE n == Len(b)
             fits == g.block.start + Len(b) - 1 <= g.block.end
             old == k(b)
  <1>5. CASE fits
    <2>1. mgr' = [mgr EXCEPT ![m] = old] /\ UNCHANGED storeVars
      BY ZenonT(60), <1>2, <1>5
    <2> QED
      BY ZenonT(60), <1>1, <1>3, <1>5, <2>1, AllocStep, FiniteCounting
  <1>6. CASE ~fits /\ g.range < MaxRange /\ Succeeds(c)
                   /\ mgr' = [mgr EXCEPT ![m] = [old EXCEPT !.range = g.range + 1]]
    BY ZenonT(60), <1>1, <1>3, <1>6, AllocStep, FiniteCounting
  <1>7. CASE \/ Refused(c) /\ mgr' = [mgr EXCEPT ![m] = Unload(NotAllocated(g, b))]
             \/ /\ g.range < MaxRange /\ TimesOut(c)
                /\ mgr' \in {mgr, [mgr EXCEPT ![m] = NotAllocated(g, b)]}
    BY SMTT(60), <1>1, <1>3, <1>4, <1>7, AllocFailsStep
  <1> QED
    BY SMTT(60), <1>2, <1>5, <1>6, <1>7

\* A write of a batch keeps the invariant, whatever comes of it.
LEMMA AppendTasksStep ==
    ASSUME QueueInv, NEW m \in Managers, AppendTasks(m)
    PROVE  QueueInv'
  <1> DEFINE g == mgr[m]
             c == Call(g.range, g.range, g.dbAck, {[id |-> e.id, task |-> e.req.task] : e \in g.batch})
  <1>1. /\ Running(m) /\ g.wpc = "write" /\ UNCHANGED taskVars
        /\ \/ Succeeds(c) /\ mgr' = [mgr EXCEPT ![m] = Written(g, TRUE)]
           \/ Refused(c) /\ mgr' = [mgr EXCEPT ![m] = Unload(Written(g, FALSE))]
           \/ TimesOut(c) /\ mgr' = [mgr EXCEPT ![m] = Written(g, FALSE)]
    BY ZenonT(60) DEF AppendTasks
  <1>2. Alive(g)
    BY ZenonT(60), <1>1, Facts
  <1>3. CASE Succeeds(c) /\ mgr' = [mgr EXCEPT ![m] = Written(g, TRUE)]
    BY ZenonT(60), <1>1, <1>2, <1>3, AppendSucceedsStep
  <1>4. CASE \/ Refused(c) /\ mgr' = [mgr EXCEPT ![m] = Unload(Written(g, FALSE))]
             \/ TimesOut(c) /\ mgr' = [mgr EXCEPT ![m] = Written(g, FALSE)]
    BY ZenonT(60), <1>1, <1>2, <1>4, AppendFailsStep
  <1> QED
    BY ZenonT(60), <1>1, <1>3, <1>4

\* Every step of a manager keeps the invariant.
LEMMA ManagerStepKeeps ==
    ASSUME QueueInv, NEW m \in Managers, ManagerStep(m)
    PROVE  QueueInv'
  <1>1. CASE Load(m)
    BY ZenonT(60), <1>1, LoadStep
  <1>2. CASE TakeOver(m)
    BY ZenonT(60), <1>2, TakeOverStep
  <1>3. CASE \E t \in Tasks : AddTask(m, t)
    BY SMTT(60), <1>3, AddTaskStep
  <1>4. CASE AllocTaskIDs(m)
    BY Zenon, <1>4, AllocTaskIDsStep
  <1>5. CASE AppendTasks(m)
    BY Zenon, <1>5, AppendTasksStep
  <1>6. CASE PublishReadLevel(m)
    BY ZenonT(60), <1>6, PublishStep, LeastNatural
  <1>7. CASE \E p \in mgr[m].replies : AddTaskReturns(m, p) \/ RewriteReturns(m, p)
    BY SMTT(60), <1>7, AddTaskReturnsStep, RewriteFailsStep, RewriteSucceedsStep, LeastNatural
  <1>8. CASE GetTaskBatch(m)
    BY ZenonT(60), <1>8, GetTaskBatchStep, LeastNatural, FiniteCounting
  <1>9. CASE AddTaskToBuffer(m)
    BY Zenon, <1>9, AddTaskToBufferStep
  <1>10. CASE UpdateAck(m)
    BY Zenon, <1>10, UpdateAckStep
  <1>11. CASE \E r \in mgr[m].held : FinishTask(m, r) \/ FailTask(m, r)
    BY SMTT(60), <1>11, FinishTaskStep, LeastNatural, FailTaskStep
  <1>12. CASE DeleteTasks(m)
    BY Zenon, <1>12, DeleteTasksStep
  <1>13. CASE UnloadTaskQueue(m)
    BY Zenon, <1>13, UnloadStep
  <1>14. CASE StopPersist(m)
    BY Zenon, <1>14, StopPersistStep
  <1>15. CASE StopCancel(m)
    BY Zenon, <1>15, StopCancelStep
  <1>16. CASE Crash(m)
    BY Zenon, <1>16, CrashStep
  <1> QED
    BY SMTT(60), <1>1, <1>2, <1>3, <1>4, <1>5, <1>6, <1>7, <1>8, <1>9, <1>10, <1>11, <1>12, <1>13, <1>14,
       <1>15, <1>16 DEF ManagerStep

\* The invariant holds initially.
LEMMA InitQueueInv ==
    ASSUME Init
    PROVE  QueueInv
  <1>1. /\ MaxRange \in Nat \ {0} /\ RangeSize \in Nat \ {0}
    BY ZenonT(60), MatchingBounds
  <1>2. /\ row.range = 0 /\ row.ack = 0 /\ row \in [range : Nat, ack : Nat] /\ row.range * RangeSize = 0
        /\ rows = {} /\ late = {} /\ created = {}
        /\ promised = {} /\ started = {} /\ expired = {}
        /\ \A m \in Managers : mgr[m] = NewManager
        /\ mgr = [m \in Managers |-> NewManager]
    BY SMTT(60), <1>1 DEF Init
  <1>3. NewManager \in Manager
    BY ZenonT(60), NewManagerType
  <1>4. Types
    BY ZenonT(60), <1>2, <1>3 DEF Types
  <1>5. /\ NewManager.st = "new" /\ NewManager.batch = {} /\ NewManager.queue = {} /\ NewManager.replies = {}
        /\ NewManager.held = {} /\ NewManager.reading = {} /\ NewManager.open = {} /\ NewManager.acked = {}
        /\ NewManager.ack = -1 /\ NewManager.dbAck = 0 /\ NewManager.seen = [range |-> 0, ack |-> 0]
        /\ NewManager.collecting = -1 /\ NewManager.read = -1
    BY ZenonT(60) DEF NewManager, NoGC
  <1>6. ~Alive(NewManager) /\ RequestsOf(NewManager) = {} /\ BatchClaims(NewManager) = {}
    BY ZenonT(60), <1>5 DEF Alive, RequestsOf, BatchClaims
  <1>7. UpTo(NewManager, 0)
    BY SMTT(60), <1>5, <1>6 DEF UpTo
  <1>8. LocalInv(NewManager)
    <2>1. NewManager = [NewManager EXCEPT !.st = NewManager.st, !.seen = NewManager.seen]
      BY ZenonT(60), <1>3 DEF Manager
    <2> QED
      BY ZenonT(60), <1>5, <1>6, <2>1, EmptyFinite DEF LocalInv
  <1>9. LeaseInv
    BY SMTT(60), <1>1, <1>2, <1>5, <1>6, <1>7, <1>8 DEF LeaseInv, Holds
  <1>10. Claims = {}
    BY ZenonT(60), <1>2, <1>6 DEF Claims
  <1>11. ClaimInv
    BY ZenonT(60), <1>2, <1>10 DEF ClaimInv
  <1>12. KnownInv
    BY ZenonT(60), <1>2, <1>5, <1>6, EmptyFinite DEF KnownInv
  <1>13. SafeInv
    BY ZenonT(60), <1>2, <1>5 DEF SafeInv, Accepted
  <1> QED
    BY SMTT(60), <1>4, <1>9, <1>11, <1>12, <1>13 DEF QueueInv

(* The inductive invariant of the task queue holds in every behaviour, for  *)
(* any managers, tasks, leases, timeouts, rewrites and crashes.             *)
THEOREM QueueInvariant == Spec => []QueueInv
  <1>1. Init => QueueInv
    BY ZenonT(60), InitQueueInv
  <1>2. QueueInv /\ [Next]_vars => QueueInv'
    <2> SUFFICES ASSUME QueueInv, [Next]_vars PROVE QueueInv'
      OBVIOUS
    <2>1. CASE \E m \in Managers : ManagerStep(m)
      BY ZenonT(60), <2>1, ManagerStepKeeps
    <2>2. CASE \E c \in late : Lands(c)
      BY ZenonT(60), <2>2, LandsStep
    <2>3. CASE \E t \in Tasks : Expire(t)
      BY Zenon, <2>3, ExpireStep
    <2>4. CASE UNCHANGED vars
      <3>1. UNCHANGED <<row, rows, late, mgr, created, promised, started, expired>> /\ expired \in SUBSET Tasks
        BY ZenonT(60), <2>4 DEF vars, storeVars, taskVars, QueueInv, Types
      <3> QED
        BY ZenonT(60), <3>1, IdleStep
    <2> QED
      BY ZenonT(60), <2>1, <2>2, <2>3, <2>4 DEF Next
  <1> QED
    BY <1>1, <1>2, PTL DEF Spec

(* The row stays within the leases, the tasks within the IDs of the leases, *)
(* and a manager allocates from the block of the lease it has.              *)
THEOREM QueueTypes == Spec => []TypeOK
  <1>1. QueueInv => TypeOK
    <2> SUFFICES ASSUME QueueInv PROVE TypeOK
      OBVIOUS
    <2>1. Types /\ LeaseInv /\ ClaimInv /\ KnownInv /\ MaxRange \in Nat
      BY ZenonT(60), MatchingBounds DEF QueueInv
    <2>2. /\ row.range \in Nat /\ row.range <= MaxRange /\ row.ack \in Nat /\ row.ack <= row.range * RangeSize
      BY ZenonT(60), <2>1 DEF LeaseInv, Types
    <2>3. /\ row.range * RangeSize \in Nat /\ MaxRange * RangeSize \in Nat
          /\ row.range * RangeSize <= MaxRange * RangeSize
      BY ZenonT(60), <2>1, <2>2, TopGrows
    <2>4. row.range \in 0 .. MaxRange /\ row.ack \in {0} \cup IDs
      BY SMTT(60), <2>1, <2>2, <2>3 DEF IDs
    <2>5. ASSUME NEW r \in rows PROVE r \in [id : IDs, task : Tasks]
      <3>1. r \in Rows
        BY ZenonT(60), <2>1 DEF Types
      <3>2. PICK x \in created : x.id = r.id
        BY ZenonT(60), <2>1 DEF KnownInv, Known
      <3>3. 1 <= r.id /\ r.id <= row.range * RangeSize
        BY ZenonT(60), <2>1, <3>2 DEF ClaimInv, Claims
      <3>4. r.id \in IDs
        BY SMTT(60), <2>3, <3>1, <3>3 DEF IDs, Rows
      <3> QED
        BY ZenonT(60), <3>1, <3>4 DEF Rows
    <2>6. ASSUME NEW m \in Managers, mgr[m].st \notin {"new", "leasing", "stopped"}
          PROVE  mgr[m].block.end = RangeIDToTaskIDBlock(mgr[m].range).end
      <3>1. Alive(mgr[m])
        BY ZenonT(60), <2>1, <2>6 DEF Types, Manager, ManagerStates, Alive
      <3>2. mgr[m].block.end = mgr[m].range * RangeSize
        BY SMTT(60), <3>1, Facts DEF AliveInv
      <3> QED
        BY ZenonT(60), <3>2 DEF RangeIDToTaskIDBlock
    <2> QED
      BY ZenonT(60), <2>4, <2>5, <2>6 DEF TypeOK
  <1> QED
    BY <1>1, QueueInvariant, PTL

(* No task ID is ever written for two tasks or under two leases, whoever    *)
(* takes the queue over and whichever write that timed out lands late.      *)
THEOREM TaskIDsAlwaysUnique == Spec => []UniqueTaskIDs
  <1>1. QueueInv => UniqueTaskIDs
    BY ZenonT(60) DEF QueueInv, ClaimInv, Claims, UniqueTaskIDs
  <1> QED
    BY <1>1, QueueInvariant, PTL

(* A task that AddTask has accepted stays in the store, above the row's ack *)
(* level, until it is started or expires: no take-over, late write, rewrite *)
(* or collection loses it.                                                  *)
THEOREM NoTaskEverLost == Spec => []NoTaskLost
  <1>1. QueueInv => NoTaskLost
    <2> SUFFICES ASSUME QueueInv, NEW t \in Owed PROVE \E r \in rows : r.task = t /\ r.id > row.ack
      BY ZenonT(60) DEF NoTaskLost
    <2>1. t \in Tasks \ (started \cup expired) /\ Accepted(t)
      BY ZenonT(60) DEF Owed, QueueInv, Types, Accepted
    <2>2. PICK r \in rows : r.task = t /\ Safe(r)
      BY ZenonT(60), <2>1 DEF QueueInv, SafeInv
    <2>3. r \in Rows /\ row \in [range : Nat, ack : Nat] /\ row.ack < r.id
      BY ZenonT(60), <2>2 DEF QueueInv, Types, Safe
    <2>4. r.id > row.ack
      BY ZenonT(60), <2>3 DEF Rows
    <2> QED
      BY ZenonT(60), <2>2, <2>4
  <1> QED
    BY <1>1, QueueInvariant, PTL

(* No manager's ack level ever passes a task that is accepted and neither   *)
(* started nor expired, not even one written by another manager.            *)
THEOREM NothingOwedEverBelowAck == Spec => []NothingOwedBelowAck
  <1>1. QueueInv => NothingOwedBelowAck
    <2> SUFFICES ASSUME QueueInv, NEW m \in Managers, NEW t \in Owed
                 PROVE  \E r \in rows : r.task = t /\ r.id > mgr[m].ack
      BY ZenonT(60) DEF NothingOwedBelowAck
    <2>1. t \in Tasks \ (started \cup expired) /\ Accepted(t)
      BY ZenonT(60) DEF Owed, QueueInv, Types, Accepted
    <2>2. PICK r \in rows : r.task = t /\ Safe(r)
      BY ZenonT(60), <2>1 DEF QueueInv, SafeInv
    <2>3. r \in Rows /\ mgr[m] \in Manager /\ mgr[m].ack < r.id
      BY ZenonT(60), <2>2 DEF QueueInv, Types, Safe, Beyond
    <2>4. r.id > mgr[m].ack
      BY ZenonT(60), <2>3 DEF Rows, Manager
    <2> QED
      BY ZenonT(60), <2>2, <2>4
  <1> QED
    BY <1>1, QueueInvariant, PTL

=============================================================================
