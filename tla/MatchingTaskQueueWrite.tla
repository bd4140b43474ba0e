----------------------- MODULE MatchingTaskQueueWrite -----------------------
(***************************************************************************)
(* The steps of the writer preserve the invariant.                         *)
(***************************************************************************)
EXTENDS MatchingTaskQueueInvariant, TLAPS

-----------------------------------------------------------------------------
(* Steps of the writer that write no task *)

\* A call of AddTask keeps the invariant.
LEMMA AddTaskStep ==
    ASSUME QueueInv, NEW m \in Managers, NEW t \in Tasks, AddTask(m, t)
    PROVE  QueueInv'
  <1> DEFINE g == mgr[m]
             h == [g EXCEPT !.queue = @ \cup {Request(t, 0)}]
  <1>1. g \in Manager /\ LocalInv(g) /\ Alive(g)
    BY Zenon, Facts DEF AddTask
  <1>2. StoreKeeps /\ rows' = rows
    BY Zenon, StoreUnchanged DEF AddTask, storeVars
  <1>3. Request(t, 0) \in Requests /\ Request(t, 0).of = 0
    BY Zenon DEF Request, Requests
  <1>4. h \in Manager
    BY SMTT(60), <1>1, <1>3 DEF Manager
  <1>5. IsFiniteSet(h.queue)
    BY ZenonT(30), <1>1, AddFinite DEF LocalInv, Manager
  <1>6. Similar(g, h)
    <2>1. \A q \in h.queue : q \in RequestsOf(g) \/ q.of = 0
      BY Zenon, <1>1, <1>3 DEF RequestsOf, Manager
    <2>2. Similar(g, g)
      BY Zenon, <1>1, SimilarSelf
    <2> QED
      BY ZenonT(60), <1>1, <1>4, <1>5, <2>1, <2>2 DEF Similar, Manager, Alive
  <1>7. mgr' = [mgr EXCEPT ![m] = h] /\ UNCHANGED <<promised, started, expired>>
    BY Zenon DEF AddTask, taskVars
  <1> QED
    BY ZenonT(60), <1>2, <1>6, <1>7, SimilarStep

\* A manager whose writer got no block is similar to before.
LEMMA NotAllocatedSimilar ==
    ASSUME NEW g \in Manager, LocalInv(g), Alive(g), NEW b, Range(b) \subseteq g.queue
    PROVE  Similar(g, NotAllocated(g, b))
  <1> DEFINE h == NotAllocated(g, b)
             R == Answer(Range(b), FALSE)
  <1>1. /\ R \subseteq [req : Requests, ok : BOOLEAN]
        /\ \A p \in R : ~p.ok /\ p.req.of # 0 /\ p.req \in RequestsOf(g)
    BY Zenon, AnswerTypes DEF RequestsOf
  <1>2. AliveInv(g) /\ g.block \in [start : Nat, end : Nat]
    BY Zenon DEF LocalInv, Manager
  <1>3. IsFiniteSet(g.queue \ Range(b))
    BY Zenon, SubsetFinite DEF LocalInv
  <1>4. Similar(g, g)
    BY ZenonT(60), SimilarSelf
  <1> HIDE DEF R
  <1>5. /\ h \in Manager /\ h.queue = g.queue \ Range(b) /\ h.replies = g.replies \cup R
        /\ h.block = [start |-> g.block.end + 1, end |-> g.block.end] /\ h.st = g.st
        /\ h.seen = g.seen /\ h.range = g.range /\ h.maxRead = g.maxRead /\ h.read = g.read
        /\ h.ack = g.ack /\ h.open = g.open /\ h.acked = g.acked /\ h.batch = g.batch
        /\ h.reading = g.reading /\ h.held = g.held /\ h.wpc = g.wpc /\ h.dbAck = g.dbAck
        /\ h.collecting = g.collecting
    <2> DEFINE B == [start |-> g.block.end + 1, end |-> g.block.end]
    <2>1. B \in [start : Nat, end : Nat] /\ [g.block EXCEPT !.start = g.block.end + 1] = B
      BY <1>2
    <2>2. h = [g EXCEPT !.queue = g.queue \ Range(b), !.replies = g.replies \cup R, !.block = B]
      BY <2>1, Zenon DEF NotAllocated, R
    <2> HIDE DEF B, h
    <2>3. h \in Manager
      <3> DEFINE Q == g.queue \ Range(b)
                 P == g.replies \cup R
      <3>1. P \in SUBSET [req : Requests, ok : BOOLEAN] /\ Q \in SUBSET Requests
        BY Zenon, <1>1 DEF Manager
      <3>2. h = [g EXCEPT !.queue = Q, !.replies = P, !.block = B]
        BY Zenon, <2>2
      <3> HIDE DEF P, Q
      <3>3. [g EXCEPT !.queue = Q] \in Manager
        BY Zenon, <3>1, FieldTypes
      <3>4. [g EXCEPT !.queue = Q, !.replies = P] \in Manager
        BY ZenonT(60), <3>1, <3>3, FieldTypes
      <3> QED
        BY ZenonT(60), <2>1, <3>2, <3>4, FieldTypes
    <2> QED
      BY <2>2, <2>3 DEF Manager, B
  <1>6. h.block.end = g.block.end /\ g.block.start <= h.block.start /\ h.block.start <= g.block.end + 1
    BY <1>2, <1>5 DEF AliveInv
  <1>7. /\ \A q \in h.queue : q \in RequestsOf(g)
        /\ \A p \in h.replies : \/ p \in g.replies
                                \/ ~p.ok /\ p.req.of # 0 /\ p.req \in RequestsOf(g)
    BY Zenon, <1>1, <1>5 DEF RequestsOf
  <1> HIDE DEF h
  <1> QED
    BY ZenonT(60), <1>3, <1>4, <1>5, <1>6, <1>7 DEF Similar, Alive, h

\* So is one whose write was refused.
LEMMA NotWrittenSimilar ==
    ASSUME NEW g \in Manager, LocalInv(g), Alive(g), g.wpc = "write"
    PROVE  Similar(g, Written(g, FALSE))
  <1> DEFINE h == Written(g, FALSE)
             R == Answer({e.req : e \in g.batch}, FALSE)
  <1>1. /\ R \subseteq [req : Requests, ok : BOOLEAN]
        /\ \A p \in R : ~p.ok /\ p.req.of # 0 /\ p.req \in RequestsOf(g)
    BY Zenon, AnswerTypes DEF RequestsOf
  <1>2. Similar(g, g)
    BY ZenonT(30), SimilarSelf
  <1> HIDE DEF R
  <1>3. /\ h \in Manager /\ h.queue = g.queue /\ h.replies = g.replies \cup R
        /\ h.block = g.block /\ h.st = g.st
        /\ h.seen = g.seen /\ h.range = g.range /\ h.maxRead = g.maxRead /\ h.read = g.read
        /\ h.ack = g.ack /\ h.open = g.open /\ h.acked = g.acked /\ h.batch = g.batch
        /\ h.reading = g.reading /\ h.held = g.held /\ h.wpc = "publish" /\ h.dbAck = g.dbAck
        /\ h.collecting = g.collecting
    BY ZenonT(60), <1>1 DEF Written, Manager, R
  <1>4. \A p \in h.replies : \/ p \in g.replies
                             \/ ~p.ok /\ p.req.of # 0 /\ p.req \in RequestsOf(g)
    BY Zenon, <1>1, <1>3
  <1> HIDE DEF h
  <1> QED
    BY ZenonT(60), <1>2, <1>3, <1>4 DEF Similar, Alive, h

\* The batch a writer holds, as a call
LEMMA WriteCall ==
    ASSUME QueueInv, NEW m \in Managers, Alive(mgr[m]), mgr[m].wpc = "write", NEW c,
           c = Call(mgr[m].range, mgr[m].range, mgr[m].dbAck,
                    {[id |-> e.id, task |-> e.req.task] : e \in mgr[m].batch})
    PROVE  /\ c \in Calls /\ CallInv(c) /\ CallClaims(c) \subseteq Claims
           /\ c.prev = mgr[m].range /\ c.range = mgr[m].range /\ c.ack = mgr[m].dbAck
           /\ c.tasks = {[id |-> e.id, task |-> e.req.task] : e \in mgr[m].batch}
           /\ TimesOut(c) \/ Refused(c) \/ Succeeds(c) => StoreKeeps
  <1> DEFINE g == mgr[m]
             W == {[id |-> e.id, task |-> e.req.task] : e \in g.batch}
  <1>1. /\ g \in Manager /\ LocalInv(g) /\ g.range \in Nat /\ g.dbAck \in Nat
        /\ row.range \in Nat /\ g.range <= row.range /\ g.range <= MaxRange
    BY SMTT(60), Facts, MatchingBounds
  <1>2. W \in SUBSET Rows
    BY <1>1 DEF Manager, Rows, Requests
  <1>3. IsFiniteSet(W)
    <2> DEFINE f == [e \in g.batch |-> [id |-> e.id, task |-> e.req.task]]
    <2>1. f \in [g.batch -> W] /\ \A w \in W : \E e \in g.batch : f[e] = w
      BY Zenon
    <2>2. IsFiniteSet(g.batch)
      BY Zenon, <1>1 DEF LocalInv
    <2> HIDE DEF f, W, g
    <2> QED
      BY SMTT(60), <2>1, <2>2, ImageFinite
  <1>4. c.prev = g.range /\ c.range = g.range /\ c.ack = g.dbAck /\ c.tasks = W /\ c \in Calls
    BY Zenon, <1>1, <1>2 DEF Call, Calls
  <1>5. CallInv(c)
    BY ZenonT(60), <1>1, <1>3, <1>4 DEF CallInv
  <1>6. CallClaims(c) \subseteq BatchClaims(g)
    BY <1>4 DEF CallClaims, BatchClaims
  <1>7. CallClaims(c) \subseteq Claims
    BY Zenon, <1>6 DEF Claims
  <1>8. TimesOut(c) \/ Refused(c) \/ Succeeds(c) => StoreKeeps
    BY ZenonT(60), <1>1, <1>4, <1>5, <1>7, StoreCall
  <1> QED
    BY Zenon, <1>4, <1>5, <1>7, <1>8

\* A batch that is not written, or may be written later
LEMMA AppendFailsStep ==
    ASSUME QueueInv, NEW m \in Managers, Alive(mgr[m]), mgr[m].wpc = "write", NEW c,
           c = Call(mgr[m].range, mgr[m].range, mgr[m].dbAck,
                    {[id |-> e.id, task |-> e.req.task] : e \in mgr[m].batch}),
           \/ Refused(c) /\ mgr' = [mgr EXCEPT ![m] = Unload(Written(mgr[m], FALSE))]
           \/ TimesOut(c) /\ mgr' = [mgr EXCEPT ![m] = Written(mgr[m], FALSE)],
           UNCHANGED taskVars
    PROVE  QueueInv'
  <1> DEFINE g == mgr[m]
  <1>1. g \in Manager /\ LocalInv(g)
    BY Zenon, Facts
  <1>2. StoreKeeps
    BY Zenon, WriteCall
  <1>3. rows' = rows /\ UNCHANGED <<promised, started, expired>>
    BY Zenon DEF TimesOut, Refused, storeVars, taskVars
  <1>4. Similar(g, Written(g, FALSE)) /\ Similar(g, Unload(Written(g, FALSE)))
    BY ZenonT(60), <1>1, NotWrittenSimilar, SimilarSmall
  <1> QED
    BY ZenonT(60), <1>2, <1>3, <1>4, SimilarStep

\* A block that could not be had, for sure or for all the writer knows
LEMMA AllocFailsStep ==
    ASSUME QueueInv, NEW m \in Managers, Alive(mgr[m]), NEW b, Range(b) \subseteq mgr[m].queue, NEW c,
           c = Call(mgr[m].range, mgr[m].range + 1, mgr[m].dbAck, {}),
           \/ Refused(c) /\ mgr' = [mgr EXCEPT ![m] = Unload(NotAllocated(mgr[m], b))]
           \/ /\ mgr[m].range < MaxRange /\ TimesOut(c)
              /\ mgr' \in {mgr, [mgr EXCEPT ![m] = NotAllocated(mgr[m], b)]},
           UNCHANGED taskVars
    PROVE  QueueInv'
  <1> DEFINE g == mgr[m]
  <1>1. /\ g \in Manager /\ LocalInv(g) /\ g.range \in Nat /\ g.dbAck \in Nat
        /\ row.range \in Nat /\ g.range <= row.range /\ MaxRange \in Nat
    BY ZenonT(60), Facts, MatchingBounds
  <1>2. /\ c \in Calls /\ c.prev = g.range /\ c.range = g.range + 1 /\ c.ack = g.dbAck /\ c.tasks = {}
    BY <1>1 DEF Call, Calls
  <1>3. StoreKeeps
    <2>1. CASE Refused(c)
      BY Zenon, <2>1, StoreUnchanged DEF Refused, storeVars
    <2>2. CASE g.range < MaxRange /\ TimesOut(c)
      <3>1. CallInv(c) /\ c.prev <= row.range
        BY SMTT(60), <1>1, <1>2, <2>2, EmptyFinite DEF CallInv
      <3>2. CallClaims(c) \subseteq Claims
        BY Zenon, <1>2 DEF CallClaims
      <3> QED
        BY ZenonT(60), <1>2, <2>2, <3>1, <3>2, StoreCall
    <2> QED
      BY Zenon, <2>1, <2>2
  <1>4. rows' = rows /\ UNCHANGED <<promised, started, expired>>
    BY Zenon DEF TimesOut, Refused, storeVars, taskVars
  <1>5. /\ Similar(g, g) /\ Similar(g, NotAllocated(g, b)) /\ Similar(g, Unload(NotAllocated(g, b)))
    BY ZenonT(60), <1>1, SimilarSelf, NotAllocatedSimilar, SimilarSmall
  <1>6. mgr = [mgr EXCEPT ![m] = g]
    BY Zenon DEF QueueInv, Types
  <1>7. PICK h : Similar(g, h) /\ mgr' = [mgr EXCEPT ![m] = h]
    BY ZenonT(60), <1>5, <1>6
  <1> QED
    BY ZenonT(60), <1>3, <1>4, <1>7, SimilarStep

\* The return of AddTask keeps the invariant.
LEMMA AddTaskReturnsStep ==
    ASSUME QueueInv, NEW m \in Managers, NEW p \in mgr[m].replies, AddTaskReturns(m, p)
    PROVE  QueueInv'
  <1> DEFINE g == mgr[m]
             k == [g EXCEPT !.replies = @ \ {p}]
             h == [k EXCEPT !.signal = Running(m)]
  <1>1. g \in Manager /\ LocalInv(g) /\ Similar(g, k)
    BY Zenon, Facts, AnsweredSimilar
  <1>2. Running(m) \in BOOLEAN
    BY DEF Running
  <1>3. Similar(g, h)
    BY ZenonT(60), <1>1, <1>2, SimilarSmall
  <1>4. StoreKeeps /\ rows' = rows /\ UNCHANGED <<started, expired>>
    BY Zenon, StoreUnchanged DEF AddTaskReturns, storeVars
  <1>5. mgr' = [mgr EXCEPT ![m] = h]
    BY Zenon DEF AddTaskReturns
  <1>6. /\ Quiet(g, h) /\ Knows(g, h)
        /\ \A q \in h.replies : q.ok => q \in g.replies
        /\ \A r \in Rows : Beyond(g, r) => Beyond(h, r)
    BY ZenonT(60), <1>1, <1>3, SimilarIsQuiet
  <1>7. p.ok /\ p.req = Request(p.req.task, 0) /\ p.req.task \in Tasks
    BY Zenon, <1>1 DEF AddTaskReturns, LocalInv, Manager, Requests, Request
  <1>8. /\ Types /\ KnownInv /\ SafeInv /\ h \in Manager
        /\ rows \in SUBSET Rows /\ promised \in SUBSET Tasks /\ started \in SUBSET Tasks
        /\ expired \in SUBSET Tasks
    BY Zenon, <1>6 DEF QueueInv, Quiet, Types
  <1>9. promised' = promised \cup {p.req.task} /\ promised' \in SUBSET Tasks
    BY ZenonT(60), <1>7, <1>8 DEF AddTaskReturns
  <1> HIDE DEF h
  <1>10. Types' /\ LeaseInv' /\ ClaimInv'
    BY ZenonT(60), <1>4, <1>5, <1>6, <1>8, <1>9, QuietStep
  <1>11. KnownInv'
    BY ZenonT(60), <1>4, <1>5, <1>6, <1>8, KnownStep DEF Knows, StoreKeeps, KnownInv
  <1>12. SafeInv'
    <2>1. ASSUME NEW t \in Tasks, Accepted(t)' PROVE Accepted(t)
      <3>1. mgr'[m] = h /\ \A n \in Managers \ {m} : mgr'[n] = mgr[n]
        BY Zenon, <1>5, <1>8 DEF Types
      <3>2. CASE t = p.req.task
        BY Zenon, <1>7, <3>2 DEF Accepted
      <3>3. CASE t # p.req.task
        BY ZenonT(60), <1>6, <1>9, <2>1, <3>1, <3>3 DEF Accepted
      <3> QED
        BY Zenon, <3>2, <3>3
    <2>2. ASSUME NEW r \in rows, Safe(r)
          PROVE  /\ r \in rows' /\ row'.ack < r.id /\ \A c \in late' : c.ack < r.id
                 /\ Beyond(h, r)
      BY ZenonT(60), <1>4, <1>6, <1>8, <2>2 DEF StoreKeeps, Safe
    <2> QED
      BY ZenonT(60), <1>4, <1>5, <1>8, <2>1, <2>2, SafeKeep
  <1> QED
    BY ZenonT(60), <1>10, <1>11, <1>12 DEF QueueInv

\* The publication of the new read level keeps the invariant.
LEMMA PublishStep ==
    ASSUME LeastElement, QueueInv, NEW m \in Managers, PublishReadLevel(m)
    PROVE  QueueInv'
  <1> DEFINE g == mgr[m]
             I == {e.id : e \in g.batch}
             h == [g EXCEPT !.wpc = "idle", !.batch = {}, !.maxRead = Max(I)]
  <1>1. /\ mgr' = [mgr EXCEPT ![m] = h] /\ UNCHANGED <<storeVars, taskVars>>
        /\ Alive(g) /\ g.wpc = "publish"
    BY Zenon, Facts DEF PublishReadLevel
  <1>2. /\ g \in Manager /\ LocalInv(g) /\ AliveInv(g) /\ g.maxRead \in Nat /\ g.block.start \in Nat
        /\ rows \in SUBSET Rows /\ started \in SUBSET Tasks
    BY ZenonT(60), <1>1, Facts DEF Manager, QueueInv, Types
  <1>3. I \in SUBSET Nat /\ I # {} /\ \A i \in I : g.maxRead < i /\ i < g.block.start
    BY SMTT(60), <1>1, <1>2 DEF AliveInv, Manager
  <1>4. Max(I) \in I
    <2> HIDE DEF I, g
    <2>1. I \in SUBSET Int /\ g.block.start \in Int /\ \A i \in I : i <= g.block.start
      BY SMTT(60), <1>2, <1>3
    <2> QED
      BY ZenonT(60), <1>3, <2>1, MaxOf
  <1>5. Max(I) \in Nat /\ g.maxRead < Max(I) /\ Max(I) < g.block.start
    BY Zenon, <1>3, <1>4
  <1> DEFINE top == Max(I)
  <1> HIDE DEF I, top
  <1>6. h \in Manager
    <2>1. [g EXCEPT !.wpc = "idle"] \in Manager
      BY Zenon, <1>2, FieldTypes
    <2>2. [g EXCEPT !.wpc = "idle", !.batch = {}] \in Manager
      BY Zenon, <2>1, FieldTypes
    <2> QED
      BY ZenonT(60), <1>5, <2>2 DEF Manager
  <1>7. /\ h.st = g.st /\ h.seen = g.seen /\ h.range = g.range /\ h.dbAck = g.dbAck
        /\ h.block = g.block /\ h.maxRead = Max(I) /\ h.acked = g.acked /\ h.ack = g.ack
        /\ h.queue = g.queue /\ h.wpc = "idle" /\ h.batch = {} /\ h.replies = g.replies
        /\ h.collecting = g.collecting /\ h.held = g.held /\ h.open = g.open
        /\ h.reading = g.reading /\ h.read = g.read
    BY Zenon, <1>2 DEF Manager
  <1> HIDE DEF h
  <1>8. RequestsOf(h) \subseteq RequestsOf(g) /\ BatchClaims(h) = {} /\ Alive(h)
    BY Zenon, <1>1, <1>7 DEF RequestsOf, BatchClaims, Alive
  <1>9. ASSUME NEW x \in Nat, UpTo(g, x) PROVE UpTo(h, x)
    BY ZenonT(60), <1>7, <1>8, <1>9 DEF UpTo
  <1>10. LocalInv(h)
    <2>1. UpTo(g, Max(I))
      BY SMTT(60), <1>2, <1>5, UpToMonotonic DEF AliveInv
    <2>2. UpTo(h, h.maxRead)
      BY ZenonT(60), <1>5, <1>7, <1>9, <2>1
    <2>3. \A r \in h.reading : h.read < r.id /\ r.id <= h.maxRead
      BY SMTT(60), <1>2, <1>5, <1>7 DEF AliveInv, Manager, Rows
    <2>4. AliveInv(h)
      BY ZenonT(60), <1>2, <1>5, <1>7, <2>2, <2>3 DEF AliveInv
    <2> QED
      BY ZenonT(60), <1>2, <1>7, <1>8, <2>4, EmptyFinite DEF LocalInv, Alive
  <1>11. Quiet(g, h)
    <2>1. Grows(g, h)
      BY ZenonT(60), <1>9 DEF Grows
    <2>2. h.seen.range <= g.seen.range /\ h.st # "leasing"
      BY SMTT(60), <1>2, <1>7, <1>8 DEF Alive, Manager
    <2>3. /\ h.range = g.range /\ h.block.end = g.block.end
          /\ g.block.start <= h.block.start /\ g.maxRead <= h.maxRead
      BY SMTT(60), <1>2, <1>5, <1>7
    <2> QED
      BY ZenonT(60), <1>1, <1>6, <1>8, <1>10, <2>1, <2>2, <2>3 DEF Quiet
  <1>12. Knows(g, h)
    BY Zenon, <1>7, <1>8 DEF Knows
  <1>13. ASSUME NEW s \in rows, Safe(s) PROVE Beyond(h, s)
    <2>1. Beyond(g, s)
      BY Zenon, <1>13 DEF Safe
    <2> QED
      BY Zenon, <1>7, <2>1 DEF Beyond
  <1>14. StoreKeeps /\ rows' = rows /\ UNCHANGED <<promised, started, expired>>
    BY ZenonT(60), <1>1, StoreUnchanged DEF storeVars, taskVars
  <1> QED
    BY ZenonT(60), <1>1, <1>2, <1>7, <1>11, <1>12, <1>13, <1>14, OrdinaryStep

-----------------------------------------------------------------------------
(* Task IDs *)

\* A writer takes new IDs.
LEMMA ClaimGrow ==
    ASSUME Types, ClaimInv, Types', NEW m \in Managers, NEW h \in Manager, mgr' = [mgr EXCEPT ![m] = h],
           row.range <= row'.range, created' \subseteq Claims,
           \A c \in late' : CallClaims(c) \subseteq Claims,
           \A y \in BatchClaims(h) : /\ y.id \in Nat /\ 1 <= y.id /\ y.id <= row'.range * RangeSize
                                     /\ \A x \in Claims : x.id # y.id,
           \A y, z \in BatchClaims(h) : y.id = z.id => y = z,
           \A n \in Managers \ {m} : Alive(mgr[n]) =>
               \A y \in BatchClaims(h) : y.id < mgr[n].block.start \/ y.id > mgr[n].block.end,
           Alive(h) => \A x \in Claims \cup BatchClaims(h) : x.id < h.block.start \/ x.id > h.block.end
    PROVE  ClaimInv'
  <1> DEFINE N == BatchClaims(h)
  <1>1. mgr'[m] = h /\ \A n \in Managers \ {m} : mgr'[n] = mgr[n]
    BY Zenon DEF Types
  <1>2. Claims' \subseteq Claims \cup N
    <2>1. ASSUME NEW n \in Managers PROVE BatchClaims(mgr'[n]) \subseteq Claims \cup N
      <3>1. BatchClaims(mgr[n]) \subseteq Claims
        BY DEF Claims
      <3> QED
        BY ZenonT(60), <1>1, <3>1
    <2>2. Claims' = created' \cup (UNION {CallClaims(c) : c \in late'})
                             \cup (UNION {BatchClaims(mgr'[n]) : n \in Managers})
      BY Zenon DEF Claims, CallClaims, BatchClaims
    <2>3. UNION {CallClaims(c) : c \in late'} \subseteq Claims
      OBVIOUS
    <2>4. UNION {BatchClaims(mgr'[n]) : n \in Managers} \subseteq Claims \cup N
      BY <2>1
    <2> QED
      BY ZenonT(60), <2>2, <2>3, <2>4
  <1>3. /\ row.range * RangeSize \in Nat /\ row'.range * RangeSize \in Nat
        /\ row.range * RangeSize <= row'.range * RangeSize
    BY Zenon, TopGrows DEF Types
  <1>4. \A x \in Claims : x.id \in Nat /\ 1 <= x.id /\ x.id <= row.range * RangeSize
    BY Zenon, ClaimTypes DEF ClaimInv
  <1>5. \A x, y \in Claims \cup N : x.id = y.id => x = y
    BY Zenon DEF ClaimInv
  <1>6. \A x \in Claims \cup N : 1 <= x.id /\ x.id <= row'.range * RangeSize
    BY SMTT(60), <1>3, <1>4
  <1>7. ASSUME NEW n \in Managers, Alive(mgr'[n]), NEW x \in Claims \cup N
        PROVE  x.id < mgr'[n].block.start \/ x.id > mgr'[n].block.end
    BY ZenonT(60), <1>1, <1>7 DEF ClaimInv
  <1> HIDE DEF N
  <1>8. \A x, y \in Claims' : x.id = y.id => x = y
    BY Zenon, <1>2, <1>5
  <1>9. \A x \in Claims' : 1 <= x.id /\ x.id <= row'.range * RangeSize
    BY Zenon, <1>2, <1>6
  <1>10. \A n \in Managers : Alive(mgr'[n]) =>
           \A x \in Claims' : x.id < mgr'[n].block.start \/ x.id > mgr'[n].block.end
    BY ZenonT(60), <1>2, <1>7
  <1> QED
    BY ZenonT(60), <1>8, <1>9, <1>10 DEF ClaimInv

\* A batch of the writer is nonempty and has at most a block of requests.
LEMMA BatchFacts ==
    ASSUME Counting, NEW q, IsFiniteSet(q), q # {}, NEW b \in Batches(q)
    PROVE  /\ Len(b) \in Nat /\ 1 <= Len(b) /\ Len(b) <= RangeSize
           /\ DOMAIN b = 1 .. Len(b) /\ Range(b) \subseteq q
           /\ \A i \in 1 .. Len(b) : b[i] \in Range(b)
  <1> DEFINE n == Min({Cardinality(q), BatchSize})
  <1>1. /\ BatchSize \in Nat \ {0} /\ RangeSize \in Nat \ {0} /\ BatchSize <= RangeSize
    BY Zenon, MatchingBounds
  <1>2. Cardinality(q) \in Nat /\ Cardinality(q) # 0
    BY Zenon DEF Counting
  <1>3. n \in Nat /\ 1 <= n /\ n <= RangeSize
    <2>1. BatchSize \in Int /\ Cardinality(q) \in Int
      BY <1>1, <1>2
    <2>2. /\ n \in Int /\ n <= BatchSize /\ (n = Cardinality(q) \/ n = BatchSize)
      BY Zenon, <2>1, MinOfTwo
    <2> HIDE DEF n
    <2> QED
      BY SMTT(60), <1>1, <1>2, <2>2
  <1>4. b \in [1 .. n -> q]
    BY Zenon DEF Batches
  <1> HIDE DEF n
  <1>5. Len(b) = n /\ DOMAIN b = 1 .. n
    BY <1>3, <1>4
  <1>6. Range(b) \subseteq q /\ \A i \in 1 .. n : b[i] \in Range(b)
    BY Zenon, <1>4, <1>5 DEF Range
  <1> QED
    BY ZenonT(60), <1>3, <1>5, <1>6

\* The IDs after the rest of a block go on in the next one.
LEMMA RestOfBlock ==
    ASSUME NEW e \in Int, NEW s \in Int, NEW i \in Int
    PROVE  /\ (e + 1) + i - (e - s + 1) - 1 = s + i - 1
           /\ (e + 1) + i - (e - s + 1) = s + i
  OBVIOUS

\* A block that begins later
LEMMA LaterStart ==
    ASSUME NEW B \in [start : Nat, end : Nat], NEW s
    PROVE  [B EXCEPT !.start = s] = [start |-> s, end |-> B.end]
  OBVIOUS

\* The IDs of a batch, and the block that is left, follow each other.
Numbered(g, b) == {[id |-> g.block.start + i - 1, req |-> b[i]] : i \in 1 .. Len(b)}

RestBlock(g, b) ==
    [start |-> g.block.start + Len(b),
     end |-> IF g.block.start + Len(b) - 1 <= g.block.end THEN g.block.end ELSE (g.range + 1) * RangeSize]

\* The IDs of a batch follow each other, in one block or in two.
HasNumbers(g, b, h) ==
    /\ h \in Manager /\ h.st = g.st /\ h.seen = g.seen /\ h.range = g.range /\ h.dbAck = g.dbAck
    /\ h.maxRead = g.maxRead /\ h.acked = g.acked /\ h.ack = g.ack
    /\ h.queue = g.queue \ Range(b) /\ h.wpc = "write" /\ h.replies = g.replies
    /\ h.collecting = g.collecting /\ h.held = g.held /\ h.open = g.open
    /\ h.reading = g.reading /\ h.read = g.read
    /\ h.batch = Numbered(g, b) /\ h.block = RestBlock(g, b)

\* What the allocation of IDs that needs a new block does to a manager
LEMMA AllocatedFacts ==
    ASSUME Counting,
           NEW g \in Manager, LocalInv(g), Alive(g), g.queue # {}, NEW b \in Batches(g.queue),
           NEW h, h = Allocated(g, b, RangeIDToTaskIDBlock(g.range + 1))
    PROVE  HasNumbers(g, b, h)
  <1> DEFINE n == Len(b)
             next == RangeIDToTaskIDBlock(g.range + 1)
             left == g.block.end - g.block.start + 1
             idOf(i) == IF i <= left THEN g.block.start + i - 1 ELSE next.start + i - left - 1
             P == {[id |-> idOf(i), req |-> b[i]] : i \in DOMAIN b}
             Q == {[id |-> g.block.start + i - 1, req |-> b[i]] : i \in 1 .. n}
             B == IF n <= left THEN [g.block EXCEPT !.start = g.block.start + n]
                  ELSE [next EXCEPT !.start = next.start + n - left]
             C == [start |-> g.block.start + n,
                   end |-> IF g.block.start + n - 1 <= g.block.end
                           THEN g.block.end ELSE (g.range + 1) * RangeSize]
             K == g.queue \ Range(b)
  <1>1. /\ AliveInv(g) /\ g.range \in Nat /\ g.block \in [start : Nat, end : Nat]
        /\ g.queue \in SUBSET Requests /\ IsFiniteSet(g.queue) /\ RangeSize \in Nat \ {0}
    BY Zenon, MatchingBounds DEF LocalInv, Manager
  <1>2. /\ n \in Nat /\ 1 <= n /\ n <= RangeSize /\ DOMAIN b = 1 .. n /\ Range(b) \subseteq g.queue
        /\ \A i \in 1 .. n : b[i] \in Range(b)
    BY ZenonT(60), <1>1, BatchFacts
  <1>3. /\ g.block.end = g.range * RangeSize /\ g.block.start <= g.block.end + 1
        /\ g.block.start \in Nat /\ g.block.end \in Nat
        /\ (g.range - 1) * RangeSize < g.block.start /\ (g.range - 1) * RangeSize \in Nat
    <2>1. g.range - 1 \in Nat
      BY <1>1 DEF AliveInv
    <2> QED
      BY SMTT(60), <1>1, <2>1, TopGrows DEF AliveInv
  <1>4. next = [start |-> g.block.end + 1, end |-> (g.range + 1) * RangeSize] /\ (g.range + 1) * RangeSize \in Nat
    <2>1. (g.range + 1) - 1 = g.range /\ g.range + 1 \in Nat
      BY SMTT(60), <1>1
    <2>2. (g.range + 1) * RangeSize \in Nat
      BY SMTT(60), <1>1, <2>1, TopGrows
    <2>3. next = [start |-> ((g.range + 1) - 1) * RangeSize + 1, end |-> (g.range + 1) * RangeSize]
      BY Zenon DEF RangeIDToTaskIDBlock
    <2> HIDE DEF next
    <2> QED
      BY ZenonT(60), <1>3, <2>1, <2>2, <2>3
  <1>5. ASSUME NEW i \in 1 .. n PROVE idOf(i) = g.block.start + i - 1
    <2>1. i \in Int /\ left \in Int /\ next.start = g.block.end + 1
      BY SMTT(60), <1>2, <1>3, <1>4
    <2>2. (g.block.end + 1) + i - (g.block.end - g.block.start + 1) - 1 = g.block.start + i - 1
      <3>1. g.block.end \in Int /\ g.block.start \in Int
        BY <1>3
      <3> QED
        BY ZenonT(60), <2>1, <3>1, RestOfBlock
    <2> HIDE DEF next
    <2> QED
      BY ZenonT(60), <2>1, <2>2
  <1>6. P = Q
    BY ZenonT(60), <1>2, <1>5
  <1>7. B = C
    <2>1. left \in Int /\ (n <= left <=> g.block.start + n - 1 <= g.block.end)
      BY SMTT(60), <1>2, <1>3
    <2>2. CASE n <= left
      <3>1. [g.block EXCEPT !.start = g.block.start + n] = [start |-> g.block.start + n, end |-> g.block.end]
        BY ZenonT(60), <1>1, LaterStart
      <3> QED
        BY ZenonT(60), <2>1, <2>2, <3>1
    <2>3. CASE ~(n <= left)
      <3>1. (g.block.end + 1) + n - left = g.block.start + n
        <4>1. n \in Int /\ g.block.end \in Int /\ g.block.start \in Int
          BY <1>2, <1>3
        <4> HIDE DEF n
        <4> QED
          BY ZenonT(60), <4>1, RestOfBlock
      <3>2. [next EXCEPT !.start = next.start + n - left] = [start |-> (g.block.end + 1) + n - left, end |-> (g.range + 1) * RangeSize]
        BY <1>4
      <3> QED
        BY ZenonT(60), <2>1, <2>3, <3>1, <3>2
    <2> QED
      BY ZenonT(60), <2>2, <2>3
  <1>8. h = [g EXCEPT !.queue = K, !.wpc = "write", !.batch = Q, !.block = C]
    <2>1. h = [g EXCEPT !.queue = K, !.wpc = "write", !.batch = P, !.block = B]
      BY Zenon DEF Allocated
    <2> QED
      BY Zenon, <1>6, <1>7, <2>1
  <1>9. C \in [start : Nat, end : Nat] /\ K \in SUBSET Requests
    BY SMTT(60), <1>1, <1>2, <1>3, <1>4
  <1>10. Q \in SUBSET [id : Nat, req : Requests]
    <2>1. ASSUME NEW i \in 1 .. n PROVE g.block.start + i - 1 \in Nat /\ b[i] \in Requests
      <3>1. b[i] \in Requests
        BY Zenon, <1>1, <1>2
      <3>2. g.block.start \in Nat
        BY Zenon, <1>3
      <3> QED
        BY <1>2, <3>1, <3>2
    <2> QED
      BY <2>1
  <1> HIDE DEF K, Q, C, n
  <1>11. h \in Manager
    <2>1. [g EXCEPT !.queue = K] \in Manager
      BY Zenon, <1>9, FieldTypes
    <2>2. [g EXCEPT !.queue = K, !.wpc = "write"] \in Manager
      BY Zenon, <2>1, FieldTypes
    <2>3. [g EXCEPT !.queue = K, !.wpc = "write", !.batch = Q] \in Manager
      BY Zenon, <1>10, <2>2, FieldTypes
    <2> QED
      BY ZenonT(60), <1>8, <1>9, <2>3, FieldTypes
  <1>12. /\ h.st = g.st /\ h.seen = g.seen /\ h.range = g.range /\ h.dbAck = g.dbAck
         /\ h.maxRead = g.maxRead /\ h.acked = g.acked /\ h.ack = g.ack
         /\ h.queue = K /\ h.wpc = "write" /\ h.replies = g.replies
         /\ h.collecting = g.collecting /\ h.held = g.held /\ h.open = g.open
         /\ h.reading = g.reading /\ h.read = g.read /\ h.batch = Q /\ h.block = C
    BY ZenonT(60), <1>8 DEF Manager
  <1> QED
    BY ZenonT(60), <1>11, <1>12 DEF K, Q, C, n, Numbered, RestBlock, HasNumbers

\* A manager with another lease is a manager.
LEMMA RangeType ==
    ASSUME NEW g \in Manager, NEW v \in Nat
    PROVE  [g EXCEPT !.range = v] \in Manager
  BY ZenonT(60) DEF Manager

\* A batch gets its IDs: within the block, or with a renewed lease.
LEMMA AllocStep ==
    ASSUME Counting,
           QueueInv, NEW m \in Managers, Alive(mgr[m]), mgr[m].wpc = "idle", mgr[m].queue # {},
           NEW b \in Batches(mgr[m].queue), NEW k,
           k = Allocated(mgr[m], b, RangeIDToTaskIDBlock(mgr[m].range + 1)),
           NEW h, mgr' = [mgr EXCEPT ![m] = h],
           \/ /\ mgr[m].block.start + Len(b) - 1 <= mgr[m].block.end
              /\ h = k /\ UNCHANGED storeVars
           \/ /\ ~(mgr[m].block.start + Len(b) - 1 <= mgr[m].block.end)
              /\ mgr[m].range < MaxRange
              /\ Succeeds(Call(mgr[m].range, mgr[m].range + 1, mgr[m].dbAck, {}))
              /\ h = [k EXCEPT !.range = mgr[m].range + 1],
           UNCHANGED taskVars
    PROVE  QueueInv'
  <1> DEFINE g == mgr[m]
             n == Len(b)
             st == g.block.start
             en == g.block.end
             fits == st + n - 1 <= en
             rg == IF fits THEN g.range ELSE g.range + 1
  <1>1. /\ g \in Manager /\ LocalInv(g) /\ AliveInv(g) /\ Types /\ LeaseInv /\ ClaimInv
        /\ g.range \in Nat /\ g.dbAck \in Nat /\ row.range \in Nat /\ row.ack \in Nat /\ g.range <= row.range
        /\ row.range <= MaxRange /\ MaxRange \in Nat /\ RangeSize \in Nat \ {0} /\ IsFiniteSet(g.queue)
    BY ZenonT(60), Facts, MatchingBounds DEF QueueInv, LocalInv
  <1>2. /\ n \in Nat /\ 1 <= n /\ n <= RangeSize /\ Range(b) \subseteq g.queue
        /\ \A i \in 1 .. n : b[i] \in Range(b)
    BY ZenonT(60), <1>1, BatchFacts
  <1>3. /\ st \in Nat /\ en \in Nat /\ st <= en + 1 /\ g.maxRead \in Nat /\ g.maxRead < st /\ 1 <= g.range
        /\ en = g.range * RangeSize /\ (g.range - 1) * RangeSize < st /\ (g.range - 1) * RangeSize \in Nat
    <2>1. g.range - 1 \in Nat
      BY SMTT(60), <1>1 DEF AliveInv
    <2>2. g.block \in [start : Nat, end : Nat] /\ g.maxRead \in Nat
      BY Zenon, <1>1 DEF Manager
    <2>3. (g.range - 1) * RangeSize \in Nat
      BY SMTT(60), <2>1, TopGrows
    <2> QED
      BY ZenonT(60), <1>1, <2>2, <2>3 DEF AliveInv
  <1> DEFINE B == RestBlock(g, b)
             Q == Numbered(g, b)
  <1>4. /\ k \in Manager /\ k.st = g.st /\ k.seen = g.seen /\ k.range = g.range /\ k.dbAck = g.dbAck
        /\ k.maxRead = g.maxRead /\ k.acked = g.acked /\ k.ack = g.ack
        /\ k.queue = g.queue \ Range(b) /\ k.wpc = "write" /\ k.replies = g.replies
        /\ k.collecting = g.collecting /\ k.held = g.held /\ k.open = g.open
        /\ k.reading = g.reading /\ k.read = g.read /\ k.batch = Q /\ k.block = B
    <2>1. /\ g \in Manager /\ LocalInv(g) /\ Alive(g) /\ g.queue # {} /\ b \in Batches(g.queue)
          /\ k = Allocated(g, b, RangeIDToTaskIDBlock(g.range + 1))
      BY Zenon, <1>1
    <2>2. HasNumbers(g, b, k)
      BY ZenonT(60), <2>1, AllocatedFacts
    <2> QED
      BY ZenonT(60), <2>2 DEF HasNumbers
  <1>0. /\ B = [start |-> st + n, end |-> IF fits THEN en ELSE (g.range + 1) * RangeSize]
        /\ Q = {[id |-> st + i - 1, req |-> b[i]] : i \in 1 .. n}
    BY ZenonT(60) DEF RestBlock, Numbered
  <1> HIDE DEF B, Q
  <1>5. fits \in BOOLEAN /\ (fits => h = k) /\ (~fits => h = [k EXCEPT !.range = g.range + 1])
    OBVIOUS
  <1>6. h \in Manager
    <2>1. g.range + 1 \in Nat
      BY SMTT(60), <1>1
    <2> HIDE DEF fits
    <2> QED
      BY ZenonT(60), <1>4, <1>5, <2>1, RangeType
  <1>7. /\ h.st = g.st /\ h.seen = g.seen /\ h.range = rg /\ h.dbAck = g.dbAck
        /\ h.maxRead = g.maxRead /\ h.acked = g.acked /\ h.ack = g.ack
        /\ h.queue = g.queue \ Range(b) /\ h.wpc = "write" /\ h.replies = g.replies
        /\ h.collecting = g.collecting /\ h.held = g.held /\ h.open = g.open
        /\ h.reading = g.reading /\ h.read = g.read /\ h.batch = Q /\ h.block = B
    <2> HIDE DEF fits
    <2>1. CASE fits
      BY ZenonT(60), <1>4, <1>5, <2>1
    <2>2. CASE ~fits
      <3>1. h = [k EXCEPT !.range = g.range + 1]
        BY ZenonT(60), <1>5, <2>2
      <3> QED
        BY ZenonT(60), <1>4, <2>2, <3>1 DEF Manager
    <2> QED
      BY Zenon, <2>1, <2>2
  <1>8. rg \in Nat /\ rg * RangeSize \in Nat /\ en <= rg * RangeSize /\ B.start = st + n /\ B.end = rg * RangeSize
    <2>1. CASE fits
      BY SMTT(60), <1>1, <1>3, <2>1, <1>0
    <2>2. CASE ~fits
      <3>1. g.range + 1 \in Nat /\ g.range <= g.range + 1
        BY SMTT(60), <1>1
      <3>2. (g.range + 1) * RangeSize \in Nat /\ g.range * RangeSize <= (g.range + 1) * RangeSize
        BY Zenon, <1>1, <3>1, TopGrows
      <3> QED
        BY SMTT(60), <1>3, <2>2, <3>1, <3>2, <1>0
    <2> QED
      BY ZenonT(60), <2>1, <2>2
  <1>9. /\ st + n <= rg * RangeSize + 1 /\ (rg - 1) * RangeSize < st + n
    <2>1. CASE fits
      BY SMTT(60), <1>2, <1>3, <2>1
    <2>2. CASE ~fits
      <3>1. (g.range + 1) * RangeSize = en + RangeSize
        BY SMTT(60), <1>1, <1>3
      <3>2. (rg - 1) * RangeSize = en
        BY SMTT(60), <1>1, <1>3, <2>2
      <3>3. st + n <= en + RangeSize + 1 /\ en < st + n
        <4>1. ~(st + n - 1 <= en) /\ st \in Nat /\ en \in Nat /\ st <= en + 1 /\ RangeSize \in Nat
          BY ZenonT(60), <1>1, <1>3, <2>2
        <4> HIDE DEF st, en, n
        <4> QED
          BY SMTT(60), <1>2, <4>1
      <3> QED
        BY ZenonT(60), <2>2, <3>1, <3>2, <3>3
    <2> QED
      BY ZenonT(60), <2>1, <2>2
  <1>10. /\ UNCHANGED <<rows, late, created, promised, started, expired>>
         /\ IF fits THEN row' = row
            ELSE row.range = g.range /\ row' = [range |-> g.range + 1, ack |-> g.dbAck]
    <2>1. UNCHANGED <<promised, started, expired>>
      BY Zenon DEF taskVars
    <2>2. CASE fits
      BY ZenonT(60), <2>1, <2>2 DEF storeVars
    <2>3. CASE ~fits
      <3>1. Succeeds(Call(mgr[m].range, mgr[m].range + 1, mgr[m].dbAck, {}))
        BY ZenonT(60), <2>3
      <3> QED
        BY ZenonT(60), <2>1, <2>3, <3>1 DEF Succeeds, Apply, Call
    <2> QED
      BY ZenonT(60), <2>2, <2>3
  <1>11. /\ row'.range \in Nat /\ row'.ack \in Nat /\ row.range <= row'.range /\ row'.range <= MaxRange
         /\ rg <= row'.range /\ (row'.ack = row.ack \/ row'.ack = g.dbAck)
         /\ row' \in [range : Nat, ack : Nat]
    <2>1. CASE fits
      BY SMTT(60), <1>1, <1>10, <2>1 DEF Types
    <2>2. CASE ~fits
      BY SMTT(60), <1>1, <1>10, <2>2
    <2> QED
      BY ZenonT(60), <2>1, <2>2
  <1>12. RequestsOf(h) \subseteq RequestsOf(g)
    <2>1. \A e \in Q : e.req \in g.queue
      BY SMTT(60), <1>2, <1>0
    <2> QED
      BY SMTT(60), <1>7, <2>1 DEF RequestsOf
  <1>13. \A e \in Q : e.id \in Nat /\ st <= e.id /\ e.id < st + n
    <2>1. ASSUME NEW i \in 1 .. n PROVE st + i - 1 \in Nat /\ st <= st + i - 1 /\ st + i - 1 < st + n
      <3>1. st \in Nat /\ i \in Nat /\ 1 <= i /\ i <= n
        BY SMTT(60), <1>2, <1>3
      <3> HIDE DEF st
      <3> QED
        BY SMTT(60), <1>2, <3>1
    <2> QED
      BY SMTT(60), <2>1, <1>0
  <1>14. \A e, f \in Q : e.id = f.id => e = f
    <2>1. ASSUME NEW i \in 1 .. n, NEW j \in 1 .. n, st + i - 1 = st + j - 1 PROVE i = j
      <3>1. st \in Int /\ i \in Int /\ j \in Int
        BY SMTT(60), <1>2, <1>3
      <3> HIDE DEF st
      <3> QED
        BY SMTT(60), <2>1, <3>1
    <2>2. ASSUME NEW e \in Q, NEW f \in Q, e.id = f.id PROVE e = f
      <3>1. PICK i \in 1 .. n : e = [id |-> st + i - 1, req |-> b[i]]
        BY ZenonT(60), <1>0
      <3>2. PICK j \in 1 .. n : f = [id |-> st + j - 1, req |-> b[j]]
        BY ZenonT(60), <1>0
      <3>3. st + i - 1 = st + j - 1
        BY ZenonT(60), <2>2, <3>1, <3>2
      <3>4. i = j
        BY ZenonT(60), <2>1, <3>3
      <3> QED
        BY ZenonT(60), <3>1, <3>2, <3>4
    <2> QED
      BY ZenonT(60), <2>2
  <1>15. IsFiniteSet(Q) /\ Q # {}
    <2> DEFINE f == [i \in 1 .. n |-> [id |-> st + i - 1, req |-> b[i]]]
    <2>1. f \in [1 .. n -> Q] /\ \A q \in Q : \E i \in 1 .. n : f[i] = q
      BY SMTT(60), <1>0
    <2>2. IsFiniteSet(1 .. n)
      <3>1. n \in Nat
        BY SMTT(60), <1>2
      <3> HIDE DEF n
      <3> QED
        BY ZenonT(60), <3>1, IntervalFinite
    <2>3. 1 \in 1 .. n
      BY SMTT(60), <1>2
    <2>4. Q # {}
      <3>1. [id |-> st + 1 - 1, req |-> b[1]] \in Q
        BY ZenonT(60), <2>3, <1>0
      <3> QED
        BY ZenonT(60), <3>1
    <2> HIDE DEF f
    <2> QED
      BY SMTT(60), <2>1, <2>2, <2>4, ImageFinite
  <1> HIDE DEF st, en, n, rg, fits
  <1>16. ASSUME NEW x \in Nat, UpTo(g, x) PROVE UpTo(h, x)
    BY ZenonT(60), <1>7, <1>12, <1>16 DEF UpTo
  <1>17. Alive(h)
    BY ZenonT(60), <1>7 DEF Alive
  <1>18. LocalInv(h)
    <2>1. AliveInv(h)
      <3>1. h.range >= 1
        BY SMTT(60), <1>1, <1>3, <1>7 DEF rg
      <3>2. UpTo(h, h.maxRead)
        BY ZenonT(60), <1>1, <1>3, <1>7, <1>16 DEF AliveInv
      <3>3. /\ h.block.end = h.range * RangeSize
            /\ (h.range - 1) * RangeSize < h.block.start /\ h.block.start <= h.block.end + 1
        BY ZenonT(60), <1>7, <1>8, <1>9
      <3>4. /\ h.maxRead < h.block.start /\ \A e \in h.batch : h.maxRead < e.id /\ e.id < h.block.start
        BY SMTT(60), <1>2, <1>3, <1>7, <1>8, <1>13
      <3>5. /\ h.wpc = "idle" <=> h.batch = {}
        BY ZenonT(60), <1>7, <1>15
      <3>6. /\ 0 <= h.ack /\ \A r \in h.reading : h.read < r.id /\ r.id <= h.maxRead
            /\ \A i \in h.open : i <= h.read
        BY ZenonT(60), <1>1, <1>7 DEF AliveInv
      <3> QED
        BY ZenonT(60), <3>1, <3>2, <3>3, <3>4, <3>5, <3>6 DEF AliveInv
    <2>2. IsFiniteSet(h.queue) /\ IsFiniteSet(h.batch)
      BY SMTT(60), <1>1, <1>7, <1>15, SubsetFinite
    <2>3. \A p \in h.replies : p.req.of = 0 => p.ok
      BY ZenonT(60), <1>1, <1>7 DEF LocalInv
    <2> QED
      BY SMTT(60), <1>17, <2>1, <2>2, <2>3 DEF LocalInv, Alive
  <1>19. Types'
    <2>1. mgr' \in [Managers -> Manager]
      BY ZenonT(60), <1>1, <1>6 DEF Types
    <2> QED
      BY SMTT(60), <1>1, <1>10, <1>11, <2>1 DEF Types
  <1>20. LeaseInv'
    <2>1. ASSUME NEW x \in Nat, LevelsUpTo(x)
          PROVE  UpTo(h, x) /\ row'.ack <= x /\ \A c \in late' : c.ack <= x
      <3>1. UpTo(g, x) /\ row.ack <= x /\ \A c \in late : c.ack <= x
        BY ZenonT(60), <2>1 DEF LevelsUpTo
      <3>2. g.dbAck <= x
        BY ZenonT(60), <3>1 DEF UpTo
      <3> QED
        BY SMTT(60), <1>10, <1>11, <1>16, <3>1, <3>2
    <2>2. \A c \in late' : CallInv(c) /\ c.prev <= row'.range
      <3>1. \A c \in late : c.prev \in Nat /\ CallInv(c) /\ c.prev <= row.range
        BY ZenonT(60), <1>1 DEF LeaseInv, Types
      <3> QED
        BY SMTT(60), <1>1, <1>10, <1>11, <3>1
    <2>3. /\ h.seen.range <= row'.range /\ h.st # "leasing"
      <3>1. g.seen.range <= row.range /\ g.seen.range \in Nat
        BY ZenonT(60), <1>1 DEF LeaseInv, Manager
      <3> QED
        BY SMTT(60), <1>1, <1>7, <1>11, <1>17, <3>1 DEF Alive
    <2>4. Advances(g, h)
      <3>1. CASE fits
        <4>1. h.range = g.range /\ h.block.end = g.block.end /\ g.maxRead <= h.maxRead
          BY SMTT(60), <1>3, <1>7, <3>1, <1>0 DEF rg, en
        <4> QED
          BY ZenonT(60), <4>1 DEF Advances
      <3>2. CASE ~fits
        <4>1. g.range = row.range /\ h.range = row.range + 1 /\ row'.range = row.range + 1 /\ g.maxRead <= h.maxRead
          BY SMTT(60), <1>3, <1>7, <1>10, <3>2 DEF rg
        <4> QED
          BY ZenonT(60), <4>1 DEF Advances
      <3> QED
        BY ZenonT(60), <3>1, <3>2
    <2> QED
      BY ZenonT(60), <1>1, <1>6, <1>11, <1>18, <1>19, <2>1, <2>2, <2>3, <2>4, LeaseStep
  <1>21. \A x \in Claims : x.id \in Nat /\ (x.id < st \/ x.id > en) /\ (~fits => x.id < st)
    <2> SUFFICES ASSUME NEW x \in Claims PROVE x.id \in Nat /\ (x.id < st \/ x.id > en) /\ (~fits => x.id < st)
      OBVIOUS
    <2>1. /\ x.id \in Nat /\ x.id <= row.range * RangeSize /\ (x.id < st \/ x.id > en)
      BY ZenonT(60), <1>1, ClaimTypes DEF ClaimInv, st, en
    <2>2. ~fits => row.range * RangeSize = en
      BY ZenonT(60), <1>3, <1>10
    <2> QED
      BY SMTT(60), <1>3, <2>1, <2>2
  <1>22. ASSUME NEW y \in BatchClaims(h)
         PROVE  /\ y.id \in Nat /\ st <= y.id /\ y.id < st + n /\ 1 <= y.id
                /\ y.id <= rg * RangeSize /\ (fits => y.id <= en)
                /\ \E e \in Q : y = [id |-> e.id, task |-> e.req.task, lease |-> rg]
    <2>1. PICK e \in Q : y = [id |-> e.id, task |-> e.req.task, lease |-> rg]
      BY ZenonT(60), <1>7 DEF BatchClaims
    <2>2. y.id = e.id /\ e.id \in Nat /\ st <= e.id /\ e.id < st + n
      BY ZenonT(60), <1>13, <2>1
    <2>3. fits => rg * RangeSize = en
      BY ZenonT(60), <1>3 DEF rg
    <2>4. y.id \in Nat /\ 1 <= y.id /\ y.id <= rg * RangeSize
      BY SMTT(60), <1>2, <1>3, <1>8, <1>9, <2>2
    <2> QED
      BY SMTT(60), <2>1, <2>2, <2>3, <2>4
  <1>23. ClaimInv'
    <2>1. row.range <= row'.range /\ created' \subseteq Claims /\ \A c \in late' : CallClaims(c) \subseteq Claims
      BY ZenonT(60), <1>10, <1>11 DEF Claims
    <2>2. ASSUME NEW y \in BatchClaims(h)
          PROVE  /\ y.id \in Nat /\ 1 <= y.id /\ y.id <= row'.range * RangeSize
                 /\ \A x \in Claims : x.id # y.id
      <3>1. rg * RangeSize <= row'.range * RangeSize /\ row'.range * RangeSize \in Nat
        BY ZenonT(60), <1>8, <1>11, TopGrows
      <3>2. y.id <= row'.range * RangeSize
        BY SMTT(60), <1>8, <1>22, <3>1
      <3>3. ASSUME NEW x \in Claims PROVE x.id # y.id
        BY SMTT(60), <1>3, <1>21, <1>22
      <3> QED
        BY ZenonT(60), <1>22, <3>2, <3>3
    <2>3. ASSUME NEW y \in BatchClaims(h), NEW z \in BatchClaims(h), y.id = z.id PROVE y = z
      <3>1. PICK e \in Q : y = [id |-> e.id, task |-> e.req.task, lease |-> rg]
        BY ZenonT(60), <1>22
      <3>2. PICK f \in Q : z = [id |-> f.id, task |-> f.req.task, lease |-> rg]
        BY ZenonT(60), <1>22
      <3>3. e = f
        BY SMTT(60), <1>14, <2>3, <3>1, <3>2
      <3> QED
        BY ZenonT(60), <3>1, <3>2, <3>3
    <2>4. ASSUME NEW o \in Managers \ {m}, Alive(mgr[o]), NEW y \in BatchClaims(h)
          PROVE  y.id < mgr[o].block.start \/ y.id > mgr[o].block.end
      <3>1. /\ mgr[o] \in Manager /\ LocalInv(mgr[o]) /\ mgr[o].range # g.range /\ mgr[o].range <= row.range
        BY ZenonT(60), <1>1, <2>4 DEF LeaseInv, Types
      <3>2. /\ mgr[o].range \in Nat /\ mgr[o].block.start \in Nat /\ mgr[o].block.end \in Nat
            /\ mgr[o].block.end = mgr[o].range * RangeSize
            /\ (mgr[o].range - 1) * RangeSize < mgr[o].block.start /\ mgr[o].range >= 1
        BY ZenonT(60), <2>4, <3>1, AliveBounds
      <3>3. CASE mgr[o].range < g.range
        <4>1. mgr[o].block.end <= (g.range - 1) * RangeSize
          BY SMTT(60), <1>1, <3>2, <3>3, BlocksApart
        <4> QED
          BY SMTT(60), <1>3, <1>22, <3>2, <4>1
      <3>4. CASE g.range < mgr[o].range
        <4>1. fits
          BY SMTT(60), <1>1, <1>10, <3>1, <3>2, <3>4
        <4>2. en <= (mgr[o].range - 1) * RangeSize
          BY ZenonT(60), <1>1, <1>3, <3>2, <3>4, BlocksApart
        <4>3. mgr[o].range - 1 \in Nat
          BY SMTT(60), <3>2
        <4>4. (mgr[o].range - 1) * RangeSize \in Nat
          BY SMTT(60), <4>3, TopGrows
        <4>5. y.id \in Nat /\ y.id <= en /\ en \in Nat
          BY ZenonT(60), <1>3, <1>22, <4>1
        <4>6. y.id <= (mgr[o].range - 1) * RangeSize
          BY ZenonT(60), <4>2, <4>4, <4>5, UpToThenUpTo
        <4> QED
          <5>1. (mgr[o].range - 1) * RangeSize < mgr[o].block.start /\ mgr[o].block.start \in Nat
            BY Zenon, <3>2
          <5>2. y.id < mgr[o].block.start
            BY ZenonT(60), <4>4, <4>5, <4>6, <5>1, UpToThenBelow
          <5> QED
            BY Zenon, <5>2
      <3> QED
        BY SMTT(60), <1>1, <3>1, <3>2, <3>3, <3>4
    <2>5. ASSUME NEW x \in Claims \cup BatchClaims(h) PROVE x.id < h.block.start \/ x.id > h.block.end
      <3>1. h.block.start = st + n /\ h.block.end = rg * RangeSize
        BY ZenonT(60), <1>7, <1>8
      <3>2. CASE x \in BatchClaims(h)
        BY ZenonT(60), <1>22, <3>1, <3>2
      <3>3. CASE x \in Claims
        <4>1. fits => rg * RangeSize = en
          BY ZenonT(60), <1>3 DEF rg
        <4>2. x.id \in Nat /\ (x.id < st \/ (fits /\ x.id > en))
          BY ZenonT(60), <1>21, <3>3
        <4> QED
          BY SMTT(60), <1>2, <1>3, <3>1, <4>1, <4>2
      <3> QED
        BY ZenonT(60), <3>2, <3>3
    <2> QED
      BY Zenon, <1>1, <1>6, <1>19, <2>1, <2>2, <2>3, <2>4, <2>5, ClaimGrow
  <1>24. Knows(g, h)
    BY ZenonT(60), <1>7, <1>12 DEF Knows
  <1>25. ASSUME NEW r \in rows, Safe(r) PROVE Beyond(h, r) /\ row'.ack < r.id /\ \A c \in late' : c.ack < r.id
    <2>1. Beyond(g, r) /\ row.ack < r.id /\ \A c \in late : c.ack < r.id
      BY ZenonT(60), <1>25 DEF Safe
    <2>2. Beyond(h, r)
      BY ZenonT(60), <1>7, <2>1 DEF Beyond
    <2> QED
      BY SMTT(60), <1>10, <1>11, <2>1, <2>2 DEF Beyond
  <1>26. \A p \in h.replies : p.ok => p \in g.replies
    BY ZenonT(60), <1>7
  <1> QED
    BY Zenon, <1>6, <1>10, <1>19, <1>20, <1>23, <1>24, <1>25, <1>26, RestStep

-----------------------------------------------------------------------------
(* Written tasks *)

\* No manager has come to a row that the holder of the lease has not published.
LEMMA FreshIsBeyond ==
    ASSUME QueueInv, NEW m \in Managers, Holds(m), NEW r \in Rows, mgr[m].maxRead < r.id, NEW n \in Managers
    PROVE  Beyond(mgr[n], r) /\ \A q \in RequestsOf(mgr[n]) : q.of # r.id
  <1> DEFINE g == mgr[n]
             x == mgr[m].maxRead
  <1>1. /\ LeaseInv /\ g \in Manager /\ LocalInv(g) /\ mgr[m] \in Manager /\ LocalInv(mgr[m])
        /\ Alive(mgr[m]) /\ mgr[m].range = row.range /\ r.id \in Nat
    BY ZenonT(60), Facts DEF QueueInv, Holds, Rows
  <1>2. UpTo(g, x) /\ x \in Nat
    BY ZenonT(60), <1>1 DEF LeaseInv, Manager
  <1>3. /\ g.ack \in Int /\ g.dbAck \in Int /\ g.seen.ack \in Int /\ g.collecting \in Int /\ g.read \in Int
        /\ g.open \cup g.acked \subseteq Nat /\ \A q \in g.reading : q.id \in Nat
        /\ \A q \in RequestsOf(g) : q.of \in Nat
    BY SMTT(60), <1>1 DEF Manager, Rows, Requests, RequestsOf
  <1>4. /\ g.ack < r.id /\ g.dbAck < r.id /\ g.seen.ack < r.id /\ g.collecting < r.id /\ g.read < r.id
        /\ \A i \in g.open \cup g.acked : i < r.id
        /\ \A q \in RequestsOf(g) : q.of # r.id
    BY SMTT(60), <1>1, <1>2, <1>3 DEF UpTo
  <1>5. \A q \in g.reading : q.id < r.id
    <2>1. CASE ~Alive(g)
      <3>1. g.st \in {"new", "leasing", "stopped"}
        BY SMTT(60), <1>1, <2>1 DEF Alive, Manager, ManagerStates
      <3>2. g.reading = {}
        BY ZenonT(60), <1>1, <3>1 DEF LocalInv, NewManager
      <3> QED
        BY ZenonT(60), <3>2
    <2>2. CASE Alive(g)
      <3>1. AliveInv(g) /\ g.maxRead \in Nat /\ g.maxRead <= g.block.end /\ g.block.end \in Nat /\ g.range \in Nat
        BY ZenonT(60), <1>1, <2>2, AliveBounds DEF LocalInv
      <3>2. g.maxRead <= x
        <4>1. CASE n = m
          BY SMTT(60), <1>2, <4>1
        <4>2. CASE n # m
          <5>1. g.range <= row.range /\ g.range # mgr[m].range /\ row.range \in Nat
            BY SMTT(60), <1>1, <2>2, <4>2, Facts DEF LeaseInv
          <5>2. g.range < mgr[m].range
            BY SMTT(60), <1>1, <3>1, <5>1
          <5>3. g.block.end <= x
            BY SMTT(60), <1>1, <2>2, <4>2, <5>2 DEF LeaseInv
          <5> QED
            BY SMTT(60), <1>2, <3>1, <5>3
        <4> QED
          BY ZenonT(60), <4>1, <4>2
      <3> QED
        BY SMTT(60), <1>1, <1>2, <1>3, <3>1, <3>2 DEF AliveInv
    <2> QED
      BY ZenonT(60), <2>1, <2>2
  <1>6. \A q \in g.reading : ~(r.id <= q.id)
    BY SMTT(60), <1>1, <1>3, <1>5
  <1>7. \A p \in g.replies : p.ok => p.req.of # r.id
    BY ZenonT(60), <1>4 DEF RequestsOf
  <1> QED
    BY ZenonT(60), <1>4, <1>6, <1>7 DEF Beyond

HasWritten(g, h) ==
    /\ Quiet(g, h) /\ RequestsOf(h) \subseteq RequestsOf(g)
    /\ h.ack = g.ack /\ h.dbAck = g.dbAck /\ h.seen = g.seen /\ h.collecting = g.collecting
    /\ h.read = g.read /\ h.open = g.open /\ h.acked = g.acked /\ h.reading = g.reading /\ h.held = g.held
    /\ \A p \in h.replies : p \in g.replies \/ \E e \in g.batch : p.req = e.req

\* What a write that succeeds does to a manager
LEMMA WrittenFacts ==
    ASSUME NEW g \in Manager, LocalInv(g), Alive(g), g.wpc = "write", NEW h, h = Written(g, TRUE)
    PROVE  HasWritten(g, h)
  <1> DEFINE E == {e.req : e \in g.batch}
             R == Answer(E, TRUE)
  <1>1. /\ R \subseteq [req : Requests, ok : BOOLEAN] /\ \A p \in R : p.ok /\ p.req \in E
    BY ZenonT(60), AnswerTypes DEF RequestsOf
  <1> HIDE DEF R
  <1>2. /\ h \in Manager /\ h.queue = g.queue /\ h.replies = g.replies \cup R
        /\ h.block = g.block /\ h.st = g.st
        /\ h.seen = g.seen /\ h.range = g.range /\ h.maxRead = g.maxRead /\ h.read = g.read
        /\ h.ack = g.ack /\ h.open = g.open /\ h.acked = g.acked /\ h.batch = g.batch
        /\ h.reading = g.reading /\ h.held = g.held /\ h.wpc = "publish" /\ h.dbAck = g.dbAck
        /\ h.collecting = g.collecting
    BY ZenonT(60), <1>1 DEF Written, Manager, R
  <1>3. \A p \in h.replies : p \in g.replies \/ \E e \in g.batch : p.req = e.req
    BY Zenon, <1>1, <1>2
  <1>4. RequestsOf(h) \subseteq RequestsOf(g)
    <2>1. ASSUME NEW p \in h.replies PROVE p.req \in RequestsOf(g)
      BY ZenonT(60), <1>3 DEF RequestsOf
    <2>2. ASSUME NEW q \in RequestsOf(h) PROVE q \in RequestsOf(g)
      <3>1. q \in h.queue \/ q \in {e.req : e \in h.batch} \/ q \in {p.req : p \in h.replies}
        BY ZenonT(60), <2>2 DEF RequestsOf
      <3>2. CASE q \in {p.req : p \in h.replies}
        BY ZenonT(60), <2>1, <3>2
      <3>3. CASE q \in h.queue \/ q \in {e.req : e \in h.batch}
        BY ZenonT(60), <1>2, <3>3 DEF RequestsOf
      <3> QED
        BY ZenonT(60), <3>1, <3>2, <3>3
    <2> QED
      BY ZenonT(60), <2>2
  <1>5. ASSUME NEW x \in Nat, UpTo(g, x) PROVE UpTo(h, x)
    BY ZenonT(60), <1>2, <1>4, <1>5 DEF UpTo
  <1>6. AliveInv(g) /\ g.maxRead \in Nat /\ g.block.start \in Nat /\ g.seen.range \in Nat
    BY Zenon DEF LocalInv, Manager
  <1>7. AliveInv(h)
    <2>1. UpTo(h, h.maxRead)
      BY ZenonT(60), <1>2, <1>5, <1>6 DEF AliveInv
    <2>2. h.wpc = "idle" <=> h.batch = {}
      BY ZenonT(60), <1>2, <1>6 DEF AliveInv
    <2> QED
      BY ZenonT(60), <1>2, <1>6, <2>1, <2>2 DEF AliveInv
  <1>8. LocalInv(h)
    <2>1. \A p \in h.replies : p.req.of = 0 => p.ok
      BY ZenonT(60), <1>1, <1>2 DEF LocalInv
    <2> QED
      BY ZenonT(60), <1>2, <1>7, <2>1 DEF LocalInv, Alive
  <1>9. BatchClaims(h) = {}
    BY ZenonT(60), <1>2 DEF BatchClaims
  <1>10. Quiet(g, h)
    <2>1. Grows(g, h)
      BY ZenonT(60), <1>5 DEF Grows
    <2>2. h.st # "leasing"
      BY ZenonT(60), <1>2 DEF Alive
    <2>3. /\ h.seen.range = g.seen.range /\ g.block.start = h.block.start /\ g.maxRead = h.maxRead
      BY ZenonT(60), <1>2
    <2>4. /\ h.seen.range <= g.seen.range /\ g.block.start <= h.block.start /\ g.maxRead <= h.maxRead
      <3>1. \A i, j \in Nat : i = j => i <= j /\ j <= i
        OBVIOUS
      <3>2. g.seen.range \in Nat /\ g.block.start \in Nat /\ g.maxRead \in Nat
        BY Zenon, <1>6
      <3>3. h.seen.range <= g.seen.range
        BY ZenonT(60), <2>3, <3>1, <3>2
      <3>4. g.block.start <= h.block.start
        BY ZenonT(60), <2>3, <3>1, <3>2
      <3>5. g.maxRead <= h.maxRead
        BY ZenonT(60), <2>3, <3>1, <3>2
      <3> QED
        BY ZenonT(60), <3>3, <3>4, <3>5
    <2> QED
      BY ZenonT(60), <1>2, <1>8, <1>9, <2>1, <2>2, <2>4 DEF Quiet
  <1> QED
    BY ZenonT(60), <1>2, <1>3, <1>4, <1>10 DEF HasWritten

\* A write of a batch that succeeds keeps the invariant.
LEMMA AppendSucceedsStep ==
    ASSUME QueueInv, NEW m \in Managers, Alive(mgr[m]), mgr[m].wpc = "write", NEW c,
           c = Call(mgr[m].range, mgr[m].range, mgr[m].dbAck,
                    {[id |-> e.id, task |-> e.req.task] : e \in mgr[m].batch}),
           Succeeds(c), NEW h, h = Written(mgr[m], TRUE), mgr' = [mgr EXCEPT ![m] = h],
           UNCHANGED taskVars
    PROVE  QueueInv'
  <1> DEFINE g == mgr[m]
  <1>1. /\ g \in Manager /\ LocalInv(g) /\ AliveInv(g) /\ Types /\ LeaseInv /\ ClaimInv /\ KnownInv /\ SafeInv
    BY ZenonT(60), Facts DEF QueueInv
  <1>2. /\ StoreKeeps /\ c \in Calls /\ CallInv(c) /\ c.range = g.range
        /\ c.tasks = {[id |-> e.id, task |-> e.req.task] : e \in g.batch}
    BY ZenonT(60), WriteCall
  <1>3. /\ Quiet(g, h) /\ RequestsOf(h) \subseteq RequestsOf(g)
        /\ h.ack = g.ack /\ h.dbAck = g.dbAck /\ h.seen = g.seen /\ h.collecting = g.collecting
        /\ h.read = g.read /\ h.open = g.open /\ h.acked = g.acked /\ h.reading = g.reading /\ h.held = g.held
        /\ \A p \in h.replies : p \in g.replies \/ \E e \in g.batch : p.req = e.req
    <2>1. HasWritten(g, h)
      BY ZenonT(60), <1>1, WrittenFacts
    <2> QED
      BY ZenonT(60), <2>1 DEF HasWritten
  <1>4. /\ rows' = rows \cup c.tasks /\ created' = created \cup CallClaims(c) /\ late' = late
        /\ UNCHANGED <<promised, started, expired>>
        /\ row.range = g.range /\ (row'.ack = g.dbAck \/ row'.ack = row.ack)
    BY DEF Succeeds, Apply, Call, CallClaims, taskVars
  <1>5. /\ mgr'[m] = h /\ \A n \in Managers \ {m} : mgr'[n] = mgr[n]
        /\ h \in Manager /\ rows \in SUBSET Rows /\ c.tasks \in SUBSET Rows
    BY ZenonT(60), <1>1, <1>2, <1>3 DEF Types, Quiet, Calls
  <1>6. Types' /\ LeaseInv' /\ ClaimInv'
    <2>1. rows' \in SUBSET Rows /\ promised' \in SUBSET Tasks /\ started' \in SUBSET Tasks /\ expired' \in SUBSET Tasks
      BY ZenonT(60), <1>1, <1>4, <1>5 DEF Types
    <2> QED
      BY ZenonT(60), <1>2, <1>3, <2>1, QuietStep
  <1>7. KnownInv'
    <2>1. IsFiniteSet(rows')
      <3>1. IsFiniteSet(rows) /\ IsFiniteSet(c.tasks)
        BY ZenonT(60), <1>1, <1>2 DEF KnownInv, CallInv
      <3> QED
        BY ZenonT(60), <1>4, <3>1, UnionFinite
    <2>2. ASSUME NEW r \in rows' PROVE r \in rows \/ Known(r.id, r.task)'
      <3>1. CASE r \in c.tasks
        <4>1. [id |-> r.id, task |-> r.task, lease |-> c.range] \in created'
          BY ZenonT(60), <1>4, <3>1 DEF CallClaims
        <4> QED
          BY ZenonT(60), <4>1 DEF Known
      <3> QED
        BY ZenonT(60), <1>4, <3>1
    <2>3. created \subseteq created'
      BY ZenonT(60), <1>4
    <2> QED
      BY ZenonT(60), <1>1, <1>3, <1>5, <2>1, <2>2, <2>3, KnownStep
  <1>8. SafeInv'
    <2> SUFFICES ASSUME NEW t \in Tasks, t \notin started' \cup expired', Accepted(t)'
                 PROVE  \E r \in rows' : r.task = t /\ Safe(r)'
      BY ZenonT(60) DEF SafeInv
    <2>1. ASSUME NEW e \in g.batch, e.req.task = t PROVE \E r \in rows' : r.task = t /\ Safe(r)'
      <3> DEFINE r == [id |-> e.id, task |-> t]
      <3>1. r \in c.tasks /\ r.id = e.id /\ r.task = t
        BY ZenonT(60), <1>2, <2>1
      <3>2. r \in Rows /\ r \in rows'
        BY ZenonT(60), <1>4, <1>5, <3>1
      <3> HIDE DEF r
      <3>3. Holds(m) /\ g.maxRead < r.id
        BY ZenonT(60), <1>1, <1>4, <3>1 DEF Holds, AliveInv
      <3>4. \A n \in Managers : Beyond(mgr[n], r) /\ \A q \in RequestsOf(mgr[n]) : q.of # r.id
        BY SMTT(60), <3>2, <3>3, FreshIsBeyond
      <3>5. Beyond(h, r)
        <4>1. \A p \in h.replies : p.ok => p.req.of # r.id
          BY ZenonT(60), <1>3, <3>4 DEF RequestsOf
        <4> QED
          BY ZenonT(60), <1>3, <3>4, <4>1 DEF Beyond
      <3>6. row'.ack < r.id /\ \A d \in late' : d.ack < r.id
        <4>1. row.ack <= g.maxRead /\ \A d \in late : d.ack <= g.maxRead /\ d.ack \in Nat
          BY ZenonT(60), <1>1, <3>3 DEF LeaseInv, Types
        <4>2. g.dbAck < r.id /\ row.ack \in Nat /\ g.maxRead \in Nat /\ r.id \in Nat
          BY ZenonT(60), <1>1, <3>2, <3>4 DEF Beyond, Types, Manager, Rows
        <4> QED
          BY SMTT(60), <1>4, <3>3, <4>1, <4>2
      <3>7. Safe(r)'
        BY ZenonT(60), <1>5, <3>4, <3>5, <3>6 DEF Safe
      <3> QED
        BY SMTT(60), <3>1, <3>2, <3>7
    <2>2. CASE \A e \in g.batch : e.req.task # t
      <3>1. Accepted(t)
        <4>1. CASE t \in promised'
          BY SMTT(60), <1>4, <4>1 DEF Accepted
        <4>2. ASSUME NEW n \in Managers, NEW p \in mgr'[n].replies, p.ok, p.req = Request(t, 0) PROVE Accepted(t)
          <5>1. p.req.task = t
            BY SMTT(60), <4>2 DEF Request
          <5>2. p \in mgr[n].replies
            <6>1. CASE n = m
              <7>1. p \in h.replies
                BY ZenonT(60), <1>5, <4>2, <6>1
              <7> QED
                BY ZenonT(60), <1>3, <2>2, <5>1, <6>1, <7>1
            <6>2. CASE n # m
              BY ZenonT(60), <1>5, <4>2, <6>2
            <6> QED
              BY ZenonT(60), <6>1, <6>2
          <5> QED
            BY ZenonT(60), <4>2, <5>2 DEF Accepted
        <4> QED
          BY ZenonT(60), <4>1, <4>2 DEF Accepted
      <3>2. PICK r \in rows : r.task = t /\ Safe(r)
        BY ZenonT(60), <1>1, <1>4, <3>1 DEF SafeInv
      <3>3. PICK y \in created : y.id = r.id /\ y.task = t
        BY ZenonT(60), <1>1, <3>2 DEF KnownInv, Known
      <3>4. created \subseteq Claims /\ 1 <= r.id
        BY ZenonT(60), <1>1, <3>3 DEF Claims, ClaimInv
      <3>5. ASSUME NEW e \in g.batch, e.req.of = r.id PROVE FALSE
        <4>1. e.req \in RequestsOf(g) /\ e.req.of # 0
          BY SMTT(60), <3>4, <3>5 DEF RequestsOf
        <4>2. PICK x \in created : x.id = r.id /\ x.task = e.req.task
          BY ZenonT(60), <1>1, <3>5, <4>1 DEF KnownInv, Known
        <4>3. x = y
          BY ZenonT(60), <1>1, <3>3, <3>4, <4>2 DEF ClaimInv
        <4> QED
          BY ZenonT(60), <2>2, <3>3, <3>5, <4>2, <4>3
      <3>6. Beyond(g, r) /\ \A n \in Managers : Beyond(mgr[n], r)
        BY ZenonT(60), <3>2 DEF Safe
      <3>7. Beyond(h, r)
        <4>1. \A p \in h.replies : p.ok => p.req.of # r.id
          BY ZenonT(60), <1>3, <3>5, <3>6 DEF Beyond
        <4> QED
          BY ZenonT(60), <1>3, <3>6, <4>1 DEF Beyond
      <3>8. row'.ack < r.id /\ \A d \in late' : d.ack < r.id
        BY ZenonT(60), <1>2, <1>5, <3>2 DEF StoreKeeps
      <3>9. Safe(r)'
        BY ZenonT(60), <1>5, <3>6, <3>7, <3>8 DEF Safe
      <3> QED
        BY ZenonT(60), <1>4, <3>2, <3>9
    <2> QED
      BY ZenonT(60), <2>1, <2>2
  <1> QED
    BY ZenonT(60), <1>6, <1>7, <1>8 DEF QueueInv

=============================================================================
