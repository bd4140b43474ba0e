---------------------------- MODULE HistoryQueue ----------------------------
(***************************************************************************)
(* One history task queue of one shard, of an immediate category           *)
(* (transfer, visibility...) or of the scheduled one (timers):             *)
(* queue_base.go, reader.go, reader_group.go, monitor.go, mitigator.go and *)
(* the mitigation actions of service/history/queues, with the parts of the *)
(* shard and of the store that the queue uses.                             *)
(*                                                                         *)
(* Three kinds of goroutines meet on the slices.  The event loop of the    *)
(* queue (ProcessNewRange, the alerts, the checkpoint), which alone changes*)
(* which scopes exist; the event loop of each reader (Load...), which moves*)
(* tasks from the store into the trackers; and the task workers (Execute). *)
(* Reader methods hold the reader's lock and are one step.  A checkpoint   *)
(* has three steps, since it talks to the store twice.                     *)
(*                                                                         *)
(* A task key is a number.  For a scheduled queue, KeysPerFireTime         *)
(* successive keys have the same fire time, and KeysPerPeriod the same     *)
(* fire time truncated to monitorWatermarkPrecision.                       *)
(*                                                                         *)
(* The queue state is persisted by shard.SetQueueState, which writes the   *)
(* shard info at most once per interval.  The write is made or not made by *)
(* SaveState; one that is made later by another caller leaves the store in *)
(* a state that some earlier SaveState could have left it in.              *)
(*                                                                         *)
(* A reader that is not in the group is one without slices: a checkpoint   *)
(* removes such a reader, and a new one starts that way.                   *)
(***************************************************************************)
EXTENDS SliceMerge

CONSTANTS
    Categories,       \* the kinds of queue to look at
    KeysPerFireTime,  \* number of keys with the same fire time
    KeysPerPeriod,    \* number of keys in one monitorWatermarkPrecision
    MaxKey,           \* bound: task keys 1 .. MaxKey
    MaxReaderCount,   \* options.MaxReaderCount
    MaxReaderID,      \* bound: reader IDs 0 .. MaxReaderID
    BatchSize,        \* options.BatchSize
    MaxPending,       \* options.MaxPendingTasksCount of the default reader
    OtherMaxPending,  \* the same of other readers, a share of CriticalPending
    CriticalPending,  \* options.PendingTasksCriticalCount
    CriticalSlices,   \* options.SliceCountCriticalThreshold
    MoveMinPending,   \* moveSliceDefaultReaderMinPendingTaskCount
    MoveMinSlices,    \* moveSliceDefaultReaderMinSliceCount
    MaxSlices,        \* bound: a new slice is forced on a shorter list only
    MaxAlerts,        \* bound: mitigations
    MaxReloads        \* bound: crashes and moves of the shard

ASSUME QueueBounds ==
    /\ MaxKey \in Nat /\ DOMAIN NamespaceOf = 1 .. MaxKey
    /\ Categories \subseteq {"immediate", "scheduled"}
    /\ {KeysPerFireTime, KeysPerPeriod, MaxReaderCount, BatchSize}
            \subseteq Nat \ {0}
    /\ MaxReaderID \in Nat /\ MaxReaderID >= MaxReaderCount - 1
    /\ {MaxPending, OtherMaxPending, CriticalPending, CriticalSlices,
        MoveMinPending, MoveMinSlices, MaxSlices, MaxAlerts, MaxReloads}
            \subseteq Nat

VARIABLES
    category,    \* the type of the queue's task category, fixed
    level,       \* the shard's exclusive max read level
    written,     \* history: keys of the tasks ever written
    rows,        \* keys of the tasks in the store
    executed,    \* history: keys of the tasks executed
    saved,       \* the persisted queue state
    reader,      \* the readers: slice list, nextReadSlice, event loop
    unread,      \* nonReadableScope.Range.InclusiveMin
    deleted,     \* exclusiveDeletionHighWatermark
    loop,        \* pc of the queue's event loop
    alerts,      \* number of mitigations so far
    reloads      \* number of reloads so far

storeVars == <<level, written, rows, executed>>
boundVars == <<category, alerts, reloads>>
vars == <<storeVars, saved, reader, unread, deleted, loop, boundVars>>

Keys == 1 .. MaxKey
ReaderIDs == 0 .. MaxReaderID
DefaultReaderID == 0
Scheduled == category = "scheduled"

\* The first key with the fire time, and of the period, of k
FireTime(k) == k - ((k - 1) % KeysPerFireTime)
Period(k) == k - ((k - 1) % KeysPerPeriod)

\* nextReadSlice is a position in the list, nil, or a list element that has
\* been removed from the list
Nil == 0
Removed == -1

\* "notified": a token in notifyCh; "paused": throttleTimer is running
Wakes == {"none", "notified", "paused"}
NoReader == [list |-> << >>, next |-> Nil, wake |-> "none"]

\* "mitigated": the action for an alert has run; "delete", "save": inside a
\* checkpoint; alert says that the checkpoint is the one of handleAlert
Loops == [pc : {"idle", "mitigated", "delete", "save"}, alert : BOOLEAN]
Idle == [pc |-> "idle", alert |-> FALSE]

-----------------------------------------------------------------------------
(* Reader: what its methods make of a reader d *)

FirstToRead(list) == SelectInSeq(list, MoreTasks)

\* As WithList, without the notification
WithList_Silent(d, list) ==
    [list |-> list, next |-> FirstToRead(list), wake |-> d.wake]

\* A new list, then resetNextReadSliceLocked
WithList(d, list) ==
    [list |-> list, next |-> FirstToRead(list),
     wake |-> IF FirstToRead(list) # Nil /\ d.wake = "none"
              THEN "notified" ELSE d.wake]

Pause(d) == [d EXCEPT !.wake = "paused"]

MergeOrAppendSlice(list, s) ==
    IF list # << >> /\ CanMerge(Last(list), s)
    THEN Front(list) \o MergeWithSlice(Last(list), s)
    ELSE Append(list, s)

\* Put s in front of the first slice of list that does not start before it.
InsertByMin(s, list) ==
    LET i == SelectInSeq(list, LAMBDA t : t.min >= s.min)
    IN  IF i = 0 THEN Append(list, s) ELSE InsertAt(list, i, s)

MergeSlices(d, incoming) ==
    IF incoming = << >> THEN d
    ELSE WithList(d, FoldLeft(MergeOrAppendSlice, << >>,
                              FoldRight(InsertByMin, incoming, d.list)))

AppendSlices(d, incoming) ==
    IF incoming = << >> THEN d ELSE WithList(d, d.list \o incoming)

\* Elements leave the list here without resetNextReadSliceLocked.
ShrinkSlices(d) ==
    LET shrunk == [i \in DOMAIN d.list |-> ShrinkScope(d.list[i])]
        Stays(s) == ~IsEmptyScope(s)
    IN  [d EXCEPT
            !.list = SelectSeq(shrunk, Stays),
            !.next = IF @ \in {Nil, Removed} THEN @
                     ELSE IF ~Stays(shrunk[@]) THEN Removed
                     ELSE Len(SelectSeq(SubSeq(shrunk, 1, @), Stays))]

ClearSlices(d, C) ==
    WithList(d, [i \in DOMAIN d.list |->
                    IF i \in C THEN Clear(d.list[i]) ELSE d.list[i]])

CompactSlices(d, C) ==
    LET Step(acc, i) ==
            IF acc # << >> /\ i \in C
            THEN Append(Front(acc), CompactWithSlice(Last(acc), d.list[i]))
            ELSE Append(acc, d.list[i])
    IN  WithList(d, FoldLeft(Step, << >>, [i \in DOMAIN d.list |-> i]))

-----------------------------------------------------------------------------
(* Monitor: what it counts in a group g of readers *)

PendingIn(d) ==
    MapThenSumSet(LAMBDA i : Cardinality(d.list[i].pending), DOMAIN d.list)
TotalPending(g) == MapThenSumSet(LAMBDA r : PendingIn(g[r]), ReaderIDs)
TotalSlices(g) == MapThenSumSet(LAMBDA r : Len(g[r].list), ReaderIDs)

-----------------------------------------------------------------------------

Init ==
    /\ category \in Categories
    /\ level = 1 /\ written = {} /\ rows = {} /\ executed = {}
    /\ saved = [scopes |-> [r \in ReaderIDs |-> << >>], high |-> 1]
    /\ reader = [r \in ReaderIDs |-> NoReader]
    /\ unread = 1 /\ deleted = 1 /\ loop = Idle
    /\ alerts = 0 /\ reloads = 0

(* The shard and the workers *)

\* The shard gives the next task ID to a task of this queue, or to another
\* one, and raises the max read level over it once the write is done.
WriteTask ==
    /\ ~Scheduled
    /\ level <= MaxKey
    /\ level' = level + 1
    /\ \/ /\ written' = written \cup {level}
          /\ rows' = rows \cup {level}
       \/ UNCHANGED <<written, rows>>
    /\ UNCHANGED <<executed, saved, reader, unread, deleted, loop, boundVars>>

\* A timer task is written at or above the max read level.
WriteTimer(k) ==
    /\ Scheduled
    /\ k >= level /\ k \notin written
    /\ written' = written \cup {k}
    /\ rows' = rows \cup {k}
    /\ UNCHANGED <<level, executed, saved, reader, unread, deleted, loop,
                   boundVars>>

\* Time passes: UpdateScheduledQueueExclusiveHighReadWatermark would return
\* the start of a later fire time.
TimePasses ==
    /\ Scheduled
    /\ \E k \in level + 1 .. MaxKey + 1 :
        /\ k = FireTime(k) \/ k = MaxKey + 1
        /\ level' = k
    /\ UNCHANGED <<written, rows, executed, saved, reader, unread, deleted,
                   loop, boundVars>>

\* An executable runs to its end: Execute, then Ack.
Execute(r, i, k) ==
    /\ i \in DOMAIN reader[r].list
    /\ k \in reader[r].list[i].pending \ reader[r].list[i].acked
    /\ reader' = [reader EXCEPT ![r].list[i].acked = @ \cup {k}]
    /\ executed' = executed \cup {k}
    /\ UNCHANGED <<level, written, rows, saved, unread, deleted, loop, boundVars>>

-----------------------------------------------------------------------------
(* loadAndSubmitTasks *)

Unpassed(s) ==
    {k \in rows : \E i \in DOMAIN s.iters : ContainsKey(s.iters[i], k)}
Matching(s) == {k \in Unpassed(s) : Test(s.pred, k)}

\* What SelectTasks makes of a slice when the last task it reads is k.
ReadUpTo(s, k) ==
    LET rest == SelectSeq(s.iters, LAMBDA q : q.max > k)
    IN  [AddExecutables(s, {j \in Matching(s) : j <= k}) EXCEPT
            !.iters = [i \in DOMAIN rest |->
                [rest[i] EXCEPT !.min = IF @ <= k THEN k + 1 ELSE @]]]

ReadAll(s) == [AddExecutables(s, Matching(s)) EXCEPT !.iters = << >>]

Selected(s, k) == Cardinality({j \in Matching(s) : j <= k})

SelectTasks(s) ==
    IF Cardinality(Matching(s)) < BatchSize THEN ReadAll(s)
    ELSE ReadUpTo(s, CHOOSE k \in Matching(s) : Selected(s, k) = BatchSize)

Throttled(r) ==
    TotalPending(reader) >= (IF r = DefaultReaderID THEN MaxPending ELSE OtherMaxPending)

LoadStep(r, d) ==
    /\ reader[r].wake = "notified"
    /\ reader' = [reader EXCEPT ![r] = d]
    /\ UNCHANGED <<storeVars, saved, unread, deleted, loop, boundVars>>

LoadThrottled(r) == Throttled(r) /\ LoadStep(r, Pause(reader[r]))

\* A removed element has no successor.
LoadNothing(r) ==
    /\ ~Throttled(r)
    /\ reader[r].next \in {Nil, Removed}
    /\ LoadStep(r, [reader[r] EXCEPT !.next = Nil, !.wake = "none"])

LoadTasks(r) ==
    LET d == reader[r]
        s == SelectTasks(d.list[d.next])
        n == IF MoreTasks(s) THEN d.next
             ELSE IF d.next < Len(d.list) THEN d.next + 1 ELSE Nil
    IN  /\ ~Throttled(r)
        /\ d.next \notin {Nil, Removed}
        /\ LoadStep(r, [list |-> [d.list EXCEPT ![d.next] = s], next |-> n,
                        wake |-> IF n = Nil THEN "none" ELSE "notified"])

\* A read of the store fails, after the task k or before any.
LoadError(r) ==
    LET d == reader[r]
        s == d.list[d.next]
    IN  /\ ~Throttled(r)
        /\ d.next \notin {Nil, Removed}
        /\ \/ LoadStep(r, Pause(d))
           \/ \E k \in Unpassed(s) :
                /\ Selected(s, k) < BatchSize
                /\ LoadStep(r, [d EXCEPT
                        !.list[d.next] = ReadUpTo(s, k),
                        !.wake = IF Selected(s, k) = 0 THEN "paused" ELSE @])

Resume(r) ==
    /\ reader[r].wake = "paused"
    /\ reader' = [reader EXCEPT ![r].wake = "notified"]
    /\ UNCHANGED <<storeVars, saved, unread, deleted, loop, boundVars>>

-----------------------------------------------------------------------------
(* The event loop of the queue *)

NewRange == <<NewSlice([min |-> unread, max |-> level, pred |-> Universal])>>
MergedRange == MergeSlices(reader[DefaultReaderID], NewRange)
AppendedRange == AppendSlices(reader[DefaultReaderID], NewRange)

\* A new slice is forced from time to time.
ProcessNewRange ==
    /\ loop = Idle
    /\ unread' = level
    /\ \/ reader' = [reader EXCEPT ![DefaultReaderID] = MergedRange]
       \/ /\ Len(reader[DefaultReaderID].list) < MaxSlices
          /\ reader' = [reader EXCEPT ![DefaultReaderID] = AppendedRange]
    /\ UNCHANGED <<storeVars, saved, deleted, loop, boundVars>>

Shrunk(g) == [r \in ReaderIDs |-> ShrinkSlices(g[r])]

\* slicePredicateAction on a group g of readers
SlicePredicateAction(g) ==
    LET d == g[DefaultReaderID]
        Moves(s) == s.pred.form # "universal"
        moved == SelectSeq(d.list, Moves)
    IN  IF \/ MaxReaderCount <= 1
           \/ moved = << >>
           \/ PendingIn(d) < MoveMinPending /\ Len(d.list) < MoveMinSlices
        THEN g
        ELSE [g EXCEPT
                ![0] = WithList(@, SelectSeq(d.list, LAMBDA s : ~Moves(s))),
                ![1] = MergeSlices(@, moved)]

RemoveEmptyReaders(g) ==
    [r \in ReaderIDs |->
        IF r # DefaultReaderID /\ g[r].list = << >> THEN NoReader ELSE g[r]]

Checkpoint ==
    /\ loop.pc \in {"idle", "mitigated"}
    /\ loop' = [loop EXCEPT !.pc = "delete"]
    /\ reader' = RemoveEmptyReaders(SlicePredicateAction(Shrunk(reader)))
    /\ UNCHANGED <<storeVars, saved, unread, deleted, boundVars>>

\* As LowWatermark, for the default reader only
LowWatermark_DefaultReader(scopes, high) ==
    IF scopes[DefaultReaderID] = << >> THEN high
    ELSE scopes[DefaultReaderID][1].min

\* The least key that a queue state with these scopes has still to process
LowWatermark(scopes, high) ==
    LET mins == {high} \cup {scopes[r][1].min : r \in {q \in ReaderIDs : scopes[q] # << >>}}
    IN  CHOOSE k \in mins : \A j \in mins : k <= j

ReaderScopes ==
    [r \in ReaderIDs |->
        [i \in DOMAIN reader[r].list |-> ScopeOf(reader[r].list[i])]]

\* The checkpoint ends; when it ends handleAlert, the readers are notified.
EndCheckpoint ==
    /\ loop' = Idle
    /\ reader' = [r \in ReaderIDs |->
            IF loop.alert /\ reader[r] # NoReader
            THEN [reader[r] EXCEPT !.wake = "notified"] ELSE reader[r]]

\* As RangeCompleteTasks, with the watermark rounded to the next fire time
RangeCompleteTasks_RoundedUp ==
    LET mark == LowWatermark(ReaderScopes, unread)
        rest == {k \in rows : k < FireTime(deleted)
                              \/ k >= FireTime(mark + KeysPerFireTime - 1)}
    IN  /\ loop.pc = "delete"
        /\ rows' = IF mark > deleted THEN rest ELSE rows
        /\ deleted' = Greatest(mark, deleted)
        /\ loop' = [loop EXCEPT !.pc = "save"]
        /\ UNCHANGED <<reader, level, written, executed, saved, unread, boundVars>>

RangeCompleteTasks ==
    LET mark == LowWatermark(ReaderScopes, unread)
        from == IF Scheduled THEN FireTime(deleted) ELSE deleted
        to == IF Scheduled THEN FireTime(mark) ELSE mark
        rest == {k \in rows : k < from \/ k >= to}
    IN  /\ loop.pc = "delete"
        /\ \/ /\ mark <= deleted
              /\ loop' = [loop EXCEPT !.pc = "save"]
              /\ UNCHANGED <<rows, deleted, reader>>
           \/ /\ mark > deleted
              /\ rows' = rest
              /\ deleted' = mark
              /\ loop' = [loop EXCEPT !.pc = "save"]
              /\ UNCHANGED reader
           \/ /\ mark > deleted
              /\ rows' \in {rows, rest}
              /\ UNCHANGED deleted
              /\ EndCheckpoint
        /\ UNCHANGED <<level, written, executed, saved, unread, boundVars>>

UpdateQueueState ==
    /\ loop.pc = "save"
    /\ saved' \in {saved, [scopes |-> ReaderScopes, high |-> unread]}
    /\ EndCheckpoint
    /\ UNCHANGED <<storeVars, unread, deleted, boundVars>>

-----------------------------------------------------------------------------
(* handleAlert: the action of the mitigator; the checkpoint follows.  An   *)
(* alert is raised when a count is over its limit and may be stale by the  *)
(* time it is handled; the action then does nothing.                       *)

Mitigate(g) ==
    /\ loop = Idle
    /\ alerts < MaxAlerts
    /\ alerts' = alerts + 1
    /\ loop' = [pc |-> "mitigated", alert |-> TRUE]
    /\ reader' = g
    /\ UNCHANGED <<category, storeVars, saved, unread, deleted, reloads>>

StaleAlert == Mitigate(reader)

\* findSliceToClear: what it can choose in g, as triples <<reader, position,
\* namespace>>.  Of one namespace it takes the newest slices first, and it
\* stops once enough tasks go; the order between namespaces is left open.
SlicesToClear(g) ==
    LET Count(c) == g[c[1]].list[c[2]].count[c[3]]
        Start(c) == g[c[1]].list[c[2]].min
        Size(P) == MapThenSumSet(Count, P)
        all == {c \in ReaderIDs \X (1 .. TotalSlices(g)) \X Namespaces :
                    c[2] \in DOMAIN g[c[1]].list /\ Count(c) > 0}
        surplus == Size(all) - (CriticalPending * 4) \div 5
    IN  {P \in SUBSET all :
            /\ Size(P) >= surplus
            /\ \E c \in P : Size(P \ {c}) < surplus
            /\ \A c \in P, b \in all \ P : c[3] = b[3] => Start(c) >= Start(b)}

\* splitAndClearSlice: what it makes of g when it visits the readers in the
\* order of the sequence order.  toClear maps a reader to the chosen slices,
\* each with its namespaces.  A chosen slice that has been merged with slices
\* from the reader before it is another slice, and stays as it is.
SplitAndClearSlice(g, toClear, order) ==
    LET Visit(h, r) ==
            LET list == h[r].list
                C == {i \in DOMAIN list : list[i] \in DOMAIN toClear[r]}
                Part(i) == SplitByPredicate(list[i], toClear[r][list[i]])
                chosen == SelectSeq([i \in DOMAIN list |-> i], LAMBDA i : i \in C)
                moved == [j \in DOMAIN chosen |-> Clear(Part(chosen[j])[1])]
                remain == [i \in DOMAIN list |-> IF i \in C THEN Part(i)[2] ELSE list[i]]
            IN  IF C = {} THEN [h EXCEPT ![r] = WithList(@, list)]
                ELSE IF r = MaxReaderCount - 1
                THEN [h EXCEPT ![r] = Pause(ClearSlices(@, C))]
                ELSE [h EXCEPT ![r] = WithList(@, remain),
                               ![r + 1] = Pause(MergeSlices(@, moved))]
    IN  FoldLeft(Visit, g, order)

QueuePendingTaskAction ==
    LET g == Shrunk(reader)
    IN  /\ TotalPending(reader) > CriticalPending
        /\ IF TotalPending(g) <= CriticalPending THEN Mitigate(g)
           ELSE \E P \in SlicesToClear(g), order \in SetToSeqs(ReaderIDs) :
                /\ \A c \in P : c[1] = MaxReaderCount - 1 \/ c[1] < MaxReaderID
                /\ Mitigate(SplitAndClearSlice(g,
                        [r \in ReaderIDs |->
                            [s \in {g[r].list[c[2]] : c \in {b \in P : b[1] = r}} |->
                                {c[3] : c \in {b \in P : b[1] = r /\ g[r].list[b[2]] = s}}]],
                        order))

PreferredSlices == (CriticalSlices * 4) \div 5

\* findAndCompactCandidates: the groups it can make of g.  The candidates
\* are slices of the readers R that follow a slice of the same kind.
Compacted(g, R, universal, target) ==
    LET Fits(r, i) == (g[r].list[i].pred.form = "universal") = universal
        cands == {c \in R \X (2 .. TotalSlices(g)) :
                    /\ c[2] \in DOMAIN g[c[1]].list
                    /\ Fits(c[1], c[2]) /\ Fits(c[1], c[2] - 1)}
        Distance(c) == g[c[1]].list[c[2]].min - g[c[1]].list[c[2] - 1].max
        size == Least(TotalSlices(g) - target, Cardinality(cands))
        picks == {P \in SUBSET cands :
                    /\ Cardinality(P) = size
                    /\ \A c \in P, b \in cands \ P : Distance(c) <= Distance(b)}
    IN  IF TotalSlices(g) <= target THEN {g}
        ELSE {[r \in ReaderIDs |->
                 IF r \in R THEN CompactSlices(g[r], {c[2] : c \in {b \in P : b[1] = r}})
                 ELSE g[r]] : P \in picks}

SliceCountAction ==
    LET g == Shrunk(reader)
        default == {DefaultReaderID}
        others == ReaderIDs \ default
    IN  /\ TotalSlices(reader) > CriticalSlices
        /\ IF TotalSlices(g) <= CriticalSlices THEN Mitigate(g)
           ELSE \E g1 \in Compacted(g, others, FALSE, PreferredSlices) :
                \E g2 \in Compacted(g1, default, FALSE, PreferredSlices) :
                \E g3 \in Compacted(g2, others, TRUE, CriticalSlices) :
                \E g4 \in Compacted(g3, default, TRUE, CriticalSlices) :
                    Mitigate(g4)

\* actionReaderStuck: the default reader keeps loading tasks of one period;
\* that range moves to the next reader.  A slice gives the parts before and
\* behind it back, empty ones too.
StuckSplit(s, lo, hi) ==
    LET low == SplitByRange(s, lo)
        right == IF CanSplit(s, lo) THEN low[2] ELSE s
        high == SplitByRange(right, hi)
    IN  IF lo <= s.min /\ s.max <= hi THEN [stay |-> << >>, move |-> <<s>>]
        ELSE IF ~CanSplit(s, lo) /\ ~CanSplit(right, hi)
        THEN [stay |-> <<s>>, move |-> << >>]
        ELSE [stay |-> (IF CanSplit(s, lo) THEN <<low[1]>> ELSE << >>)
                       \o (IF CanSplit(right, hi) THEN <<high[2]>> ELSE << >>),
              move |-> <<IF CanSplit(right, hi) THEN high[1] ELSE right>>]

PassedByDefaultReader ==
    LET list == reader[DefaultReaderID].list
    IN  {k \in written : k < unread /\ \A i \in DOMAIN list : k \notin Unpassed(list[i])}

ReaderStuckAction ==
    \E k \in {Period(j) : j \in PassedByDefaultReader} :
        LET list == reader[DefaultReaderID].list
            parts == [i \in DOMAIN list |-> StuckSplit(list[i], k, k + KeysPerPeriod)]
            stay == FlattenSeq([i \in DOMAIN list |-> parts[i].stay])
            move == FlattenSeq([i \in DOMAIN list |-> parts[i].move])
        IN  /\ Scheduled
            /\ MaxReaderID > DefaultReaderID
            /\ Mitigate([reader EXCEPT
                    ![DefaultReaderID] = WithList(@, stay),
                    ![DefaultReaderID + 1] = MergeSlices(@, move)])

-----------------------------------------------------------------------------

\* The max read level of a shard that has just been loaded.  The one for
\* timers starts over from the persisted watermark, rounded up.
LoadedLevel ==
    IF Scheduled THEN Least(FireTime(saved.high) + KeysPerFireTime, MaxKey + 1)
    ELSE level

\* The shard is lost, by a crash or to another host, and the queue is built
\* again from the persisted state: newQueueBase and Start.
Reload ==
    /\ reloads < MaxReloads
    /\ reloads' = reloads + 1
    /\ reader' = [r \in ReaderIDs |->
            WithList(NoReader, [i \in DOMAIN saved.scopes[r] |->
                                    NewSlice(saved.scopes[r][i])])]
    /\ unread' = saved.high
    /\ level' = LoadedLevel
    /\ deleted' = LowWatermark(saved.scopes, saved.high)
    /\ loop' = Idle
    /\ UNCHANGED <<category, written, rows, executed, saved, alerts>>

Next ==
    \/ WriteTask \/ TimePasses
    \/ \E k \in Keys : WriteTimer(k)
    \/ \E r \in ReaderIDs :
        \/ \E i \in DOMAIN reader[r].list : \E k \in Keys : Execute(r, i, k)
        \/ LoadThrottled(r) \/ LoadNothing(r) \/ LoadTasks(r)
        \/ LoadError(r) \/ Resume(r)
    \/ ProcessNewRange
    \/ Checkpoint \/ RangeCompleteTasks \/ UpdateQueueState
    \/ QueuePendingTaskAction \/ SliceCountAction \/ ReaderStuckAction
    \/ StaleAlert
    \/ Reload

Spec == Init /\ [][Next]_vars

ExecuteKey(k) ==
    \E r \in ReaderIDs : \E i \in DOMAIN reader[r].list : Execute(r, i, k)

CanExecute(k) ==
    \E r \in ReaderIDs : \E i \in DOMAIN reader[r].list :
        k \in reader[r].list[i].pending \ reader[r].list[i].acked
Notified(r) == reader[r].wake = "notified"
CanThrottle(r) == Notified(r) /\ Throttled(r)
CanLoad(r) ==
    Notified(r) /\ ~Throttled(r) /\ reader[r].next \notin {Nil, Removed}
CanLoadNothing(r) ==
    Notified(r) /\ ~Throttled(r) /\ reader[r].next \in {Nil, Removed}
HasNewRange ==
    loop = Idle /\ (unread # level \/ MergedRange # reader[DefaultReaderID])

\* The event loops run on; Go's select serves every ready channel again and
\* again; workers finish what they are given; a read of the store that is
\* tried again and again succeeds.  This is weak and strong fairness with
\* ENABLED <<A>>_vars spelled out for the actions A it is about.
Fairness ==
    /\ \A k \in Keys : []<>~CanExecute(k) \/ []<><<ExecuteKey(k)>>_vars
    /\ \A r \in ReaderIDs :
        /\ []<>~CanThrottle(r) \/ []<><<LoadThrottled(r)>>_vars
        /\ []<>~CanLoadNothing(r) \/ []<><<LoadNothing(r)>>_vars
        /\ <>[]~CanLoad(r) \/ []<><<LoadTasks(r)>>_vars
        /\ WF_vars(Resume(r))
    /\ <>[]~HasNewRange \/ []<><<ProcessNewRange>>_vars
    /\ <>[](loop.pc \notin {"idle", "mitigated"}) \/ []<><<Checkpoint>>_vars
    /\ []<>(loop.pc # "delete") /\ []<>(loop.pc # "save")

FairSpec == Spec /\ Fairness

-----------------------------------------------------------------------------

\* Every variable has its type, and the watermarks are in order.
TypeOK ==
    /\ level \in 1 .. MaxKey + 1
    /\ rows \subseteq written /\ executed \subseteq written
    /\ written \subseteq Keys
    /\ \A r \in ReaderIDs :
        /\ reader[r].next \in {Removed, Nil} \cup DOMAIN reader[r].list
        /\ reader[r].wake \in Wakes
        /\ \A i \in DOMAIN reader[r].list :
            LET s == reader[r].list[i]
            IN  s.acked \subseteq s.pending /\ s.pending \subseteq written
    /\ unread \in 1 .. level /\ deleted \in 1 .. unread
    /\ saved.high \in 1 .. level
    /\ loop \in Loops /\ alerts \in 0 .. MaxAlerts /\ reloads \in 0 .. MaxReloads

\* No panic of the queue is reachable: the slices of a reader are ordered and
\* disjoint (AppendSlices, validateSlicesOrderedDisjoint), and so are the
\* iterators of a slice, with a gap between them
\* (validateIteratorsOrderedDisjoint); a slice reads and tracks only tasks
\* of its scope (SelectTasks, executableTracker.split).
WellFormed ==
    TypeOK /\ \A r \in ReaderIDs : \A i \in DOMAIN reader[r].list :
        LET s == reader[r].list[i]
        IN  /\ 1 <= s.min /\ s.max <= unread /\ ValidSlice(s)
            /\ i > 1 => reader[r].list[i - 1].max <= s.min

\* pendingPerNamespace of a tracker, on which the mitigation decides and by
\* which shrinkPredicate narrows the scope, agrees with the tasks it tracks
\* after any splits, merges and shrinks.
CountsExact ==
    \A r \in ReaderIDs : \A i \in DOMAIN reader[r].list :
        ExactCount(reader[r].list[i])

\* No task is left to two slices, of one reader or of two: splitting,
\* moving and merging slices does not execute a task twice.
OneSlicePerTask ==
    \A r, q \in ReaderIDs :
    \A i \in DOMAIN reader[r].list, j \in DOMAIN reader[q].list :
        <<r, i>> # <<q, j>> =>
            \A k \in Keys : ~( /\ WillProcess(reader[r].list[i], k)
                               /\ WillProcess(reader[q].list[j], k) )

\* k is going to be executed by the queue as it is in memory
Tracked(k) ==
    \/ k >= unread
    \/ \E r \in ReaderIDs : \E i \in DOMAIN reader[r].list :
            WillProcess(reader[r].list[i], k)

\* k would be executed after a reload from the store as it is
Recoverable(k) ==
    /\ k \in rows
    /\ \/ k >= saved.high
       \/ \E r \in ReaderIDs : \E i \in DOMAIN saved.scopes[r] :
            InScope(saved.scopes[r][i], k)

\* A task that is not executed yet is in the store, the queue in memory will
\* get to it, and so will a queue that is loaded now from the persisted
\* state: in every order of loads, mitigations, checkpoints that fail half
\* way and reloads.
NoTaskLost == \A k \in written \ executed : Tracked(k) /\ Recoverable(k)

Promise == INSTANCE TaskQueue
           WITH MaxKey <- MaxKey, written <- written, rows <- rows, executed <- executed

\* The queue implements the queue of TaskQueue: it executes only tasks that
\* are in the store, and a checkpoint deletes only tasks that have been
\* executed.
ImplementsTaskQueue == Promise!Spec

\* Every task is executed, across mitigations and a reload: neither
\* throttling nor a pause nor the loss of in-memory slices holds it up.
AllExecuted == Promise!AllExecuted

\* When loadAndSubmitTasks ends in "no more task to load, trigger completion
\* callback", no slice of the reader has tasks to load.
NothingLeftToLoad ==
    \A r \in ReaderIDs :
        reader[r].next = Nil => FirstToRead(reader[r].list) = Nil

=============================================================================
