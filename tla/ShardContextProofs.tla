------------------------- MODULE ShardContextProofs -------------------------
(***************************************************************************)
(* Theorems about ShardContext, for any set of contexts, any range size    *)
(* and any bounds: the inductive invariant Inv, the operations of a        *)
(* context, the calls that land late, the steps of starting, acquiring,    *)
(* stopping and of the handover, and what follows.                         *)
(***************************************************************************)
EXTENDS ShardContext, TLAPS

\* The blocks of IDs follow each other.
LEMMA RangeStartFacts ==
    /\ \A r \in Nat : RangeStart(r) \in Nat /\ RangeStart(r) < RangeStart(r + 1)
    /\ \A r, q \in Nat : r < q => RangeStart(r + 1) <= RangeStart(q)
<1>1. ASSUME NEW r \in Nat
      PROVE  RangeStart(r) \in Nat /\ RangeStart(r) < RangeStart(r + 1)
  BY <1>1, RangeSizeAssumption DEF RangeStart
<1>2. ASSUME NEW r \in Nat, NEW q \in Nat, r < q
      PROVE  RangeStart(r + 1) <= RangeStart(q)
  <2>1. PICK k \in Nat : q = (r + 1) + k
    BY <1>2
  <2>2. RangeStart(q) = RangeStart(r + 1) + k * RangeSize
    BY <2>1, <1>2, RangeSizeAssumption DEF RangeStart
  <2>3. k * RangeSize >= 0
    BY <2>1, RangeSizeAssumption
  <2>4. RangeStart(r + 1) \in Nat /\ k * RangeSize \in Nat
    BY <1>1, <2>1, RangeSizeAssumption
  <2> QED
    BY <2>2, <2>3, <2>4
<1> QED
  BY Zenon, <1>1, <1>2

\* No natural number is below zero.
LEMMA ZeroLeast ==
    ASSUME NEW n \in Nat
    PROVE  0 <= n
OBVIOUS

\* What the order of the natural numbers gives
LEMMA Order ==
    /\ \A n \in Nat : 0 <= n /\ n <= n /\ n >= n
    /\ \A i, j, k \in Nat : i <= j /\ j <= k => i <= k
    /\ \A i, j, k \in Nat : i <= j /\ k >= j => i <= k
    /\ \A i, j, k \in Nat : i < j /\ j <= k => i < k
    /\ ~(0 > 0) /\ 0 <= 0
OBVIOUS

\* and about the numbers a handover records
LEMMA Negative ==
    /\ \A h \in Int : h < 0 => ~(h >= 0)
    /\ -1 \in Int /\ -1 < 0 /\ -2 \in Int /\ -2 < 0
OBVIOUS

LEMMA BelowLevel == \A n \in Nat : n - 1 \in Int /\ \A i \in Nat : i < n => i <= n - 1
OBVIOUS

-----------------------------------------------------------------------------
(* Facts about the state machine and about the calls that several actions *)
(* share *)

\* The state machine of transitionLocked as a table
LEMMA NextStateTable ==
    ASSUME NEW s \in States
    PROVE  /\ NextState(s, "none") = s
           /\ NextState(s, "Acquire") = IF s = "Initialized" THEN "Acquiring" ELSE s
           /\ NextState(s, "Acquired") = IF s = "Acquiring" THEN "Acquired" ELSE s
           /\ NextState(s, "Lost") = IF s = "Acquired" THEN "Acquiring" ELSE s
           /\ NextState(s, "Stop") = IF s \in ValidStates THEN "Stopping" ELSE s
BY Zenon DEF NextState, States, ValidStates

\* What a write error asks of the state machine; an unknown outcome is a lost shard.
LEMMA WriteErrorRequests ==
    ASSUME NEW err \in WriteErrors
    PROVE  /\ WriteErrorRequest(err) \in {"none", "Lost", "Stop"}
           /\ err = "unknown" => WriteErrorRequest(err) = "Lost"
BY Zenon DEF WriteErrorRequest, WriteErrors

\* What a request other than Acquired, or a failed attempt to acquire, does to
\* a context: s and p are its new state and its new acquirer.
Moved(c, s, p, pc) ==
    /\ state' = [state EXCEPT ![c] = s]
    /\ acquirer' = [acquirer EXCEPT ![c] = p]
    /\ s = "Acquired" => state[c] = "Acquired" /\ p = pc
    /\ s \in {"Initialized", "Acquiring"} => s = state[c] \/ p = "check"
    /\ p \in {"check", pc}

\* A transition moves the context and its acquirer, and only Acquired serves.
LEMMA TransitionMoves ==
    ASSUME TypeOK, NEW c \in Contexts, NEW req \in {"none", "Acquire", "Lost", "Stop"},
           NEW pc \in AcquirerPCs, Transition(c, req, pc)
    PROVE  \E s \in States, p \in AcquirerPCs :
              Moved(c, s, p, pc) /\ (req \in {"Lost", "Stop"} => s # "Acquired")
<1> DEFINE s == NextState(state[c], req)
           p == IF s = "Acquiring" /\ state[c] # "Acquiring" THEN "check" ELSE pc
<1>1. state[c] \in States
  BY Zenon DEF TypeOK, LifeTypeOK
<1>2. /\ s \in States
      /\ s = "Acquired" => state[c] = "Acquired" /\ req \notin {"Lost", "Stop"}
      /\ s = "Initialized" => state[c] = "Initialized"
  BY <1>1, NextStateTable DEF States, ValidStates
<1>3. /\ p \in AcquirerPCs
      /\ s = "Acquired" => p = pc
      /\ s = "Acquiring" => state[c] = "Acquiring" \/ p = "check"
      /\ p \in {"check", pc}
  BY Zenon DEF AcquirerPCs
<1>4. state' = [state EXCEPT ![c] = s] /\ acquirer' = [acquirer EXCEPT ![c] = p]
  BY Zenon DEF Transition
<1> HIDE DEF s, p
<1>5. Moved(c, s, p, pc) /\ (req \in {"Lost", "Stop"} => s # "Acquired")
  BY Zenon, <1>2, <1>3, <1>4 DEF Moved
<1> QED
  BY Zenon, <1>2, <1>3, <1>5

\* After a failed attempt the acquirer tries again or is gone.
LEMMA AttemptFailedMoves ==
    ASSUME TypeOK, NEW c \in Contexts, NEW req \in {"none", "Lost", "Stop"},
           AttemptFailed(c, req), state[c] # "Acquired"
    PROVE  \E s \in States \ {"Acquired"}, p \in {"none", "check"} :
              Moved(c, s, p, "none")
<1>1. CASE Transition(c, req, "check")
  <2>1. PICK s \in States, p \in AcquirerPCs : Moved(c, s, p, "check")
    BY <1>1, TransitionMoves DEF AcquirerPCs
  <2>2. s # "Acquired" /\ p = "check"
    BY Zenon, <2>1 DEF Moved
  <2>3. Moved(c, s, "check", "none")
    BY Zenon, <2>1, <2>2 DEF Moved
  <2> QED
    BY Zenon, <2>2, <2>3
<1>2. CASE /\ state' = [state EXCEPT ![c] = NextState(NextState(@, req), "Stop")]
           /\ acquirer' = [acquirer EXCEPT ![c] = "none"]
  <2> DEFINE s == NextState(NextState(state[c], req), "Stop")
  <2>1. NextState(state[c], req) \in States
    BY ZenonT(60), NextStateTable DEF TypeOK, LifeTypeOK, States, ValidStates
  <2>2. s \in {"Stopping", "Stopped"}
    BY ZenonT(60), <2>1, NextStateTable DEF States, ValidStates
  <2>3. state' = [state EXCEPT ![c] = s]
    BY Zenon, <1>2 DEF TypeOK, LifeTypeOK
  <2>4. acquirer' = [acquirer EXCEPT ![c] = "none"]
    BY Zenon, <1>2
  <2> HIDE DEF s
  <2>5. Moved(c, s, "none", "none")
    BY Zenon, <2>2, <2>3, <2>4 DEF Moved
  <2>6. s \in States \ {"Acquired"}
    BY Zenon, <2>2 DEF States
  <2> QED
    BY Zenon, <2>5, <2>6
<1> QED
  BY Zenon, <1>1, <1>2 DEF AttemptFailed

\* The fields of an idle request
LEMMA IdleFacts ==
    /\ Idle \in RequestRecords
    /\ Idle.kind = "idle" /\ Idle.need = 0 /\ Idle.ids = {} /\ Idle.newLevel = 0
    /\ "idle" \notin WriteKinds /\ "generate" \notin WriteKinds
BY Zenon DEF Idle, RequestRecords, TaskIDs, WriteKinds, ExemptKinds

\* What is known of the numbers of a single context
LEMMA ContextFacts ==
    ASSUME Inv, NEW c \in Contexts
    PROVE  /\ seq[c] \in Nat /\ maxSeq[c] \in Nat /\ level[c] \in Nat
           /\ queueRead[c] \in Nat /\ saved[c] \in Nat /\ queueState[c] \in Nat
           /\ rangeID[c] \in RangeIDs \cup {Unloaded} /\ rangeID[c] \in Int
           /\ handover[c] \in Int /\ issued[c] \subseteq Nat
           /\ state[c] \in States /\ acquirer[c] \in AcquirerPCs
           /\ maxSeq[c] = 0 \/ maxSeq[c] > 0
<1>1. /\ seq[c] \in Nat /\ maxSeq[c] \in Nat /\ level[c] \in Nat
      /\ issued[c] \subseteq Nat /\ rangeID[c] \in RangeIDs \cup {Unloaded}
  BY Zenon DEF Inv, TypeOK, IdTypeOK, TaskIDs
<1>2. rangeID[c] \in Int
  BY <1>1, BoundsAssumption DEF RangeIDs, Unloaded
<1>3. /\ queueRead[c] \in Nat /\ saved[c] \in Nat /\ queueState[c] \in Nat
      /\ handover[c] \in Int
  BY Zenon DEF Inv, TypeOK, QueueTypeOK
<1>4. state[c] \in States /\ acquirer[c] \in AcquirerPCs
  BY Zenon DEF Inv, TypeOK, LifeTypeOK
<1>5. maxSeq[c] = 0 \/ maxSeq[c] > 0
  BY <1>1
<1> QED
  BY Zenon, <1>1, <1>2, <1>3, <1>4, <1>5

\* A range up to the row's is not the next one.
LEMMA RangeBelowNext ==
    ASSUME NEW r \in RangeIDs, NEW b \in Nat, r <= b
    PROVE  r # b + 1
BY BoundsAssumption DEF RangeIDs

LEMMA RangeIDsNat == RangeIDs \subseteq Nat
BY BoundsAssumption DEF RangeIDs

\* The types of the row's range ID
LEMMA RowRange ==
    ASSUME Inv
    PROVE  /\ dbRange \in Nat /\ dbRange \in RangeIDs
           /\ RangeStart(dbRange) \in Nat /\ RangeStart(dbRange + 1) \in Nat
<1>1. dbRange \in Nat /\ dbRange \in RangeIDs
  BY BoundsAssumption DEF Inv, TypeOK, StoreTypeOK, RangeIDs
<1> QED
  BY <1>1, RangeStartFacts

\* A range before the row's ends before the row's begins.
LEMMA OlderStart ==
    ASSUME Inv, NEW r \in Nat, r < dbRange
    PROVE  RangeStart(r + 1) <= RangeStart(dbRange) /\ RangeStart(r + 1) \in Nat
BY RowRange, RangeStartFacts

\* the RangeId of a context that has an engine, and the block of IDs it has
LEMMA BlockFacts ==
    ASSUME Inv, NEW c \in Contexts, maxSeq[c] > 0
    PROVE  /\ rangeID[c] \in RangeIDs /\ rangeID[c] \in Nat
           /\ rangeID[c] <= dbRange /\ granted[rangeID[c]] = c
           /\ RangeStart(rangeID[c]) \in Nat /\ RangeStart(rangeID[c] + 1) \in Nat
           /\ maxSeq[c] = RangeStart(rangeID[c] + 1)
           /\ RangeStart(rangeID[c]) <= level[c]
           /\ level[c] <= seq[c] /\ seq[c] <= maxSeq[c]
<1>1. rangeID[c] \in RangeIDs
  BY Zenon DEF Inv, BlockInv
<1>2. rangeID[c] \in Nat
  BY <1>1, BoundsAssumption DEF RangeIDs
<1>3. RangeStart(rangeID[c]) \in Nat /\ RangeStart(rangeID[c] + 1) \in Nat
  BY <1>2, RangeStartFacts
<1> QED
  BY Zenon, <1>1, <1>2, <1>3 DEF Inv, BlockInv, LoadInv

\* A context that has not been granted the row's range draws IDs from an older one.
LEMMA OlderRange ==
    ASSUME Inv, NEW d \in Contexts, maxSeq[d] > 0, granted[dbRange] # d
    PROVE  rangeID[d] < dbRange
<1>1. /\ rangeID[d] \in Nat /\ dbRange \in Nat /\ rangeID[d] <= dbRange
      /\ rangeID[d] # dbRange
  BY Zenon, BlockFacts, RowRange
<1> QED
  BY <1>1

\* A range granted to another context than the row's is an older one.
LEMMA OlderGrant ==
    ASSUME Inv, NEW r \in RangeIDs, r \in Nat, granted[r] # NoOwner,
           granted[r] # granted[dbRange]
    PROVE  r < dbRange
<1>1. dbRange \in Nat /\ r # dbRange /\ ~(r > dbRange)
  BY Zenon, RowRange DEF Inv, GrantInv
<1> QED
  BY <1>1

\* The queue state of the row is never below the initial one.
LEMMA RowQueueState ==
    ASSUME Inv
    PROVE  dbQueueState >= 0
  BY SMTT(60) DEF Inv, TypeOK, StoreTypeOK

\* The range that follows the row's: everything granted, issued, read or still
\* under way is below it.
LEMMA NextRange ==
    ASSUME Inv, NEW c \in Contexts, rangeID[c] = dbRange, dbRange + 1 <= MaxRangeID
    PROVE  /\ dbRange \in Nat /\ dbRange + 1 \in Nat /\ dbRange + 1 \in RangeIDs
           /\ dbRange + 1 # dbRange
           /\ RangeStart(dbRange + 1) \in Nat /\ RangeStart((dbRange + 1) + 1) \in Nat
           /\ 0 < RangeStart(dbRange + 1)
           /\ RangeStart(dbRange + 1) < RangeStart((dbRange + 1) + 1)
           /\ RangeStart(dbRange + 1) <= RangeStart((dbRange + 1) + 1)
           /\ level[c] <= seq[c] /\ seq[c] <= RangeStart(dbRange + 1)
           /\ queueRead[c] <= RangeStart(dbRange + 1)
           /\ request[c].newLevel <= RangeStart(dbRange + 1)
           /\ \A r \in RangeIDs : r > dbRange + 1 => r > dbRange /\ r # dbRange + 1
           /\ \A u \in lateUpdates : u.prev <= dbRange + 1 /\ u.prev # dbRange + 1
           /\ \A w \in lateWrites : /\ w.range \in RangeIDs
                                    /\ w.range <= dbRange + 1 /\ w.range # dbRange + 1
           /\ \A d \in Contexts : rangeID[d] <= dbRange + 1
<1>1. /\ dbRange \in Nat /\ dbRange + 1 \in Nat /\ dbRange + 1 \in RangeIDs
      /\ dbRange + 1 # dbRange
  BY RowRange, BoundsAssumption DEF RangeIDs
<1>2. /\ RangeStart(dbRange + 1) \in Nat /\ RangeStart((dbRange + 1) + 1) \in Nat
      /\ 0 < RangeStart(dbRange + 1)
      /\ RangeStart(dbRange + 1) < RangeStart((dbRange + 1) + 1)
      /\ RangeStart(dbRange + 1) <= RangeStart((dbRange + 1) + 1)
  BY <1>1, RangeStartFacts
<1>3. level[c] <= seq[c] /\ seq[c] <= RangeStart(dbRange + 1)
  <2>1. CASE maxSeq[c] = 0
    <3>1. level[c] = 0 /\ seq[c] = 0
      BY Zenon, <2>1 DEF Inv, FreshInv
    <3> QED
      BY <1>2, <3>1
  <2>2. CASE maxSeq[c] > 0
    BY Zenon, <2>2, BlockFacts
  <2> QED
    BY Zenon, <2>1, <2>2, ContextFacts
<1>4. queueRead[c] <= level[c] /\ request[c].newLevel <= seq[c]
  BY Zenon DEF Inv, ReadInv, RequestInv
<1>5. request[c].newLevel \in Nat
  BY Zenon DEF Inv, TypeOK, LifeTypeOK, RequestRecords
<1>6. seq[c] \in Nat /\ level[c] \in Nat /\ queueRead[c] \in Nat
  BY Zenon, ContextFacts
<1>7. queueRead[c] <= RangeStart(dbRange + 1) /\ request[c].newLevel <= RangeStart(dbRange + 1)
  BY <1>2, <1>3, <1>4, <1>5, <1>6
<1>8. \A r \in RangeIDs : r > dbRange + 1 => r > dbRange /\ r # dbRange + 1
  BY <1>1, BoundsAssumption DEF RangeIDs
<1>9. ASSUME NEW u \in lateUpdates PROVE u.prev <= dbRange + 1 /\ u.prev # dbRange + 1
  <2>1. u.prev \in RangeIDs /\ u.prev <= dbRange
    BY Zenon DEF Inv, TypeOK, StoreTypeOK, UpdateRecords, UpdateInv
  <2> QED
    BY <1>1, <2>1, BoundsAssumption DEF RangeIDs
<1>10. ASSUME NEW w \in lateWrites
       PROVE  /\ w.range \in RangeIDs
              /\ w.range <= dbRange + 1 /\ w.range # dbRange + 1
  <2>1. w.range \in RangeIDs /\ w.range <= dbRange
    BY Zenon DEF Inv, TypeOK, StoreTypeOK, WriteRecords, LateInv
  <2> QED
    BY <1>1, <2>1, BoundsAssumption DEF RangeIDs
<1>11. ASSUME NEW d \in Contexts PROVE rangeID[d] <= dbRange + 1
  <2>1. rangeID[d] \in Int /\ rangeID[d] <= dbRange
    BY Zenon, ContextFacts DEF Inv, LoadInv
  <2> QED
    BY <1>1, <2>1
<1> QED
  BY Zenon, <1>1, <1>2, <1>3, <1>7, <1>8, <1>9, <1>10, <1>11

\* a context that is or is about to be Acquired, or that has begun a request,
\* has an engine
LEMMA EngineFacts ==
    ASSUME Inv, NEW c \in Contexts,
           \/ state[c] = "Acquired" \/ acquirer[c] = "transition"
           \/ request[c] # Idle
    PROVE  maxSeq[c] > 0
BY Zenon, ContextFacts DEF Inv, FreshInv

\* A part of the invariant is kept by a step that changes none of its variables.
LEMMA Frame ==
    ASSUME Inv
    PROVE  /\ UNCHANGED storeVars => StoreTypeOK'
           /\ UNCHANGED <<state, acquirer, notifying, request>> => LifeTypeOK'
           /\ UNCHANGED idVars => IdTypeOK'
           /\ UNCHANGED queueVars => QueueTypeOK'
           /\ UNCHANGED <<dbRange, granted>> => GrantInv'
           /\ UNCHANGED <<dbRange, lateUpdates>> => UpdateInv'
           /\ UNCHANGED <<dbRange, rangeID, acquirer>> => LoadInv'
           /\ UNCHANGED <<maxSeq, seq, level, issued, request, state, acquirer, saved>>
                 => FreshInv'
           /\ UNCHANGED <<maxSeq, rangeID, granted, level, seq>> => BlockInv'
           /\ UNCHANGED <<queueRead, level>> => ReadInv'
           /\ UNCHANGED <<issued, seq, granted>> => IssuedInv'
           /\ UNCHANGED <<state, acquirer, request>> => LockInv'
           /\ UNCHANGED <<request, seq, issued, rangeID, level>> => RequestInv'
           /\ UNCHANGED <<lateWrites, dbRange, granted, issued, state, acquirer,
                          request, level>> => LateInv'
           /\ UNCHANGED <<rows, issued, state, acquirer, level>> => RowInv'
           /\ UNCHANGED <<saved, queueState, lateUpdates, dbRange, granted, state,
                          acquirer>> => QueueInv'
           /\ UNCHANGED <<granted, dbRange, rangeID, dbQueueState, saved>>
                 => SavedStateDurable'
<1>1. UNCHANGED storeVars => StoreTypeOK'
  BY Zenon DEF Inv, TypeOK, StoreTypeOK, storeVars
<1>2. UNCHANGED <<state, acquirer, notifying, request>> => LifeTypeOK'
  BY Zenon DEF Inv, TypeOK, LifeTypeOK
<1>3. UNCHANGED idVars => IdTypeOK'
  BY Zenon DEF Inv, TypeOK, IdTypeOK, idVars
<1>4. UNCHANGED queueVars => QueueTypeOK'
  BY Zenon DEF Inv, TypeOK, QueueTypeOK, queueVars
<1>5. UNCHANGED <<dbRange, granted>> => GrantInv'
  BY Zenon DEF Inv, GrantInv
<1>6. UNCHANGED <<dbRange, lateUpdates>> => UpdateInv'
  BY Zenon DEF Inv, UpdateInv
<1>7. UNCHANGED <<dbRange, rangeID, acquirer>> => LoadInv'
  BY Zenon DEF Inv, LoadInv
<1>8. UNCHANGED <<maxSeq, seq, level, issued, request, state, acquirer, saved>>
         => FreshInv'
  BY Zenon DEF Inv, FreshInv
<1>9. UNCHANGED <<maxSeq, rangeID, granted, level, seq>> => BlockInv'
  BY Zenon DEF Inv, BlockInv
<1>10. UNCHANGED <<queueRead, level>> => ReadInv'
  BY Zenon DEF Inv, ReadInv
<1>11. UNCHANGED <<issued, seq, granted>> => IssuedInv'
  BY Zenon DEF Inv, IssuedInv
<1>12. UNCHANGED <<state, acquirer, request>> => LockInv'
  BY Zenon DEF Inv, LockInv
<1>13. UNCHANGED <<request, seq, issued, rangeID, level>> => RequestInv'
  BY Zenon DEF Inv, RequestInv
<1>14. UNCHANGED <<lateWrites, dbRange, granted, issued, state, acquirer,
                   request, level>> => LateInv'
  BY Zenon DEF Inv, LateInv
<1>15. UNCHANGED <<rows, issued, state, acquirer, level>> => RowInv'
  BY Zenon DEF Inv, RowInv
<1>16. UNCHANGED <<saved, queueState, lateUpdates, dbRange, granted, state,
                   acquirer>> => QueueInv'
  BY Zenon DEF Inv, QueueInv
<1>18. UNCHANGED <<granted, dbRange, rangeID, dbQueueState, saved>>
          => SavedStateDurable'
  BY Zenon DEF Inv, SavedStateDurable
<1> QED
  BY Zenon, <1>1, <1>2, <1>3, <1>4, <1>5, <1>6, <1>7, <1>8, <1>9, <1>10, <1>11, <1>12,
     <1>13, <1>14, <1>15, <1>16, <1>18

-----------------------------------------------------------------------------
(* The operations of a context, and the calls that land late *)

\* The block of IDs a context draws from belongs to no ID issued so far.
LEMMA InvUnique == Inv => UniqueTaskIDs
<1> SUFFICES ASSUME Inv, NEW c \in Contexts, NEW d \in Contexts
             PROVE  /\ c # d => issued[c] \cap issued[d] = {}
                    /\ \A i \in issued[d] : ~(seq[c] <= i /\ i < maxSeq[c])
  BY Zenon DEF UniqueTaskIDs
<1>1. ASSUME NEW r \in RangeIDs, NEW q \in RangeIDs, NEW i \in Nat,
             RangeStart(r) <= i, i < RangeStart(r + 1),
             RangeStart(q) <= i, i < RangeStart(q + 1)
      PROVE  r = q
  <2>1. r \in Nat /\ q \in Nat
    BY BoundsAssumption DEF RangeIDs
  <2>2. /\ RangeStart(r) \in Nat /\ RangeStart(r + 1) \in Nat
        /\ RangeStart(q) \in Nat /\ RangeStart(q + 1) \in Nat
    BY <2>1, RangeStartFacts
  <2>3. ~(r < q) /\ ~(q < r)
    BY <1>1, <2>1, <2>2, RangeStartFacts
  <2> QED
    BY <2>1, <2>3
<1>2. ASSUME NEW e \in Contexts, NEW i \in issued[e]
      PROVE  /\ i \in Nat /\ i < seq[e]
             /\ \E r \in RangeIDs : /\ granted[r] = e
                                    /\ RangeStart(r) <= i /\ i < RangeStart(r + 1)
  BY Zenon, ContextFacts DEF Inv, IssuedInv
<1>3. c # d => issued[c] \cap issued[d] = {}
  BY SMTT(60), <1>1, <1>2
<1>4. ASSUME NEW i \in issued[d], seq[c] <= i, i < maxSeq[c]
      PROVE  FALSE
  <2>1. i \in Nat /\ i < seq[d]
    BY Zenon, <1>2
  <2>2. maxSeq[c] > 0
    BY SMTT(60), <1>4, <2>1, ContextFacts
  <2>3. RangeStart(rangeID[c]) <= i /\ i < RangeStart(rangeID[c] + 1)
    BY <1>4, <2>1, <2>2, BlockFacts, ContextFacts
  <2>4. PICK r \in RangeIDs : /\ granted[r] = d
                              /\ RangeStart(r) <= i /\ i < RangeStart(r + 1)
    BY Zenon, <1>2
  <2>5. r = rangeID[c]
    BY Zenon, <1>1, <2>1, <2>2, <2>3, <2>4, BlockFacts
  <2> QED
    BY <1>4, <2>1, <2>2, <2>4, <2>5, BlockFacts, ContextFacts
<1> QED
  BY Zenon, <1>3, <1>4

\* A write that succeeds keeps the invariant.
LEMMA PersistWriteOKStep ==
    ASSUME Inv, NEW c \in Contexts, PersistWriteOK(c)
    PROVE  Inv'
<1> DEFINE top == IF request[c].newLevel > level[c] THEN request[c].newLevel
                  ELSE level[c]
<1>1. /\ request[c].kind \in WriteKinds /\ dbRange = rangeID[c]
      /\ rows' = rows \cup request[c].ids
      /\ UNCHANGED <<dbRange, dbQueueState, lateWrites, lateUpdates, granted,
                     state, acquirer, notifying, rangeID, seq, maxSeq, issued,
                     exempt, queueState, saved, queueRead, handover>>
  BY Zenon DEF PersistWriteOK, lifeVars, queueVars
<1>0. /\ level' = [level EXCEPT ![c] = top]
      /\ request' = [request EXCEPT ![c] = Idle]
  BY Zenon DEF PersistWriteOK
<1>2. /\ request[c].newLevel \in Nat /\ request[c].ids \subseteq Nat
      /\ request[c].newLevel <= seq[c]
  BY Zenon DEF Inv, TypeOK, LifeTypeOK, RequestInv, RequestRecords, TaskIDs
<1>3. request[c] # Idle /\ maxSeq[c] > 0
  BY ZenonT(60), <1>1, IdleFacts, EngineFacts
<1>4. /\ top \in Nat /\ level[c] <= top /\ request[c].newLevel <= top
      /\ top <= seq[c]
  BY SMTT(60), <1>2, <1>3, ContextFacts, BlockFacts
<1>5. \A i \in request[c].ids : i \in issued[c] /\ i \in Nat /\ i < top
  BY <1>2, <1>4 DEF Inv, RequestInv
<1> HIDE DEF top
<1>6. level'[c] = top /\ request'[c] = Idle
  BY Zenon, <1>0 DEF Inv, TypeOK, IdTypeOK, LifeTypeOK
<1>7. ASSUME NEW d \in Contexts, d # c
      PROVE  level'[d] = level[d] /\ request'[d] = request[d]
  BY Zenon, <1>0, <1>7 DEF Inv, TypeOK, IdTypeOK, LifeTypeOK
<1>8. StoreTypeOK'
  BY Zenon, <1>1, <1>2 DEF Inv, TypeOK, StoreTypeOK, TaskIDs
<1>9. LifeTypeOK' /\ IdTypeOK'
  BY Zenon, <1>0, <1>1, <1>4, IdleFacts DEF Inv, TypeOK, LifeTypeOK, IdTypeOK
<1>10. /\ QueueTypeOK' /\ GrantInv' /\ UpdateInv' /\ LoadInv' /\ IssuedInv'
       /\ QueueInv' /\ SavedStateDurable'
  BY Zenon, <1>1, Frame DEF queueVars
<1>11. FreshInv'
  BY Zenon, <1>1, <1>3, <1>7, ContextFacts DEF Inv, FreshInv
<1>12. BlockInv'
  <2>1. RangeStart(rangeID[c]) <= top
    BY SMTT(60), <1>3, <1>4, BlockFacts, ContextFacts
  <2> QED
    BY ZenonT(60), <1>1, <1>4, <1>6, <1>7, <2>1 DEF Inv, BlockInv
<1>13. ReadInv'
  BY <1>1, <1>4, <1>6, <1>7, ContextFacts DEF Inv, ReadInv
<1>14. LockInv'
  BY ZenonT(60), <1>1, <1>6, <1>7, IdleFacts DEF Inv, LockInv
<1>15. RequestInv'
  BY SMTT(60), <1>1, <1>6, <1>7, IdleFacts, ContextFacts DEF Inv, RequestInv
<1>16. LateInv'
  <2>1. \A w \in lateWrites : w.range = dbRange => granted[w.range] # c
    BY Zenon, <1>1 DEF Inv, LateInv
  <2> QED
    BY SMTT(60), <1>1, <1>7, <2>1 DEF Inv, LateInv
<1>17. RowInv'
  <2>1. \A d \in Contexts \ {c} : request[c].ids \cap issued[d] = {}
    BY ZenonT(60), <1>5, InvUnique DEF UniqueTaskIDs
  <2>2. ASSUME NEW i \in rows \cap issued[c],
               state[c] = "Acquired" \/ acquirer[c] = "transition"
        PROVE  i < top
    <3>1. i < level[c]
      BY ZenonT(60), <2>2 DEF Inv, RowInv
    <3> QED
      BY <1>4, <2>2, <3>1, ContextFacts
  <2> QED
    BY ZenonT(60), <1>1, <1>5, <1>6, <1>7, <2>1, <2>2 DEF Inv, RowInv
<1> QED
  BY ZenonT(60), <1>8, <1>9, <1>10, <1>11, <1>12, <1>13, <1>14, <1>15, <1>16, <1>17
     DEF Inv, TypeOK

\* A task ID out of the block keeps the invariant.
LEMMA GenerateTaskIDStep ==
    ASSUME Inv, NEW c \in Contexts, GenerateTaskID(c)
    PROVE  Inv'
<1> DEFINE q == [kind |-> request[c].kind, need |-> request[c].need - 1,
                 ids |-> request[c].ids \cup {seq[c]}, newLevel |-> seq[c] + 1]
<1>1. /\ request[c].need > 0 /\ seq[c] < maxSeq[c]
      /\ UNCHANGED <<storeVars, state, acquirer, notifying, rangeID, maxSeq, level,
                     queueState, saved, queueRead, handover>>
  BY Zenon DEF GenerateTaskID, lifeVars, queueVars
<1>0. /\ seq' = [seq EXCEPT ![c] = @ + 1]
      /\ issued' = [issued EXCEPT ![c] = @ \cup {seq[c]}]
      /\ request' = [request EXCEPT ![c] = q]
      /\ exempt' \in {exempt, exempt \cup {seq[c]}}
  BY Zenon DEF GenerateTaskID
<1>2. /\ request[c] \in RequestRecords /\ request[c].need \in Nat
      /\ request[c].ids \subseteq Nat /\ request[c].kind \in WriteKinds \cup {"idle", "generate"}
  BY ZenonT(60) DEF Inv, TypeOK, LifeTypeOK, RequestRecords, TaskIDs
<1>3. request[c] # Idle /\ maxSeq[c] > 0 /\ seq[c] \in Nat
  BY SMTT(60), <1>1, IdleFacts, EngineFacts, ContextFacts
<1>4. /\ q \in RequestRecords /\ q.kind = request[c].kind
      /\ q.ids = request[c].ids \cup {seq[c]} /\ q.newLevel = seq[c] + 1
  BY <1>1, <1>2, <1>3 DEF RequestRecords, TaskIDs
<1>5. UNCHANGED <<dbRange, dbQueueState, rows, lateWrites, lateUpdates, granted>>
  BY Zenon, <1>1 DEF storeVars
<1> HIDE DEF q
\* the context after the step, and the others
<1>6. /\ seq'[c] = seq[c] + 1 /\ issued'[c] = issued[c] \cup {seq[c]}
      /\ request'[c] = q
  BY Zenon, <1>0 DEF Inv, TypeOK, IdTypeOK, LifeTypeOK
<1>7. ASSUME NEW d \in Contexts, d # c
      PROVE  seq'[d] = seq[d] /\ issued'[d] = issued[d] /\ request'[d] = request[d]
  BY ZenonT(60), <1>0, <1>7 DEF Inv, TypeOK, IdTypeOK, LifeTypeOK
<1>8. /\ rangeID[c] \in RangeIDs /\ granted[rangeID[c]] = c
      /\ RangeStart(rangeID[c]) <= seq[c] /\ seq[c] < RangeStart(rangeID[c] + 1)
      /\ level[c] <= seq[c]
  BY SMTT(60), <1>1, <1>3, BlockFacts, ContextFacts
<1>9. seq[c] \notin rows
  BY <1>1, <1>3, InvUnique, ContextFacts DEF Inv, RowInv, UniqueTaskIDs
<1>10. StoreTypeOK' /\ QueueTypeOK'
  BY Zenon, <1>1, Frame DEF queueVars
<1>11. LifeTypeOK'
  BY ZenonT(60), <1>0, <1>1, <1>4 DEF Inv, TypeOK, LifeTypeOK
<1>12. IdTypeOK'
  BY <1>0, <1>1, <1>3 DEF Inv, TypeOK, IdTypeOK, TaskIDs
<1>13. /\ GrantInv' /\ UpdateInv' /\ LoadInv' /\ ReadInv' /\ QueueInv'
       /\ SavedStateDurable'
  BY Zenon, <1>1, <1>5, Frame
<1>14. FreshInv'
  BY ZenonT(60), <1>1, <1>3, <1>7 DEF Inv, FreshInv
<1>15. BlockInv'
  BY SMTT(60), <1>1, <1>3, <1>5, <1>6, <1>7, ContextFacts DEF Inv, BlockInv
<1>16. IssuedInv'
  <2> SUFFICES ASSUME NEW d \in Contexts, NEW i \in issued'[d]
               PROVE  /\ i < seq'[d]
                      /\ \E r \in RangeIDs :
                           /\ granted[r] = d
                           /\ RangeStart(r) <= i /\ i < RangeStart(r + 1)
    BY Zenon, <1>5 DEF IssuedInv
  <2>1. CASE i \in issued[d]
    <3>1. i < seq[d] /\ i \in Nat
      BY ZenonT(60), <2>1, ContextFacts DEF Inv, IssuedInv
    <3>2. i < seq'[d]
      BY SMTT(60), <1>3, <1>6, <1>7, <3>1
    <3> QED
      BY Zenon, <2>1, <3>2 DEF Inv, IssuedInv
  <2>2. CASE d = c /\ i = seq[c]
    BY SMTT(60), <1>3, <1>6, <1>8, <2>2
  <2> QED
    BY Zenon, <1>6, <1>7, <2>1, <2>2
<1>17. LockInv'
  BY <1>1, <1>4, <1>6, <1>7 DEF Inv, LockInv
<1>18. RequestInv'
  <2> SUFFICES ASSUME NEW d \in Contexts
               PROVE  /\ request'[d].newLevel <= seq'[d]
                      /\ \A i \in request'[d].ids :
                            /\ i \in issued'[d] /\ i < request'[d].newLevel
                            /\ i >= RangeStart(rangeID[d]) => i >= level[d]
    BY Zenon, <1>1 DEF RequestInv
  <2>1. CASE d # c
    BY ZenonT(60), <1>7, <2>1 DEF Inv, RequestInv
  <2>2. CASE d = c
    <3>1. ASSUME NEW i \in request[c].ids
          PROVE  /\ i \in issued[c] /\ i < seq[c] + 1
                 /\ i >= RangeStart(rangeID[c]) => i >= level[c]
      BY SMTT(60), <1>2, <1>3, ContextFacts DEF Inv, RequestInv, IssuedInv
    <3> QED
      BY SMTT(60), <1>3, <1>4, <1>6, <1>8, <2>2, <3>1
  <2> QED
    BY Zenon, <2>1, <2>2
<1>19. LateInv'
  <2>1. \A d \in Contexts : /\ issued[d] \subseteq issued'[d]
                            /\ request'[d].kind = request[d].kind
    BY Zenon, <1>4, <1>6, <1>7
  <2> QED
    BY ZenonT(60), <1>1, <1>5, <2>1 DEF Inv, LateInv
<1>20. RowInv'
  <2>1. \A d \in Contexts : /\ issued[d] \subseteq issued'[d]
                            /\ rows \cap issued'[d] = rows \cap issued[d]
    BY Zenon, <1>6, <1>7, <1>9
  <2> QED
    BY Zenon, <1>1, <1>5, <2>1 DEF Inv, RowInv
<1> QED
  BY ZenonT(60), <1>10, <1>11, <1>12, <1>13, <1>14, <1>15, <1>16, <1>17, <1>18, <1>19, <1>20
     DEF Inv, TypeOK

\* An update of the shard that lands late keeps the invariant.
LEMMA LandUpdateStep ==
    ASSUME Inv, NEW u \in lateUpdates, LandUpdate(u)
    PROVE  Inv'
<1>1. /\ lateUpdates' \subseteq lateUpdates
      /\ UNCHANGED <<rows, lateWrites, state, acquirer, notifying, rangeID, seq, maxSeq,
                     level, issued, exempt, queueState, saved, queueRead, handover, request>>
  BY Zenon DEF LandUpdate, lifeVars, idVars, queueVars
<1>2. /\ u.ctx \in Contexts /\ u.prev \in RangeIDs /\ u.new \in RangeIDs
      /\ u.queueState \in Nat /\ u.prev \in Nat
  BY BoundsAssumption DEF Inv, TypeOK, StoreTypeOK, UpdateRecords, RangeIDs
<1>3. dbRange \in Nat /\ u.new \in {u.prev, u.prev + 1}
  BY Zenon, RowRange DEF Inv, UpdateInv
\* what does not depend on the row
<1>4. LifeTypeOK' /\ IdTypeOK' /\ QueueTypeOK'
  BY Zenon, <1>1, Frame DEF idVars, queueVars
<1>5. FreshInv' /\ ReadInv' /\ LockInv' /\ RequestInv' /\ RowInv'
  BY Zenon, <1>1, Frame
<1>6. CASE /\ dbRange' = dbRange /\ granted' = granted
           /\ \/ dbQueueState' = dbQueueState
              \/ /\ u.prev = dbRange /\ u.new = dbRange
                 /\ dbQueueState' = u.queueState
  <2>1. StoreTypeOK'
    BY Zenon, <1>1, <1>2, <1>6 DEF Inv, TypeOK, StoreTypeOK
  <2>2. GrantInv' /\ LoadInv' /\ BlockInv' /\ IssuedInv' /\ LateInv'
    BY Zenon, <1>1, <1>6, Frame
  <2>3. UpdateInv'
    BY Zenon, <1>1, <1>6 DEF Inv, UpdateInv
  <2>4. QueueInv'
    BY Zenon, <1>1, <1>6 DEF Inv, QueueInv
  <2>5. SavedStateDurable'
    <3>1. CASE dbQueueState' = dbQueueState
      BY Zenon, <1>1, <1>6, <3>1, Frame
    <3>2. CASE u.prev = dbRange /\ u.new = dbRange /\ dbQueueState' = u.queueState
      BY ZenonT(60), <1>1, <1>6, <3>2 DEF Inv, QueueInv, SavedStateDurable
    <3> QED
      BY Zenon, <1>6, <3>1, <3>2
  <2> QED
    BY ZenonT(60), <1>4, <1>5, <2>1, <2>2, <2>3, <2>4, <2>5 DEF Inv, TypeOK
<1>7. CASE /\ u.prev = dbRange /\ u.new = dbRange + 1 /\ dbRange' = dbRange + 1
           /\ dbQueueState' = u.queueState
           /\ granted' = [granted EXCEPT ![dbRange + 1] = u.ctx]
  <2>1. dbRange' = dbRange + 1 /\ dbRange + 1 \in RangeIDs
    BY ZenonT(60), <1>2, <1>7
  <2>2. \A r \in RangeIDs : /\ r # dbRange + 1 => granted'[r] = granted[r]
                            /\ granted[r] # NoOwner => r # dbRange + 1
    BY SMTT(60), <1>3, <1>7, <2>1 DEF Inv, TypeOK, StoreTypeOK, GrantInv
  <2>3. StoreTypeOK'
    BY ZenonT(60), <1>1, <1>2, <1>7 DEF Inv, TypeOK, StoreTypeOK
  <2>4. GrantInv'
    <3>1. ASSUME NEW r \in RangeIDs, r > dbRange + 1
          PROVE  granted'[r] = NoOwner
      <4>1. r \in Int /\ r > dbRange
        BY SMTT(60), <1>3, <3>1, BoundsAssumption DEF RangeIDs
      <4> QED
        BY SMTT(60), <1>3, <2>2, <3>1, <4>1 DEF Inv, GrantInv
    <3> QED
      BY ZenonT(60), <2>1, <3>1 DEF GrantInv
  <2>5. UpdateInv'
    <3>1. \A v \in lateUpdates : v.prev \in Nat
      BY SMTT(60), BoundsAssumption DEF Inv, TypeOK, StoreTypeOK, UpdateRecords, RangeIDs
    <3> QED
      BY SMTT(60), <1>1, <1>3, <2>1, <3>1 DEF Inv, UpdateInv
  <2>6. LoadInv'
    BY SMTT(60), <1>1, <1>3, <2>1, ContextFacts DEF Inv, LoadInv
  <2>7. BlockInv'
    <3>1. ASSUME NEW d \in Contexts, maxSeq[d] > 0
          PROVE  granted'[rangeID[d]] = d
      BY ZenonT(60), <2>2, <3>1, BlockFacts, NoOwnerAssumption
    <3> QED
      BY Zenon, <1>1, <3>1 DEF Inv, BlockInv
  <2>8. IssuedInv'
    <3>1. \A r \in RangeIDs : granted[r] \in Contexts => granted'[r] = granted[r]
      BY Zenon, <2>2, NoOwnerAssumption
    <3> QED
      BY ZenonT(60), <1>1, <3>1 DEF Inv, IssuedInv
  <2>9. LateInv'
    <3>1. ASSUME NEW v \in lateWrites
          PROVE  /\ v.range <= dbRange + 1 /\ v.range # dbRange + 1
                 /\ granted'[v.range] = granted[v.range]
      <4>1. v.range \in RangeIDs /\ v.range \in Nat /\ v.range <= dbRange
        BY BoundsAssumption DEF Inv, TypeOK, StoreTypeOK, LateInv, WriteRecords, RangeIDs
      <4> QED
        BY SMTT(60), <1>3, <2>2, <4>1
    <3> QED
      BY ZenonT(60), <1>1, <2>1, <3>1 DEF Inv, LateInv
  <2>10. QueueInv'
    <3>1. \A v \in lateUpdates : v.prev # dbRange + 1
      <4>1. \A v \in lateUpdates : v.prev \in Nat /\ v.prev <= dbRange
        BY BoundsAssumption
           DEF Inv, TypeOK, StoreTypeOK, UpdateInv, UpdateRecords, RangeIDs
      <4> QED
        BY SMTT(60), <1>3, <4>1
    <3> QED
      BY ZenonT(60), <1>1, <2>1, <3>1 DEF Inv, QueueInv
  <2>11. SavedStateDurable'
    <3>1. \A d \in Contexts : rangeID[d] # dbRange + 1
      BY <1>3, ContextFacts DEF Inv, LoadInv
    <3> QED
      BY ZenonT(60), <1>1, <2>1, <3>1 DEF SavedStateDurable
  <2> QED
    BY ZenonT(60), <1>4, <1>5, <2>3, <2>4, <2>5, <2>6, <2>7, <2>8, <2>9, <2>10, <2>11
       DEF Inv, TypeOK
<1> QED
  BY Zenon, <1>3, <1>6, <1>7 DEF LandUpdate

\* A write that lands late keeps the invariant.
LEMMA LandWriteStep ==
    ASSUME Inv, NEW w \in lateWrites, LandWrite(w)
    PROVE  Inv'
<1>1. /\ lateWrites' \subseteq lateWrites
      /\ UNCHANGED <<dbRange, dbQueueState, lateUpdates, granted, state, acquirer,
                     notifying, rangeID, seq, maxSeq, level, issued, exempt, queueState,
                     saved, queueRead, handover, request>>
  BY Zenon DEF LandWrite, lifeVars, idVars, queueVars
<1>2. \/ rows' = rows
      \/ w.range = dbRange /\ rows' = rows \cup w.ids
  BY Zenon DEF LandWrite
<1>3. w.ids \subseteq Nat
  BY Zenon DEF Inv, TypeOK, StoreTypeOK, WriteRecords, TaskIDs
<1>4. StoreTypeOK'
  BY Zenon, <1>1, <1>2, <1>3 DEF Inv, TypeOK, StoreTypeOK, TaskIDs
<1>5. /\ LifeTypeOK' /\ IdTypeOK' /\ QueueTypeOK' /\ GrantInv' /\ UpdateInv' /\ LoadInv'
      /\ FreshInv' /\ BlockInv'
  BY Zenon, <1>1, Frame DEF idVars, queueVars
<1>6. /\ ReadInv' /\ IssuedInv' /\ LockInv' /\ RequestInv' /\ QueueInv'
      /\ SavedStateDurable'
  BY Zenon, <1>1, Frame
<1>7. LateInv'
  BY Zenon, <1>1 DEF Inv, LateInv
<1>0. UNCHANGED <<issued, state, acquirer, level>>
  BY Zenon, <1>1
<1>8. RowInv'
  <2>1. CASE rows' = rows
    BY Zenon, <1>0, <2>1, Frame
  <2>2. CASE w.range = dbRange /\ rows' = rows \cup w.ids
    <3>1. PICK d \in Contexts : d = granted[w.range]
      BY Zenon DEF Inv, LateInv
    <3>2. /\ w.ids \subseteq issued[d] /\ state[d] # "Acquired"
          /\ acquirer[d] # "transition"
      BY ZenonT(60), <2>2, <3>1 DEF Inv, LateInv
    <3>3. \A c \in Contexts \ {d} : w.ids \cap issued[c] = {}
      BY Zenon, <3>2, InvUnique DEF UniqueTaskIDs
    <3> QED
      BY ZenonT(60), <1>0, <2>2, <3>2, <3>3 DEF Inv, RowInv
  <2> QED
    BY Zenon, <1>2, <2>1, <2>2
<1> QED
  BY Zenon, <1>4, <1>5, <1>6, <1>7, <1>8 DEF Inv, TypeOK

\* A read of the queue keeps the invariant.
LEMMA ReadQueueStep ==
    ASSUME Inv, NEW c \in Contexts, ReadQueue(c)
    PROVE  Inv'
<1>1. /\ queueRead' = [queueRead EXCEPT ![c] = level[c]]
      /\ UNCHANGED <<storeVars, lifeVars, idVars, queueState, saved, handover, request>>
  BY Zenon DEF ReadQueue
<1>2. UNCHANGED <<dbRange, dbQueueState, rows, lateWrites, lateUpdates, granted,
                  state, acquirer, notifying, rangeID, seq, maxSeq, level, issued, exempt>>
  BY Zenon, <1>1 DEF storeVars, lifeVars, idVars
<1>3. QueueTypeOK'
  BY ZenonT(60), <1>1, ContextFacts DEF Inv, TypeOK, QueueTypeOK
<1>4. ReadInv'
  BY SMTT(60), <1>1, <1>2, ContextFacts DEF Inv, TypeOK, QueueTypeOK, ReadInv
<1>5. /\ StoreTypeOK' /\ LifeTypeOK' /\ IdTypeOK' /\ GrantInv' /\ UpdateInv' /\ LoadInv'
      /\ FreshInv' /\ BlockInv' /\ IssuedInv' /\ LockInv'
  BY Zenon, <1>1, <1>2, Frame
<1>6. /\ RequestInv' /\ LateInv' /\ RowInv' /\ QueueInv'
      /\ SavedStateDurable'
  BY Zenon, <1>1, <1>2, Frame
<1> QED
  BY Zenon, <1>3, <1>4, <1>5, <1>6 DEF Inv, TypeOK

\* What such a step does to the request of the context and to the calls with
\* unknown outcome.
GivenUp(c, s, p) ==
    \/ request' = [request EXCEPT ![c] = Idle]
    \/ /\ request' = request
       /\ request[c].kind \in WriteKinds =>
             s \notin {"Initialized", "Acquiring"} /\ p = "none"

UpdatesMayLand(c, s, p) ==
    /\ lateUpdates' \in SUBSET UpdateRecords
    /\ \A u \in lateUpdates' \ lateUpdates :
          \/ u.new = u.prev + 1 /\ u.prev = rangeID[c]
          \/ /\ u.new = u.prev /\ u.ctx = c /\ u.prev = rangeID[c]
             /\ maxSeq[c] > 0 /\ u.queueState >= saved[c]
             /\ s # "Acquired" /\ p # "transition"

WritesMayLand(c, s, p) ==
    /\ lateWrites' \in SUBSET WriteRecords
    /\ \A w \in lateWrites' \ lateWrites :
          /\ w.range = rangeID[c] /\ maxSeq[c] > 0 /\ w.ids \subseteq issued[c]
          /\ \A i \in w.ids : i >= RangeStart(rangeID[c]) => i >= level[c]
          /\ s # "Acquired" /\ p # "transition" /\ request'[c] = Idle

RestKept ==
    UNCHANGED <<dbRange, dbQueueState, rows, granted, idVars, saved, queueRead,
                handover>>

QueueStatesGrow ==
    /\ queueState' \in [Contexts -> Nat]
    /\ \A d \in Contexts : queueState'[d] >= queueState[d]

\* A step that changes no more than a context's state, the request it gives up,
\* its queue state and the calls with unknown outcome.
LEMMA MovedLateKeepsInv ==
    ASSUME Inv, NEW c \in Contexts, NEW s \in States, NEW p \in AcquirerPCs,
           NEW pc \in {acquirer[c], "none"}, Moved(c, s, p, pc),
           notifying' \in SUBSET Contexts,
           GivenUp(c, s, p), UpdatesMayLand(c, s, p), WritesMayLand(c, s, p),
           QueueStatesGrow, RestKept
    PROVE  Inv'
<1>1. UNCHANGED <<dbRange, dbQueueState, rows, granted, rangeID, seq, maxSeq, level,
                  issued, exempt, saved, queueRead, handover>>
  BY Zenon DEF RestKept, idVars
<1>2. LifeTypeOK'
  BY Zenon, IdleFacts DEF Inv, TypeOK, LifeTypeOK, Moved, GivenUp
<1>3. StoreTypeOK' /\ IdTypeOK' /\ QueueTypeOK'
  BY Zenon, <1>1 DEF Inv, TypeOK, StoreTypeOK, IdTypeOK, QueueTypeOK, UpdatesMayLand,
              WritesMayLand, QueueStatesGrow
\* what the move may do to a context
<1>4. ASSUME NEW d \in Contexts
      PROVE  /\ state'[d] = "Acquired" =>
                   state[d] = "Acquired" /\ acquirer'[d] \in {acquirer[d], "none"}
             /\ acquirer'[d] = "transition" => acquirer[d] = "transition"
             /\ acquirer'[d] = "renew" => acquirer[d] = "renew"
             /\ request'[d] \in {request[d], Idle}
  BY Zenon DEF Inv, TypeOK, LifeTypeOK, Moved, GivenUp
<1>5. GrantInv' /\ BlockInv' /\ ReadInv' /\ IssuedInv'
      /\ SavedStateDurable'
  BY Zenon, <1>1, Frame
<1>6. UpdateInv'
  BY Zenon, <1>1 DEF Inv, UpdateInv, LoadInv, UpdatesMayLand
<1>7. LoadInv'
  BY Zenon, <1>1, <1>4 DEF Inv, LoadInv
<1>8. FreshInv'
  BY Zenon, <1>1, <1>4 DEF Inv, FreshInv
<1>9. LockInv'
  <2>1. \A d \in Contexts : state'[d] = "Acquired" => acquirer'[d] = "none"
    BY Zenon, <1>4 DEF Inv, LockInv
  <2>2. ASSUME NEW d \in Contexts, request'[d].kind \in WriteKinds
        PROVE  /\ acquirer'[d] = "none"
               /\ state'[d] \notin {"Initialized", "Acquiring"}
    BY ZenonT(60), <1>1, <2>2, IdleFacts DEF Inv, TypeOK, LifeTypeOK, LockInv, Moved, GivenUp
  <2> QED
    BY Zenon, <1>1, <2>1, <2>2 DEF LockInv
<1>10. RequestInv'
  <2> SUFFICES ASSUME NEW d \in Contexts
               PROVE  /\ request'[d].newLevel <= seq[d]
                      /\ \A i \in request'[d].ids :
                            /\ i \in issued[d] /\ i < request'[d].newLevel
                            /\ i >= RangeStart(rangeID[d]) => i >= level[d]
    BY Zenon, <1>1 DEF RequestInv
  <2>1. CASE request'[d] = request[d]
    BY Zenon, <2>1 DEF Inv, RequestInv
  <2>2. CASE request'[d] = Idle
    BY Zenon, <2>2, IdleFacts, ContextFacts, Order
  <2> QED
    BY Zenon, <1>4, <2>1, <2>2
<1>11. LateInv'
  <2> SUFFICES ASSUME NEW w \in lateWrites'
               PROVE  /\ w.range <= dbRange
                      /\ granted[w.range] \in Contexts
                      /\ w.ids \subseteq issued[granted[w.range]]
                      /\ \A d \in Contexts : d = granted[w.range] /\ w.range = dbRange =>
                            /\ state'[d] # "Acquired" /\ acquirer'[d] # "transition"
                            /\ request'[d].kind \notin WriteKinds
                            /\ \A i \in w.ids :
                                  i >= RangeStart(dbRange) => i >= level[d]
    BY Zenon, <1>1 DEF LateInv
  <2>1. CASE w \in lateWrites
    BY ZenonT(60), <1>4, <2>1, IdleFacts DEF Inv, LateInv
  <2>2. CASE w \notin lateWrites
    <3>1. /\ w.range = rangeID[c] /\ maxSeq[c] > 0 /\ w.ids \subseteq issued[c]
          /\ \A i \in w.ids : i >= RangeStart(rangeID[c]) => i >= level[c]
          /\ s # "Acquired" /\ p # "transition" /\ request'[c] = Idle
      BY Zenon, <2>2 DEF WritesMayLand
    <3>2. state'[c] = s /\ acquirer'[c] = p
      BY Zenon DEF Moved, Inv, TypeOK, LifeTypeOK
    <3>3. /\ w.range <= dbRange /\ granted[w.range] = c
          /\ w.range = dbRange =>
                \A i \in w.ids : i >= RangeStart(dbRange) => i >= level[c]
      BY Zenon, <3>1, BlockFacts
    <3>4. request'[c].kind \notin WriteKinds
      BY Zenon, <3>1, IdleFacts
    <3> QED
      BY Zenon, <3>1, <3>2, <3>3, <3>4
  <2> QED
    BY Zenon, <2>1, <2>2
<1>12. RowInv'
  BY Zenon, <1>1, <1>4 DEF Inv, RowInv
<1>13. QueueInv'
  <2>1. \A d \in Contexts : saved'[d] <= queueState'[d]
    <3> SUFFICES ASSUME NEW d \in Contexts PROVE saved[d] <= queueState'[d]
      BY Zenon, <1>1
    <3>1. saved[d] <= queueState[d] /\ queueState'[d] >= queueState[d]
      BY Zenon DEF Inv, QueueInv, QueueStatesGrow
    <3>2. saved[d] \in Nat /\ queueState[d] \in Nat /\ queueState'[d] \in Nat
      BY Zenon, ContextFacts DEF QueueStatesGrow
    <3> QED
      BY Zenon, <3>1, <3>2, Order
  <2>2. ASSUME NEW u \in lateUpdates', u.new = u.prev /\ u.prev = dbRange
        PROVE  /\ granted[dbRange] = u.ctx
               /\ state'[u.ctx] # "Acquired" /\ acquirer'[u.ctx] # "transition"
               /\ u.queueState >= saved[u.ctx]
    <3>1. u.ctx \in Contexts /\ u.prev \in Int
      BY BoundsAssumption DEF UpdatesMayLand, UpdateRecords, RangeIDs
    <3>2. CASE u \in lateUpdates
      BY Zenon, <1>4, <2>2, <3>1, <3>2 DEF Inv, QueueInv
    <3>3. CASE u \notin lateUpdates
      <4>1. /\ u.ctx = c /\ maxSeq[c] > 0 /\ u.prev = rangeID[c]
            /\ u.queueState >= saved[c] /\ s # "Acquired" /\ p # "transition"
        BY <2>2, <3>1, <3>3 DEF UpdatesMayLand
      <4>2. state'[c] = s /\ acquirer'[c] = p
        BY Zenon DEF Moved, Inv, TypeOK, LifeTypeOK
      <4> QED
        BY ZenonT(60), <2>2, <4>1, <4>2, BlockFacts
    <3> QED
      BY Zenon, <3>2, <3>3
  <2> QED
    BY Zenon, <1>1, <2>1, <2>2 DEF QueueInv
<1> QED
  BY Zenon, <1>2, <1>3, <1>5, <1>6, <1>7, <1>8, <1>9, <1>10, <1>11, <1>12, <1>13
     DEF Inv, TypeOK

\* What a failed UpdateShard leaves behind: at most the update itself, on its way,
\* and only when its outcome is unknown
LeavesUpdate(c, new, err) ==
    /\ lateUpdates' \in SUBSET UpdateRecords
    /\ \A u \in lateUpdates' \ lateUpdates :
          /\ err = "unknown" /\ u.ctx = c /\ u.prev = rangeID[c]
          /\ u.new = new /\ u.queueState = queueState'[c]
    /\ err \in WriteErrors
    /\ UNCHANGED <<dbRange, dbQueueState, rows, lateWrites, granted>>

\* An update of the shard that fails leaves the store alone, and may land late.
LEMMA UpdateShardErrorLate ==
    ASSUME Inv, NEW c \in Contexts, NEW new \in Nat, NEW err,
           rangeID[c] \in RangeIDs, queueState' \in [Contexts -> Nat],
           UpdateShardError(c, new, err)
    PROVE  LeavesUpdate(c, new, err)
<1> DEFINE u == [ctx |-> c, prev |-> rangeID[c], new |-> new,
                 queueState |-> queueState'[c]]
<1>1. ASSUME new <= MaxRangeID PROVE u \in UpdateRecords
  <2>1. new \in RangeIDs
    BY <1>1, BoundsAssumption DEF RangeIDs
  <2>2. queueState'[c] \in Nat
    BY Zenon
  <2> QED
    BY Zenon, <2>1, <2>2 DEF UpdateRecords
<1>2. \/ lateUpdates' = lateUpdates
      \/ new <= MaxRangeID /\ err = "unknown" /\ lateUpdates' = lateUpdates \cup {u}
  BY Zenon DEF UpdateShardError
<1>3. lateUpdates' \in SUBSET UpdateRecords
  BY Zenon, <1>1, <1>2 DEF Inv, TypeOK, StoreTypeOK
<1>4. \A v \in lateUpdates' \ lateUpdates :
         /\ err = "unknown" /\ v.ctx = c /\ v.prev = rangeID[c]
         /\ v.new = new /\ v.queueState = queueState'[c]
  BY <1>2
<1> QED
  BY Zenon, <1>3, <1>4 DEF UpdateShardError, LeavesUpdate

\* An update of the queue state keeps the invariant.
LEMMA SetQueueStateStep ==
    ASSUME Inv, NEW c \in Contexts, SetQueueState(c)
    PROVE  Inv'
<1>1. /\ request[c] = Idle /\ maxSeq[c] > 0
      /\ queueState' = [queueState EXCEPT ![c] = @ + 1]
      /\ UNCHANGED <<notifying, rangeID, seq, maxSeq, level, issued, exempt, queueRead,
                     handover, request>>
  BY ZenonT(60) DEF SetQueueState, Unlocked, HasEngine, idVars
<1>2. /\ queueState' \in [Contexts -> Nat] /\ queueState'[c] \in Nat
      /\ \A d \in Contexts : queueState'[d] >= queueState[d]
      /\ queueState'[c] >= saved[c]
  BY SMTT(60), <1>1, ContextFacts DEF Inv, TypeOK, QueueTypeOK, QueueInv
<1>3. rangeID[c] \in RangeIDs /\ rangeID[c] \in Nat /\ granted[rangeID[c]] = c
  BY Zenon, <1>1, BlockFacts
<1>4. UNCHANGED <<seq, maxSeq, level, issued, exempt, rangeID, request, notifying, queueRead,
                  handover>>
  BY Zenon, <1>1
<1>5. CASE UNCHANGED <<storeVars, state, acquirer, saved>>
  <2>1. UNCHANGED <<dbRange, dbQueueState, rows, lateWrites, lateUpdates, granted,
                    state, acquirer, saved>>
    BY Zenon, <1>5 DEF storeVars
  <2>2. QueueTypeOK'
    BY ZenonT(60), <1>2, <1>4, <2>1 DEF Inv, TypeOK, QueueTypeOK
  <2>3. QueueInv'
    <3>1. \A d \in Contexts : saved[d] <= queueState'[d]
      BY ZenonT(60), <1>2, ContextFacts, Order DEF Inv, QueueInv
    <3> QED
      BY Zenon, <2>1, <3>1 DEF Inv, QueueInv
  <2>4. /\ StoreTypeOK' /\ LifeTypeOK' /\ IdTypeOK' /\ GrantInv' /\ UpdateInv'
        /\ LoadInv' /\ FreshInv' /\ BlockInv' /\ ReadInv'
    BY Zenon, <1>4, <2>1, Frame DEF storeVars, idVars
  <2>5. /\ IssuedInv' /\ LockInv' /\ RequestInv' /\ LateInv' /\ RowInv'
        /\ SavedStateDurable'
    BY Zenon, <1>4, <2>1, Frame
  <2> QED
    BY Zenon, <2>2, <2>3, <2>4, <2>5 DEF Inv, TypeOK
<1>6. CASE /\ state[c] = "Acquired"
           /\ UpdateShardOK(c, rangeID[c])
           /\ saved' = [saved EXCEPT ![c] = queueState'[c]]
           /\ UNCHANGED <<state, acquirer>>
  <2>1. /\ dbRange = rangeID[c] /\ dbQueueState' = queueState'[c]
        /\ UNCHANGED <<dbRange, granted, rows, lateWrites, lateUpdates, state, acquirer>>
    BY Zenon, <1>6 DEF UpdateShardOK
  <2>2. saved'[c] = queueState'[c]
    BY Zenon, <1>6 DEF Inv, TypeOK, QueueTypeOK
  <2>3. \A d \in Contexts : d # c => saved'[d] = saved[d]
    BY Zenon, <1>6 DEF Inv, TypeOK, QueueTypeOK
  <2>4. StoreTypeOK'
    BY Zenon, <1>2, <2>1 DEF Inv, TypeOK, StoreTypeOK
  <2>5. QueueTypeOK'
    BY Zenon, <1>2, <1>4, <1>6 DEF Inv, TypeOK, QueueTypeOK
  <2>6. /\ LifeTypeOK' /\ IdTypeOK' /\ GrantInv' /\ UpdateInv' /\ LoadInv'
        /\ BlockInv' /\ ReadInv'
    BY Zenon, <1>4, <2>1, Frame DEF idVars
  <2>7. /\ IssuedInv' /\ LockInv' /\ RequestInv' /\ LateInv' /\ RowInv'
    BY ZenonT(60), <1>4, <2>1, Frame
  <2>8. FreshInv'
    BY SMTT(60), <1>1, <2>1, <2>3 DEF Inv, FreshInv
  <2>9. QueueInv'
    <3>1. \A d \in Contexts : saved'[d] <= queueState'[d]
      BY SMTT(60), <1>2, <2>2, <2>3, ContextFacts DEF Inv, QueueInv
    <3>2. \A u \in lateUpdates : u.new = u.prev /\ u.prev = dbRange => u.ctx # c
      BY ZenonT(60), <1>6 DEF Inv, QueueInv
    <3>3. \A u \in lateUpdates : u.ctx \in Contexts
      BY ZenonT(60) DEF Inv, TypeOK, StoreTypeOK, UpdateRecords
    <3> QED
      BY ZenonT(60), <2>1, <2>3, <3>1, <3>2, <3>3 DEF Inv, QueueInv
  <2>10. SavedStateDurable'
    <3>1. queueState'[c] >= queueState'[c]
      BY Zenon, <1>2, Order
    <3> QED
      BY ZenonT(60), <1>2, <1>3, <1>4, <2>1, <2>2, <3>1 DEF SavedStateDurable
  <2> QED
    BY Zenon, <2>4, <2>5, <2>6, <2>7, <2>8, <2>9, <2>10 DEF Inv, TypeOK
<1>7. ASSUME NEW err \in WriteErrors, state[c] = "Acquired",
             UpdateShardError(c, rangeID[c], err),
             Transition(c, WriteErrorRequest(err), acquirer[c]), UNCHANGED saved
      PROVE  Inv'
  <2>1. acquirer[c] \in AcquirerPCs /\ acquirer[c] = "none" /\ TypeOK
    BY Zenon, <1>7, ContextFacts DEF Inv, LockInv
  <2>2. PICK s \in States, p \in AcquirerPCs :
           Moved(c, s, p, acquirer[c]) /\ (err = "unknown" => s # "Acquired")
    BY Zenon, <1>7, <2>1, WriteErrorRequests, TransitionMoves
  <2>3. p # "transition"
    BY ZenonT(60), <2>1, <2>2 DEF Moved
  <2>4. /\ lateUpdates' \in SUBSET UpdateRecords
        /\ \A u \in lateUpdates' \ lateUpdates :
              /\ u.new = rangeID[c] /\ u.prev = rangeID[c] /\ u.ctx = c
              /\ u.queueState = queueState'[c] /\ err = "unknown"
        /\ UNCHANGED <<dbRange, dbQueueState, rows, lateWrites, granted>>
    <3>1. LeavesUpdate(c, rangeID[c], err)
      BY ZenonT(60), <1>2, <1>3, <1>7, UpdateShardErrorLate
    <3> QED
      BY ZenonT(60), <3>1 DEF LeavesUpdate
  <2>5. UpdatesMayLand(c, s, p)
    BY Zenon, <1>1, <1>2, <2>2, <2>3, <2>4 DEF UpdatesMayLand
  <2>6. WritesMayLand(c, s, p) /\ RestKept
    BY ZenonT(60), <1>4, <1>7, <2>4 DEF Inv, TypeOK, StoreTypeOK, WritesMayLand, RestKept, idVars
  <2>7. GivenUp(c, s, p) /\ QueueStatesGrow /\ notifying' \in SUBSET Contexts
    BY Zenon, <1>1, <1>2, IdleFacts DEF Inv, TypeOK, LifeTypeOK, GivenUp, QueueStatesGrow
  <2> QED
    BY Zenon, <2>2, <2>5, <2>6, <2>7, MovedLateKeepsInv
<1> QED
  BY Zenon, <1>5, <1>6, <1>7 DEF SetQueueState

\* The request that the context gives up may still land, unless it stays Acquired.
LEMMA PersistWriteErrorStep ==
    ASSUME Inv, NEW c \in Contexts, PersistWriteError(c)
    PROVE  Inv'
<1> DEFINE w == [range |-> rangeID[c], ids |-> request[c].ids]
<1>1. /\ request[c].kind \in WriteKinds /\ acquirer[c] = "none"
  BY Zenon DEF PersistWriteError, Inv, LockInv
<1>2. /\ request' = [request EXCEPT ![c] = Idle]
      /\ UNCHANGED <<dbRange, dbQueueState, rows, lateUpdates, granted, notifying,
                     idVars, queueVars>>
  BY Zenon DEF PersistWriteError
<1>3. PICK err \in WriteErrors :
         /\ lateWrites' = IF err = "unknown" /\ Cardinality(lateWrites) < MaxLate
                          THEN lateWrites \cup {w} ELSE lateWrites
         /\ Transition(c, WriteErrorRequest(err), acquirer[c])
  BY Zenon DEF PersistWriteError
<1>4. PICK s \in States, p \in AcquirerPCs :
         Moved(c, s, p, acquirer[c]) /\ (err = "unknown" => s # "Acquired")
  <2>1. acquirer[c] \in AcquirerPCs /\ TypeOK
    BY Zenon, ContextFacts DEF Inv
  <2> QED
    BY Zenon, <1>3, <2>1, WriteErrorRequests, TransitionMoves
<1>5. request[c] # Idle /\ maxSeq[c] > 0
  BY Zenon, <1>1, IdleFacts, EngineFacts
<1>6. /\ request[c].ids \subseteq issued[c] /\ request[c].ids \subseteq Nat
      /\ \A i \in request[c].ids : i >= RangeStart(rangeID[c]) => i >= level[c]
  BY Zenon, ContextFacts DEF Inv, RequestInv
<1>7. w \in WriteRecords /\ w.range = rangeID[c] /\ w.ids = request[c].ids
  BY Zenon, <1>5, <1>6, BlockFacts DEF WriteRecords, TaskIDs
<1>8. /\ lateWrites' \subseteq lateWrites \cup {w}
      /\ w \in lateWrites' \ lateWrites => s # "Acquired"
  BY Zenon, <1>3, <1>4
<1> HIDE DEF w
<1>9. p # "transition" /\ request'[c] = Idle
  BY Zenon, <1>1, <1>2, <1>4 DEF Moved, Inv, TypeOK, LifeTypeOK
<1>10. WritesMayLand(c, s, p)
  <2>1. lateWrites' \in SUBSET WriteRecords
    BY Zenon, <1>7, <1>8 DEF Inv, TypeOK, StoreTypeOK
  <2> QED
    BY Zenon, <1>1, <1>5, <1>6, <1>7, <1>8, <1>9, <2>1 DEF WritesMayLand
<1>11. UpdatesMayLand(c, s, p) /\ GivenUp(c, s, p) /\ notifying' \in SUBSET Contexts
  BY Zenon, <1>2 DEF Inv, TypeOK, StoreTypeOK, LifeTypeOK, UpdatesMayLand, GivenUp
<1>12. QueueStatesGrow /\ RestKept
  BY <1>2 DEF Inv, TypeOK, QueueTypeOK, queueVars, QueueStatesGrow, RestKept
<1> QED
  BY ZenonT(60), <1>4, <1>10, <1>11, <1>12, MovedLateKeepsInv

\* A request that begins with no ID yet, or that ends, changes only request[c].
LEMMA RequestKeepsInv ==
    ASSUME Inv, NEW c \in Contexts, NEW q \in RequestRecords,
           request' = [request EXCEPT ![c] = q],
           q = Idle \/ maxSeq[c] > 0,
           q.kind \in WriteKinds => state[c] = "Acquired",
           q.ids = {}, q.newLevel = 0,
           UNCHANGED <<storeVars, lifeVars, idVars, queueVars>>
    PROVE  Inv'
<1>1. UNCHANGED <<dbRange, dbQueueState, rows, lateWrites, lateUpdates, granted,
                  state, acquirer, notifying, rangeID, seq, maxSeq, level, issued, exempt,
                  queueState, saved, queueRead, handover>>
  BY Zenon DEF storeVars, lifeVars, idVars, queueVars
<1>2. StoreTypeOK' /\ IdTypeOK' /\ QueueTypeOK'
  BY Zenon, Frame
<1>3. /\ LifeTypeOK' /\ request'[c] = q
      /\ \A d \in Contexts : d # c => request'[d] = request[d]
  BY Zenon, <1>1 DEF Inv, TypeOK, LifeTypeOK
<1>4. /\ GrantInv' /\ UpdateInv' /\ LoadInv' /\ BlockInv' /\ ReadInv' /\ IssuedInv'
      /\ RowInv' /\ QueueInv' /\ SavedStateDurable'
  BY Zenon, <1>1, Frame
<1>5. FreshInv'
  BY Zenon, <1>1, <1>3, Order DEF Inv, FreshInv
<1>6. LockInv'
  BY ZenonT(60), <1>1, <1>3 DEF Inv, LockInv
<1>7. RequestInv'
  <2>1. 0 <= seq[c]
    BY Zenon, ContextFacts, Order
  <2> QED
    BY ZenonT(60), <1>1, <1>3, <2>1 DEF Inv, RequestInv
<1>8. LateInv'
  BY ZenonT(60), <1>1, <1>3 DEF Inv, LateInv
<1> QED
  BY Zenon, <1>2, <1>3, <1>4, <1>5, <1>6, <1>7, <1>8 DEF Inv, TypeOK

\* The start of a write or of a task ID generation keeps the invariant.
LEMMA BeginSteps ==
    ASSUME Inv, NEW c \in Contexts,
           \/ BeginWrite(c) \/ BeginOtherWrite(c) \/ DeleteWorkflowExecution(c)
           \/ BeginGenerate(c)
    PROVE  Inv'
<1>1. ASSUME NEW k \in WriteKinds \cup {"generate"}, NEW n \in Nat, maxSeq[c] > 0,
             request' = [request EXCEPT ![c] = [Idle EXCEPT !.kind = k, !.need = n]],
             k \in WriteKinds => state[c] = "Acquired",
             UNCHANGED <<storeVars, lifeVars, idVars, queueVars>>
      PROVE  Inv'
  <2> DEFINE q == [Idle EXCEPT !.kind = k, !.need = n]
  <2>1. q \in RequestRecords /\ q.kind = k /\ q.ids = {} /\ q.newLevel = 0
    BY Zenon DEF Idle, RequestRecords, TaskIDs
  <2>2. request' = [request EXCEPT ![c] = q]
    BY Zenon, <1>1
  <2> HIDE DEF q
  <2> QED
    BY Zenon, <1>1, <2>1, <2>2, RequestKeepsInv
<1>2. ASSUME NEW k \in WriteKinds, NEW n \in Nat, AddTasks(c, k, n)
      PROVE  Inv'
  BY Zenon, <1>1, <1>2, EngineFacts DEF AddTasks
<1>3. /\ 0 .. MaxBatch \subseteq Nat /\ 1 .. MaxGenerate \subseteq Nat /\ 1 \in Nat
      /\ {"write", "other", "delete"} \subseteq WriteKinds
  BY BoundsAssumption DEF WriteKinds, ExemptKinds
<1>4. CASE BeginWrite(c) \/ BeginOtherWrite(c) \/ DeleteWorkflowExecution(c)
  BY Zenon, <1>2, <1>3, <1>4
     DEF BeginWrite, BeginOtherWrite, DeleteWorkflowExecution
<1>5. CASE BeginGenerate(c)
  BY Zenon, <1>1, <1>3, <1>5, IdleFacts DEF BeginGenerate, HasEngine
<1> QED
  BY Zenon, <1>4, <1>5

\* The end of a task ID generation keeps the invariant.
LEMMA EndGenerateStep ==
    ASSUME Inv, NEW c \in Contexts, EndGenerate(c)
    PROVE  Inv'
BY Zenon, IdleFacts, RequestKeepsInv DEF EndGenerate

-----------------------------------------------------------------------------
(* Starting, acquiring, renewing the range, stopping and the handover *)

\* Every ID a context has issued is from a range that the row has reached.
LEMMA IssuedBelowNextRange ==
    ASSUME Inv, NEW c \in Contexts, NEW i \in issued[c]
    PROVE  i \in Nat /\ i < RangeStart(dbRange + 1)
<1>1. PICK r \in RangeIDs : granted[r] = c /\ i < RangeStart(r + 1)
  BY Zenon DEF Inv, IssuedInv
<1>2. i \in Nat /\ r \in Nat /\ dbRange \in Nat
  BY ContextFacts, RowRange, BoundsAssumption DEF RangeIDs
<1>3. r <= dbRange
  BY <1>1, <1>2, NoOwnerAssumption DEF Inv, GrantInv
<1>4. RangeStart(r + 1) <= RangeStart(dbRange + 1)
  BY <1>2, <1>3, RangeStartFacts
<1>5. RangeStart(r + 1) \in Nat /\ RangeStart(dbRange + 1) \in Nat
  BY <1>2, RangeStartFacts
<1> QED
  BY <1>1, <1>2, <1>4, <1>5

\* renewRangeLocked succeeds, for acquireShard or in the middle of a request.
LEMMA RenewKeepsInv ==
    ASSUME Inv, NEW c \in Contexts, RenewRangeOK(c), NEW p \in AcquirerPCs,
           acquirer' = [acquirer EXCEPT ![c] = p],
           state[c] = "Acquired" \/ request[c].kind \in WriteKinds => p = acquirer[c],
           UNCHANGED <<state, notifying, request>>
    PROVE  Inv'
<1> DEFINE new == dbRange + 1
<1>next. rangeID[c] = dbRange /\ new <= MaxRangeID
  BY Zenon DEF RenewRangeOK, UpdateShardOK
<1>1. /\ rangeID[c] = dbRange /\ dbRange \in Nat /\ new \in Nat /\ new \in RangeIDs
      /\ new # dbRange
  BY Zenon, <1>next, NextRange
<1>2. /\ dbRange' = new
      /\ granted' = [granted EXCEPT ![new] = c]
      /\ rangeID' = [rangeID EXCEPT ![c] = new]
      /\ seq' = [seq EXCEPT ![c] = RangeStart(new)]
      /\ maxSeq' = [maxSeq EXCEPT ![c] = RangeStart(new + 1)]
      /\ level' = [level EXCEPT ![c] = RangeStart(new)]
      /\ saved' = [saved EXCEPT ![c] = queueState[c]]
      /\ dbQueueState' = queueState[c]
  BY Zenon, <1>1 DEF RenewRangeOK, UpdateShardOK
<1>0. UNCHANGED <<rows, lateWrites, lateUpdates, queueState, queueRead, handover,
                  issued, exempt>>
  BY Zenon DEF RenewRangeOK, UpdateShardOK
<1>row. dbRange' = new /\ dbQueueState' = queueState[c]
  BY Zenon, <1>2
<1>3. /\ RangeStart(new) \in Nat /\ RangeStart(new + 1) \in Nat
      /\ 0 < RangeStart(new) /\ RangeStart(new) < RangeStart(new + 1)
      /\ RangeStart(new) <= RangeStart(new + 1)
  BY Zenon, <1>next, NextRange
<1>4. /\ seq[c] <= RangeStart(new) /\ queueRead[c] <= RangeStart(new)
      /\ request[c].newLevel <= RangeStart(new)
  BY Zenon, <1>next, NextRange
<1>5. \A r \in RangeIDs : granted[r] # NoOwner => r # new /\ granted'[r] = granted[r]
  BY <1>1, <1>2 DEF Inv, TypeOK, StoreTypeOK, GrantInv
<1>6. \A i \in issued[c] : i \in Nat /\ i < RangeStart(new)
  BY Zenon, IssuedBelowNextRange
<1> HIDE DEF new
<1>7. StoreTypeOK' /\ LifeTypeOK' /\ IdTypeOK' /\ QueueTypeOK'
  <2>1. StoreTypeOK'
    BY Zenon, <1>0, <1>1, <1>2, ContextFacts DEF Inv, TypeOK, StoreTypeOK
  <2>2. LifeTypeOK'
    BY Zenon DEF Inv, TypeOK, LifeTypeOK
  <2>3. IdTypeOK'
    BY Zenon, <1>0, <1>1, <1>2, <1>3 DEF Inv, TypeOK, IdTypeOK
  <2>4. QueueTypeOK'
    BY Zenon, <1>0, <1>2, ContextFacts DEF Inv, TypeOK, QueueTypeOK
  <2> QED
    BY Zenon, <2>1, <2>2, <2>3, <2>4
\* the numbers of every context after the renewal
<1>8. /\ rangeID'[c] = new /\ seq'[c] = RangeStart(new) /\ level'[c] = RangeStart(new)
      /\ maxSeq'[c] = RangeStart(new + 1) /\ saved'[c] = queueState[c]
      /\ acquirer'[c] = p
  BY Zenon, <1>2 DEF Inv, TypeOK, IdTypeOK, QueueTypeOK, LifeTypeOK
<1>9. ASSUME NEW d \in Contexts, d # c
      PROVE  /\ rangeID'[d] = rangeID[d] /\ seq'[d] = seq[d] /\ level'[d] = level[d]
             /\ maxSeq'[d] = maxSeq[d] /\ saved'[d] = saved[d]
             /\ acquirer'[d] = acquirer[d]
  BY Zenon, <1>2, <1>9 DEF Inv, TypeOK, IdTypeOK, QueueTypeOK, LifeTypeOK
<1>10. GrantInv'
  <2> SUFFICES ASSUME NEW r \in RangeIDs, r > new PROVE granted'[r] = NoOwner
    BY Zenon, <1>row DEF GrantInv
  <2>1. r > dbRange /\ r # new
    BY Zenon, <1>next, NextRange DEF new
  <2> QED
    BY Zenon, <1>2, <2>1 DEF Inv, TypeOK, StoreTypeOK, GrantInv
<1>11. UpdateInv'
  <2>1. \A u \in lateUpdates : u.prev <= new
    BY Zenon, <1>next, NextRange DEF new
  <2> QED
    BY Zenon, <1>0, <1>row, <2>1 DEF Inv, UpdateInv
<1>12. LoadInv'
  <2> SUFFICES ASSUME NEW d \in Contexts
               PROVE  /\ rangeID'[d] <= new
                      /\ acquirer'[d] \in {"renew", "transition"} =>
                            rangeID'[d] \in RangeIDs
    BY Zenon, <1>row DEF LoadInv
  <2>1. CASE d = c
    BY Zenon, <1>1, <1>8, <2>1, Order
  <2>2. CASE d # c
    <3>1. rangeID[d] <= new
      BY Zenon, <1>next, NextRange DEF new
    <3> QED
      BY Zenon, <1>9, <2>2, <3>1 DEF Inv, LoadInv
  <2> QED
    BY Zenon, <2>1, <2>2
<1>13. FreshInv'
  BY <1>0, <1>3, <1>8, <1>9 DEF Inv, FreshInv
<1>14. BlockInv'
  <2> SUFFICES ASSUME NEW d \in Contexts, maxSeq'[d] > 0
               PROVE  /\ rangeID'[d] \in RangeIDs /\ granted'[rangeID'[d]] = d
                      /\ maxSeq'[d] = RangeStart(rangeID'[d] + 1)
                      /\ RangeStart(rangeID'[d]) <= level'[d]
                      /\ level'[d] <= seq'[d] /\ seq'[d] <= maxSeq'[d]
    BY ZenonT(60) DEF BlockInv
  <2>1. CASE d = c
    <3>1. granted'[new] = c
      BY Zenon, <1>1, <1>2 DEF Inv, TypeOK, StoreTypeOK
    <3> QED
      BY Zenon, <1>1, <1>3, <1>8, <2>1, <3>1, Order
  <2>2. CASE d # c
    <3>1. maxSeq[d] > 0
      BY Zenon, <1>9, <2>2
    <3>2. granted'[rangeID[d]] = d
      BY ZenonT(60), <1>5, <3>1, BlockFacts, NoOwnerAssumption
    <3> QED
      BY Zenon, <1>9, <2>2, <3>1, <3>2, BlockFacts
  <2> QED
    BY Zenon, <2>1, <2>2
<1>15. ReadInv'
  <2> SUFFICES ASSUME NEW d \in Contexts PROVE queueRead[d] <= level'[d]
    BY Zenon, <1>0 DEF ReadInv
  <2>1. queueRead[d] <= level[d]
    BY Zenon DEF Inv, ReadInv
  <2>2. CASE d = c
    BY Zenon, <1>4, <1>8, <2>2
  <2>3. CASE d # c
    BY Zenon, <1>9, <2>1, <2>3
  <2> QED
    BY Zenon, <2>2, <2>3
<1>16. IssuedInv'
  <2> SUFFICES ASSUME NEW d \in Contexts, NEW i \in issued[d]
               PROVE  /\ i < seq'[d]
                      /\ \E r \in RangeIDs :
                           /\ granted'[r] = d
                           /\ RangeStart(r) <= i /\ i < RangeStart(r + 1)
    BY Zenon, <1>0 DEF IssuedInv
  <2>1. PICK r \in RangeIDs : /\ granted[r] = d
                              /\ RangeStart(r) <= i /\ i < RangeStart(r + 1)
    BY Zenon DEF Inv, IssuedInv
  <2>2. granted'[r] = d
    BY Zenon, <1>5, <2>1, NoOwnerAssumption
  <2>3. i < seq'[d]
    BY Zenon, <1>6, <1>8, <1>9 DEF Inv, IssuedInv
  <2> QED
    BY Zenon, <2>1, <2>2, <2>3
<1>17. LockInv'
  BY <1>0, <1>8, <1>9 DEF Inv, LockInv
<1>18. RequestInv'
  <2> SUFFICES ASSUME NEW d \in Contexts
               PROVE  /\ request[d].newLevel <= seq'[d]
                      /\ \A i \in request[d].ids :
                            /\ i \in issued[d] /\ i < request[d].newLevel
                            /\ i >= RangeStart(rangeID'[d]) => i >= level'[d]
    BY Zenon, <1>0 DEF RequestInv
  <2>1. CASE d = c
    <3>1. \A i \in request[c].ids :
             /\ i \in issued[c] /\ i < request[c].newLevel
             /\ i >= RangeStart(new) => i >= RangeStart(new)
      BY Zenon DEF Inv, RequestInv
    <3> QED
      BY Zenon, <1>4, <1>8, <2>1, <3>1
  <2>2. CASE d # c
    BY Zenon, <1>9, <2>2 DEF Inv, RequestInv
  <2> QED
    BY Zenon, <2>1, <2>2
<1>19. LateInv'
  <2>1. ASSUME NEW w \in lateWrites
        PROVE  /\ w.range \in RangeIDs /\ w.range <= new /\ w.range # new
               /\ granted'[w.range] = granted[w.range]
               /\ granted[w.range] \in Contexts
               /\ w.ids \subseteq issued[granted[w.range]]
    <3>1. w.range \in RangeIDs /\ w.range <= new /\ w.range # new
      BY Zenon, <1>next, NextRange DEF new
    <3> QED
      BY Zenon, <1>5, <3>1, NoOwnerAssumption DEF Inv, LateInv
  <2> QED
    BY Zenon, <1>0, <1>row, <2>1 DEF LateInv
<1>20. RowInv'
  BY ZenonT(60), <1>0, <1>6, <1>8, <1>9 DEF Inv, RowInv
<1>21. QueueInv'
  <2>1. \A d \in Contexts : saved'[d] <= queueState[d]
    BY Zenon, <1>8, <1>9, ContextFacts, Order DEF Inv, QueueInv
  <2>2. \A u \in lateUpdates : u.prev # new
    BY Zenon, <1>next, NextRange DEF new
  <2> QED
    BY Zenon, <1>0, <1>row, <2>1, <2>2 DEF QueueInv
<1>23. SavedStateDurable'
  <2>1. granted'[new] = c
    BY Zenon, <1>1, <1>2 DEF Inv, TypeOK, StoreTypeOK
  <2>2. queueState[c] >= queueState[c]
    BY Zenon, ContextFacts, Order
  <2> QED
    BY Zenon, <1>row, <1>8, <2>1, <2>2 DEF SavedStateDurable
<1> QED
  BY ZenonT(60), <1>7, <1>10, <1>11, <1>12, <1>13, <1>14, <1>15, <1>16, <1>17, <1>18, <1>19,
     <1>20, <1>21, <1>23 DEF Inv, TypeOK

\* The same for a step that gives up no write.
LEMMA MovedKeepsInv ==
    ASSUME Inv, NEW c \in Contexts, NEW s \in States, NEW p \in AcquirerPCs,
           NEW pc \in {acquirer[c], "none"}, Moved(c, s, p, pc),
           notifying' \in SUBSET Contexts,
           \/ request' = [request EXCEPT ![c] = Idle]
           \/ /\ request' = request
              /\ request[c].kind \in WriteKinds =>
                    s \notin {"Initialized", "Acquiring"} /\ p = "none",
           lateUpdates' \in SUBSET UpdateRecords,
           \A u \in lateUpdates' \ lateUpdates :
              \/ u.new = u.prev + 1 /\ u.prev = rangeID[c]
              \/ /\ u.new = u.prev /\ u.ctx = c /\ u.prev = rangeID[c]
                 /\ maxSeq[c] > 0 /\ u.queueState >= saved[c]
                 /\ s # "Acquired" /\ p # "transition",
           queueState' \in [Contexts -> Nat],
           \A d \in Contexts : queueState'[d] >= queueState[d],
           UNCHANGED <<dbRange, dbQueueState, rows, lateWrites, granted, idVars,
                       saved, queueRead, handover>>
    PROVE  Inv'
<1>1. WritesMayLand(c, s, p)
  BY Zenon DEF Inv, TypeOK, StoreTypeOK, WritesMayLand
<1>2. GivenUp(c, s, p) /\ UpdatesMayLand(c, s, p) /\ QueueStatesGrow
  BY Zenon DEF GivenUp, UpdatesMayLand, QueueStatesGrow
<1>3. RestKept
  BY Zenon DEF RestKept
<1> QED
  BY Zenon, <1>1, <1>2, <1>3, MovedLateKeepsInv

\* A context moves and nothing else changes.
LEMMA MovedOnly ==
    ASSUME Inv, NEW c \in Contexts, NEW s \in States, NEW p \in AcquirerPCs,
           Moved(c, s, p, acquirer[c]),
           request[c].kind \in WriteKinds =>
              s \notin {"Initialized", "Acquiring"} /\ p = "none",
           UNCHANGED <<storeVars, notifying, idVars, queueVars, request>>
    PROVE  Inv'
<1>1. /\ notifying' \in SUBSET Contexts
      /\ lateUpdates' \in SUBSET UpdateRecords /\ lateUpdates' = lateUpdates
  BY ZenonT(60) DEF Inv, TypeOK, StoreTypeOK, LifeTypeOK, storeVars
<1>2. /\ queueState' \in [Contexts -> Nat]
      /\ \A d \in Contexts : queueState'[d] >= queueState[d]
  BY DEF Inv, TypeOK, QueueTypeOK, queueVars
<1>3. UNCHANGED <<dbRange, dbQueueState, rows, lateWrites, granted, idVars, saved,
                  queueRead, handover, request>>
  BY Zenon DEF storeVars, queueVars
<1> QED
  BY Zenon, <1>1, <1>2, <1>3, MovedKeepsInv

\* The start of a context keeps the invariant.
LEMMA StartStep ==
    ASSUME Inv, NEW c \in Contexts, Start(c)
    PROVE  Inv'
<1>1. acquirer[c] \in AcquirerPCs /\ TypeOK
  BY Zenon DEF Inv, TypeOK, LifeTypeOK
<1>2. PICK s \in States, p \in AcquirerPCs : Moved(c, s, p, acquirer[c])
  BY Zenon, <1>1, TransitionMoves DEF Start
<1>3. request[c].kind \notin WriteKinds
  BY Zenon DEF Inv, LockInv, Start
<1> QED
  BY Zenon, <1>2, <1>3, MovedOnly DEF Start

\* The unload of a context keeps the invariant.
LEMMA UnloadStep ==
    ASSUME Inv, NEW c \in Contexts, Unload(c)
    PROVE  Inv'
<1>1. /\ acquirer[c] \in AcquirerPCs /\ state[c] \in {"Acquiring", "Acquired"}
      /\ Transition(c, "Stop", acquirer[c]) /\ TypeOK
  BY Zenon, ContextFacts DEF Inv, Unload
<1>2. NextState(state[c], "Stop") = "Stopping"
  BY Zenon, <1>1, NextStateTable DEF States, ValidStates
<1>3. /\ state' = [state EXCEPT ![c] = "Stopping"]
      /\ acquirer' = [acquirer EXCEPT ![c] = acquirer[c]]
  BY <1>1, <1>2, Zenon DEF Transition
<1>4. Moved(c, "Stopping", acquirer[c], acquirer[c]) /\ "Stopping" \in States
  BY Zenon, <1>3 DEF Moved, States
<1>5. request[c].kind \in WriteKinds => acquirer[c] = "none"
  BY Zenon DEF Inv, LockInv
<1> QED
  BY Zenon, <1>1, <1>4, <1>5, MovedOnly DEF Unload

\* A failed attempt to acquire, whose UpdateShard may still be on its way.
LEMMA AttemptFailedStep ==
    ASSUME Inv, NEW c \in Contexts, NEW req \in {"none", "Lost", "Stop"},
           AttemptFailed(c, req), acquirer[c] # "none",
           lateUpdates' \in SUBSET UpdateRecords,
           \A u \in lateUpdates' \ lateUpdates :
              u.new = u.prev + 1 /\ u.prev = rangeID[c],
           UNCHANGED <<dbRange, dbQueueState, rows, lateWrites, granted,
                       notifying, idVars, queueVars, request>>
    PROVE  Inv'
<1>1. state[c] # "Acquired" /\ request[c].kind \notin WriteKinds /\ TypeOK
  BY Zenon DEF Inv, LockInv
<1>2. PICK s \in States \ {"Acquired"}, p \in {"none", "check"} :
         Moved(c, s, p, "none")
  BY Zenon, <1>1, AttemptFailedMoves
<1>3. p \in AcquirerPCs
  BY Zenon DEF AcquirerPCs
<1>4. queueState' \in [Contexts -> Nat] /\ notifying' \in SUBSET Contexts
      /\ \A d \in Contexts : queueState'[d] >= queueState[d]
  BY DEF Inv, TypeOK, LifeTypeOK, QueueTypeOK, queueVars
<1>5. UNCHANGED <<saved, queueRead, handover>>
  BY Zenon DEF queueVars
<1> QED
  BY Zenon, <1>1, <1>2, <1>3, <1>4, <1>5, MovedKeepsInv

\* The check that opens an attempt keeps the invariant.
LEMMA AcquireCheckStep ==
    ASSUME Inv, NEW c \in Contexts, AcquireCheck(c)
    PROVE  Inv'
<1>1. /\ acquirer[c] = "check"
      /\ UNCHANGED <<dbRange, dbQueueState, rows, lateWrites, lateUpdates, granted,
                     notifying, seq, maxSeq, level, issued, exempt, saved, queueRead,
                     handover, request>>
  BY Zenon DEF AcquireCheck, storeVars
<1>2. CASE AttemptFailed(c, "none") /\ UNCHANGED <<rangeID, queueState>>
  <2>1. lateUpdates' \in SUBSET UpdateRecords
    BY Zenon, <1>1 DEF Inv, TypeOK, StoreTypeOK
  <2>2. UNCHANGED <<idVars, queueVars>>
    BY Zenon, <1>1, <1>2 DEF idVars, queueVars
  <2> QED
    BY Zenon, <1>1, <1>2, <2>1, <2>2, AttemptFailedStep
<1>3. CASE /\ acquirer' = [acquirer EXCEPT ![c] = "renew"]
           /\ UNCHANGED state
           /\ IF rangeID[c] = Unloaded
              THEN /\ rangeID' = [rangeID EXCEPT ![c] = dbRange]
                   /\ queueState' = [queueState EXCEPT ![c] = dbQueueState]
              ELSE UNCHANGED <<rangeID, queueState>>
  <2>1. state[c] # "Acquired" /\ request[c].kind \notin WriteKinds
    BY Zenon, <1>1 DEF Inv, LockInv
  <2>2. rangeID[c] = Unloaded => maxSeq[c] = 0
    <3>1. Unloaded \notin RangeIDs
      BY BoundsAssumption DEF RangeIDs, Unloaded
    <3> QED
      BY Zenon, <3>1, ContextFacts DEF Inv, BlockInv
  <2>3. /\ maxSeq[c] > 0 => rangeID' = rangeID /\ queueState' = queueState
        /\ rangeID'[c] \in RangeIDs /\ rangeID'[c] <= dbRange
        /\ \A d \in Contexts : d # c =>
              rangeID'[d] = rangeID[d] /\ queueState'[d] = queueState[d]
        /\ rangeID' \in [Contexts -> RangeIDs \cup {Unloaded}]
        /\ queueState' \in [Contexts -> Nat]
    <3>1. CASE rangeID[c] = Unloaded
      BY <1>3, <2>2, <3>1, RowRange
         DEF Inv, TypeOK, StoreTypeOK, IdTypeOK, QueueTypeOK
    <3>2. CASE rangeID[c] # Unloaded
      BY Zenon, <1>3, <3>2 DEF Inv, TypeOK, IdTypeOK, QueueTypeOK, LoadInv
    <3> QED
      BY ZenonT(60), <3>1, <3>2
  <2>4. /\ acquirer'[c] = "renew" /\ acquirer' \in [Contexts -> AcquirerPCs]
        /\ \A d \in Contexts : d # c => acquirer'[d] = acquirer[d]
    BY Zenon, <1>3 DEF Inv, TypeOK, LifeTypeOK, AcquirerPCs
  <2>5. TypeOK'
    BY Zenon, <1>1, <1>3, <2>3, <2>4
       DEF Inv, TypeOK, StoreTypeOK, LifeTypeOK, IdTypeOK, QueueTypeOK
  <2>6. GrantInv' /\ UpdateInv' /\ ReadInv' /\ IssuedInv'
    BY Zenon, <1>1, Frame
  <2>7. LoadInv'
    BY Zenon, <1>1, <2>3, <2>4 DEF Inv, LoadInv
  <2>8. FreshInv'
    BY Zenon, <1>1, <1>3, <2>4 DEF Inv, FreshInv
  <2>9. BlockInv'
    BY Zenon, <1>1, <2>2, <2>3 DEF Inv, BlockInv
  <2>10. LockInv'
    BY Zenon, <1>1, <1>3, <2>1, <2>4 DEF Inv, LockInv
  <2>11. RequestInv'
    <3>1. maxSeq[c] = 0 => request[c].ids = {} /\ request[c].newLevel <= seq[c]
      BY ZenonT(60), IdleFacts, ContextFacts, Order DEF Inv, FreshInv
    <3> QED
      BY ZenonT(60), <1>1, <2>3, <3>1, ContextFacts DEF Inv, RequestInv
  <2>12. LateInv'
    BY ZenonT(60), <1>1, <1>3, <2>4 DEF Inv, LateInv
  <2>13. RowInv'
    BY Zenon, <1>1, <1>3, <2>1, <2>4 DEF Inv, RowInv
  <2>14. QueueInv'
    <3>1. \A d \in Contexts : saved[d] <= queueState'[d]
      <4> SUFFICES ASSUME NEW d \in Contexts PROVE saved[d] <= queueState'[d]
        BY Zenon
      <4>1. queueState'[c] \in Nat
        BY Zenon, <2>3
      <4>2. CASE d = c /\ maxSeq[c] = 0
        BY Zenon, <4>1, <4>2, ZeroLeast DEF Inv, FreshInv
      <4>3. CASE d # c \/ maxSeq[c] > 0
        BY Zenon, <2>3, <4>3 DEF Inv, QueueInv
      <4> QED
        BY Zenon, <4>2, <4>3, ContextFacts
    <3>2. \A u \in lateUpdates : u.ctx \in Contexts
      BY Zenon DEF Inv, TypeOK, StoreTypeOK, UpdateRecords
    <3> QED
      BY ZenonT(60), <1>1, <1>3, <2>4, <3>1, <3>2 DEF Inv, QueueInv
  <2>15. SavedStateDurable'
    <3>1. maxSeq[c] = 0 => saved[c] = 0
      BY Zenon DEF Inv, FreshInv
    <3>2. dbQueueState >= 0
      BY Zenon, RowQueueState
    <3> QED
      BY Zenon, <1>1, <2>3, <3>1, <3>2, ContextFacts DEF Inv, SavedStateDurable
  <2> QED
    BY Zenon, <2>5, <2>6, <2>7, <2>8, <2>9, <2>10, <2>11, <2>12, <2>13, <2>14, <2>15
       DEF Inv
<1> QED
  BY Zenon, <1>2, <1>3 DEF AcquireCheck

\* The UpdateShard call of a failed renewal may still be on its way.
LEMMA RenewRangeErrorLate ==
    ASSUME Inv, NEW c \in Contexts, NEW err, RenewRangeError(c, err),
           rangeID[c] \in RangeIDs
    PROVE  /\ lateUpdates' \in SUBSET UpdateRecords
           /\ \A u \in lateUpdates' \ lateUpdates :
                 u.new = u.prev + 1 /\ u.prev = rangeID[c]
           /\ err \in WriteErrors
           /\ UNCHANGED <<dbRange, dbQueueState, rows, lateWrites, granted,
                          idVars, queueVars>>
<1>1. rangeID[c] + 1 \in Nat
  BY BoundsAssumption DEF RangeIDs
<1>2. queueState' \in [Contexts -> Nat] /\ UNCHANGED <<idVars, queueVars>>
  BY Zenon DEF Inv, TypeOK, QueueTypeOK, RenewRangeError, queueVars
<1>3. UpdateShardError(c, rangeID[c] + 1, err)
  BY Zenon DEF RenewRangeError
<1>4. LeavesUpdate(c, rangeID[c] + 1, err)
  BY ZenonT(60), <1>1, <1>2, <1>3, UpdateShardErrorLate
<1> QED
  BY ZenonT(60), <1>2, <1>4 DEF LeavesUpdate

\* A renewal for want of task IDs keeps the invariant.
LEMMA GenerateRenewStep ==
    ASSUME Inv, NEW c \in Contexts, GenerateRenew(c)
    PROVE  Inv'
<1>1. request[c].need > 0 /\ acquirer[c] \in AcquirerPCs
  BY ZenonT(60), ContextFacts DEF GenerateRenew
<1>2. rangeID[c] \in RangeIDs
  BY <1>1, IdleFacts, EngineFacts, BlockFacts
<1>3. CASE RenewRangeOK(c) /\ UNCHANGED <<lifeVars, request>>
  <2>1. acquirer' = [acquirer EXCEPT ![c] = acquirer[c]]
    BY Zenon, <1>3 DEF Inv, TypeOK, LifeTypeOK, lifeVars
  <2> QED
    BY Zenon, <1>1, <1>3, <2>1, RenewKeepsInv DEF lifeVars
<1>4. ASSUME NEW err \in WriteErrors, RenewRangeError(c, err),
             Transition(c, WriteErrorRequest(err), acquirer[c]),
             request' = [request EXCEPT ![c] = Idle], UNCHANGED notifying
      PROVE  Inv'
  <2>1. WriteErrorRequest(err) \in {"none", "Acquire", "Lost", "Stop"} /\ TypeOK
    BY Zenon, WriteErrorRequests DEF Inv
  <2>2. PICK s \in States, p \in AcquirerPCs : Moved(c, s, p, acquirer[c])
    BY Zenon, <1>1, <1>4, <2>1, TransitionMoves
  <2>3. /\ lateUpdates' \in SUBSET UpdateRecords
        /\ \A u \in lateUpdates' \ lateUpdates :
              u.new = u.prev + 1 /\ u.prev = rangeID[c]
        /\ UNCHANGED <<dbRange, dbQueueState, rows, lateWrites, granted, idVars,
                       queueVars>>
    BY ZenonT(60), <1>2, <1>4, RenewRangeErrorLate
  <2>4. /\ notifying' \in SUBSET Contexts
        /\ queueState' \in [Contexts -> Nat]
        /\ \A d \in Contexts : queueState'[d] >= queueState[d]
        /\ UNCHANGED <<saved, queueRead, handover>>
    BY <1>4, <2>3 DEF Inv, TypeOK, LifeTypeOK, QueueTypeOK, queueVars
  <2> QED
    BY Zenon, <1>4, <2>2, <2>3, <2>4, MovedKeepsInv
<1> QED
  BY Zenon, <1>3, <1>4 DEF GenerateRenew

\* A renewal of the range ID by the acquirer keeps the invariant.
LEMMA AcquireRenewStep ==
    ASSUME Inv, NEW c \in Contexts, AcquireRenew(c)
    PROVE  Inv'
<1>1. acquirer[c] = "renew" /\ UNCHANGED <<notifying, request>>
  BY Zenon DEF AcquireRenew
<1>2. rangeID[c] \in RangeIDs /\ state[c] # "Acquired" /\ request[c].kind \notin WriteKinds
  BY Zenon, <1>1 DEF Inv, LoadInv, LockInv
<1>3. CASE /\ RenewRangeOK(c)
           /\ acquirer' = [acquirer EXCEPT ![c] = "transition"]
           /\ UNCHANGED state
  <2>1. "transition" \in AcquirerPCs
    BY Zenon DEF AcquirerPCs
  <2> QED
    BY Zenon, <1>1, <1>2, <1>3, <2>1, RenewKeepsInv
<1>4. ASSUME NEW err \in WriteErrors, RenewRangeError(c, err),
             AttemptFailed(c, WriteErrorRequest(err))
      PROVE  Inv'
  <2>1. WriteErrorRequest(err) \in {"none", "Lost", "Stop"}
    BY Zenon, WriteErrorRequests
  <2>2. /\ lateUpdates' \in SUBSET UpdateRecords
        /\ \A u \in lateUpdates' \ lateUpdates :
              u.new = u.prev + 1 /\ u.prev = rangeID[c]
        /\ UNCHANGED <<dbRange, dbQueueState, rows, lateWrites, granted, idVars,
                       queueVars>>
    BY Zenon, <1>2, <1>4, RenewRangeErrorLate
  <2> QED
    BY Zenon, <1>1, <1>2, <1>4, <2>1, <2>2, AttemptFailedStep
<1> QED
  BY Zenon, <1>3, <1>4 DEF AcquireRenew

\* The transition to Acquired keeps the invariant.
LEMMA AcquireTransitionStep ==
    ASSUME Inv, NEW c \in Contexts, AcquireTransition(c)
    PROVE  Inv'
<1>1. acquirer[c] = "transition"
      /\ UNCHANGED <<dbRange, dbQueueState, rows, lateWrites, lateUpdates, granted,
                     idVars, queueVars, request>>
  BY Zenon DEF AcquireTransition, storeVars
<1>2. CASE AttemptFailed(c, "none") /\ UNCHANGED notifying
  <2>1. lateUpdates' \in SUBSET UpdateRecords
    BY Zenon, <1>1 DEF Inv, TypeOK, StoreTypeOK
  <2> QED
    BY Zenon, <1>1, <1>2, <2>1, AttemptFailedStep
<1>3. CASE /\ state[c] = "Acquiring"
           /\ Transition(c, "Acquired", "none")
           /\ notifying' = notifying \cup ({c} \cap HandoverContexts)
  <2>1. NextState(state[c], "Acquired") = "Acquired"
    BY Zenon, <1>3, NextStateTable DEF States
  <2>2. /\ state' = [state EXCEPT ![c] = "Acquired"]
        /\ acquirer' = [acquirer EXCEPT ![c] = "none"]
    BY <1>3, <2>1, Zenon DEF Transition
  <2>3. UNCHANGED <<rangeID, seq, maxSeq, level, issued, exempt, queueState, saved,
                    queueRead, handover>>
    BY Zenon, <1>1 DEF idVars, queueVars
  <2>4. /\ LifeTypeOK' /\ acquirer'[c] = "none" /\ state'[c] = "Acquired"
        /\ \A d \in Contexts : d # c =>
              state'[d] = state[d] /\ acquirer'[d] = acquirer[d]
    BY Zenon, <1>1, <1>3, <2>2 DEF Inv, TypeOK, LifeTypeOK, States, AcquirerPCs
  <2>5. StoreTypeOK' /\ IdTypeOK' /\ QueueTypeOK'
    BY Zenon, <1>1, Frame DEF storeVars
  <2>6. GrantInv' /\ UpdateInv' /\ BlockInv' /\ ReadInv' /\ IssuedInv'
        /\ RequestInv' /\ SavedStateDurable'
    BY Zenon, <1>1, <2>3, Frame
  <2>7. request[c].kind \notin WriteKinds /\ maxSeq[c] > 0
    BY Zenon, <1>1, EngineFacts DEF Inv, LockInv
  <2>8. LoadInv'
    BY Zenon, <1>1, <2>3, <2>4 DEF Inv, LoadInv
  <2>9. FreshInv'
    BY Zenon, <1>1, <2>3, <2>4, <2>7 DEF Inv, FreshInv
  <2>10. LockInv'
    BY ZenonT(60), <1>1, <2>3, <2>4, <2>7 DEF Inv, LockInv
  <2>11. LateInv'
    BY ZenonT(60), <1>1, <2>3, <2>4 DEF Inv, LateInv
  <2>12. RowInv'
    BY Zenon, <1>1, <2>3, <2>4 DEF Inv, RowInv
  <2>13. QueueInv'
    <3>1. \A u \in lateUpdates : u.ctx \in Contexts
      BY Zenon DEF Inv, TypeOK, StoreTypeOK, UpdateRecords
    <3> QED
      BY Zenon, <1>1, <2>3, <2>4, <3>1 DEF Inv, QueueInv
  <2> QED
    BY Zenon, <2>4, <2>5, <2>6, <2>8, <2>9, <2>10, <2>11, <2>12, <2>13 DEF Inv, TypeOK
<1> QED
  BY Zenon, <1>2, <1>3 DEF AcquireTransition

\* A step that changes only the handover of a context.
LEMMA HandoverKeepsInv ==
    ASSUME Inv, handover' \in [Contexts -> Int], notifying' \in SUBSET Contexts,
           UNCHANGED <<storeVars, state, acquirer, idVars, queueState, saved,
                       queueRead, request>>
    PROVE  Inv'
<1>1. UNCHANGED <<dbRange, dbQueueState, rows, lateWrites, lateUpdates, granted,
                  rangeID, seq, maxSeq, level, issued, exempt>>
  BY Zenon DEF storeVars, idVars
<1>2. StoreTypeOK' /\ IdTypeOK'
  BY Zenon, Frame
<1>3. LifeTypeOK'
  BY Zenon DEF Inv, TypeOK, LifeTypeOK
<1>4. QueueTypeOK'
  BY Zenon DEF Inv, TypeOK, QueueTypeOK
<1>5. /\ GrantInv' /\ UpdateInv' /\ LoadInv' /\ FreshInv' /\ BlockInv' /\ ReadInv'
      /\ IssuedInv' /\ RequestInv' /\ RowInv' /\ QueueInv' /\ SavedStateDurable'
  BY Zenon, <1>1, Frame
<1>6. LockInv' /\ LateInv'
  BY Zenon, <1>1, Frame
<1> QED
  BY Zenon, <1>2, <1>3, <1>4, <1>5, <1>6 DEF Inv, TypeOK

\* The handover markers keep the invariant.
LEMMA HandoverSteps ==
    ASSUME Inv, NEW c \in Contexts,
           AcquireNotify(c) \/ RecordHandover(c) \/ ClearHandover(c)
    PROVE  Inv'
<1>1. level[c] - 1 \in Int /\ handover \in [Contexts -> Int]
  <2>1. level[c] \in Nat
    BY Zenon, ContextFacts
  <2>2. handover \in [Contexts -> Int]
    BY Zenon DEF Inv, TypeOK, QueueTypeOK
  <2> QED
    BY <2>1, <2>2
<1>2. NoHandover \in Int /\ PendingMaxReplicationTaskID \in Int
  BY DEF NoHandover, PendingMaxReplicationTaskID
<1>3. handover' \in [Contexts -> Int] /\ notifying' \in SUBSET Contexts
  BY Zenon, <1>1, <1>2
     DEF AcquireNotify, RecordHandover, ClearHandover, lifeVars, Inv, TypeOK, LifeTypeOK
<1>4. UNCHANGED <<storeVars, state, acquirer, idVars, queueState, saved, queueRead,
                  request>>
  BY Zenon DEF AcquireNotify, RecordHandover, ClearHandover, lifeVars
<1> QED
  BY Zenon, <1>3, <1>4, HandoverKeepsInv

-----------------------------------------------------------------------------
(* The invariant and what follows from it *)

\* The invariant holds initially.
LEMMA InitInv == Init => Inv
<1> SUFFICES ASSUME Init PROVE Inv
  OBVIOUS
<1>1. TypeOK
  <2>1. 0 \in RangeIDs /\ Unloaded \in Int /\ NoHandover \in Int
    BY BoundsAssumption DEF RangeIDs, Unloaded, NoHandover
  <2>2. "Initialized" \in States /\ "none" \in AcquirerPCs
    BY Zenon DEF States, AcquirerPCs
  <2>3. StoreTypeOK /\ LifeTypeOK
    BY Zenon, <2>1, <2>2, IdleFacts DEF Init, StoreTypeOK, LifeTypeOK
  <2>4. IdTypeOK /\ QueueTypeOK
    BY ZenonT(60), <2>1 DEF Init, IdTypeOK, QueueTypeOK
  <2> QED
    BY Zenon, <2>3, <2>4 DEF TypeOK
<1>2. GrantInv /\ UpdateInv /\ FreshInv
  BY Zenon DEF Init, GrantInv, UpdateInv, FreshInv
<1>3. BlockInv /\ ReadInv /\ IssuedInv
  BY Zenon, Order DEF Init, BlockInv, ReadInv, IssuedInv
<1>5. LoadInv /\ LockInv /\ RequestInv
  <2>1. Unloaded <= 0 /\ 0 <= 0
    BY DEF Unloaded
  <2> QED
    BY Zenon, <2>1, IdleFacts DEF Init, LoadInv, LockInv, RequestInv
<1>4. LateInv /\ RowInv /\ QueueInv /\ SavedStateDurable
  BY DEF Init, LateInv, RowInv, QueueInv, SavedStateDurable
<1> QED
  BY Zenon, <1>1, <1>2, <1>3, <1>4, <1>5 DEF Inv

\* Every step keeps the invariant.
LEMMA NextInv == Inv /\ [Next]_vars => Inv'
<1> SUFFICES ASSUME Inv, [Next]_vars PROVE Inv'
  OBVIOUS
<1>1. ASSUME NEW c \in Contexts, Acquire(c)
      PROVE  Inv'
  BY Zenon, <1>1, StartStep, AcquireCheckStep, AcquireRenewStep,
     AcquireTransitionStep, HandoverSteps, UnloadStep DEF Acquire
<1>2. ASSUME NEW c \in Contexts, Operate(c)
      PROVE  Inv'
  BY Zenon, <1>2, BeginSteps, GenerateTaskIDStep, GenerateRenewStep, EndGenerateStep,
     PersistWriteOKStep, PersistWriteErrorStep, SetQueueStateStep,
     ReadQueueStep, HandoverSteps DEF Operate
<1>3. CASE UNCHANGED vars
  <2>1. UNCHANGED <<storeVars, lifeVars, idVars, queueVars, request>>
    BY Zenon, <1>3 DEF vars
  <2>2. UNCHANGED <<dbRange, dbQueueState, rows, lateWrites, lateUpdates, granted,
                    state, acquirer, notifying, rangeID, seq, maxSeq, level, issued, exempt,
                    queueState, saved, queueRead, handover, request>>
    BY Zenon, <2>1 DEF storeVars, lifeVars, idVars, queueVars
  <2>3. TypeOK'
    BY Zenon, <2>1, <2>2, Frame DEF TypeOK
  <2>4. GrantInv' /\ UpdateInv' /\ LoadInv' /\ FreshInv' /\ BlockInv' /\ ReadInv'
    BY Zenon, <2>2, Frame
  <2>5. IssuedInv' /\ LockInv' /\ RequestInv' /\ LateInv' /\ RowInv' /\ QueueInv'
        /\ SavedStateDurable'
    BY Zenon, <2>2, Frame
  <2> QED
    BY Zenon, <2>3, <2>4, <2>5 DEF Inv
<1> QED
  BY Zenon, <1>1, <1>2, <1>3, LandUpdateStep, LandWriteStep DEF Next

\* The inductive invariant holds in every behaviour, for any set of contexts,
\* any range size and any bounds.
THEOREM Invariant == Spec => []Inv
<1> QED
  BY InitInv, NextInv, PTL DEF Spec

\* Every variable of a shard context keeps its type.
THEOREM TypeCorrect == Spec => []TypeOK
<1>1. Inv => TypeOK
  BY Zenon DEF Inv
<1> QED
  BY <1>1, Invariant, PTL

\* The context that can have a write accepted is the one to which the current
\* RangeId was granted.
LEMMA WriterHasGrant ==
    ASSUME Inv, NEW c \in Contexts, CanWrite(c)
    PROVE  granted[dbRange] = c /\ maxSeq[c] > 0 /\ RangeStart(dbRange) <= level[c]
BY Zenon, EngineFacts, BlockFacts DEF CanWrite

\* At most one context can have a write accepted by the store.
THEOREM OneWriter == Spec => []SingleWriter
<1>1. Inv => SingleWriter
  BY Zenon, WriterHasGrant DEF SingleWriter
<1> QED
  BY <1>1, Invariant, PTL

\* No task ID is ever handed out twice.
THEOREM TaskIDsUnique == Spec => []UniqueTaskIDs
<1> QED
  BY InvUnique, Invariant, PTL

\* A context without the current grant has read nothing of the current range.
LEMMA LevelOfOthers ==
    ASSUME Inv, NEW d \in Contexts, granted[dbRange] # d
    PROVE  level[d] <= RangeStart(dbRange)
<1>1. CASE maxSeq[d] = 0
  BY Zenon, <1>1, RowRange, Order DEF Inv, FreshInv
<1>2. CASE maxSeq[d] > 0
  <2>1. rangeID[d] < dbRange
    BY Zenon, <1>2, OlderRange
  <2>2. RangeStart(rangeID[d] + 1) <= RangeStart(dbRange)
    BY Zenon, <1>2, <2>1, RowRange, BlockFacts, RangeStartFacts
  <2> QED
    <3>1. /\ level[d] \in Nat /\ seq[d] \in Nat /\ maxSeq[d] \in Nat
          /\ RangeStart(dbRange) \in Nat
          /\ level[d] <= seq[d] /\ seq[d] <= maxSeq[d]
          /\ maxSeq[d] <= RangeStart(dbRange)
      BY ZenonT(60), <1>2, <2>2, ContextFacts, RowRange, BlockFacts
    <3> QED
      BY Zenon, <3>1, Order
<1> QED
  BY ZenonT(60), <1>1, <1>2, ContextFacts

\* The read level of the owner is above every row in the store.
THEOREM LevelCovers == Spec => []LevelCoversRows
<1>1. ASSUME Inv, NEW c \in Contexts, CanWrite(c), NEW i \in rows
      PROVE  i < level[c]
  <2>1. PICK d \in Contexts : i \in issued[d]
    BY Zenon, <1>1 DEF Inv, RowInv
  <2>2. CASE d = c
    BY ZenonT(60), <1>1, <2>1, <2>2 DEF Inv, RowInv, CanWrite
  <2>3. CASE d # c
    <3>1. PICK r \in RangeIDs : granted[r] = d /\ i < RangeStart(r + 1)
      BY ZenonT(60), <1>1, <2>1 DEF Inv, IssuedInv
    <3>2. i \in Nat /\ r \in Nat
      BY Zenon, <1>1, <2>1, ContextFacts, RangeIDsNat
    <3>3. r < dbRange
      <4>1. granted[r] # NoOwner /\ granted[r] # granted[dbRange]
        BY Zenon, <1>1, <2>1, <2>3, <3>1, WriterHasGrant, NoOwnerAssumption
      <4> QED
        BY Zenon, <1>1, <3>2, <4>1, OlderGrant
    <3>4. /\ RangeStart(r + 1) <= RangeStart(dbRange) /\ RangeStart(r + 1) \in Nat
      BY Zenon, <1>1, <3>2, <3>3, OlderStart
    <3>5. RangeStart(dbRange) <= level[c] /\ level[c] \in Nat
      BY Zenon, <1>1, WriterHasGrant, ContextFacts
    <3> QED
      BY ZenonT(60), <1>1, <3>1, <3>2, <3>4, <3>5, RowRange, Order
  <2> QED
    BY Zenon, <2>2, <2>3
<1>2. Inv => LevelCoversRows
  BY Zenon, <1>1 DEF LevelCoversRows
<1> QED
  BY <1>2, Invariant, PTL

\* An acknowledged queue state is not overwritten by an older one.
THEOREM SavedDurable == Spec => []SavedStateDurable
<1>1. Inv => SavedStateDurable
  BY Zenon DEF Inv
<1> QED
  BY <1>1, Invariant, PTL

-----------------------------------------------------------------------------
(* The handover: HandoverInv is kept by every step from a state in which *)
(* Inv holds.                                                             *)

\* A request that goes on or ends is no new request, and a late write that could
\* still land is not a new one either.
NoNewWrite ==
    /\ \A c \in Contexts : request'[c] \in {request[c], Idle}
    /\ \A w \in lateWrites' : w.range = dbRange' =>
          w \in lateWrites /\ dbRange' = dbRange /\ granted' = granted

\* A step without a new write, a new row or a new handover.
LEMMA HandoverKept ==
    ASSUME HandoverInv, NoNewWrite, UNCHANGED <<rows, issued, exempt, handover>>
    PROVE  HandoverInv'
<1>1. HandoverIsFinal'
  BY Zenon DEF HandoverInv, HandoverIsFinal
<1>2. ASSUME NEW c \in Contexts
      PROVE  /\ request'[c].kind = "write" => handover'[c] = NoHandover
             /\ request'[c].kind \in ExemptKinds => request'[c].ids \subseteq exempt'
  <2>1. CASE request'[c] = request[c]
    BY Zenon, <2>1 DEF HandoverInv
  <2>2. CASE request'[c] = Idle
    BY Zenon, <2>2, IdleFacts DEF WriteKinds
  <2> QED
    BY Zenon, <2>1, <2>2 DEF NoNewWrite
<1>3. ASSUME NEW w \in lateWrites', NEW d \in Contexts,
             d = granted'[w.range], w.range = dbRange'
      PROVE  handover'[d] < 0 \/ w.ids \subseteq exempt'
  BY ZenonT(60), <1>3 DEF HandoverInv, NoNewWrite
<1> QED
  BY Zenon, <1>1, <1>2, <1>3 DEF HandoverInv

\* Rows that a context adds are below a handover that is set, or exempt.
LEMMA RowsAdded ==
    ASSUME Inv, HandoverInv, NEW d \in Contexts, NEW ids, ids \subseteq issued[d],
           handover[d] < 0 \/ ids \subseteq exempt,
           rows' = rows \cup ids, UNCHANGED <<issued, exempt, handover>>
    PROVE  HandoverIsFinal'
<1>1. handover[d] < 0 => ~(handover[d] >= 0)
  BY Zenon, ContextFacts, Negative
<1>2. \A c \in Contexts \ {d} : ids \cap issued[c] = {}
  BY Zenon, InvUnique DEF UniqueTaskIDs
<1> QED
  BY ZenonT(60), <1>1, <1>2 DEF HandoverInv, HandoverIsFinal

\* A renewal of the range leaves every late write behind.
LEMMA RenewLeavesWrites ==
    ASSUME Inv, NEW c \in Contexts, RenewRangeOK(c)
    PROVE  \A w \in lateWrites' : w.range # dbRange'
<1>1. rangeID[c] = dbRange /\ dbRange + 1 <= MaxRangeID
  BY Zenon DEF RenewRangeOK, UpdateShardOK
<1>2. dbRange' = dbRange + 1 /\ lateWrites' = lateWrites
  BY Zenon, <1>1 DEF RenewRangeOK, UpdateShardOK
<1> QED
  BY Zenon, <1>1, <1>2, NextRange

\* The acquirer changes nothing that matters to a handover but the range.
LEMMA HandoverAcquire ==
    ASSUME Inv, HandoverInv, NEW c \in Contexts,
           \/ Start(c) \/ AcquireCheck(c) \/ AcquireRenew(c) \/ AcquireTransition(c)
           \/ Unload(c)
    PROVE  HandoverInv'
<1>1. UNCHANGED <<rows, lateWrites, issued, exempt, handover, request>>
  BY Zenon DEF Start, AcquireCheck, AcquireRenew, AcquireTransition, Unload,
     RenewRangeOK, UpdateShardOK, RenewRangeError, UpdateShardError, storeVars, idVars,
     queueVars
<1>2. UNCHANGED <<dbRange, granted>> \/ RenewRangeOK(c)
  BY Zenon DEF Start, AcquireCheck, AcquireRenew, AcquireTransition, Unload,
     RenewRangeError, UpdateShardError, storeVars
<1>3. NoNewWrite
  BY ZenonT(60), <1>1, <1>2, RenewLeavesWrites DEF NoNewWrite
<1> QED
  BY Zenon, <1>1, <1>3, HandoverKept

\* Nor does the rest of a task ID generation, a queue state or a read of the queue.
LEMMA HandoverOther ==
    ASSUME Inv, HandoverInv, NEW c \in Contexts,
           \/ GenerateRenew(c) \/ EndGenerate(c) \/ SetQueueState(c) \/ ReadQueue(c)
    PROVE  HandoverInv'
<1>1. UNCHANGED <<rows, lateWrites, issued, exempt, handover>>
  BY Zenon DEF GenerateRenew, EndGenerate, SetQueueState, ReadQueue,
     RenewRangeOK, UpdateShardOK, RenewRangeError, UpdateShardError, storeVars, idVars,
     queueVars
<1>2. request' \in {request, [request EXCEPT ![c] = Idle]}
  BY Zenon DEF GenerateRenew, EndGenerate, SetQueueState, ReadQueue
<1>3. UNCHANGED <<dbRange, granted>> \/ RenewRangeOK(c)
  BY ZenonT(60) DEF GenerateRenew, EndGenerate, SetQueueState, ReadQueue,
     UpdateShardOK, RenewRangeError, UpdateShardError, storeVars
<1>4. \A d \in Contexts : request'[d] \in {request[d], Idle}
  BY Zenon, <1>2 DEF Inv, TypeOK, LifeTypeOK
<1>5. NoNewWrite
  BY ZenonT(60), <1>1, <1>3, <1>4, RenewLeavesWrites DEF NoNewWrite
<1> QED
  BY Zenon, <1>1, <1>5, HandoverKept

\* An update that lands either keeps the row's range or leaves every late write
\* behind.
LEMMA HandoverLandUpdate ==
    ASSUME Inv, HandoverInv, NEW u \in lateUpdates, LandUpdate(u)
    PROVE  HandoverInv'
<1>1. UNCHANGED <<rows, lateWrites, issued, exempt, handover, request>>
  BY Zenon DEF LandUpdate, idVars, queueVars
<1>2. \/ UNCHANGED <<dbRange, granted>>
      \/ u.prev = dbRange /\ dbRange' = u.new /\ u.new # dbRange
  BY Zenon DEF LandUpdate
<1>3. u.prev = dbRange /\ u.new # dbRange => \A w \in lateWrites : w.range # u.new
  <2> SUFFICES ASSUME u.prev = dbRange, u.new # dbRange, NEW w \in lateWrites
               PROVE  w.range # u.new
    BY Zenon
  <2>1. u.new = u.prev + 1 /\ w.range <= dbRange
    BY Zenon DEF Inv, UpdateInv, LateInv
  <2>2. w.range \in RangeIDs /\ dbRange \in Nat
    BY Zenon, RowRange DEF Inv, TypeOK, StoreTypeOK, WriteRecords
  <2> QED
    BY Zenon, <2>1, <2>2, RangeBelowNext
<1>4. NoNewWrite
  BY ZenonT(60), <1>1, <1>2, <1>3 DEF NoNewWrite
<1> QED
  BY Zenon, <1>1, <1>4, HandoverKept

\* A late write that lands is exempt, or there is no handover to be above.
LEMMA HandoverLandWrite ==
    ASSUME Inv, HandoverInv, NEW w \in lateWrites, LandWrite(w)
    PROVE  HandoverInv'
<1>1. /\ lateWrites' \subseteq lateWrites
      /\ UNCHANGED <<dbRange, granted, issued, exempt, handover, request>>
  BY Zenon DEF LandWrite, idVars, queueVars
<1>2. HandoverIsFinal'
  <2>1. CASE rows' = rows
    BY Zenon, <1>1, <2>1 DEF HandoverInv, HandoverIsFinal
  <2>2. CASE w.range = dbRange /\ rows' = rows \cup w.ids
    <3>1. PICK d \in Contexts : d = granted[w.range] /\ w.ids \subseteq issued[d]
      BY Zenon DEF Inv, LateInv
    <3>2. handover[d] < 0 \/ w.ids \subseteq exempt
      BY Zenon, <2>2, <3>1 DEF HandoverInv
    <3> QED
      BY Zenon, <1>1, <2>2, <3>1, <3>2, RowsAdded
  <2> QED
    BY Zenon, <2>1, <2>2 DEF LandWrite
<1> QED
  BY ZenonT(60), <1>1, <1>2 DEF HandoverInv

\* A write under way is exempt, or it found no handover and holds the lock since.
LEMMA WriteUnderWay ==
    ASSUME HandoverInv, NEW c \in Contexts, request[c].kind \in WriteKinds
    PROVE  handover[c] < 0 \/ request[c].ids \subseteq exempt
<1>1. NoHandover < 0
  BY Negative DEF NoHandover
<1> QED
  BY Zenon, <1>1 DEF HandoverInv, WriteKinds

\* A write that succeeds
LEMMA HandoverPersistOK ==
    ASSUME Inv, HandoverInv, NEW c \in Contexts, PersistWriteOK(c)
    PROVE  HandoverInv'
<1>1. /\ request[c].kind \in WriteKinds /\ rows' = rows \cup request[c].ids
      /\ request' = [request EXCEPT ![c] = Idle]
      /\ UNCHANGED <<dbRange, granted, lateWrites, issued, exempt, handover>>
  BY Zenon DEF PersistWriteOK, queueVars
<1>2. request[c].ids \subseteq issued[c]
  BY Zenon DEF Inv, RequestInv
<1>3. HandoverIsFinal'
  BY Zenon, <1>1, <1>2, WriteUnderWay, RowsAdded
<1>4. /\ request'[c] = Idle
      /\ \A d \in Contexts : d # c => request'[d] = request[d]
  BY Zenon, <1>1 DEF Inv, TypeOK, LifeTypeOK
<1> QED
  BY ZenonT(60), <1>1, <1>3, <1>4, IdleFacts DEF HandoverInv, WriteKinds

\* A write that fails and may land late
LEMMA HandoverPersistError ==
    ASSUME Inv, HandoverInv, NEW c \in Contexts, PersistWriteError(c)
    PROVE  HandoverInv'
<1> DEFINE l == [range |-> rangeID[c], ids |-> request[c].ids]
<1>1. /\ request[c].kind \in WriteKinds /\ lateWrites' \subseteq lateWrites \cup {l}
      /\ request' = [request EXCEPT ![c] = Idle]
      /\ UNCHANGED <<rows, dbRange, granted, issued, exempt, handover>>
  BY Zenon DEF PersistWriteError, idVars, queueVars
<1>2. l.range = rangeID[c] /\ l.ids = request[c].ids
  BY Zenon
<1> HIDE DEF l
<1>3. granted[l.range] = c
  BY Zenon, <1>1, <1>2, IdleFacts, EngineFacts, BlockFacts
<1>4. handover[c] < 0 \/ l.ids \subseteq exempt
  BY Zenon, <1>1, <1>2, WriteUnderWay
<1>5. /\ request'[c] = Idle
      /\ \A d \in Contexts : d # c => request'[d] = request[d]
  BY Zenon, <1>1 DEF Inv, TypeOK, LifeTypeOK
<1>6. \A d \in Contexts :
         /\ request'[d].kind = "write" => handover[d] = NoHandover
         /\ request'[d].kind \in ExemptKinds => request'[d].ids \subseteq exempt
  BY ZenonT(60), <1>5, IdleFacts DEF HandoverInv, WriteKinds
<1>7. ASSUME NEW w \in lateWrites', NEW d \in Contexts,
             d = granted[w.range], w.range = dbRange
      PROVE  handover[d] < 0 \/ w.ids \subseteq exempt
  BY Zenon, <1>1, <1>3, <1>4, <1>7 DEF HandoverInv
<1>8. HandoverIsFinal'
  BY Zenon, <1>1 DEF HandoverInv, HandoverIsFinal
<1> QED
  BY Zenon, <1>1, <1>6, <1>7, <1>8 DEF HandoverInv

\* A write that begins has no ID yet.
LEMMA HandoverBegin ==
    ASSUME Inv, HandoverInv, NEW c \in Contexts,
           \/ BeginWrite(c) \/ BeginOtherWrite(c) \/ DeleteWorkflowExecution(c)
           \/ BeginGenerate(c)
    PROVE  HandoverInv'
<1>1. UNCHANGED <<rows, lateWrites, dbRange, granted, issued, exempt, handover>>
  BY Zenon DEF BeginWrite, BeginOtherWrite, DeleteWorkflowExecution, BeginGenerate,
     AddTasks, storeVars, idVars, queueVars
<1>2. ASSUME NEW k, NEW n, k # "write" \/ handover[c] = NoHandover,
             request' = [request EXCEPT ![c] = [Idle EXCEPT !.kind = k, !.need = n]]
      PROVE  HandoverInv'
  <2>1. /\ request'[c].kind = k /\ request'[c].ids = {}
        /\ \A d \in Contexts : d # c => request'[d] = request[d]
    BY Zenon, <1>2 DEF Inv, TypeOK, LifeTypeOK, Idle
  <2> QED
    BY ZenonT(60), <1>1, <1>2, <2>1 DEF HandoverInv, HandoverIsFinal
<1>3. "other" # "write" /\ "delete" # "write" /\ "generate" # "write"
  BY Zenon
<1>4. CASE BeginWrite(c)
  BY Zenon, <1>2, <1>4 DEF BeginWrite, AddTasks
<1>5. CASE BeginOtherWrite(c)
  BY Zenon, <1>2, <1>3, <1>5 DEF BeginOtherWrite, AddTasks
<1>6. CASE DeleteWorkflowExecution(c)
  BY Zenon, <1>2, <1>3, <1>6 DEF DeleteWorkflowExecution, AddTasks
<1>7. CASE BeginGenerate(c)
  BY Zenon, <1>2, <1>3, <1>7 DEF BeginGenerate
<1> QED
  BY Zenon, <1>4, <1>5, <1>6, <1>7

\* A task ID of an exempt write is exempt; no row has it yet.
LEMMA HandoverGenerate ==
    ASSUME Inv, HandoverInv, NEW c \in Contexts, GenerateTaskID(c)
    PROVE  HandoverInv'
<1>1. /\ request[c].need > 0 /\ seq[c] < maxSeq[c]
      /\ UNCHANGED <<rows, lateWrites, dbRange, granted, handover>>
      /\ issued' = [issued EXCEPT ![c] = @ \cup {seq[c]}]
  BY Zenon DEF GenerateTaskID, storeVars, queueVars
<1>2. /\ request[c].kind \in ExemptKinds => exempt' = exempt \cup {seq[c]}
      /\ exempt \subseteq exempt'
  BY Zenon DEF GenerateTaskID
<1>3. /\ request'[c].kind = request[c].kind
      /\ request'[c].ids = request[c].ids \cup {seq[c]}
      /\ \A d \in Contexts : d # c => request'[d] = request[d]
  BY Zenon DEF GenerateTaskID, Inv, TypeOK, LifeTypeOK
<1>4. /\ issued'[c] = issued[c] \cup {seq[c]}
      /\ \A d \in Contexts : d # c => issued'[d] = issued[d]
  BY Zenon, <1>1 DEF Inv, TypeOK, IdTypeOK
<1>5. seq[c] \notin rows
  <2>1. seq[c] <= seq[c]
    BY Zenon, ContextFacts, Order
  <2> QED
    BY Zenon, <1>1, <2>1, InvUnique DEF Inv, RowInv, UniqueTaskIDs
<1>6. \A d \in Contexts : rows' \cap issued'[d] = rows \cap issued[d]
  BY Zenon, <1>1, <1>4, <1>5
<1>7. HandoverIsFinal'
  BY ZenonT(60), <1>1, <1>2, <1>6 DEF HandoverInv, HandoverIsFinal
<1>8. ASSUME NEW d \in Contexts
      PROVE  /\ request'[d].kind = "write" => handover'[d] = NoHandover
             /\ request'[d].kind \in ExemptKinds => request'[d].ids \subseteq exempt'
  BY ZenonT(60), <1>1, <1>2, <1>3 DEF HandoverInv
<1>9. \A w \in lateWrites' : \A d \in Contexts :
         d = granted'[w.range] /\ w.range = dbRange' =>
            handover'[d] < 0 \/ w.ids \subseteq exempt'
  BY ZenonT(60), <1>1, <1>2 DEF HandoverInv
<1> QED
  BY Zenon, <1>7, <1>8, <1>9 DEF HandoverInv

\* A handover is recorded, resolved or forgotten while the context is unlocked: it
\* is set only in state Acquired, to the last ID below the read level.
LEMMA HandoverSet ==
    ASSUME Inv, HandoverInv, NEW c \in Contexts, NEW h \in Int, Unlocked(c),
           handover' = [handover EXCEPT ![c] = h],
           \/ h < 0 \/ h = handover[c]
           \/ state[c] = "Acquired" /\ h = level[c] - 1,
           UNCHANGED <<storeVars, idVars, request>>
    PROVE  HandoverInv'
<1>1. UNCHANGED <<rows, lateWrites, dbRange, granted, issued, exempt>>
  BY Zenon DEF storeVars, idVars
<1>2. /\ handover'[c] = h
      /\ \A d \in Contexts : d # c => handover'[d] = handover[d]
  BY Zenon DEF Inv, TypeOK, QueueTypeOK
<1>3. ASSUME NEW d \in Contexts
      PROVE  /\ request'[d].kind = "write" => handover'[d] = NoHandover
             /\ request'[d].kind \in ExemptKinds => request'[d].ids \subseteq exempt'
  <2>1. CASE d = c
    BY ZenonT(60), <2>1, IdleFacts DEF Unlocked, WriteKinds
  <2>2. CASE d # c
    BY ZenonT(60), <1>1, <1>2, <2>2 DEF HandoverInv
  <2> QED
    BY Zenon, <2>1, <2>2
<1>4. ASSUME NEW w \in lateWrites, NEW d \in Contexts,
             d = granted[w.range], w.range = dbRange
      PROVE  handover'[d] < 0 \/ w.ids \subseteq exempt
  <2>1. handover[d] < 0 \/ w.ids \subseteq exempt
    BY Zenon, <1>4 DEF HandoverInv
  <2>2. state[d] # "Acquired"
    BY Zenon, <1>4 DEF Inv, LateInv
  <2> QED
    BY ZenonT(60), <1>2, <2>1, <2>2
<1>5. HandoverIsFinal'
  <2> SUFFICES ASSUME NEW d \in Contexts, handover'[d] >= 0,
                      NEW i \in (rows \cap issued[d]) \ exempt
               PROVE  i <= handover'[d]
    BY Zenon, <1>1 DEF HandoverIsFinal
  <2>1. CASE handover'[d] = handover[d]
    BY Zenon, <2>1 DEF HandoverInv, HandoverIsFinal
  <2>2. CASE d = c /\ state[c] = "Acquired" /\ h = level[c] - 1
    <3>1. i \in Nat /\ level[c] \in Nat /\ i < level[c]
      BY ZenonT(60), <2>2, ContextFacts DEF Inv, RowInv
    <3> QED
      BY Zenon, <1>2, <2>2, <3>1, BelowLevel
  <2>3. CASE d = c /\ h < 0
    BY Zenon, <1>2, <2>3, Negative
  <2> QED
    BY ZenonT(60), <1>2, <2>1, <2>2, <2>3
<1> QED
  BY Zenon, <1>1, <1>3, <1>4, <1>5 DEF HandoverInv

\* UpdateHandoverNamespace, the removal of its entry, and the resolution of a
\* pending one after the shard is acquired
LEMMA HandoverMarkers ==
    ASSUME Inv, HandoverInv, NEW c \in Contexts,
           AcquireNotify(c) \/ RecordHandover(c) \/ ClearHandover(c)
    PROVE  HandoverInv'
<1>1. level[c] - 1 \in Int
  BY Zenon, ContextFacts, BelowLevel
<1>2. /\ NoHandover \in Int /\ NoHandover < 0
      /\ PendingMaxReplicationTaskID \in Int /\ PendingMaxReplicationTaskID < 0
  BY Zenon, Negative DEF NoHandover, PendingMaxReplicationTaskID
<1>3. Unlocked(c) /\ UNCHANGED <<storeVars, idVars, request>>
  BY Zenon DEF AcquireNotify, RecordHandover, ClearHandover
<1>4. handover = [handover EXCEPT ![c] = handover[c]] /\ handover[c] \in Int
  BY Zenon DEF Inv, TypeOK, QueueTypeOK
<1>5. CASE AcquireNotify(c)
  BY Zenon, <1>1, <1>3, <1>4, <1>5, HandoverSet DEF AcquireNotify
<1>6. CASE RecordHandover(c)
  BY Zenon, <1>1, <1>2, <1>3, <1>6, HandoverSet DEF RecordHandover
<1>7. CASE ClearHandover(c)
  BY Zenon, <1>2, <1>3, <1>7, HandoverSet DEF ClearHandover
<1> QED
  BY Zenon, <1>5, <1>6, <1>7

\* Every step keeps HandoverInv.
LEMMA NextHandoverInv == Inv /\ HandoverInv /\ [Next]_vars => HandoverInv'
<1> SUFFICES ASSUME Inv, HandoverInv, [Next]_vars PROVE HandoverInv'
  OBVIOUS
<1>1. ASSUME NEW c \in Contexts, Acquire(c)
      PROVE  HandoverInv'
  BY Zenon, <1>1, HandoverAcquire, HandoverMarkers DEF Acquire
<1>2. ASSUME NEW c \in Contexts, Operate(c)
      PROVE  HandoverInv'
  BY Zenon, <1>2, HandoverBegin, HandoverGenerate, HandoverOther, HandoverPersistOK,
     HandoverPersistError, HandoverMarkers DEF Operate
<1>3. CASE UNCHANGED vars
  <2>1. UNCHANGED <<rows, lateWrites, dbRange, granted, issued, exempt, handover,
                    request>>
    BY Zenon, <1>3 DEF vars, storeVars, idVars, queueVars
  <2>2. NoNewWrite
    BY Zenon, <2>1 DEF NoNewWrite
  <2> QED
    BY Zenon, <2>1, <2>2, HandoverKept
<1> QED
  BY Zenon, <1>1, <1>2, <1>3, HandoverLandUpdate, HandoverLandWrite DEF Next

\* A handover's MaxReplicationTaskID bounds every task of the namespace that its
\* context wrote or will be found to have written, except the visibility tasks of
\* DeleteWorkflowExecution, which does not look at the namespace: whatever other
\* namespaces write meanwhile, and whichever calls land late.
THEOREM HandoverFinal == Spec => []HandoverIsFinal
<1>1. Init => HandoverInv
  BY ZenonT(60), IdleFacts DEF Init, HandoverInv, HandoverIsFinal, WriteKinds
<1>2. HandoverInv => HandoverIsFinal
  BY Zenon DEF HandoverInv
<1> QED
  BY <1>1, <1>2, NextHandoverInv, Invariant, PTL DEF Spec

-----------------------------------------------------------------------------
(* What a step does to the read levels and to the rows *)

\* The read level changes only when a range is renewed or a write succeeds.
LEMMA LevelSteps ==
    ASSUME Next
    PROVE  \/ level' = level
           \/ \E c \in Contexts : RenewRangeOK(c) \/ PersistWriteOK(c)
<1>1. ASSUME NEW c \in Contexts, Acquire(c)
      PROVE  level' = level \/ RenewRangeOK(c)
  BY Zenon, <1>1 DEF Acquire, Start, AcquireCheck, AcquireRenew, AcquireTransition,
              AcquireNotify, Unload, RenewRangeError, idVars
<1>2. ASSUME NEW c \in Contexts, Operate(c)
      PROVE  level' = level \/ RenewRangeOK(c) \/ PersistWriteOK(c)
  BY Zenon, <1>2 DEF Operate, AddTasks, BeginWrite, BeginOtherWrite,
              DeleteWorkflowExecution, BeginGenerate, GenerateTaskID, GenerateRenew,
              EndGenerate, PersistWriteError, SetQueueState, ReadQueue,
              RecordHandover, ClearHandover, RenewRangeError, idVars
<1>3. ASSUME NEW u \in lateUpdates, LandUpdate(u)
      PROVE  level' = level
  BY Zenon, <1>3 DEF LandUpdate, idVars
<1>4. ASSUME NEW w \in lateWrites, LandWrite(w)
      PROVE  level' = level
  BY Zenon, <1>4 DEF LandWrite, idVars
<1> QED
  BY Zenon, <1>1, <1>2, <1>3, <1>4 DEF Next

\* The read level of a context never goes backwards, although renewRangeLocked
\* assigns it without looking at the old value.
THEOREM LevelMonotonic == Spec => ReadLevelMonotonic
<1>1. ASSUME Inv, NEW c \in Contexts, RenewRangeOK(c), NEW d \in Contexts
      PROVE  level'[d] >= level[d]
  <2>1. /\ rangeID[c] = dbRange /\ dbRange + 1 <= MaxRangeID
        /\ level' = [level EXCEPT ![c] = RangeStart(dbRange + 1)]
    BY Zenon, <1>1 DEF RenewRangeOK, UpdateShardOK
  <2>2. RangeStart(dbRange + 1) \in Nat
    BY ZenonT(60), <1>1, RowRange
  <2>3. level[c] <= RangeStart(dbRange + 1)
    <3>1. level[c] <= seq[c] /\ seq[c] <= RangeStart(dbRange + 1)
      BY ZenonT(60), <1>1, <2>1, NextRange
    <3>2. level[c] \in Nat /\ seq[c] \in Nat
      BY ZenonT(60), <1>1, ContextFacts
    <3> QED
      BY ZenonT(60), <2>2, <3>1, <3>2, Order
  <2>4. level'[d] = IF d = c THEN RangeStart(dbRange + 1) ELSE level[d]
    BY ZenonT(60), <1>1, <2>1 DEF Inv, TypeOK, IdTypeOK
  <2> QED
    BY SMTT(60), <1>1, <2>2, <2>3, <2>4, ContextFacts
<1>2. ASSUME Inv, NEW c \in Contexts, PersistWriteOK(c), NEW d \in Contexts
      PROVE  level'[d] >= level[d]
  <2>1. request[c].newLevel \in Nat
    BY Zenon, <1>2 DEF Inv, TypeOK, LifeTypeOK, RequestRecords
  <2>2. level' = [level EXCEPT ![c] = IF request[c].newLevel > level[c]
                                      THEN request[c].newLevel ELSE level[c]]
    BY Zenon, <1>2 DEF PersistWriteOK
  <2>3. level \in [Contexts -> Nat]
    BY Zenon, <1>2 DEF Inv, TypeOK, IdTypeOK
  <2> QED
    BY SMTT(60), <1>2, <2>1, <2>2, <2>3
<1>3. ASSUME Inv, [Next]_vars
      PROVE  [LevelsGrow]_vars
  <2> SUFFICES ASSUME Next, NEW d \in Contexts PROVE level'[d] >= level[d]
    BY Zenon, <1>3 DEF LevelsGrow
  <2>1. CASE level' = level
    BY SMTT(60), <1>3, <2>1, ContextFacts
  <2> QED
    BY Zenon, <1>1, <1>2, <1>3, <2>1, LevelSteps
<1> QED
  BY <1>3, Invariant, PTL DEF ReadLevelMonotonic, Spec

\* A row appears only when a write succeeds or a late one lands.
LEMMA RowSteps ==
    ASSUME Next
    PROVE  \/ rows' = rows
           \/ \E c \in Contexts : PersistWriteOK(c)
           \/ \E w \in lateWrites : LandWrite(w)
<1>1. ASSUME NEW c \in Contexts, Acquire(c)
      PROVE  rows' = rows
  BY Zenon, <1>1 DEF Acquire, Start, AcquireCheck, AcquireRenew, AcquireTransition,
              AcquireNotify, Unload, RenewRangeOK, UpdateShardOK,
              RenewRangeError, UpdateShardError, storeVars
<1>2. ASSUME NEW c \in Contexts, Operate(c)
      PROVE  rows' = rows \/ PersistWriteOK(c)
  BY Zenon, <1>2 DEF Operate, AddTasks, BeginWrite, BeginOtherWrite,
              DeleteWorkflowExecution, BeginGenerate, GenerateTaskID, GenerateRenew,
              EndGenerate, PersistWriteError, SetQueueState, ReadQueue,
              RecordHandover, ClearHandover, RenewRangeOK, UpdateShardOK,
              RenewRangeError, UpdateShardError, storeVars
<1>3. ASSUME NEW u \in lateUpdates, LandUpdate(u)
      PROVE  rows' = rows
  BY Zenon, <1>3 DEF LandUpdate
<1> QED
  BY Zenon, <1>1, <1>2, <1>3 DEF Next

\* No task written under the range its ID comes from appears in the store below
\* the point up to which any immediate queue has read.
THEOREM NoTaskMissed == Spec => NoRowBelowRead
<1>1. ASSUME Inv, NEW c \in Contexts, granted[dbRange] = c,
             NEW i \in Nat, i >= RangeStart(dbRange), i >= level[c],
             NEW d \in Contexts
      PROVE  i >= queueRead[d]
  <2>1. queueRead[d] <= level[d]
    BY ZenonT(60), <1>1 DEF Inv, ReadInv
  <2>2. level[d] <= i
    BY SMTT(60), <1>1, RowRange, ContextFacts, LevelOfOthers
  <2> QED
    BY SMTT(60), <1>1, <2>1, <2>2, ContextFacts
<1>2. ASSUME Inv, NEW c \in Contexts, PersistWriteOK(c), NEW i \in rows' \ rows,
             i >= RangeStart(dbRange), NEW d \in Contexts
      PROVE  i >= queueRead[d]
  <2>1. i \in request[c].ids /\ dbRange = rangeID[c] /\ request[c].kind \in WriteKinds
    BY Zenon, <1>2 DEF PersistWriteOK
  <2>2. i \in Nat /\ i >= level[c]
    BY Zenon, <1>2, <2>1, ContextFacts DEF Inv, RequestInv
  <2>3. granted[dbRange] = c
    BY Zenon, <1>2, <2>1, IdleFacts, EngineFacts, BlockFacts
  <2> QED
    BY Zenon, <1>1, <1>2, <2>2, <2>3
<1>3. ASSUME Inv, NEW w \in lateWrites, LandWrite(w), NEW i \in rows' \ rows,
             i >= RangeStart(dbRange), NEW d \in Contexts
      PROVE  i >= queueRead[d]
  <2>1. i \in w.ids /\ w.range = dbRange
    BY Zenon, <1>3 DEF LandWrite
  <2>2. PICK c \in Contexts : c = granted[dbRange]
    BY ZenonT(60), <1>3, <2>1 DEF Inv, LateInv
  <2>3. i \in Nat
    BY ZenonT(60), <1>3, <2>1 DEF Inv, TypeOK, StoreTypeOK, WriteRecords, TaskIDs
  <2>4. i >= level[c]
    BY ZenonT(60), <1>3, <2>1, <2>2 DEF Inv, LateInv
  <2> QED
    BY Zenon, <1>1, <1>3, <2>2, <2>3, <2>4
<1>4. ASSUME Inv, [Next]_vars
      PROVE  [NewRowsUnread]_vars
  <2> SUFFICES ASSUME Next, NEW i \in rows' \ rows, i >= RangeStart(dbRange),
                      NEW d \in Contexts
               PROVE  i >= queueRead[d]
    BY Zenon, <1>4 DEF NewRowsUnread
  <2> QED
    BY Zenon, <1>2, <1>3, <1>4, RowSteps
<1> QED
  BY <1>4, Invariant, PTL DEF NoRowBelowRead, Spec

=============================================================================
