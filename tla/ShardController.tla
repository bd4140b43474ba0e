-------------------------- MODULE ShardController --------------------------
(***************************************************************************)
(* The life of the shard contexts that one host creates for one shard:     *)
(* service/history/shard/controller_impl.go and the lifecycle half of      *)
(* context_impl.go (transition, acquireShard, finishStop).                 *)
(*                                                                         *)
(* The contexts are numbered in the order of their creation.  What happens *)
(* to a context is driven by goroutines that meet in any order: API callers*)
(* and the management pump (getter, pump), acquireShard (acquirer), the    *)
(* close callback that a context makes on entering Stopping (callback) and *)
(* CloseShardByID (closer).  finishStop() is one step: once the state is   *)
(* Stopped engineFuture is not set any more, so that its engine.Stop() can *)
(* not be overtaken.  What a context does with persistence is the subject  *)
(* of ShardContext; here a renewal succeeds or fails and an operation      *)
(* reports an error, or not.                                               *)
(***************************************************************************)
EXTENDS Integers, ShardState

CONSTANTS
    Callers,         \* goroutines that call GetShardByID
    MaxContexts,     \* bound: contexts the host creates for the shard
    MaxTries         \* bound: retries before acquireShard's policy expires

ASSUME ControllerBounds == MaxContexts \in Nat /\ MaxTries \in Nat

VARIABLES
    status,          \* c.status of the controller
    owner,           \* the resolver says this host owns the shard
    shard,           \* c.historyShards[shardID], None if absent
    created,         \* number of contexts created so far
    getter,          \* pc of getOrCreateShardContext of a caller
    pump,            \* pc of shardManagementPump
    pumpShard,       \* the context the pump is closing
    state,           \* contextState
    acquirer,        \* pc of the acquireShard goroutine
    tries,           \* failed attempts of that goroutine
    engine,          \* the engine of a context, see Engines
    callback,        \* pc of shardClosedCallback
    closer,          \* pc of CloseShardByID
    served           \* history: contexts that have been Acquired

mapVars == <<status, owner, shard, created, getter, pump, pumpShard>>
ctxVars == <<state, acquirer, tries, engine, callback, closer, served>>
vars == <<mapVars, ctxVars>>

Contexts == 1 .. MaxContexts
None == 0
Pump == "pump"
Created == 1 .. created

\* "created": started by createEngine and known to acquireShard alone;
\* "set": in engineFuture; a stopped engine stays in engineFuture
Engines == {"none", "created", "set", "stopped"}
AcquirerPCs == {"none", "check", "renew", "engine", "transition"}
GetterPCs == {"idle", "lookup", "create"}
FinisherPCs == {"none", "remove", "finish"}
PumpPCs == {"wait", "getting", "close", "closing", "done"}

\* Every variable has its type, and contexts come into being in order: one
\* that has not been created has no goroutine, no engine and no map entry.
TypeOK ==
    /\ status \in {"Started", "Stopped"}
    /\ owner \in BOOLEAN
    /\ created \in 0 .. MaxContexts
    /\ shard \in Created \cup {None}
    /\ pumpShard \in Created \cup {None}
    /\ getter \in [Callers \cup {Pump} -> GetterPCs]
    /\ pump \in PumpPCs
    /\ state \in [Contexts -> States]
    /\ acquirer \in [Contexts -> AcquirerPCs]
    /\ tries \in [Contexts -> 0 .. MaxTries]
    /\ engine \in [Contexts -> Engines]
    /\ callback \in [Contexts -> FinisherPCs]
    /\ closer \in [Contexts -> FinisherPCs \ {"remove"}]
    /\ served \in SUBSET Created
    /\ \A c \in Contexts \ Created :
          /\ state[c] = "Initialized" /\ engine[c] = "none"
          /\ acquirer[c] = "none" /\ callback[c] = "none" /\ closer[c] = "none"

Init ==
    /\ status = "Started"
    /\ owner \in BOOLEAN
    /\ shard = None
    /\ created = 0
    /\ getter = [g \in Callers \cup {Pump} |-> "idle"]
    /\ pump = "wait"
    /\ pumpShard = None
    /\ state = [c \in Contexts |-> "Initialized"]
    /\ acquirer = [c \in Contexts |-> "none"]
    /\ tries = [c \in Contexts |-> 0]
    /\ engine = [c \in Contexts |-> "none"]
    /\ callback = [c \in Contexts |-> "none"]
    /\ closer = [c \in Contexts |-> "none"]
    /\ served = {}

IsValid(c) == state[c] \in ValidStates
\* the map has a context that getOrCreateShardContext can return
HasValidShard == shard # None /\ IsValid(shard)

-----------------------------------------------------------------------------
\* faulty: losing the shard does not start acquireShard again
Transition_NoAcquirer(c, req, pc) ==
    LET new == NextState(state[c], req)
        enters(s) == new = s /\ state[c] # s
    IN  /\ state' = [state EXCEPT ![c] = new]
        /\ acquirer' = [acquirer EXCEPT
              ![c] = IF req = "Acquire" THEN "check" ELSE pc]
        /\ tries' = [tries EXCEPT ![c] = IF enters("Acquiring") THEN 0 ELSE @]
        /\ callback' = [callback EXCEPT
              ![c] = IF enters("Stopping") THEN "remove" ELSE @]

\* transition(): entering Acquiring starts an acquireShard goroutine, which
\* otherwise goes on at pc; entering Stopping starts the close callback
Transition(c, req, pc) ==
    LET new == NextState(state[c], req)
        enters(s) == new = s /\ state[c] # s
    IN  /\ state' = [state EXCEPT ![c] = new]
        /\ acquirer' = [acquirer EXCEPT
              ![c] = IF enters("Acquiring") THEN "check" ELSE pc]
        /\ tries' = [tries EXCEPT ![c] = IF enters("Acquiring") THEN 0 ELSE @]
        /\ callback' = [callback EXCEPT
              ![c] = IF enters("Stopping") THEN "remove" ELSE @]

-----------------------------------------------------------------------------
(* acquireShard                                                            *)

\* faulty: the retry policy never expires
AttemptFailed_NoExpiry(c) ==
    \/ /\ IsValid(c)
       /\ tries' = [tries EXCEPT ![c] = 1 - @]
       /\ acquirer' = [acquirer EXCEPT ![c] = "check"]
       /\ UNCHANGED <<state, callback>>
    \/ ~IsValid(c) /\ Transition(c, "Stop", "none")

\* the attempt has failed: another one if the policy and the lifecycle
\* context allow it, else transition(Stop) and the goroutine ends
AttemptFailed(c) ==
    \/ /\ IsValid(c)
       /\ tries[c] < MaxTries
       /\ tries' = [tries EXCEPT ![c] = @ + 1]
       /\ acquirer' = [acquirer EXCEPT ![c] = "check"]
       /\ UNCHANGED <<state, callback>>
    \/ Transition(c, "Stop", "none")

\* IsValid() and loadShardMetadata()
AcquireCheck(c) ==
    /\ acquirer[c] = "check"
    /\ \/ /\ IsValid(c)
          /\ acquirer' = [acquirer EXCEPT ![c] = "renew"]
          /\ UNCHANGED <<state, tries, callback>>
       \/ AttemptFailed(c)
    /\ UNCHANGED <<mapVars, engine, closer, served>>

\* renewRangeLocked(true): its I/O context derives from the lifecycle context
AcquireRenew(c) ==
    /\ acquirer[c] = "renew"
    /\ \/ /\ IsValid(c)
          /\ acquirer' = [acquirer EXCEPT ![c] = "engine"]
          /\ UNCHANGED <<state, tries, callback>>
       \/ AttemptFailed(c)                         \* any error
    /\ UNCHANGED <<mapVars, engine, closer, served>>

\* faulty: a new engine for every acquisition
AcquireEngine_Always(c) ==
    /\ acquirer[c] = "engine"
    /\ acquirer' = [acquirer EXCEPT ![c] = "transition"]
    /\ engine' = [engine EXCEPT ![c] = "created"]
    /\ UNCHANGED <<mapVars, state, tries, callback, closer, served>>

\* createEngine() unless engineFuture is ready
AcquireEngine(c) ==
    /\ acquirer[c] = "engine"
    /\ acquirer' = [acquirer EXCEPT ![c] = "transition"]
    /\ engine' = [engine EXCEPT ![c] = IF @ = "none" THEN "created" ELSE @]
    /\ UNCHANGED <<mapVars, state, tries, callback, closer, served>>

\* faulty: the engine is left running if the transition fails
AcquireTransition_EngineLeft(c) ==
    /\ acquirer[c] = "transition"
    /\ \/ /\ state[c] = "Acquiring"
          /\ Transition(c, "Acquired", "none")
          /\ engine' = [engine EXCEPT ![c] = IF @ = "created" THEN "set" ELSE @]
          /\ served' = served \cup {c}
       \/ /\ state[c] # "Acquiring"
          /\ AttemptFailed(c)
          /\ UNCHANGED <<engine, served>>
    /\ UNCHANGED <<mapVars, closer>>

\* transition(contextRequestAcquired{engine}), and engine.Stop() if it fails
AcquireTransition(c) ==
    /\ acquirer[c] = "transition"
    /\ \/ /\ state[c] = "Acquiring"
          /\ Transition(c, "Acquired", "none")
          /\ engine' = [engine EXCEPT ![c] = IF @ = "created" THEN "set" ELSE @]
          /\ served' = served \cup {c}
       \/ /\ state[c] # "Acquiring"
          /\ AttemptFailed(c)
          /\ engine' = [engine EXCEPT ![c] = IF @ = "created"
                                             THEN "stopped" ELSE @]
          /\ UNCHANGED served
    /\ UNCHANGED <<mapVars, closer>>

\* an operation of the engine or of a handler reports an error through
\* handleReadError or handleWriteErrorLocked, or calls Unload()
ReportError(c) ==
    /\ engine[c] # "none"
    /\ \E req \in {"Lost", "Stop"} : Transition(c, req, acquirer[c])
    /\ UNCHANGED <<mapVars, engine, closer, served>>

-----------------------------------------------------------------------------
(* Stopping a context                                                      *)

\* finishStop(): the transition, then engine.Stop() if engineFuture is set
FinishStop(c) ==
    /\ state' = [state EXCEPT ![c] = NextState(@, "FinishStop")]
    /\ engine' = [engine EXCEPT ![c] = IF @ = "set" THEN "stopped" ELSE @]
    /\ UNCHANGED <<acquirer, tries, served>>

\* faulty: only a context that was in the map is finished
ShardClosedCallback_IfInMap(c) ==
    \/ /\ callback[c] = "remove"
       /\ shard' = IF shard = c THEN None ELSE shard
       /\ callback' = [callback EXCEPT
             ![c] = IF shard = c THEN "finish" ELSE "none"]
       /\ UNCHANGED <<status, owner, created, getter, pump, pumpShard, state,
                      acquirer, tries, engine, closer, served>>
    \/ /\ callback[c] = "finish"
       /\ FinishStop(c)
       /\ callback' = [callback EXCEPT ![c] = "none"]
       /\ UNCHANGED <<mapVars, closer>>

\* shardClosedCallback: removeShard(shardID, shard), then finishStop() whether
\* the context was in the map or not
ShardClosedCallback(c) ==
    \/ /\ callback[c] = "remove"
       /\ shard' = IF shard = c THEN None ELSE shard
       /\ callback' = [callback EXCEPT ![c] = "finish"]
       /\ UNCHANGED <<status, owner, created, getter, pump, pumpShard, state,
                      acquirer, tries, engine, closer, served>>
    \/ /\ callback[c] = "finish"
       /\ FinishStop(c)
       /\ callback' = [callback EXCEPT ![c] = "none"]
       /\ UNCHANGED <<mapVars, closer>>

\* faulty: the context stays in the map
RemoveShard_NotDeleted ==
    /\ shard # None
    /\ closer' = [closer EXCEPT ![shard] = "finish"]
    /\ UNCHANGED <<status, owner, shard, created, getter, state, acquirer,
                   tries, engine, callback, served>>

\* removeShard(shardID, nil), the first step of CloseShardByID
RemoveShard ==
    /\ shard # None
    /\ shard' = None
    /\ closer' = [closer EXCEPT ![shard] = "finish"]
    /\ UNCHANGED <<status, owner, created, getter, state, acquirer, tries,
                   engine, callback, served>>

\* CloseShardByID called for the admin API
CloseShardByID == RemoveShard /\ UNCHANGED <<pump, pumpShard>>

\* the finishStop() of CloseShardByID
CloseFinish(c) ==
    /\ closer[c] = "finish"
    /\ FinishStop(c)
    /\ closer' = [closer EXCEPT ![c] = "none"]
    /\ UNCHANGED <<mapVars, callback>>

-----------------------------------------------------------------------------
(* getOrCreateShardContext                                                 *)

\* the check under the read lock finds no valid context
GetShardByID(g) ==
    /\ g \in Callers
    /\ getter[g] = "idle"
    /\ ~HasValidShard
    /\ getter' = [getter EXCEPT ![g] = "lookup"]
    /\ UNCHANGED <<status, owner, shard, created, pump, pumpShard, ctxVars>>

\* Lookup of the owner, under no lock; it may fail
GetLookup(g) ==
    /\ getter[g] = "lookup"
    /\ \/ owner /\ getter' = [getter EXCEPT ![g] = "create"]
       \/ getter' = [getter EXCEPT ![g] = "idle"]
    /\ UNCHANGED <<status, owner, shard, created, pump, pumpShard, ctxVars>>

\* newContext and start(); newContext may fail
CreateContext(c) ==
    /\ created' = c
    /\ shard' = c
    /\ Transition(c, "Acquire", "none")
    /\ UNCHANGED <<engine, closer, served>>

\* faulty: the status of the controller is not checked under the lock
GetCreate_NoStatusCheck(g) ==
    /\ getter[g] = "create"
    /\ getter' = [getter EXCEPT ![g] = "idle"]
    /\ \/ /\ HasValidShard
          /\ UNCHANGED <<shard, created, ctxVars>>
       \/ /\ ~HasValidShard
          /\ \/ shard' = None /\ UNCHANGED <<created, ctxVars>>
             \/ created < MaxContexts /\ CreateContext(created + 1)
    /\ UNCHANGED <<status, owner, pump, pumpShard>>

\* the rest, under the write lock: Unload of an invalid context is a no-op,
\* it is Stopping already
GetCreate(g) ==
    /\ getter[g] = "create"
    /\ getter' = [getter EXCEPT ![g] = "idle"]
    /\ \/ /\ HasValidShard
          /\ UNCHANGED <<shard, created, ctxVars>>
       \/ /\ ~HasValidShard
          /\ \/ shard' = None /\ UNCHANGED <<created, ctxVars>>
             \/ /\ status # "Stopped"
                /\ created < MaxContexts
                /\ CreateContext(created + 1)
    /\ UNCHANGED <<status, owner, pump, pumpShard>>

-----------------------------------------------------------------------------
(* Membership, Stop() and the management pump                              *)

RingChange ==
    /\ owner' = ~owner
    /\ UNCHANGED <<status, shard, created, getter, pump, pumpShard, ctxVars>>

Stop ==
    /\ status = "Started"
    /\ status' = "Stopped"
    /\ UNCHANGED <<owner, shard, created, getter, pump, pumpShard, ctxVars>>

\* faulty: contexts are acquired, never released
PumpAcquire_NoRelease ==
    /\ pump = "wait"
    /\ status # "Stopped"
    /\ owner
    /\ pump' = "getting"
    /\ getter' = [getter EXCEPT ![Pump] =
                    IF HasValidShard THEN "idle" ELSE "lookup"]
    /\ UNCHANGED <<status, owner, shard, created, pumpShard, ctxVars>>

\* the ticker or a membership event: acquireShards() and its tryAcquire, up to
\* the first step under the controller lock.  There is nothing to do if Lookup
\* fails or shutdownCh is closed.
PumpAcquire ==
    /\ pump = "wait"
    /\ status # "Stopped"
    /\ \/ /\ ~owner
          /\ pump' = "close"
          /\ UNCHANGED getter
       \/ /\ owner
          /\ pump' = "getting"
          /\ getter' = [getter EXCEPT ![Pump] =
                          IF HasValidShard THEN "idle" ELSE "lookup"]
    /\ UNCHANGED <<status, owner, shard, created, pumpShard, ctxVars>>

\* CloseShardByID called by tryAcquire
PumpClose ==
    /\ pump = "close"
    /\ \/ /\ shard = None
          /\ pump' = "wait"
          /\ UNCHANGED <<status, owner, shard, created, getter, pumpShard,
                         ctxVars>>
       \/ /\ RemoveShard
          /\ pump' = "closing"
          /\ pumpShard' = shard

\* tryAcquire returns: CloseShardByID is done, or GetShardByID is and
\* AssertOwnership too, whose error is a ReportError
PumpReturn ==
    /\ \/ pump = "closing" /\ closer[pumpShard] = "none"
       \/ pump = "getting" /\ getter[Pump] = "idle"
    /\ pump' = "wait"
    /\ pumpShard' = None
    /\ UNCHANGED <<status, owner, shard, created, getter, ctxVars>>

\* doShutdown: under the lock, finishStop() for the contexts in the map
PumpShutdown ==
    /\ status = "Stopped"
    /\ pump = "wait"
    /\ pump' = "done"
    /\ shard' = None
    /\ IF shard = None THEN UNCHANGED <<state, acquirer, tries, engine, served>>
                       ELSE FinishStop(shard)
    /\ UNCHANGED <<status, owner, created, getter, pumpShard, callback, closer>>

-----------------------------------------------------------------------------
Acquirer(c) ==
    AcquireCheck(c) \/ AcquireRenew(c) \/ AcquireEngine(c) \/ AcquireTransition(c)
GetOrCreate(g) == GetLookup(g) \/ GetCreate(g)
PumpStep == PumpAcquire \/ PumpClose \/ PumpReturn

Next ==
    \/ \E c \in Created : \/ Acquirer(c) \/ ReportError(c)
                          \/ ShardClosedCallback(c) \/ CloseFinish(c)
    \/ \E g \in Callers \cup {Pump} : GetShardByID(g) \/ GetOrCreate(g)
    \/ CloseShardByID \/ RingChange \/ Stop
    \/ PumpStep \/ PumpShutdown

Spec == Init /\ [][Next]_vars

\* Every goroutine that can go on does so, the ticker ticks, and Lookup does not
\* fail for ever.
\* Nothing makes the ring change, a request arrive or an operation fail.
Fairness ==
    /\ \A c \in Contexts : /\ WF_vars(c <= created /\ Acquirer(c))
                           /\ WF_vars(ShardClosedCallback(c))
                           /\ WF_vars(CloseFinish(c))
    /\ \A g \in Callers \cup {Pump} : WF_vars(GetOrCreate(g))
    /\ WF_vars(PumpStep)
    /\ WF_vars(PumpShutdown)

FairSpec == Spec /\ Fairness

-----------------------------------------------------------------------------
(* Safety                                                                  *)

\* "If state is Acquiring, acquireShard should be running in the background"
\* (transition), and it is the only goroutine that can end this state: however
\* often the shard is lost and re-acquired, none gets stuck in Acquiring.
AcquiringIsDriven ==
    \A c \in Created : state[c] = "Acquiring" => acquirer[c] # "none"

\* "Once state has reached Acquired at least once, and not reached Stopped,
\* engineFuture must be set", and the engine in it has not been stopped.
ServedHasEngine ==
    \A c \in served : state[c] # "Stopped" => engine[c] = "set"

Unfinished(c) == callback[c] # "none" \/ closer[c] # "none"

\* "The controller must call finishStop() for every ContextImpl it creates":
\* a context that is neither in the map nor Stopped has a goroutine that is
\* about to finish it, however a removal by CloseShardByID, the callback, the
\* replacement in getOrCreateShardContext and doShutdown race.
NoOrphan ==
    \A c \in Created : c # shard /\ state[c] # "Stopped" => Unfinished(c)

\* A context is taken out of the map before it is Stopped, and the map is never
\* given one again that some goroutine is about to stop: what the map holds is
\* Acquiring, Acquired or has just begun to stop by itself.
MapHasNoStopped ==
    shard # None => /\ state[shard] # "Stopped"
                    /\ closer[shard] = "none"
                    /\ callback[shard] # "finish"

\* "engineFuture.Set should only be called inside stateLock when state is
\* Acquiring, so that other code (i.e. finishStop) can know that after a state
\* transition to Stopping/Stopped, engineFuture cannot be Set" (transition):
\* once the goroutines of a Stopped context are done, its engine, whether
\* finishStop found it in engineFuture or acquireShard still had it in hand,
\* has been stopped.
NoEngineLeft ==
    \A c \in Created :
        state[c] = "Stopped" /\ acquirer[c] = "none" /\ ~Unfinished(c)
           => engine[c] \in {"none", "stopped"}

\* No caller that looked up the owner before Stop() creates a context that
\* doShutdown does not see.
NothingAfterShutdown == pump = "done" => shard = None

-----------------------------------------------------------------------------
(* Liveness                                                                *)

\* acquireShard, with all its retries, comes to an end.
AcquiringEnds ==
    \A c \in Contexts : state[c] = "Acquiring" ~> state[c] # "Acquiring"

Released(c) == state[c] = "Stopped" /\ engine[c] \in {"none", "stopped"}

\* A context that has left the map, for whatever reason, is eventually Stopped
\* for good, and so is its engine.
RemovedIsReleased ==
    \A c \in Contexts : (c <= created /\ shard # c) ~> []Released(c)

\* After Stop() every context the host ever created is released.
ShutdownReleasesAll ==
    status = "Stopped" ~> [](\A c \in Created : Released(c))

\* A host that is no longer the owner of the shard in the ring does not keep a
\* context for it, even if callers act on a lookup made before.
LostOwnershipUnloads == <>[]~owner => <>[](shard = None)
=============================================================================
