----------------------- MODULE ShardControllerProofs -----------------------
(***************************************************************************)
(* Proofs about ShardController, for any number of callers, contexts and   *)
(* retries.  LifeInv is the inductive invariant: what the goroutines of a  *)
(* context that are under way say about its state and its engine.          *)
(***************************************************************************)
EXTENDS ShardController, TLAPS

\* A context, from its creation to the end of its last goroutine
CtxInv(c) ==
    /\ state[c] # "Initialized"
    /\ state[c] = "Acquiring" => acquirer[c] # "none"
    /\ state[c] = "Acquired" => acquirer[c] = "none"
    /\ state[c] = "Stopping" => callback[c] # "none"
    /\ callback[c] # "none" => state[c] \in {"Stopping", "Stopped"}
    /\ engine[c] = "created" => acquirer[c] = "transition"
    /\ acquirer[c] = "transition" => engine[c] # "none"
    /\ engine[c] = "set" => state[c] # "Stopped"
    /\ engine[c] = "stopped" => state[c] \in {"Stopping", "Stopped"}
    /\ c \in served /\ state[c] # "Stopped" => engine[c] = "set"
    /\ c # shard /\ state[c] # "Stopped" => Unfinished(c)
    /\ c = shard => /\ state[c] # "Stopped"
                    /\ closer[c] = "none"
                    /\ callback[c] # "finish"

LifeInv ==
    /\ TypeOK
    /\ \A c \in Created : CtxInv(c)
    /\ pump = "done" => status = "Stopped" /\ shard = None

\* A step of context c: the map and the other contexts stay as they are.
OnlyContext(c) ==
    /\ UNCHANGED mapVars
    /\ state'[c] \in States /\ state' = [state EXCEPT ![c] = state'[c]]
    /\ acquirer'[c] \in AcquirerPCs /\ acquirer' = [acquirer EXCEPT ![c] = acquirer'[c]]
    /\ tries'[c] \in 0 .. MaxTries /\ tries' = [tries EXCEPT ![c] = tries'[c]]
    /\ engine'[c] \in Engines /\ engine' = [engine EXCEPT ![c] = engine'[c]]
    /\ callback'[c] \in FinisherPCs /\ callback' = [callback EXCEPT ![c] = callback'[c]]
    /\ closer'[c] \in FinisherPCs \ {"remove"} /\ closer' = [closer EXCEPT ![c] = closer'[c]]
    /\ served' \in {served, served \cup {c}}

\* A step of one context keeps LifeInv if it keeps what LifeInv says of that
\* context.
LEMMA ContextStep ==
    ASSUME LifeInv, NEW c \in Created, OnlyContext(c), CtxInv(c)'
    PROVE  LifeInv'
  <1>1. c \in Contexts /\ Created \subseteq Contexts /\ Created' = Created /\ TypeOK
    BY SMTT(60), ControllerBounds DEF LifeInv, TypeOK, Created, Contexts, OnlyContext, mapVars
  <1>2. ASSUME NEW d \in Contexts, d # c
        PROVE  /\ state'[d] = state[d] /\ acquirer'[d] = acquirer[d]
               /\ engine'[d] = engine[d] /\ callback'[d] = callback[d]
               /\ closer'[d] = closer[d] /\ (d \in served' <=> d \in served)
    BY <1>1, <1>2 DEF OnlyContext, TypeOK
  <1>3. ASSUME NEW d \in Created, d # c  PROVE CtxInv(d)'
    <2>1. CtxInv(d)
      BY DEF LifeInv
    <2> QED
      BY <1>1, <1>2, <2>1, <1>3 DEF CtxInv, Unfinished, OnlyContext, mapVars
  <1>4. /\ state' \in [Contexts -> States] /\ acquirer' \in [Contexts -> AcquirerPCs]
        /\ tries' \in [Contexts -> 0 .. MaxTries] /\ engine' \in [Contexts -> Engines]
    BY <1>1 DEF TypeOK, OnlyContext
  <1>5. /\ callback' \in [Contexts -> FinisherPCs]
        /\ closer' \in [Contexts -> FinisherPCs \ {"remove"}] /\ served' \in SUBSET Created
    BY <1>1 DEF TypeOK, OnlyContext
  <1>6. \A d \in Contexts \ Created : 
          /\ state'[d] = "Initialized" /\ engine'[d] = "none"
          /\ acquirer'[d] = "none" /\ callback'[d] = "none" /\ closer'[d] = "none"
    BY <1>1, <1>2 DEF TypeOK
  <1>7. TypeOK'
    BY <1>1, <1>4, <1>5, <1>6 DEF TypeOK, OnlyContext, mapVars
  <1>8. \A d \in Created' : CtxInv(d)'
    BY <1>1, <1>3
  <1> QED
    BY <1>7, <1>8 DEF LifeInv, OnlyContext, mapVars

\* A failed attempt of acquireShard goes on trying, ends with the context as it
\* is, or ends with the context entering Stopping and its callback.
LEMMA AttemptFailedStep ==
    ASSUME LifeInv, NEW c \in Created, acquirer[c] # "none", AttemptFailed(c)
    PROVE  /\ state' = [state EXCEPT ![c] = state'[c]]
           /\ acquirer' = [acquirer EXCEPT ![c] = acquirer'[c]]
           /\ tries' = [tries EXCEPT ![c] = tries'[c]]
           /\ callback' = [callback EXCEPT ![c] = callback'[c]]
           /\ acquirer'[c] \in {"none", "check"} /\ tries'[c] \in 0 .. MaxTries
           /\ \/ /\ state'[c] = state[c] /\ callback'[c] = callback[c]
                 /\ state[c] = "Acquiring" => acquirer'[c] = "check"
              \/ state'[c] = "Stopping" /\ callback'[c] = "remove" /\ state[c] = "Acquiring"
  <1>1. c \in Contexts /\ state[c] \in States /\ state[c] \notin {"Initialized", "Acquired"}
    BY ControllerBounds DEF LifeInv, TypeOK, CtxInv, Created, Contexts
  <1>2. CASE /\ IsValid(c)
             /\ tries[c] < MaxTries
             /\ tries' = [tries EXCEPT ![c] = @ + 1]
             /\ acquirer' = [acquirer EXCEPT ![c] = "check"]
             /\ UNCHANGED <<state, callback>>
    BY <1>1, <1>2, ControllerBounds DEF LifeInv, TypeOK
  <1>3. CASE Transition(c, "Stop", "none")
    BY <1>1, <1>3, ControllerBounds DEF LifeInv, TypeOK, Transition, NextState, States, ValidStates
  <1> QED
    BY <1>2, <1>3 DEF AttemptFailed

-----------------------------------------------------------------------------
(* One lemma per action                                                    *)

\* acquireShard: whoever has an engine in hand is about to set it or to stop it.
LEMMA AcquirerStep ==
    ASSUME LifeInv, NEW c \in Created, Acquirer(c)
    PROVE  LifeInv'
  <1>1. CtxInv(c) /\ c \in Contexts
    BY ControllerBounds DEF LifeInv, TypeOK, Created, Contexts
  <1>2. CASE AcquireCheck(c) \/ AcquireRenew(c)
    <2>1. PICK pc \in {"renew", "engine"} :
            /\ acquirer[c] \in {"check", "renew"}
            /\ \/ /\ acquirer' = [acquirer EXCEPT ![c] = pc]
                  /\ UNCHANGED <<state, tries, callback>>
               \/ AttemptFailed(c)
            /\ UNCHANGED <<mapVars, engine, closer, served>>
      BY <1>2 DEF AcquireCheck, AcquireRenew
    <2>2. CASE acquirer' = [acquirer EXCEPT ![c] = pc] /\ UNCHANGED <<state, tries, callback>>
      <3>1. OnlyContext(c)
        BY <1>1, <2>1, <2>2 DEF LifeInv, TypeOK, AcquirerPCs, mapVars, OnlyContext, Created, Contexts
      <3>2. CtxInv(c)'
        BY <1>1, <2>1, <2>2 DEF CtxInv, Unfinished, LifeInv, TypeOK, mapVars
      <3> QED
        BY <3>1, <3>2, ContextStep
    <2>3. CASE AttemptFailed(c)
      <3>1. OnlyContext(c)
        BY SMTT(60), <1>1, <2>1, <2>3, AttemptFailedStep
        DEF LifeInv, TypeOK, States, AcquirerPCs, FinisherPCs, mapVars, OnlyContext, Created, Contexts
      <3>2. CtxInv(c)'
        BY <1>1, <2>1, <2>3, AttemptFailedStep DEF CtxInv, Unfinished, LifeInv, TypeOK, mapVars
      <3> QED
        BY <3>1, <3>2, ContextStep
    <2> QED
      BY <2>1, <2>2, <2>3
  <1>3. CASE AcquireEngine(c)
    <2>1. OnlyContext(c)
      BY <1>1, <1>3 DEF AcquireEngine, LifeInv, TypeOK, AcquirerPCs, Engines, mapVars, OnlyContext,
                        Created, Contexts
    <2>2. CtxInv(c)'
      BY <1>1, <1>3 DEF AcquireEngine, CtxInv, Unfinished, LifeInv, TypeOK, Engines, mapVars
    <2> QED
      BY <2>1, <2>2, ContextStep
  <1>4. CASE AcquireTransition(c)
    <2>1. CASE /\ state[c] = "Acquiring"
               /\ Transition(c, "Acquired", "none")
               /\ engine' = [engine EXCEPT ![c] = IF @ = "created" THEN "set" ELSE @]
               /\ served' = served \cup {c}
      <3>1. OnlyContext(c)
        BY <1>1, <1>4, <2>1
        DEF AcquireTransition, Transition, NextState, States, ValidStates, LifeInv, TypeOK, AcquirerPCs,
            FinisherPCs, Engines, mapVars, OnlyContext, Created, Contexts
      <3>2. CtxInv(c)'
        BY SMTT(60), <1>1, <1>4, <2>1
        DEF AcquireTransition, Transition, NextState, CtxInv, Unfinished, LifeInv, TypeOK, Engines,
            FinisherPCs, mapVars
      <3> QED
        BY <3>1, <3>2, ContextStep
    <2>2. CASE /\ state[c] # "Acquiring"
               /\ AttemptFailed(c)
               /\ engine' = [engine EXCEPT ![c] = IF @ = "created" THEN "stopped" ELSE @]
               /\ UNCHANGED served
      <3>1. OnlyContext(c)
        BY SMTT(60), <1>1, <1>4, <2>2, AttemptFailedStep
        DEF AcquireTransition, LifeInv, TypeOK, States, AcquirerPCs, FinisherPCs, Engines, mapVars,
            OnlyContext, Created, Contexts
      <3>2. CtxInv(c)'
        BY <1>1, <1>4, <2>2, AttemptFailedStep
        DEF AcquireTransition, CtxInv, Unfinished, LifeInv, TypeOK, States, Engines, mapVars
      <3> QED
        BY <3>1, <3>2, ContextStep
    <2> QED
      BY <1>4, <2>1, <2>2 DEF AcquireTransition
  <1> QED
    BY <1>2, <1>3, <1>4 DEF Acquirer

\* handleReadError, handleWriteErrorLocked and Unload
LEMMA ReportErrorStep ==
    ASSUME LifeInv, NEW c \in Created, ReportError(c)
    PROVE  LifeInv'
  <1>1. CtxInv(c) /\ c \in Contexts
    BY ControllerBounds DEF LifeInv, TypeOK, Created, Contexts
  <1>2. PICK req \in {"Lost", "Stop"} : Transition(c, req, acquirer[c])
    BY DEF ReportError
  <1>3. OnlyContext(c)
    <2>1. /\ state'[c] \in States /\ state' = [state EXCEPT ![c] = state'[c]]
          /\ acquirer'[c] \in AcquirerPCs /\ acquirer' = [acquirer EXCEPT ![c] = acquirer'[c]]
      BY <1>1, <1>2 DEF Transition, NextState, States, ValidStates, LifeInv, TypeOK, AcquirerPCs
    <2>2. /\ tries'[c] \in 0 .. MaxTries /\ tries' = [tries EXCEPT ![c] = tries'[c]]
          /\ callback'[c] \in FinisherPCs /\ callback' = [callback EXCEPT ![c] = callback'[c]]
      BY SMTT(60), <1>1, <1>2, ControllerBounds DEF Transition, LifeInv, TypeOK, FinisherPCs
    <2> QED
      BY <1>1, <2>1, <2>2 DEF OnlyContext, ReportError, LifeInv, TypeOK
  <1>4. CtxInv(c)'
    BY <1>1, <1>2
    DEF ReportError, Transition, NextState, States, ValidStates, CtxInv, Unfinished, LifeInv, TypeOK,
        Engines, mapVars
  <1> QED
    BY <1>3, <1>4, ContextStep

\* shardClosedCallback: the context has left the map before it is Stopped.
LEMMA CallbackStep ==
    ASSUME LifeInv, NEW c \in Created, ShardClosedCallback(c)
    PROVE  LifeInv'
  <1>1. CtxInv(c) /\ c \in Contexts
    BY ControllerBounds DEF LifeInv, TypeOK, Created, Contexts
  <1>2. CASE callback[c] = "remove"
    <2>1. TypeOK'
      BY ZenonT(60), <1>1, <1>2 DEF ShardClosedCallback, LifeInv, TypeOK, FinisherPCs, Created, Contexts
    <2>2. ASSUME NEW d \in Created PROVE CtxInv(d)'
      <3>1. CtxInv(d) /\ d \in Contexts
        BY ControllerBounds DEF LifeInv, TypeOK, Created, Contexts
      <3> QED
        BY <1>1, <1>2, <3>1 DEF ShardClosedCallback, LifeInv, TypeOK, CtxInv, Unfinished, None, Created
    <2> QED
      BY <1>2, <2>1, <2>2 DEF LifeInv, ShardClosedCallback, Created
  <1>3. CASE callback[c] = "finish"
    <2>1. OnlyContext(c)
      BY ZenonT(60), <1>1, <1>3
      DEF ShardClosedCallback, FinishStop, NextState, States, LifeInv, TypeOK, FinisherPCs, Engines,
          mapVars, OnlyContext, Created, Contexts
    <2>2. CtxInv(c)'
      BY <1>1, <1>3
      DEF ShardClosedCallback, FinishStop, NextState, LifeInv, TypeOK, CtxInv, Unfinished, mapVars
    <2> QED
      BY <2>1, <2>2, ContextStep
  <1> QED
    BY <1>2, <1>3 DEF ShardClosedCallback

\* the finishStop() of CloseShardByID
LEMMA CloseFinishStep ==
    ASSUME LifeInv, NEW c \in Created, CloseFinish(c)
    PROVE  LifeInv'
  <1>1. CtxInv(c) /\ c \in Contexts
    BY ControllerBounds DEF LifeInv, TypeOK, Created, Contexts
  <1>2. OnlyContext(c)
    BY <1>1
    DEF CloseFinish, FinishStop, NextState, States, LifeInv, TypeOK, FinisherPCs, Engines, mapVars,
        OnlyContext, Created, Contexts
  <1>3. CtxInv(c)'
    BY <1>1 DEF CloseFinish, FinishStop, NextState, LifeInv, TypeOK, CtxInv, Unfinished, mapVars
  <1> QED
    BY <1>2, <1>3, ContextStep

\* removeShard of CloseShardByID hands the context to a goroutine that finishes
\* it.
LEMMA RemoveShardStep ==
    ASSUME LifeInv, RemoveShard, pump' \in PumpPCs, pumpShard' \in Created \cup {None},
           pump' = "done" => pump = "done"
    PROVE  LifeInv'
  <1>1. shard \in Created /\ shard \in Contexts
    BY ControllerBounds DEF RemoveShard, LifeInv, TypeOK, Created, Contexts
  <1>2. TypeOK'
    BY <1>1 DEF RemoveShard, LifeInv, TypeOK, FinisherPCs, Created, Contexts, None
  <1>3. ASSUME NEW d \in Created PROVE CtxInv(d)'
    BY <1>1 DEF RemoveShard, LifeInv, TypeOK, CtxInv, Unfinished, Created, Contexts, None
  <1> QED
    BY <1>2, <1>3 DEF LifeInv, RemoveShard, Created, None
\* A step of callers, pump or membership that leaves the map and the contexts
\* alone
LEMMA FrameStep ==
    ASSUME LifeInv, UNCHANGED <<shard, created, ctxVars>>,
           status' \in {"Started", "Stopped"}, owner' \in BOOLEAN, pump' \in PumpPCs,
           pumpShard' \in Created \cup {None}, getter' \in [Callers \cup {Pump} -> GetterPCs],
           pump' = "done" => status' = "Stopped" /\ shard = None
    PROVE  LifeInv'
  <1>1. TypeOK' /\ Created' = Created
    BY DEF LifeInv, TypeOK, ctxVars, Created
  <1>2. ASSUME NEW d \in Created PROVE CtxInv(d)'
    <2>1. CtxInv(d)
      BY SMTT(60) DEF LifeInv
    <2> QED
      BY <2>1 DEF CtxInv, Unfinished, ctxVars
  <1> QED
    BY <1>1, <1>2 DEF LifeInv

\* getOrCreateShardContext before it takes the write lock
LEMMA GetterStep ==
    ASSUME LifeInv, NEW g \in Callers \cup {Pump}, GetShardByID(g) \/ GetLookup(g)
    PROVE  LifeInv'
  <1>1. /\ UNCHANGED <<status, owner, shard, created, pump, pumpShard, ctxVars>>
        /\ getter' \in [Callers \cup {Pump} -> GetterPCs]
    BY DEF GetShardByID, GetLookup, GetterPCs, LifeInv, TypeOK
  <1> QED
    BY <1>1, FrameStep DEF LifeInv, TypeOK

\* The map gives up a context only if it is not valid.
LEMMA GetCreateStep ==
    ASSUME LifeInv, NEW g \in Callers \cup {Pump}, GetCreate(g)
    PROVE  LifeInv'
  <1>1. /\ UNCHANGED <<status, owner, pump, pumpShard>>
        /\ getter' = [getter EXCEPT ![g] = "idle"] /\ getter' \in [Callers \cup {Pump} -> GetterPCs]
    BY SMTT(60) DEF GetCreate, LifeInv, TypeOK, GetterPCs
  <1>2. CASE UNCHANGED <<shard, created, ctxVars>>
    BY SMTT(60), <1>1, <1>2, FrameStep DEF LifeInv, TypeOK
  <1>3. ASSUME ~HasValidShard, NEW d \in Created
        PROVE  d = shard => state[d] = "Stopping" /\ Unfinished(d)
    <2>1. CtxInv(d) /\ d # None /\ state[d] \in States
      BY ControllerBounds DEF LifeInv, TypeOK, Created, Contexts, None
    <2> QED
      BY <1>3, <2>1 DEF HasValidShard, IsValid, ValidStates, CtxInv, Unfinished, States
  <1>4. CASE ~HasValidShard /\ shard' = None /\ UNCHANGED <<created, ctxVars>>
    <2>1. TypeOK' /\ Created' = Created
      BY <1>1, <1>4 DEF LifeInv, TypeOK, ctxVars, Created, None
    <2>2. ASSUME NEW d \in Created PROVE CtxInv(d)'
      <3>1. CtxInv(d)
        BY DEF LifeInv
      <3> QED
        BY <1>3, <1>4, <3>1 DEF CtxInv, Unfinished, ctxVars, Created, None
    <2> QED
      BY SMTT(60), <1>1, <1>4, <2>1, <2>2 DEF LifeInv
  <1>5. CASE /\ ~HasValidShard /\ status # "Stopped" /\ created < MaxContexts
             /\ CreateContext(created + 1)
    <2>a. created \in Nat /\ created' = created + 1
      BY <1>5, ControllerBounds DEF CreateContext, LifeInv, TypeOK
    <2>b. PICK c \in Nat : c = created + 1
      BY <2>a
    <2>c. 1 .. c = (1 .. created) \cup {c}
      BY <2>a, <2>b
    <2>1. /\ c \in Contexts \ Created /\ Created' = Created \cup {c}
          /\ shard' = c /\ Created \subseteq Contexts
      BY <1>5, <2>a, <2>b, <2>c, ControllerBounds DEF CreateContext, Created, Contexts
    <2>2. /\ state[c] = "Initialized" /\ engine[c] = "none" /\ acquirer[c] = "none"
          /\ callback[c] = "none" /\ closer[c] = "none"
      BY <2>1 DEF LifeInv, TypeOK
    <2>3. /\ state' = [state EXCEPT ![c] = "Acquiring"]
          /\ acquirer' = [acquirer EXCEPT ![c] = "check"]
          /\ tries' = [tries EXCEPT ![c] = 0]
          /\ callback' = callback /\ UNCHANGED <<engine, closer, served>>
      BY SMTT(60), <1>5, <2>b, <2>1, <2>2 DEF CreateContext, Transition, NextState, LifeInv, TypeOK
    <2>4. TypeOK'
      <3>1. created' \in 0 .. MaxContexts /\ shard' \in Created' \cup {None}
        BY <1>5, <2>a, <2>b, <2>1, ControllerBounds
      <3>2. /\ state' \in [Contexts -> States] /\ acquirer' \in [Contexts -> AcquirerPCs]
            /\ tries' \in [Contexts -> 0 .. MaxTries]
        BY <2>1, <2>3, ControllerBounds DEF LifeInv, TypeOK, States, AcquirerPCs
      <3>3. \A d \in Contexts \ Created' :
              /\ state'[d] = "Initialized" /\ engine'[d] = "none"
              /\ acquirer'[d] = "none" /\ callback'[d] = "none" /\ closer'[d] = "none"
        BY SMTT(60), <2>1, <2>3 DEF LifeInv, TypeOK
      <3> QED
        BY <1>1, <2>1, <2>3, <3>1, <3>2, <3>3 DEF LifeInv, TypeOK
    <2>5. CtxInv(c)'
      <3>1. c \notin served
        BY SMTT(60), <2>1 DEF LifeInv, TypeOK
      <3> QED
        BY <2>1, <2>2, <2>3, <3>1 DEF CtxInv, LifeInv, TypeOK
    <2>6. ASSUME NEW d \in Created PROVE CtxInv(d)'
      <3>1. CtxInv(d) /\ d # c /\ d \in Contexts /\ c \in Contexts
        BY <2>1 DEF LifeInv
      <3> QED
        BY <1>3, <1>5, <2>1, <2>3, <3>1 DEF CtxInv, Unfinished, LifeInv, TypeOK
    <2> QED
      BY <1>1, <1>5, <2>1, <2>4, <2>5, <2>6 DEF LifeInv
  <1> QED
    BY <1>2, <1>4, <1>5 DEF GetCreate

\* CloseShardByID, membership, Stop() and the pump
LEMMA MapStep ==
    ASSUME LifeInv, CloseShardByID \/ RingChange \/ Stop \/ PumpStep
    PROVE  LifeInv'
  <1>1. CASE CloseShardByID
    <2>1. RemoveShard /\ pump' \in PumpPCs /\ pumpShard' \in Created \cup {None}
          /\ (pump' = "done" => pump = "done")
      BY SMTT(60), <1>1 DEF CloseShardByID, LifeInv, TypeOK
    <2> QED
      BY <2>1, RemoveShardStep
  <1>2. CASE RingChange
    <2>1. owner' \in BOOLEAN
      BY SMTT(60), <1>2 DEF RingChange
    <2> QED
      BY <1>2, <2>1, FrameStep DEF RingChange, LifeInv, TypeOK
  <1>3. CASE Stop
    BY SMTT(60), <1>3, FrameStep DEF Stop, LifeInv, TypeOK
  <1>4. CASE PumpAcquire \/ PumpReturn \/ (PumpClose /\ shard = None)
    <2>1. /\ UNCHANGED <<status, owner, shard, created, ctxVars>>
          /\ pump' \in PumpPCs \ {"done"} /\ pumpShard' \in Created \cup {None}
          /\ getter' \in [Callers \cup {Pump} -> GetterPCs]
      BY <1>4 DEF PumpAcquire, PumpReturn, PumpClose, RemoveShard, LifeInv, TypeOK, PumpPCs, GetterPCs
    <2> QED
      BY <2>1, FrameStep DEF LifeInv, TypeOK
  <1>5. CASE PumpClose /\ shard # None
    <2>1. RemoveShard /\ pump' \in PumpPCs /\ pumpShard' \in Created \cup {None}
          /\ (pump' = "done" => pump = "done")
      BY <1>5 DEF PumpClose, LifeInv, TypeOK, PumpPCs
    <2> QED
      BY <2>1, RemoveShardStep
  <1> QED
    BY <1>1, <1>2, <1>3, <1>4, <1>5 DEF PumpStep

\* doShutdown: the context in the map is Stopped, the others have a finisher.
LEMMA PumpShutdownStep ==
    ASSUME LifeInv, PumpShutdown
    PROVE  LifeInv'
  <1>1. CASE shard = None
    BY <1>1, FrameStep DEF PumpShutdown, LifeInv, TypeOK, PumpPCs, ctxVars
  <1>2. CASE shard # None
    <2>1. shard \in Created /\ shard \in Contexts /\ Created' = Created /\ FinishStop(shard)
          /\ shard' = None
      BY <1>2, ControllerBounds DEF PumpShutdown, LifeInv, TypeOK, Created, Contexts
    <2>2. TypeOK'
      BY <2>1 DEF PumpShutdown, FinishStop, NextState, LifeInv, TypeOK, PumpPCs, States, Engines,
                  Created, Contexts, None
    <2>3. ASSUME NEW d \in Created PROVE CtxInv(d)'
      <3>1. CtxInv(d) /\ d \in Contexts /\ CtxInv(shard) /\ d # None
        BY <2>1, ControllerBounds DEF LifeInv, TypeOK, Created, Contexts, None
      <3> QED
        BY <2>1, <3>1 DEF PumpShutdown, FinishStop, NextState, LifeInv, TypeOK, CtxInv, Unfinished
    <2> QED
      BY <2>1, <2>2, <2>3 DEF LifeInv, PumpShutdown
  <1> QED
    BY SMTT(60), <1>1, <1>2

-----------------------------------------------------------------------------
(* The theorems                                                            *)

\* LifeInv holds in every state of every behaviour of the controller.
THEOREM LifeInvariant == Spec => []LifeInv
  <1>1. Init => LifeInv
    BY ControllerBounds DEF Init, LifeInv, TypeOK, CtxInv, GetterPCs, PumpPCs, States, AcquirerPCs,
                            Engines, FinisherPCs, Created, Contexts, None
  <1>2. LifeInv /\ [Next]_vars => LifeInv'
    <2> SUFFICES ASSUME LifeInv, [Next]_vars PROVE LifeInv'
      BY SMTT(60)
    <2>1. CASE UNCHANGED vars
      BY <2>1, FrameStep DEF LifeInv, TypeOK, vars, mapVars
    <2> QED
      BY <2>1, AcquirerStep, ReportErrorStep, CallbackStep, CloseFinishStep, GetterStep, GetCreateStep,
         MapStep, PumpShutdownStep DEF Next, GetOrCreate
  <1> QED
    BY <1>1, <1>2, PTL DEF Spec
\* Every variable of the controller has its type, and a context that has not been
\* created yet has no goroutine, no engine and no map entry.
THEOREM ControllerTypes == Spec => []TypeOK
  <1>1. LifeInv => TypeOK
    BY DEF LifeInv
  <1> QED
    BY <1>1, LifeInvariant, PTL

\* A context in Acquiring has an acquireShard goroutine (transition), however the
\* errors of operations and the retries of that goroutine interleave.
THEOREM AcquiringAlwaysDriven == Spec => []AcquiringIsDriven
  <1>1. LifeInv => AcquiringIsDriven
    BY SMTT(60) DEF LifeInv, CtxInv, AcquiringIsDriven
  <1> QED
    BY <1>1, LifeInvariant, PTL

\* A context that has been Acquired has a running engine in engineFuture until it
\* is Stopped.
THEOREM ServedAlwaysHasEngine == Spec => []ServedHasEngine
  <1>1. LifeInv => ServedHasEngine
    BY DEF LifeInv, TypeOK, CtxInv, ServedHasEngine
  <1> QED
    BY <1>1, LifeInvariant, PTL

\* A context outside the map is Stopped or has a goroutine that is about to call
\* finishStop(), whichever of CloseShardByID, shardClosedCallback,
\* getOrCreateShardContext and doShutdown took it out.
THEOREM NeverAnOrphan == Spec => []NoOrphan
  <1>1. LifeInv => NoOrphan
    BY SMTT(60) DEF LifeInv, CtxInv, NoOrphan
  <1> QED
    BY <1>1, LifeInvariant, PTL

\* removeShard comes before finishStop() for every context, and no context
\* returns to the map.
THEOREM MapNeverHasStopped == Spec => []MapHasNoStopped
  <1>1. LifeInv => MapHasNoStopped
    BY SMTT(60) DEF LifeInv, TypeOK, CtxInv, MapHasNoStopped
  <1> QED
    BY <1>1, LifeInvariant, PTL

\* When the goroutines of a Stopped context are done no engine of it is running,
\* neither one in engineFuture nor one that acquireShard had created.
THEOREM EngineNeverLeft == Spec => []NoEngineLeft
  <1>1. LifeInv => NoEngineLeft
    <2> SUFFICES ASSUME LifeInv, NEW c \in Created,
                        state[c] = "Stopped" /\ acquirer[c] = "none" /\ ~Unfinished(c)
                 PROVE  engine[c] \in {"none", "stopped"}
      BY DEF NoEngineLeft
    <2>1. CtxInv(c) /\ engine[c] \in Engines
      BY ControllerBounds DEF LifeInv, TypeOK, Created, Contexts
    <2> QED
      BY <2>1 DEF CtxInv, Engines
  <1> QED
    BY <1>1, LifeInvariant, PTL

\* After doShutdown no caller of getOrCreateShardContext fills the map again.
THEOREM NothingEverAfterShutdown == Spec => []NothingAfterShutdown
  <1>1. LifeInv => NothingAfterShutdown
    BY DEF LifeInv, NothingAfterShutdown
  <1> QED
    BY <1>1, LifeInvariant, PTL
=============================================================================
