----------------------- MODULE TaskSchedulerInflight ------------------------
(***************************************************************************)
(* Theorems about the count of TaskScheduler's tasks in flight, and about  *)
(* what wakes up its dispatcher.                                           *)
(***************************************************************************)
EXTENDS TaskSchedulerProofs, FiniteSetTheorems

\* the program counters of Submitting
Counted == {"direct", "dispatched", "enqueue"}

\* numInflightTask is exact, of finitely many places and goroutines; what the
\* dispatcher has yet to account for is of its present round.
CountInv ==
    /\ IsFiniteSet(Slots) /\ IsFiniteSet(Submitting) /\ round.dispatched \in Nat
    /\ pc[Dispatcher] \in {"idle", "check", "exit"} => round.dispatched = 0
    /\ InflightExact

\* A channel that has a task is known, and the dispatcher will look at it: it is in
\* its present round, or a notification, a timer or another round is to come.
AwakeInv ==
    /\ pc[Dispatcher] = "exit" => status = "stopped"
    /\ \A k \in Keys : channels[k] # << >> =>
          /\ k \in known
          /\ status = "started" =>
                \/ notifyChan \/ dispatchTimer \/ pc[Dispatcher] = "check"
                \/ \E g \in Submitters : pc[g] = "notify"
                \/ pc[Dispatcher] # "idle" /\ k \in round.keys

-----------------------------------------------------------------------------
(* Counting *)

\* A place is a channel and a position in it.
LEMMA SlotIs ==
  ASSUME NEW z
  PROVE  /\ z \in Slots <=> \E l \in Keys : \E i \in DOMAIN channels[l] : z = <<l, i>>
         /\ z \in Slots' <=> \E l \in Keys : \E i \in DOMAIN channels'[l] : z = <<l, i>>
  BY DEF Slots

\* A task that is put into a channel takes one more place.
LEMMA SlotsAppend ==
  ASSUME PlaceTypes, IsFiniteSet(Slots), NEW k \in Keys, NEW t \in Tasks,
         channels' = [channels EXCEPT ![k] = Append(@, t)]
  PROVE  IsFiniteSet(Slots') /\ Queued' = Queued + 1
  <1> DEFINE n == Len(channels[k]) + 1
  <1>1. channels[k] \in Seq(Tasks) /\ n \in Nat /\ DOMAIN channels[k] = 1 .. n - 1
    BY DEF PlaceTypes
  <1>2. DOMAIN Append(channels[k], t) = 1 .. n
    BY <1>1
  <1> HIDE DEF n
  <1>3. n \notin DOMAIN channels[k] /\ DOMAIN Append(channels[k], t) = DOMAIN channels[k] \cup {n}
    BY SMTT(60), <1>1, <1>2
  <1>4. channels'[k] = Append(channels[k], t) /\ \A l \in Keys : l # k => channels'[l] = channels[l]
    BY DEF PlaceTypes
  <1>5. ASSUME NEW z PROVE z \in Slots' <=> z \in Slots \cup {<<k, n>>}
    BY ZenonT(60), <1>3, <1>4, SlotIs
  <1>6. <<k, n>> \notin Slots
    BY <1>3 DEF Slots
  <1>7. Slots' = Slots \cup {<<k, n>>}
    BY Zenon, <1>5
  <1> QED
    BY Zenon, <1>6, <1>7, FS_AddElement DEF Queued

\* A task that is taken out of a channel frees one.
LEMMA SlotsTail ==
  ASSUME PlaceTypes, IsFiniteSet(Slots), NEW k \in Keys, channels[k] # << >>,
         channels' = [channels EXCEPT ![k] = Tail(@)]
  PROVE  IsFiniteSet(Slots') /\ Queued' = Queued - 1
  <1> DEFINE n == Len(channels[k])
  <1>1. channels[k] \in Seq(Tasks) /\ n \in Nat \ {0} /\ DOMAIN channels[k] = 1 .. n
    BY DEF PlaceTypes
  <1>2. DOMAIN Tail(channels[k]) = 1 .. n - 1
    BY <1>1
  <1> HIDE DEF n
  <1>3. n \in DOMAIN channels[k] /\ DOMAIN Tail(channels[k]) = DOMAIN channels[k] \ {n}
    BY <1>1, <1>2
  <1>4. channels'[k] = Tail(channels[k]) /\ \A l \in Keys : l # k => channels'[l] = channels[l]
    BY DEF PlaceTypes
  <1>5. ASSUME NEW z PROVE z \in Slots' <=> z \in Slots \ {<<k, n>>}
    BY ZenonT(60), <1>3, <1>4, SlotIs
  <1>6. <<k, n>> \in Slots
    BY <1>3 DEF Slots
  <1>7. Slots' = Slots \ {<<k, n>>}
    BY Zenon, <1>5
  <1> QED
    BY Zenon, <1>6, <1>7, FS_RemoveElement DEF Queued

\* abortTasks frees all.
LEMMA SlotsAbort ==
  ASSUME AbortTasks
  PROVE  Slots' = {} /\ IsFiniteSet(Slots') /\ Queued' = 0
  <1>1. Slots' = {}
    BY DEF AbortTasks, Slots
  <1> QED
    BY Zenon, <1>1, FS_EmptySet DEF Queued

\* A goroutine that moves is counted before or not, and afterwards or not.
LEMMA SubmittingMoves ==
  ASSUME GoInv, IsFiniteSet(Submitting), NEW g \in Submitters, NEW to, pc' = [pc EXCEPT ![g] = to]
  PROVE  /\ IsFiniteSet(Submitting')
         /\ pc[g] \notin Counted /\ to \in Counted =>
               Cardinality(Submitting') = Cardinality(Submitting) + 1
         /\ pc[g] \in Counted /\ to \notin Counted =>
               Cardinality(Submitting') = Cardinality(Submitting) - 1
         /\ (pc[g] \in Counted <=> to \in Counted) => Submitting' = Submitting
  <1>1. pc'[g] = to /\ \A h \in Submitters : h # g => pc'[h] = pc[h]
    BY GoroutineFacts DEF GoInv
  <1>2. Submitting = {h \in Submitters : pc[h] \in Counted} /\ Submitting' = {h \in Submitters : pc'[h] \in Counted}
    BY Zenon DEF Submitting, Counted
  <1>3. CASE to \in Counted
    <2>1. Submitting' = Submitting \cup {g} /\ (g \in Submitting <=> pc[g] \in Counted)
      BY Zenon, <1>1, <1>2, <1>3
    <2> QED
      BY Zenon, <1>3, <2>1, FS_AddElement
  <1>4. CASE to \notin Counted
    <2>1. Submitting' = Submitting \ {g} /\ (g \in Submitting <=> pc[g] \in Counted)
      BY Zenon, <1>1, <1>2, <1>4
    <2> QED
      BY Zenon, <1>4, <2>1, FS_RemoveElement
  <1> QED
    BY <1>3, <1>4

\* The dispatcher is not counted.
LEMMA DispatcherUncounted ==
  ASSUME GoInv, NEW to, pc' = [pc EXCEPT ![Dispatcher] = to]
  PROVE  Submitting' = Submitting /\ pc'[Dispatcher] = to
         /\ \A g \in Submitters : pc'[g] = pc[g]
  <1>1. pc'[Dispatcher] = to /\ \A g \in Submitters : pc'[g] = pc[g]
    BY GoroutineFacts DEF GoInv
  <1> QED
    BY Zenon, <1>1 DEF Submitting

\* A step that leaves the channels, the count and what is counted alone keeps CountInv.
LEMMA CountKeep ==
  ASSUME CountInv, UNCHANGED <<channels, numInflightTask>>, Submitting' = Submitting,
         round'.dispatched = round.dispatched,
         pc'[Dispatcher] \in {"idle", "check", "exit"} => pc[Dispatcher] \in {"idle", "check", "exit"}
  PROVE  CountInv'
  <1>1. Slots' = Slots
    BY Zenon DEF Slots
  <1> QED
    BY Zenon, <1>1 DEF CountInv, InflightExact, Queued

\* So does one in which a goroutine that is not counted goes on.
LEMMA CountMove ==
  ASSUME GoInv, CountInv, NEW g \in Submitters, NEW to, pc' = [pc EXCEPT ![g] = to],
         pc[g] \notin Counted, to \notin Counted, UNCHANGED <<channels, numInflightTask, round>>
  PROVE  CountInv'
  <1>1. Submitting' = Submitting
    BY Zenon, SubmittingMoves DEF CountInv
  <1>2. pc'[Dispatcher] = pc[Dispatcher]
    BY Zenon, GoroutineFacts DEF GoInv
  <1> QED
    BY Zenon, <1>1, <1>2, CountKeep

\* So does one that moves no goroutine.
LEMMA CountStay ==
  ASSUME CountInv, UNCHANGED <<channels, numInflightTask, pc>>, round'.dispatched = round.dispatched
  PROVE  CountInv'
  BY Zenon, CountKeep DEF Submitting

\* An idle goroutine is not counted.
LEMMA IdleUncounted == ASSUME NEW g PROVE Idle(g) \notin Counted
  BY DEF Idle, Counted

\* The steps of TrySubmit keep the count exact.
LEMMA CountSubmit ==
  ASSUME PlaceTypes, GoInv, KeyInv, CountInv, NEW g \in Submitters, SubmitStep(g)
  PROVE  CountInv'
  <1> USE DEF Goes
  <1>0. /\ Cardinality(Submitting) \in Nat /\ Queued \in Nat /\ round.dispatched \in Nat
        /\ numInflightTask = Queued + Cardinality(Submitting) + round.dispatched
        /\ IsFiniteSet(Slots) /\ IsFiniteSet(Submitting)
    BY Zenon, FS_CardinalityType DEF CountInv, Queued, InflightExact
  <1>a. pc[g] \in Holding => arg[g] \in Tasks
    BY Zenon, GoroutineFacts DEF GoInv, PlaceTypes
  <1>b. ASSUME NEW to, pc' = [pc EXCEPT ![g] = to] PROVE pc'[Dispatcher] = pc[Dispatcher]
    BY Zenon, <1>b, GoroutineFacts DEF GoInv
  <1>c. ASSUME NEW to, pc' = [pc EXCEPT ![g] = to], round' = round,
               IsFiniteSet(Slots'), IsFiniteSet(Submitting'), InflightExact'
        PROVE  CountInv'
    BY Zenon, <1>b, <1>c DEF CountInv
  <1>1. CASE TrySubmit(g)
    <2>1. PICK to \in Counted : pc' = [pc EXCEPT ![g] = to]
      BY Zenon, <1>1 DEF TrySubmit, Counted
    <2>2. pc[g] \notin Counted
      BY <1>1 DEF TrySubmit, Counted
    <2>3. IsFiniteSet(Submitting') /\ Cardinality(Submitting') = Cardinality(Submitting) + 1
      BY Zenon, <1>0, <2>1, <2>2, SubmittingMoves
    <2>4. Slots' = Slots /\ Queued' = Queued /\ round' = round /\ numInflightTask' = numInflightTask + 1
      BY Zenon, <1>1 DEF TrySubmit, Slots, Queued
    <2>5. InflightExact'
      BY <1>0, <2>3, <2>4 DEF InflightExact
    <2> QED
      BY ZenonT(60), <1>0, <1>c, <2>1, <2>3, <2>4, <2>5
  <1>2. CASE DispatchDirectly(g)
    <2>1. PICK to \in Counted : pc' = [pc EXCEPT ![g] = to]
      BY <1>2 DEF DispatchDirectly, Counted
    <2>2. pc[g] \in Counted
      BY <1>2 DEF DispatchDirectly, Counted
    <2>3. Submitting' = Submitting
      BY ZenonT(60), <1>0, <2>1, <2>2, SubmittingMoves
    <2>4. UNCHANGED <<channels, numInflightTask, round>>
      BY Zenon, <1>2 DEF DispatchDirectly, wrrVars
    <2> QED
      BY Zenon, <1>b, <2>1, <2>3, <2>4, CountKeep
  <1>3. CASE DispatchedDirectly(g)
    <2>1. pc' = [pc EXCEPT ![g] = Idle(g)] /\ pc[g] \in Counted
      BY <1>3 DEF DispatchedDirectly, Counted
    <2>3. IsFiniteSet(Submitting') /\ Cardinality(Submitting') = Cardinality(Submitting) - 1
      BY ZenonT(60), <1>0, <2>1, SubmittingMoves, IdleUncounted
    <2>4. Slots' = Slots /\ Queued' = Queued /\ round' = round /\ numInflightTask' = numInflightTask - 1
      BY ZenonT(60), <1>3 DEF DispatchedDirectly, Slots, Queued
    <2>5. InflightExact'
      BY SMTT(60), <1>0, <2>3, <2>4 DEF InflightExact
    <2> QED
      BY ZenonT(60), <1>0, <1>c, <2>1, <2>3, <2>4, <2>5
  <1>4. CASE Enqueue(g)
    <2>0. arg[g] \in Tasks /\ key[arg[g]] \in Keys /\ pc[g] \in Counted /\ round' = round
      BY Zenon, <1>4, <1>a DEF Enqueue, Holding, KeyInv, Counted
    <2>1. CASE Len(channels[key[arg[g]]]) < ChannelSize
      <3>1. /\ pc' = [pc EXCEPT ![g] = "notify"] /\ numInflightTask' = numInflightTask
            /\ channels' = [channels EXCEPT ![key[arg[g]]] = Append(@, arg[g])]
        BY ZenonT(60), <1>4, <2>1 DEF Enqueue
      <3>2. IsFiniteSet(Slots') /\ Queued' = Queued + 1
        BY ZenonT(60), <1>0, <2>0, <3>1, SlotsAppend
      <3>3. IsFiniteSet(Submitting') /\ Cardinality(Submitting') = Cardinality(Submitting) - 1
        <4>1. "notify" \notin Counted
          BY SMTT(60) DEF Counted
        <4> QED
          BY ZenonT(60), <1>0, <2>0, <3>1, <4>1, SubmittingMoves
      <3>4. InflightExact'
        BY SMTT(60), <1>0, <2>0, <3>1, <3>2, <3>3 DEF InflightExact
      <3> QED
        BY ZenonT(60), <1>c, <2>0, <3>1, <3>2, <3>3, <3>4
    <2>2. CASE ~(Len(channels[key[arg[g]]]) < ChannelSize)
      <3>1. /\ pc' = [pc EXCEPT ![g] = "refused"] /\ numInflightTask' = numInflightTask - 1
            /\ channels' = channels
        BY ZenonT(60), <1>4, <2>2 DEF Enqueue
      <3>2. Slots' = Slots /\ Queued' = Queued
        BY Zenon, <3>1 DEF Slots, Queued
      <3>3. IsFiniteSet(Submitting') /\ Cardinality(Submitting') = Cardinality(Submitting) - 1
        <4>1. "refused" \notin Counted
          BY DEF Counted
        <4> QED
          BY ZenonT(60), <1>0, <2>0, <3>1, <4>1, SubmittingMoves
      <3>4. InflightExact'
        BY SMTT(60), <1>0, <2>0, <3>1, <3>2, <3>3 DEF InflightExact
      <3> QED
        BY ZenonT(60), <1>0, <1>c, <2>0, <3>1, <3>2, <3>3, <3>4
    <2> QED
      BY Zenon, <2>1, <2>2
  <1>5. CASE Notify(g)
    <2>1. pc' = [pc EXCEPT ![g] = Idle(g)] /\ pc[g] \notin Counted /\ round' = round
      BY <1>5 DEF Notify, Counted
    <2>2. CASE status = "stopped"
      <3>1. Slots' = {} /\ IsFiniteSet(Slots') /\ Queued' = 0 /\ numInflightTask' = numInflightTask - Queued
        BY ZenonT(60), <1>5, <2>2, SlotsAbort DEF Notify, NotifyDispatcher, AbortTasks
      <3>2. Submitting' = Submitting
        BY ZenonT(60), <1>0, <2>1, SubmittingMoves, IdleUncounted
      <3>3. InflightExact'
        BY SMTT(60), <1>0, <2>1, <3>1, <3>2 DEF InflightExact
      <3> QED
        BY ZenonT(60), <1>0, <1>c, <2>1, <3>1, <3>2, <3>3
    <2>3. CASE status # "stopped"
      <3>1. UNCHANGED <<channels, numInflightTask, round>>
        BY ZenonT(60), <1>5, <2>3 DEF Notify, NotifyDispatcher
      <3> QED
        BY ZenonT(60), <2>1, <3>1, CountMove, IdleUncounted
    <2> QED
      BY ZenonT(60), <2>2, <2>3
  <1>6. CASE Add(g)
    <2>1. pc' = [pc EXCEPT ![g] = "added"] /\ pc[g] \notin Counted /\ "added" \notin Counted
      BY <1>6 DEF Add, Counted
    <2> QED
      BY ZenonT(60), <1>6, <2>1, CountMove DEF Add, wrrVars
  <1>7. CASE Added(g)
    <2>1. pc' = [pc EXCEPT ![g] = Idle(g)] /\ pc[g] \notin Counted
      BY <1>7 DEF Added, Counted
    <2> QED
      BY ZenonT(60), <1>7, <2>1, CountMove, IdleUncounted DEF Added, wrrVars
  <1> QED
    BY ZenonT(60), <1>1, <1>2, <1>3, <1>4, <1>5, <1>6, <1>7 DEF SubmitStep

\* The steps of the dispatcher keep the count exact.
LEMMA CountDispatcher ==
  ASSUME PlaceTypes, GoInv, KeyInv, CountInv, DispatcherStep
  PROVE  CountInv'
  <1> USE DEF Goes
  <1>0. /\ Cardinality(Submitting) \in Nat /\ Queued \in Nat /\ round.dispatched \in Nat
        /\ numInflightTask = Queued + Cardinality(Submitting) + round.dispatched
        /\ IsFiniteSet(Slots) /\ IsFiniteSet(Submitting)
    BY Zenon, FS_CardinalityType DEF CountInv, Queued, InflightExact
  <1>1. CASE ReceiveNotification
    <2>1. pc[Dispatcher] = "idle" /\ pc' = [pc EXCEPT ![Dispatcher] = "check"]
          /\ UNCHANGED <<channels, numInflightTask, round>>
      BY Zenon, <1>1 DEF ReceiveNotification, Moves
    <2> QED
      BY ZenonT(60), <2>1, DispatcherUncounted, CountKeep
  <1>2. CASE EventLoopStops
    <2>1. pc[Dispatcher] = "idle" /\ pc' = [pc EXCEPT ![Dispatcher] = "exit"]
          /\ UNCHANGED <<channels, numInflightTask, round>>
      BY ZenonT(60), <1>2 DEF EventLoopStops, Moves, wrrVars
    <2> QED
      BY ZenonT(60), <2>1, DispatcherUncounted, CountKeep
  <1>3. CASE BeginRound
    <2>1. pc[Dispatcher] = "check" /\ UNCHANGED <<channels, numInflightTask>>
          /\ \E to \in {"visit", "idle"} : pc' = [pc EXCEPT ![Dispatcher] = to]
      BY Zenon, <1>3 DEF BeginRound, wrrVars
    <2>2. round.dispatched = 0
      BY Zenon, <2>1 DEF CountInv
    <2>3. round'.dispatched = 0
      <3>1. CASE numInflightTask > 0
        BY SMTT(60), <1>3, <3>1 DEF BeginRound
      <3>2. CASE ~(numInflightTask > 0)
        BY ZenonT(60), <1>3, <2>2, <3>2 DEF BeginRound
      <3> QED
        BY ZenonT(60), <3>1, <3>2
    <2> QED
      BY ZenonT(60), <2>1, <2>2, <2>3, DispatcherUncounted, CountKeep
  <1>4. CASE SkipChannel \/ ThrottleChannel
    <2>1. UNCHANGED <<channels, numInflightTask, pc>>
      BY Zenon, <1>4 DEF SkipChannel, ThrottleChannel, wrrVars, goVars
    <2>2. round'.dispatched = round.dispatched
      <3>1. \E q, T : round' = [round EXCEPT !.throttled = T, !.left = q]
                      \/ round' = [round EXCEPT !.left = q]
        BY Zenon, <1>4 DEF SkipChannel, ThrottleChannel
      <3> QED
        BY ZenonT(60), <3>1 DEF KeyInv
    <2> QED
      BY ZenonT(60), <2>1, <2>2, CountStay
  <1>5. CASE TakeTask
    <2>1. Visited \in Keys /\ channels[Visited] # << >> /\ pc[Dispatcher] = "visit"
      BY Zenon, <1>5 DEF TakeTask, CanVisit, KeyInv, Visiting
    <2>2. /\ channels' = [channels EXCEPT ![Visited] = Tail(@)] /\ numInflightTask' = numInflightTask
          /\ pc' = [pc EXCEPT ![Dispatcher] = "hand over"]
      BY Zenon, <1>5 DEF TakeTask
    <2>3. round'.dispatched = round.dispatched + 1
      <3>1. PICK q : round' = [round EXCEPT !.left = q, !.dispatched = round.dispatched + 1]
        BY Zenon, <1>5 DEF TakeTask
      <3> QED
        BY ZenonT(60), <3>1 DEF KeyInv
    <2>4. IsFiniteSet(Slots') /\ Queued' = Queued - 1
      BY ZenonT(60), <1>0, <2>1, <2>2, SlotsTail
    <2>5. Submitting' = Submitting /\ pc'[Dispatcher] = "hand over"
      BY ZenonT(60), <2>2, DispatcherUncounted
    <2>6. numInflightTask' = numInflightTask /\ Cardinality(Submitting') = Cardinality(Submitting)
      BY ZenonT(60), <2>2, <2>5
    <2>7. InflightExact' /\ round'.dispatched \in Nat
      BY SMTT(60), <1>0, <2>3, <2>4, <2>6 DEF InflightExact
    <2> QED
      BY Zenon, <1>0, <2>4, <2>5, <2>7 DEF CountInv
  <1>6. CASE HandOver \/ HandedOver
    <2>1. pc[Dispatcher] \in {"hand over", "handed over"} /\ UNCHANGED <<channels, numInflightTask, round>>
          /\ \E to \in {"handed over", "visit"} : pc' = [pc EXCEPT ![Dispatcher] = to]
      BY ZenonT(60), <1>6 DEF HandOver, HandedOver, Moves, wrrVars
    <2> QED
      BY ZenonT(60), <2>1, DispatcherUncounted, CountKeep
  <1>7. CASE EndRound
    <2>1. /\ numInflightTask' = numInflightTask - round.dispatched /\ channels' = channels
          /\ \E to \in {"idle", "check"} : pc' = [pc EXCEPT ![Dispatcher] = to]
      BY ZenonT(60), <1>7 DEF EndRound
    <2>2. round'.dispatched = 0
      BY SMTT(60), <1>7 DEF EndRound, NoRound
    <2>3. Slots' = Slots /\ Queued' = Queued /\ Submitting' = Submitting
      BY ZenonT(60), <2>1, DispatcherUncounted DEF Slots, Queued
    <2>4. InflightExact' /\ round'.dispatched \in Nat
      BY SMTT(60), <1>0, <2>1, <2>2, <2>3 DEF InflightExact
    <2> QED
      BY ZenonT(60), <1>0, <2>2, <2>3, <2>4 DEF CountInv
  <1>8. CASE DispatchTimerFires
    <2>0. pc' = pc /\ round' = round /\ Submitting' = Submitting
      BY Zenon, <1>8 DEF DispatchTimerFires, goVars, Submitting
    <2>1. CASE status = "stopped"
      <3>1. Slots' = {} /\ IsFiniteSet(Slots') /\ Queued' = 0 /\ numInflightTask' = numInflightTask - Queued
        BY ZenonT(60), <1>8, <2>1, SlotsAbort DEF DispatchTimerFires, NotifyDispatcher, AbortTasks
      <3>2. InflightExact'
        BY SMTT(60), <1>0, <2>0, <3>1 DEF InflightExact
      <3> QED
        BY ZenonT(60), <1>0, <2>0, <3>1, <3>2 DEF CountInv
    <2>2. CASE status # "stopped"
      <3>1. UNCHANGED <<channels, numInflightTask>>
        BY ZenonT(60), <1>8, <2>2 DEF DispatchTimerFires, NotifyDispatcher
      <3> QED
        BY ZenonT(60), <2>0, <3>1, CountStay
    <2> QED
      BY ZenonT(60), <2>1, <2>2
  <1> QED
    BY ZenonT(60), <1>1, <1>2, <1>3, <1>4, <1>5, <1>6, <1>7, <1>8 DEF DispatcherStep

\* A worker, the reader or the rescheduler that does something else.
LEMMA OtherSteps ==
  ASSUME GoInv,
         \/ \E w \in Workers : WorkerStep(w)
         \/ Reschedule \/ ReschedulerStep
         \/ \E t \in Tasks : Load(t)
  PROVE  /\ UNCHANGED <<channels, known, numInflightTask, round, notifyChan, dispatchTimer, status>>
         /\ \/ pc' = pc
            \/ \E g \in Submitters, to \in PCs \ (Counted \cup {"notify"}) :
                  pc' = [pc EXCEPT ![g] = to] /\ pc[g] \notin Counted \cup {"notify"}
  <1> USE DEF Goes, Moves
  <1>1. ASSUME NEW w \in Workers, WorkerStep(w)
        PROVE  /\ UNCHANGED <<channels, known, numInflightTask, round, notifyChan, dispatchTimer, status>>
               /\ \E to \in {"exit", "select", "execute", "ack", "busy", "failed", "head", "submit", "add"} :
                     pc' = [pc EXCEPT ![w] = to] /\ pc[w] \in {"head", "select", "execute", "ack", "busy", "failed", "refused"}
    BY ZenonT(60), <1>1 DEF WorkerStep, WorkerLoop, WorkerStops, ReceiveTask, Execute, Ack, Nack, NotSubmitted,
                wrrVars, stopVars
  <1>2. CASE Reschedule
    <2>1. /\ UNCHANGED <<channels, known, numInflightTask, round, notifyChan, dispatchTimer, status>>
          /\ pc[Reader] = "refused"
          /\ \E to \in {"add", "idle"} : pc' = [pc EXCEPT ![Reader] = to]
      BY ZenonT(60), <1>2 DEF Reschedule, wrrVars, stopVars
    <2> QED
      BY Zenon, <2>1, GoroutineFacts DEF PCs, Holding, Counted
  <1>3. ASSUME NEW t \in Tasks, Load(t)
        PROVE  /\ UNCHANGED <<channels, known, numInflightTask, round, notifyChan, dispatchTimer, status>>
               /\ pc[Reader] = "idle" /\ \E to \in {"submit", "add"} : pc' = [pc EXCEPT ![Reader] = to]
    BY ZenonT(60), <1>3 DEF Load, wrrVars, stopVars
  <1>4. CASE ReschedulerStep
    <2>1. UNCHANGED <<channels, known, numInflightTask, round, notifyChan, dispatchTimer, status>>
      BY ZenonT(60), <1>4 DEF ReschedulerStep, GateFires, ReceiveFire, SubmitLater, StopRescheduler, ReschedulerDrains,
                  KeyDone, Due, RescheduleDue, RescheduleNamespace, wrrVars, stopVars
    <2>2. \/ pc' = pc
          \/ \E to \in {"idle", "scan", "submit", "exit"} :
                pc' = [pc EXCEPT ![Loop] = to] /\ pc[Loop] \in {"idle", "scan", "refused"}
      BY ZenonT(60), <1>4 DEF ReschedulerStep, GateFires, ReceiveFire, SubmitLater, StopRescheduler, ReschedulerDrains,
                  KeyDone, Due, RescheduleDue, RescheduleNamespace, goVars
    <2> QED
      BY ZenonT(60), <2>1, <2>2, GoroutineFacts DEF PCs, Holding, Counted
  <1>5. CASE \E w \in Workers : WorkerStep(w)
    BY ZenonT(60), <1>1, <1>5, GoroutineFacts DEF PCs, Holding, Counted
  <1>6. CASE \E t \in Tasks : Load(t)
    BY ZenonT(60), <1>3, <1>6, GoroutineFacts DEF PCs, Holding, Counted
  <1> QED
    BY ZenonT(60), <1>2, <1>4, <1>5, <1>6

\* Every step keeps the count exact.
LEMMA CountNext ==
  ASSUME PlaceTypes, GoInv, KeyInv, CountInv, [Next]_vars
  PROVE  CountInv'
  <1>1. CASE \/ \E w \in Workers : WorkerStep(w)
             \/ Reschedule \/ ReschedulerStep
             \/ \E t \in Tasks : Load(t)
    <2>1. UNCHANGED <<channels, numInflightTask, round>>
      BY ZenonT(60), <1>1, OtherSteps
    <2>2. CASE pc' = pc
      BY ZenonT(60), <2>1, <2>2, CountStay
    <2>3. CASE \E g \in Submitters, to \in PCs \ (Counted \cup {"notify"}) :
                  pc' = [pc EXCEPT ![g] = to] /\ pc[g] \notin Counted \cup {"notify"}
      BY ZenonT(60), <2>1, <2>3, CountMove
    <2> QED
      BY ZenonT(60), <1>1, <2>2, <2>3, OtherSteps
  <1>2. CASE \/ \E t \in Tasks : Cancel(t)
             \/ Stop \/ StopFIFO \/ StopDrains \/ MonitorStops \/ UNCHANGED vars
    <2>1. UNCHANGED <<channels, numInflightTask, round, pc>>
      BY Zenon, <1>2 DEF Cancel, Stop, StopFIFO, StopDrains, MonitorStops, vars, wrrVars, goVars
    <2> QED
      BY ZenonT(60), <2>1, CountStay
  <1>3. CASE StopAborts
    <2>1. /\ Cardinality(Submitting) \in Nat /\ Queued \in Nat /\ round.dispatched \in Nat
          /\ numInflightTask = Queued + Cardinality(Submitting) + round.dispatched
      BY Zenon, FS_CardinalityType DEF CountInv, Queued, InflightExact
    <2>2. pc' = pc /\ round' = round /\ Submitting' = Submitting
      BY ZenonT(60), <1>3 DEF StopAborts, goVars, Submitting
    <2>3. Slots' = {} /\ IsFiniteSet(Slots') /\ Queued' = 0 /\ numInflightTask' = numInflightTask - Queued
      BY ZenonT(60), <1>3, SlotsAbort DEF StopAborts, AbortTasks
    <2>4. InflightExact'
      BY SMTT(60), <2>1, <2>2, <2>3 DEF InflightExact
    <2> QED
      BY ZenonT(60), <2>2, <2>3, <2>4 DEF CountInv
  <1> QED
    BY ZenonT(60), <1>1, <1>2, <1>3, CountSubmit, CountDispatcher DEF Next, StopStep

-----------------------------------------------------------------------------
(* The dispatcher is awake *)

\* A step that fills no channel, takes no notification or timer away and leaves the
\* dispatcher where it is keeps AwakeInv.
LEMMA AwakeKeep ==
  ASSUME AwakeInv, known \subseteq known', status' = status \/ status' = "stopped",
         \A k \in Keys : channels'[k] # << >> => channels[k] # << >>,
         notifyChan => notifyChan', dispatchTimer => dispatchTimer',
         pc'[Dispatcher] = pc[Dispatcher], round'.keys = round.keys,
         \A g \in Submitters : pc[g] = "notify" => pc'[g] = "notify"
  PROVE  AwakeInv'
  <1>1. status' = "started" => status = "started"
    OBVIOUS
  <1>2. pc'[Dispatcher] = "exit" => status' = "stopped"
    BY Zenon DEF AwakeInv
  <1>3. ASSUME NEW k \in Keys, channels'[k] # << >>
        PROVE  /\ k \in known'
               /\ status' = "started" =>
                     \/ notifyChan' \/ dispatchTimer' \/ pc'[Dispatcher] = "check"
                     \/ \E g \in Submitters : pc'[g] = "notify"
                     \/ (pc'[Dispatcher] # "idle" /\ k \in round'.keys)
    BY ZenonT(60), <1>1, <1>3 DEF AwakeInv
  <1> QED
    BY ZenonT(60), <1>2, <1>3 DEF AwakeInv

\* So does one of the dispatcher within its round.
LEMMA AwakeRound ==
  ASSUME AwakeInv, UNCHANGED <<known, notifyChan, dispatchTimer, status>>,
         \A k \in Keys : channels'[k] # << >> => channels[k] # << >>,
         pc[Dispatcher] \in {"visit", "hand over", "handed over"},
         pc'[Dispatcher] \in {"visit", "hand over", "handed over"},
         round'.keys = round.keys, \A g \in Submitters : pc'[g] = pc[g]
  PROVE  AwakeInv'
  <1>1. pc'[Dispatcher] # "exit" /\ pc'[Dispatcher] # "idle" /\ pc[Dispatcher] # "check"
    BY Zenon
  <1> QED
    BY ZenonT(60), <1>1 DEF AwakeInv

\* What makes the dispatcher look at all channels makes AwakeInv true.
LEMMA AwakeAgain ==
  ASSUME \A k \in Keys : channels'[k] # << >> => k \in known',
         pc'[Dispatcher] = "exit" => status' = "stopped",
         \/ status' # "started" \/ notifyChan' \/ dispatchTimer' \/ pc'[Dispatcher] = "check"
         \/ \E g \in Submitters : pc'[g] = "notify"
  PROVE  AwakeInv'
  BY Zenon DEF AwakeInv

\* A channel that has a task is counted.
LEMMA ChannelCounted ==
  ASSUME PlaceTypes, CountInv, NEW k \in Keys, channels[k] # << >>
  PROVE  numInflightTask > 0
  <1>1. <<k, 1>> \in Slots
    BY DEF PlaceTypes, Slots
  <1>2. Cardinality(Slots) # 0
    BY ZenonT(60), <1>1, FS_EmptySet DEF CountInv
  <1>3. /\ Cardinality(Submitting) \in Nat /\ Queued \in Nat /\ round.dispatched \in Nat
        /\ numInflightTask = Queued + Cardinality(Submitting) + round.dispatched
    BY Zenon, FS_CardinalityType DEF CountInv, Queued, InflightExact
  <1> QED
    BY SMTT(60), <1>2, <1>3 DEF Queued

\* abortTasks leaves no task to be woken up for.
LEMMA AwakeAborted ==
  ASSUME AbortTasks, pc'[Dispatcher] = "exit" => status' = "stopped"
  PROVE  AwakeInv'
  <1>1. \A k \in Keys : channels'[k] = << >>
    BY DEF AbortTasks
  <1> QED
    BY ZenonT(60), <1>1 DEF AwakeInv

\* The steps of TrySubmit and Add keep AwakeInv: who fills a channel is about to notify.
LEMMA AwakeSubmit ==
  ASSUME PlaceTypes, GoInv, KeyInv, AwakeInv, NEW g \in Submitters, SubmitStep(g)
  PROVE  AwakeInv'
  <1> USE DEF Goes
  <1>a. pc[g] \in Holding => arg[g] \in Tasks
    BY Zenon, GoroutineFacts DEF GoInv, PlaceTypes
  <1>b. ASSUME NEW to, pc' = [pc EXCEPT ![g] = to]
        PROVE  pc'[g] = to /\ pc'[Dispatcher] = pc[Dispatcher]
               /\ (pc[g] # "notify" => \A h \in Submitters : pc[h] = "notify" => pc'[h] = "notify")
    BY ZenonT(60), <1>b, GoroutineFacts DEF GoInv
  <1>1. CASE TrySubmit(g) \/ DispatchDirectly(g) \/ DispatchedDirectly(g) \/ Add(g) \/ Added(g)
    <2>1. pc[g] \in {"submit", "direct", "dispatched", "add", "added"} /\ \E to : pc' = [pc EXCEPT ![g] = to]
      BY ZenonT(60), <1>1 DEF TrySubmit, DispatchDirectly, DispatchedDirectly, Add, Added
    <2>2. UNCHANGED <<channels, known, notifyChan, dispatchTimer, status, round>>
      BY ZenonT(60), <1>1 DEF TrySubmit, DispatchDirectly, DispatchedDirectly, Add, Added, wrrVars, stopVars
    <2>3. pc[g] # "notify"
      BY SMTT(60), <2>1
    <2> QED
      BY ZenonT(60), <1>b, <2>1, <2>2, <2>3, AwakeKeep
  <1>2. CASE Enqueue(g)
    <2>0. arg[g] \in Tasks /\ key[arg[g]] \in Keys /\ pc[g] = "enqueue"
      BY ZenonT(60), <1>2, <1>a DEF Enqueue, Holding, KeyInv
    <2>1. known' = known \cup {key[arg[g]]} /\ UNCHANGED <<notifyChan, dispatchTimer, status, round>>
      BY ZenonT(60), <1>2 DEF Enqueue, stopVars
    <2>2. CASE Len(channels[key[arg[g]]]) < ChannelSize
      <3>1. /\ pc' = [pc EXCEPT ![g] = "notify"]
            /\ channels' = [channels EXCEPT ![key[arg[g]]] = Append(@, arg[g])]
        BY ZenonT(60), <1>2, <2>2 DEF Enqueue
      <3>2. \A k \in Keys : k # key[arg[g]] => channels'[k] = channels[k]
        BY ZenonT(60), <3>1 DEF PlaceTypes
      <3>3. \A k \in Keys : channels'[k] # << >> => k \in known'
        BY ZenonT(60), <2>1, <3>2 DEF AwakeInv
      <3>4. pc'[Dispatcher] = "exit" => status' = "stopped"
        BY ZenonT(60), <1>b, <2>1, <3>1 DEF AwakeInv
      <3> QED
        BY ZenonT(60), <1>b, <3>1, <3>3, <3>4, AwakeAgain
    <2>3. CASE ~(Len(channels[key[arg[g]]]) < ChannelSize)
      <3>1. pc' = [pc EXCEPT ![g] = "refused"] /\ channels' = channels
        BY ZenonT(60), <1>2, <2>3 DEF Enqueue
      <3>2. pc[g] # "notify" /\ known \subseteq known'
        BY SMTT(60), <2>0, <2>1
      <3> QED
        BY ZenonT(60), <1>b, <2>1, <3>1, <3>2, AwakeKeep
    <2> QED
      BY Zenon, <2>2, <2>3
  <1>3. CASE Notify(g)
    <2>1. pc' = [pc EXCEPT ![g] = Idle(g)] /\ UNCHANGED <<known, status>>
      BY ZenonT(60), <1>3 DEF Notify, stopVars
    <2>2. pc'[Dispatcher] = "exit" => status' = "stopped"
      BY ZenonT(60), <1>b, <2>1 DEF AwakeInv
    <2>3. CASE status = "stopped"
      BY ZenonT(60), <1>3, <2>2, <2>3, AwakeAborted DEF Notify, NotifyDispatcher
    <2>4. CASE status # "stopped"
      <3>1. notifyChan' = TRUE /\ channels' = channels
        BY ZenonT(60), <1>3, <2>4 DEF Notify, NotifyDispatcher
      <3> QED
        BY ZenonT(60), <2>1, <2>2, <3>1, AwakeAgain DEF AwakeInv
    <2> QED
      BY Zenon, <2>3, <2>4
  <1> QED
    BY ZenonT(60), <1>1, <1>2, <1>3 DEF SubmitStep

\* The steps of the dispatcher keep AwakeInv: a round has all channels, and one that
\* leaves tasks behind has been throttled and sets the timer.
LEMMA AwakeDispatcher ==
  ASSUME PlaceTypes, GoInv, KeyInv, CountInv, AwakeInv, DispatcherStep
  PROVE  AwakeInv'
  <1> USE DEF Goes
  <1>1. CASE ReceiveNotification
    <2>1. pc' = [pc EXCEPT ![Dispatcher] = "check"] /\ UNCHANGED <<channels, known, status>>
      BY ZenonT(60), <1>1 DEF ReceiveNotification, Moves, stopVars
    <2>2. pc'[Dispatcher] = "check"
      BY ZenonT(60), <2>1, DispatcherUncounted
    <2>3. ~(pc'[Dispatcher] = "exit")
      BY SMTT(60), <2>2
    <2> QED
      BY ZenonT(60), <2>1, <2>2, <2>3, AwakeAgain DEF AwakeInv
  <1>2. CASE EventLoopStops
    <2>1. status' = "stopped" /\ UNCHANGED <<channels, known>>
      BY ZenonT(60), <1>2 DEF EventLoopStops, wrrVars, stopVars
    <2>2. status' # "started"
      BY SMTT(60), <2>1
    <2> QED
      BY ZenonT(60), <2>1, <2>2, AwakeAgain DEF AwakeInv
  <1>3. CASE BeginRound
    <2>1. pc[Dispatcher] = "check" /\ UNCHANGED <<channels, known, notifyChan, dispatchTimer, status>>
      BY ZenonT(60), <1>3 DEF BeginRound, wrrVars, stopVars
    <2>2. CASE numInflightTask > 0
      <3>1. round'.keys = known
        BY SMTT(60), <1>3, <2>2 DEF BeginRound
      <3>2. pc'[Dispatcher] = "visit"
        BY ZenonT(60), <1>3, <2>2, DispatcherUncounted DEF BeginRound
      <3>3. pc'[Dispatcher] # "exit" /\ pc'[Dispatcher] # "idle"
        BY SMTT(60), <3>2
      <3> QED
        BY ZenonT(60), <2>1, <3>1, <3>3 DEF AwakeInv
    <2>3. CASE ~(numInflightTask > 0)
      <3>1. \A k \in Keys : channels'[k] = << >>
        BY ZenonT(60), <2>1, <2>3, ChannelCounted
      <3>2. pc'[Dispatcher] = "idle"
        BY ZenonT(60), <1>3, <2>3, DispatcherUncounted DEF BeginRound
      <3>3. pc'[Dispatcher] # "exit"
        BY SMTT(60), <3>2
      <3> QED
        BY ZenonT(60), <3>1, <3>3 DEF AwakeInv
    <2> QED
      BY ZenonT(60), <2>2, <2>3
  <1>4. CASE SkipChannel \/ ThrottleChannel
    <2>1. UNCHANGED <<channels, known, notifyChan, dispatchTimer, status, pc>>
      BY ZenonT(60), <1>4 DEF SkipChannel, ThrottleChannel, wrrVars, goVars, stopVars
    <2>2. round'.keys = round.keys
      <3>1. \E q, T : round' = [round EXCEPT !.throttled = T, !.left = q]
                      \/ round' = [round EXCEPT !.left = q]
        BY Zenon, <1>4 DEF SkipChannel, ThrottleChannel
      <3> QED
        BY Zenon, <3>1 DEF KeyInv
    <2> QED
      BY ZenonT(60), <2>1, <2>2, AwakeKeep

  <1>5. CASE TakeTask
    <2>1. /\ Visited \in Keys /\ channels[Visited] # << >> /\ pc[Dispatcher] = "visit"
          /\ UNCHANGED <<known, notifyChan, dispatchTimer, status>>
      BY Zenon, <1>5 DEF TakeTask, CanVisit, KeyInv, Visiting, stopVars
    <2>2. \A k \in Keys : channels'[k] # << >> => channels[k] # << >>
      BY ZenonT(60), <1>5, <2>1 DEF TakeTask, PlaceTypes
    <2>3. pc'[Dispatcher] = "hand over" /\ \A g \in Submitters : pc'[g] = pc[g]
      BY ZenonT(60), <1>5, DispatcherUncounted DEF TakeTask
    <2>4. round'.keys = round.keys
      <3>1. PICK q, n : round' = [round EXCEPT !.left = q, !.dispatched = n]
        BY ZenonT(60), <1>5 DEF TakeTask
      <3> QED
        BY SMTT(60), <3>1 DEF KeyInv
    <2> QED
      BY Zenon, <2>1, <2>2, <2>3, <2>4, AwakeRound
  <1>6. CASE HandOver \/ HandedOver
    <2>1. /\ pc[Dispatcher] \in {"hand over", "handed over"}
          /\ UNCHANGED <<channels, known, notifyChan, dispatchTimer, status, round>>
          /\ \E to \in {"handed over", "visit"} : pc' = [pc EXCEPT ![Dispatcher] = to]
      BY Zenon, <1>6 DEF HandOver, HandedOver, Moves, wrrVars, stopVars
    <2>2. pc'[Dispatcher] \in {"handed over", "visit"} /\ \A g \in Submitters : pc'[g] = pc[g]
      BY ZenonT(60), <2>1, DispatcherUncounted
    <2> QED
      BY ZenonT(60), <2>1, <2>2, AwakeRound
  <1>7. CASE EndRound
    <2>1. UNCHANGED <<channels, known, notifyChan, status>> /\ pc[Dispatcher] = "visit"
      BY ZenonT(60), <1>7 DEF EndRound, stopVars
    <2>2. CASE round.throttle /\ \A k \in round.keys \ round.throttled : channels[k] = << >>
      <3>1. dispatchTimer' = (dispatchTimer \/ round.throttled # {})
        BY ZenonT(60), <1>7, <2>2 DEF EndRound
      <3>2. pc'[Dispatcher] = "idle" /\ \A g \in Submitters : pc'[g] = pc[g]
        BY ZenonT(60), <1>7, <2>2, DispatcherUncounted DEF EndRound
      <3>3. pc'[Dispatcher] # "exit" /\ pc[Dispatcher] # "check"
        BY SMTT(60), <2>1, <3>2
      <3>4. ASSUME NEW k \in Keys, channels'[k] # << >>
            PROVE  /\ k \in known'
                   /\ status' = "started" =>
                         \/ notifyChan' \/ dispatchTimer' \/ \E g \in Submitters : pc'[g] = "notify"
        BY ZenonT(60), <2>1, <2>2, <3>1, <3>2, <3>3, <3>4 DEF AwakeInv
      <3> QED
        BY ZenonT(60), <3>3, <3>4 DEF AwakeInv
    <2>3. CASE ~(round.throttle /\ \A k \in round.keys \ round.throttled : channels[k] = << >>)
      <3>1. pc'[Dispatcher] = "check"
        BY ZenonT(60), <1>7, <2>3, DispatcherUncounted DEF EndRound
      <3>2. ~(pc'[Dispatcher] = "exit")
        BY <3>1
      <3> QED
        BY ZenonT(60), <2>1, <3>1, <3>2, AwakeAgain DEF AwakeInv
    <2> QED
      BY ZenonT(60), <2>2, <2>3
  <1>8. CASE DispatchTimerFires
    <2>1. UNCHANGED <<pc, known, status>>
      BY ZenonT(60), <1>8 DEF DispatchTimerFires, stopVars, goVars
    <2>2. pc'[Dispatcher] = "exit" => status' = "stopped"
      BY ZenonT(60), <2>1 DEF AwakeInv
    <2>3. CASE status = "stopped"
      BY ZenonT(60), <1>8, <2>2, <2>3, AwakeAborted DEF DispatchTimerFires, NotifyDispatcher
    <2>4. CASE status # "stopped"
      <3>1. notifyChan' = TRUE /\ channels' = channels
        BY ZenonT(60), <1>8, <2>4 DEF DispatchTimerFires, NotifyDispatcher
      <3> QED
        BY ZenonT(60), <2>1, <2>2, <3>1, AwakeAgain DEF AwakeInv
    <2> QED
      BY ZenonT(60), <2>3, <2>4
  <1> QED
    BY ZenonT(60), <1>1, <1>2, <1>3, <1>4, <1>5, <1>6, <1>7, <1>8 DEF DispatcherStep

\* Every step keeps AwakeInv.
LEMMA AwakeNext ==
  ASSUME PlaceTypes, GoInv, KeyInv, CountInv, AwakeInv, [Next]_vars
  PROVE  AwakeInv'
  <1>1. CASE \/ \E w \in Workers : WorkerStep(w)
             \/ Reschedule \/ ReschedulerStep
             \/ \E t \in Tasks : Load(t)
    <2>1. UNCHANGED <<channels, known, round, notifyChan, dispatchTimer, status>>
      BY ZenonT(60), <1>1, OtherSteps
    <2>2. pc'[Dispatcher] = pc[Dispatcher] /\ \A g \in Submitters : pc[g] = "notify" => pc'[g] = "notify"
      <3>1. CASE pc' = pc
        BY ZenonT(60), <3>1
      <3>2. CASE \E g \in Submitters, to \in PCs \ (Counted \cup {"notify"}) :
                    pc' = [pc EXCEPT ![g] = to] /\ pc[g] \notin Counted \cup {"notify"}
        BY ZenonT(60), <3>2, GoroutineFacts DEF GoInv
      <3> QED
        BY ZenonT(60), <1>1, <3>1, <3>2, OtherSteps
    <2> QED
      BY ZenonT(60), <2>1, <2>2, AwakeKeep
  <1>2. CASE \/ \E t \in Tasks : Cancel(t)
             \/ Stop \/ StopFIFO \/ StopDrains \/ MonitorStops \/ UNCHANGED vars
    <2>1. UNCHANGED <<channels, known, notifyChan, dispatchTimer, round, pc>>
      BY ZenonT(60), <1>2 DEF Cancel, Stop, StopFIFO, StopDrains, MonitorStops, vars, wrrVars, goVars
    <2>2. status' = status \/ status' = "stopped"
      BY ZenonT(60), <1>2 DEF Cancel, Stop, StopFIFO, StopDrains, MonitorStops, vars, stopVars
    <2> QED
      BY ZenonT(60), <2>1, <2>2, AwakeKeep
  <1>3. CASE StopAborts
    <2>1. AbortTasks /\ pc' = pc /\ status' = status
      BY ZenonT(60), <1>3 DEF StopAborts, goVars
    <2> QED
      BY ZenonT(60), <2>1, AwakeAborted DEF AwakeInv
  <1> QED
    BY ZenonT(60), <1>1, <1>2, <1>3, AwakeSubmit, AwakeDispatcher DEF Next, StopStep

-----------------------------------------------------------------------------
(* The theorems *)

\* The count is exact and the dispatcher awake to begin with.
LEMMA InflightInit == Init => CountInv /\ AwakeInv
  <1> SUFFICES ASSUME Init PROVE CountInv /\ AwakeInv
    BY SMTT(60)
  <1>1. Slots = {}
    BY SMTT(60) DEF Init, Slots
  <1>2. Submitting = {}
    BY SMTT(60), GoroutineFacts DEF Init, Submitting
  <1>3. round.dispatched = 0 /\ numInflightTask = 0
    BY DEF Init, NoRound
  <1>4. CountInv
    BY SMTT(60), <1>1, <1>2, <1>3, FS_EmptySet DEF CountInv, InflightExact, Queued
  <1>5. AwakeInv
    BY SMTT(60), GoroutineFacts DEF Init, AwakeInv
  <1> QED
    BY SMTT(60), <1>4, <1>5

\* Both are kept, next to the invariant of TaskSchedulerProofs.
LEMMA InflightNext == Inv /\ CountInv /\ AwakeInv /\ [Next]_vars => (CountInv /\ AwakeInv)'
  <1> SUFFICES ASSUME Inv, CountInv, AwakeInv, [Next]_vars PROVE CountInv' /\ AwakeInv'
    OBVIOUS
  <1>1. PlaceTypes /\ GoInv /\ KeyInv
    BY Zenon DEF Inv, Places
  <1> QED
    BY ZenonT(60), <1>1, CountNext, AwakeNext

\* AwakeInv says that the dispatcher is awake when a channel has a task.
LEMMA AwakeImplies == PlaceTypes /\ AwakeInv => DispatcherAwake
  <1> SUFFICES ASSUME PlaceTypes, AwakeInv, status = "started", Channeled # {}
               PROVE  \/ notifyChan \/ dispatchTimer
                      \/ pc[Dispatcher] # "idle"
                      \/ \E g \in Submitters : pc[g] = "notify"
    BY Zenon DEF DispatcherAwake
  <1>1. PICK k \in Keys : Range(channels[k]) # {}
    BY Zenon DEF Channeled
  <1>2. channels[k] # << >>
    BY ZenonT(60), <1>1, RangeEmpty
  <1>3. "check" # "idle"
    OBVIOUS
  <1> QED
    BY ZenonT(60), <1>2, <1>3 DEF AwakeInv

(* numInflightTask is always exact: between TrySubmit, the dispatcher's     *)
(* rounds, refused submissions and abortTasks no task is counted twice or   *)
(* forgotten, for any number of submitters and any capacities.              *)
THEOREM InflightAlwaysExact == Spec => []InflightExact
  <1>1. CountInv => InflightExact
    BY Zenon DEF CountInv
  <1> QED
    BY <1>1, Invariant, InflightInit, InflightNext, PTL DEF Spec

(* While the scheduler runs the dispatcher is never idle with a task in a   *)
(* channel and nothing under way to wake it up: no notification is missed   *)
(* between the end of its loop and the next receive, and a throttled        *)
(* channel always has the timer.                                            *)
THEOREM DispatcherAlwaysAwake == Spec => []DispatcherAwake
  <1>1. Inv => PlaceTypes
    BY Zenon DEF Inv, Places
  <1> QED
    BY <1>1, AwakeImplies, Invariant, InflightInit, InflightNext, PTL DEF Spec

=============================================================================
