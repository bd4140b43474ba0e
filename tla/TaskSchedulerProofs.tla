------------------------ MODULE TaskSchedulerProofs -------------------------
(***************************************************************************)
(* Theorems about TaskScheduler, for any tasks, keys, workers, weights and *)
(* capacities.  The inductive invariant Inv has Places (a task is in one   *)
(* place only and a pending one is somewhere), what each goroutine has in  *)
(* hand at which program counter, the gate of the rescheduler, and the two *)
(* shutdowns.  The first lemmas are each about one kind of move between    *)
(* two places, whichever action makes it.                                  *)
(***************************************************************************)
EXTENDS TaskScheduler, TLAPS

\* The empty sequence has no elements.
LEMMA RangeEmpty == Range(<< >>) = {} /\ IsInjective(<< >>)
  BY DEF Range, IsInjective

\* Append adds one element, and keeps a sequence injective if it is new.
LEMMA RangeAppend ==
  ASSUME NEW S, NEW q \in Seq(S), NEW x \in S
  PROVE  /\ Append(q, x) \in Seq(S)
         /\ Range(Append(q, x)) = Range(q) \cup {x}
         /\ IsInjective(q) /\ x \notin Range(q) => IsInjective(Append(q, x))
  <1> DEFINE r == Append(q, x)
  <1>1. r \in Seq(S) /\ Len(r) = Len(q) + 1 /\ Len(q) \in Nat
    OBVIOUS
  <1>2. \A i \in 1 .. Len(q) : r[i] = q[i]
    OBVIOUS
  <1>3. r[Len(q) + 1] = x
    OBVIOUS
  <1>4. DOMAIN q = 1 .. Len(q) /\ DOMAIN r = 1 .. Len(q) + 1
    OBVIOUS
  <1> HIDE DEF r
  <1>5. Range(r) = Range(q) \cup {x}
    BY <1>1, <1>2, <1>3, <1>4 DEF Range
  <1>6. IsInjective(q) /\ x \notin Range(q) => IsInjective(r)
    BY <1>1, <1>2, <1>3, <1>4 DEF Range, IsInjective
  <1> QED
    BY <1>1, <1>5, <1>6 DEF r

\* Head and Tail share out the elements, disjointly if the sequence is injective.
LEMMA RangeTail ==
  ASSUME NEW S, NEW q \in Seq(S), q # << >>
  PROVE  /\ Tail(q) \in Seq(S) /\ Head(q) \in S
         /\ Range(q) = {Head(q)} \cup Range(Tail(q))
         /\ IsInjective(q) => IsInjective(Tail(q)) /\ Head(q) \notin Range(Tail(q))
  <1> DEFINE r == Tail(q)
  <1>1. r \in Seq(S) /\ Len(r) = Len(q) - 1 /\ Len(q) \in Nat /\ Len(q) >= 1
    OBVIOUS
  <1>2. \A i \in 1 .. Len(q) - 1 : r[i] = q[i + 1]
    OBVIOUS
  <1>3. Head(q) = q[1] /\ q[1] \in S
    OBVIOUS
  <1>4. DOMAIN q = 1 .. Len(q) /\ DOMAIN r = 1 .. Len(q) - 1
    OBVIOUS
  <1> HIDE DEF r
  <1>5. Range(q) = {Head(q)} \cup Range(r)
    <2>1. ASSUME NEW i \in DOMAIN q PROVE q[i] \in {Head(q)} \cup Range(r)
      <3>1. i = 1 \/ (i - 1 \in DOMAIN r /\ r[i - 1] = q[i])
        BY <1>1, <1>2, <1>4
      <3> QED BY <3>1, <1>3 DEF Range
    <2>2. ASSUME NEW i \in DOMAIN r PROVE r[i] \in Range(q)
      <3>1. i + 1 \in DOMAIN q /\ r[i] = q[i + 1]
        BY <1>1, <1>2, <1>4
      <3> QED BY <3>1 DEF Range
    <2>3. Head(q) \in Range(q)
      BY <1>1, <1>3, <1>4 DEF Range
    <2> QED BY <2>1, <2>2, <2>3 DEF Range
  <1>6. IsInjective(q) => IsInjective(r) /\ Head(q) \notin Range(r)
    <2> SUFFICES ASSUME IsInjective(q)
                 PROVE  IsInjective(r) /\ Head(q) \notin Range(r)
      OBVIOUS
    <2>1. \A i \in DOMAIN r : i + 1 \in DOMAIN q /\ r[i] = q[i + 1] /\ i \in Nat /\ i >= 1
      BY <1>1, <1>2, <1>4
    <2>2. IsInjective(r)
      BY <2>1 DEF IsInjective
    <2>3. ASSUME NEW i \in DOMAIN r, r[i] = Head(q) PROVE FALSE
      BY <2>1, <2>3, <1>1, <1>3, <1>4 DEF IsInjective
    <2> QED BY <2>2, <2>3 DEF Range
  <1> QED
    BY <1>1, <1>3, <1>5, <1>6 DEF r

\* The elements of a sequence over S are in S.
LEMMA RangeIn == ASSUME NEW S, NEW q \in Seq(S) PROVE Range(q) \subseteq S
  BY DEF Range

-----------------------------------------------------------------------------
(* Where the tasks are *)

\* the states of an executable
States == {"unloaded", "pending", "acked", "cancelled", "aborted"}

\* the types of what Places is about
PlaceTypes ==
    /\ state \in [Tasks -> States]
    /\ arg \in [Goroutines -> Tasks \cup {NoTask}]
    /\ tasksChan \in Seq(Tasks) /\ channels \in [Keys -> Seq(Tasks)]
    /\ Rescheduled \subseteq Tasks

\* NeverTwice, task by task
Apart ==
    /\ \A g, h \in Goroutines : arg[g] = arg[h] /\ arg[g] # NoTask => g = h
    /\ IsInjective(tasksChan) /\ \A k \in Keys : IsInjective(channels[k])
    /\ \A k, l \in Keys : \A t \in Range(channels[k]) : t \in Range(channels[l]) => k = l
    /\ \A g \in Goroutines :
          /\ arg[g] \notin Range(tasksChan) /\ arg[g] \notin Rescheduled
          /\ \A k \in Keys : arg[g] \notin Range(channels[k])
    /\ \A t \in Range(tasksChan) :
          t \notin Rescheduled /\ \A k \in Keys : t \notin Range(channels[k])
    /\ \A k \in Keys : \A t \in Range(channels[k]) : t \notin Rescheduled

\* Places that are apart hold no task twice.
LEMMA ApartNeverTwice == Apart /\ waiting \cap due = {} => NeverTwice
  BY SMTT(60) DEF Apart, NeverTwice, Channeled, InHand, Rescheduled

\* Task t is in one of the places.
Somewhere(t) ==
    \/ \E g \in Goroutines : arg[g] = t
    \/ t \in Range(tasksChan)
    \/ \E k \in Keys : t \in Range(channels[k])
    \/ t \in Rescheduled

\* A loaded task that is pending is somewhere; one that is not loaded is nowhere.
Kept ==
    \A t \in Tasks :
        /\ Somewhere(t) => state[t] # "unloaded"
        /\ reschedulerStatus = "started" /\ state[t] = "pending" => Somewhere(t)

\* what the first two theorems follow from
Places == PlaceTypes /\ Apart /\ Kept

\* The steps that settle tasks only settle those that were pending.
Settles ==
    /\ state' \in [Tasks -> States]
    /\ \A t \in Tasks : state'[t] # state[t] => state[t] = "pending" /\ state'[t] # "unloaded"

\* The rescheduler is not started again.
StaysStarted == reschedulerStatus' = "started" => reschedulerStatus = "started"

\* What is in the hands, queues and channels are tasks.
LEMMA PlaceFacts ==
  ASSUME PlaceTypes
  PROVE  /\ NoTask \notin Tasks
         /\ Range(tasksChan) \subseteq Tasks
         /\ \A k \in Keys : Range(channels[k]) \subseteq Tasks
  BY SchedulerConstants, RangeIn DEF NoTask, PlaceTypes

\* A step that moves no task keeps them apart and kept, whatever it settles.
LEMMA Stay ==
  ASSUME Places, UNCHANGED <<arg, tasksChan, channels, Rescheduled>>, Settles, StaysStarted
  PROVE  Places'
  <1>1. PlaceTypes' BY DEF Places, PlaceTypes, Settles
  <1>2. Apart' BY DEF Places, Apart
  <1>3. Kept' BY SMTT(60) DEF Places, PlaceTypes, Kept, Somewhere, Settles, StaysStarted, States
  <1> QED BY <1>1, <1>2, <1>3 DEF Places

\* A goroutine lets go of a task that is no longer pending.
LEMMA Drop ==
  ASSUME Places, NEW g \in Goroutines, arg' = [arg EXCEPT ![g] = NoTask],
         UNCHANGED <<tasksChan, channels, Rescheduled, reschedulerStatus>>, Settles,
         arg[g] \in Tasks => state'[arg[g]] # "pending"
  PROVE  Places'
  <1>0. \A h \in Goroutines : arg'[h] = IF h = g THEN NoTask ELSE arg[h]
    BY DEF Places, PlaceTypes
  <1>1. PlaceTypes' BY DEF Places, PlaceTypes, Settles
  <1>2. Apart' BY <1>0, PlaceFacts DEF Places, Apart, PlaceTypes
  <1>3. Kept' BY <1>0, PlaceFacts DEF Places, PlaceTypes, Kept, Somewhere, Settles, States
  <1> QED BY <1>1, <1>2, <1>3 DEF Places

\* A goroutine puts the task in its hand into a channel (Enqueue).
LEMMA ToChannel ==
  ASSUME Places, NEW g \in Goroutines, NEW k \in Keys, arg[g] \in Tasks,
         arg' = [arg EXCEPT ![g] = NoTask],
         channels' = [channels EXCEPT ![k] = Append(@, arg[g])],
         UNCHANGED <<tasksChan, Rescheduled, reschedulerStatus, state>>
  PROVE  Places'
  <1>0. \A h \in Goroutines : arg'[h] = IF h = g THEN NoTask ELSE arg[h]
    BY DEF Places, PlaceTypes
  <1>a. /\ channels'[k] \in Seq(Tasks)
        /\ Range(channels'[k]) = Range(channels[k]) \cup {arg[g]}
        /\ IsInjective(channels'[k])
    BY RangeAppend DEF Places, PlaceTypes, Apart
  <1>b. \A l \in Keys \ {k} : channels'[l] = channels[l]
    BY DEF Places, PlaceTypes
  <1>1. PlaceTypes' BY <1>a DEF Places, PlaceTypes
  <1>2. Apart' BY SMTT(60), <1>0, PlaceFacts, <1>a, <1>b DEF Places, Apart, PlaceTypes
  <1>3. Kept' BY ZenonT(60), <1>0, PlaceFacts, <1>a, <1>b DEF Places, PlaceTypes, Kept, Somewhere
  <1> QED BY <1>1, <1>2, <1>3 DEF Places

\* The dispatcher takes the first task of a channel (TakeTask).
LEMMA FromChannel ==
  ASSUME Places, NEW g \in Goroutines, NEW k \in Keys, arg[g] = NoTask, channels[k] # << >>,
         arg' = [arg EXCEPT ![g] = Head(channels[k])],
         channels' = [channels EXCEPT ![k] = Tail(@)],
         UNCHANGED <<tasksChan, Rescheduled, reschedulerStatus, state>>
  PROVE  Places'
  <1> DEFINE t == Head(channels[k])
  <1>0. \A h \in Goroutines : arg'[h] = IF h = g THEN t ELSE arg[h]
    BY DEF Places, PlaceTypes
  <1>a. /\ channels'[k] \in Seq(Tasks) /\ t \in Tasks
        /\ Range(channels[k]) = {t} \cup Range(channels'[k])
        /\ IsInjective(channels'[k]) /\ t \notin Range(channels'[k])
    BY RangeTail DEF Places, PlaceTypes, Apart
  <1>b. \A l \in Keys \ {k} : channels'[l] = channels[l]
    BY DEF Places, PlaceTypes
  <1> HIDE DEF t
  <1>1. PlaceTypes' BY <1>a DEF Places, PlaceTypes, t
  <1>2. Apart' BY <1>0, PlaceFacts, <1>a, <1>b DEF Places, Apart, PlaceTypes
  <1>3. \A u \in Tasks : Somewhere(u)' <=> Somewhere(u)
    <2> SUFFICES ASSUME NEW u \in Tasks PROVE Somewhere(u)' <=> Somewhere(u)
      OBVIOUS
    <2>1. (\E h \in Goroutines : arg'[h] = u) <=> u = t \/ \E h \in Goroutines : arg[h] = u
      BY <1>0, PlaceFacts DEF Places
    <2>2. u = t \/ (\E l \in Keys : u \in Range(channels'[l]))
             <=> \E l \in Keys : u \in Range(channels[l])
      BY <1>a, <1>b
    <2> QED BY <2>1, <2>2 DEF Somewhere
  <1>4. Kept' BY <1>3 DEF Places, Kept
  <1> QED BY <1>1, <1>2, <1>4 DEF Places

\* A goroutine puts the task in its hand into tasksChan.
LEMMA ToFIFO ==
  ASSUME Places, NEW g \in Goroutines, arg[g] \in Tasks, arg' = [arg EXCEPT ![g] = NoTask],
         tasksChan' = Append(tasksChan, arg[g]),
         UNCHANGED <<channels, Rescheduled, reschedulerStatus, state>>
  PROVE  Places'
  <1>0. \A h \in Goroutines : arg'[h] = IF h = g THEN NoTask ELSE arg[h]
    BY DEF Places, PlaceTypes
  <1>a. /\ tasksChan' \in Seq(Tasks)
        /\ Range(tasksChan') = Range(tasksChan) \cup {arg[g]}
        /\ IsInjective(tasksChan')
    BY RangeAppend DEF Places, PlaceTypes, Apart
  <1>1. PlaceTypes' BY SMTT(60), <1>a DEF Places, PlaceTypes
  <1>2. Apart' BY SMTT(60), <1>0, PlaceFacts, <1>a DEF Places, Apart, PlaceTypes
  <1>3. Kept' BY <1>0, PlaceFacts, <1>a DEF Places, PlaceTypes, Kept, Somewhere
  <1> QED BY <1>1, <1>2, <1>3 DEF Places

\* A worker takes the first task of tasksChan (ReceiveTask).
LEMMA FromFIFO ==
  ASSUME Places, NEW g \in Goroutines, arg[g] = NoTask, tasksChan # << >>,
         arg' = [arg EXCEPT ![g] = Head(tasksChan)], tasksChan' = Tail(tasksChan),
         UNCHANGED <<channels, Rescheduled, reschedulerStatus, state>>
  PROVE  Places'
  <1> DEFINE t == Head(tasksChan)
  <1>0. \A h \in Goroutines : arg'[h] = IF h = g THEN t ELSE arg[h]
    BY DEF Places, PlaceTypes
  <1>a. /\ tasksChan' \in Seq(Tasks) /\ t \in Tasks
        /\ Range(tasksChan) = {t} \cup Range(tasksChan')
        /\ IsInjective(tasksChan') /\ t \notin Range(tasksChan')
    BY RangeTail DEF Places, PlaceTypes, Apart
  <1> HIDE DEF t
  <1>1. PlaceTypes' BY SMTT(60), <1>a DEF Places, PlaceTypes, t
  <1>2. Apart' BY SMTT(60), <1>0, PlaceFacts, <1>a DEF Places, Apart, PlaceTypes
  <1>3. Kept' BY <1>0, PlaceFacts, <1>a DEF Places, PlaceTypes, Kept, Somewhere
  <1> QED BY <1>1, <1>2, <1>3 DEF Places

\* A goroutine gives the task in its hand to the rescheduler (Add, SubmitLater).
LEMMA ToRescheduler ==
  ASSUME Places, NEW g \in Goroutines, arg[g] \in Tasks, arg' = [arg EXCEPT ![g] = NoTask],
         Rescheduled' = Rescheduled \cup {arg[g]},
         UNCHANGED <<tasksChan, channels, reschedulerStatus, state>>
  PROVE  Places'
  <1>0. \A h \in Goroutines : arg'[h] = IF h = g THEN NoTask ELSE arg[h]
    BY DEF Places, PlaceTypes
  <1>1. PlaceTypes' BY SMTT(60) DEF Places, PlaceTypes
  <1>2. Apart' BY <1>0, PlaceFacts DEF Places, Apart, PlaceTypes
  <1>3. Kept' BY SMTT(60), <1>0, PlaceFacts DEF Places, PlaceTypes, Kept, Somewhere
  <1> QED BY <1>1, <1>2, <1>3 DEF Places

\* The rescheduler's loop takes a task to submit it (RescheduleDue).
LEMMA FromRescheduler ==
  ASSUME Places, NEW g \in Goroutines, NEW t \in Rescheduled, arg[g] = NoTask,
         arg' = [arg EXCEPT ![g] = t], Rescheduled' = Rescheduled \ {t},
         UNCHANGED <<tasksChan, channels, reschedulerStatus, state>>
  PROVE  Places'
  <1>0. \A h \in Goroutines : arg'[h] = IF h = g THEN t ELSE arg[h]
    BY DEF Places, PlaceTypes
  <1>1. PlaceTypes' BY SMTT(60) DEF Places, PlaceTypes
  <1>2. Apart' BY SMTT(60), <1>0, PlaceFacts DEF Places, Apart, PlaceTypes
  <1>3. Kept' BY SMTT(60), <1>0, PlaceFacts DEF Places, PlaceTypes, Kept, Somewhere
  <1> QED BY <1>1, <1>2, <1>3 DEF Places

\* A task that is not pending leaves the rescheduler.
LEMMA LeaveRescheduler ==
  ASSUME Places, NEW t \in Rescheduled, state[t] # "pending", Rescheduled' = Rescheduled \ {t},
         UNCHANGED <<arg, tasksChan, channels, reschedulerStatus, state>>
  PROVE  Places'
  <1>1. PlaceTypes' BY DEF Places, PlaceTypes
  <1>2. Apart' BY PlaceFacts DEF Places, Apart, PlaceTypes
  <1>3. Kept' BY DEF Places, PlaceTypes, Kept, Somewhere
  <1> QED BY <1>1, <1>2, <1>3 DEF Places

\* The rescheduler, stopped, is drained.
LEMMA DrainRescheduler ==
  ASSUME Places, Rescheduled' = {}, reschedulerStatus' = "stopped",
         UNCHANGED <<arg, tasksChan, channels, state>>
  PROVE  Places'
  <1>1. PlaceTypes' BY DEF Places, PlaceTypes
  <1>2. Apart' BY DEF Places, Apart
  <1>3. Kept' BY DEF Places, PlaceTypes, Kept, Somewhere
  <1> QED BY <1>1, <1>2, <1>3 DEF Places

\* Abort changes pending tasks only, and leaves none of S pending.
LEMMA AbortedSettles ==
  ASSUME PlaceTypes, NEW S, state' = Aborted(S)
  PROVE  Settles /\ \A t \in Tasks \cap S : state'[t] # "pending"
  BY DEF PlaceTypes, Aborted, Settles, States

\* tasksChan is drained and its tasks aborted (drainTasks).
LEMMA DrainFIFO ==
  ASSUME Places, DrainTasks, UNCHANGED <<arg, channels, Rescheduled, reschedulerStatus>>
  PROVE  Places'
  <1>a. Settles /\ \A t \in Range(tasksChan) : state'[t] # "pending"
    BY AbortedSettles, PlaceFacts DEF DrainTasks, Places
  <1>b. tasksChan' = << >> /\ Range(tasksChan') = {} /\ IsInjective(tasksChan')
    BY RangeEmpty DEF DrainTasks
  <1>1. PlaceTypes' BY SMTT(60), <1>a, <1>b DEF Places, PlaceTypes, Settles
  <1>2. Apart' BY <1>b DEF Places, Apart
  <1>3. Kept' BY <1>a, <1>b DEF Places, PlaceTypes, Kept, Somewhere, Settles
  <1> QED BY <1>1, <1>2, <1>3 DEF Places

\* The channels are drained and their tasks aborted (abortTasks).
LEMMA DrainChannels ==
  ASSUME Places, AbortTasks, UNCHANGED <<arg, tasksChan, Rescheduled, reschedulerStatus>>
  PROVE  Places'
  <1>a. Settles /\ \A k \in Keys : \A t \in Range(channels[k]) : state'[t] # "pending"
    BY AbortedSettles, PlaceFacts DEF AbortTasks, Channeled, Places
  <1>b. \A k \in Keys : channels'[k] = << >> /\ Range(channels'[k]) = {}
                        /\ IsInjective(channels'[k])
    BY RangeEmpty DEF AbortTasks
  <1>1. PlaceTypes' BY SMTT(60), <1>a, <1>b DEF Places, PlaceTypes, Settles, AbortTasks
  <1>2. Apart' BY Zenon, <1>b DEF Places, Apart
  <1>3. Kept' BY Zenon, <1>a, <1>b DEF Places, PlaceTypes, Kept, Somewhere, Settles
  <1> QED BY <1>1, <1>2, <1>3 DEF Places

\* The reader takes a task that was nowhere before (Load).
LEMMA LoadNew ==
  ASSUME Places, NEW g \in Goroutines, NEW t \in Tasks, arg[g] = NoTask, state[t] = "unloaded",
         state' = [state EXCEPT ![t] = "pending"], arg' = [arg EXCEPT ![g] = t],
         UNCHANGED <<tasksChan, channels, Rescheduled, reschedulerStatus>>
  PROVE  Places'
  <1>0. \A h \in Goroutines : arg'[h] = IF h = g THEN t ELSE arg[h]
    BY DEF Places, PlaceTypes
  <1>s. \A u \in Tasks : state'[u] = IF u = t THEN "pending" ELSE state[u]
    BY DEF Places, PlaceTypes
  <1>n. ~Somewhere(t)
    BY DEF Places, Kept
  <1>1. PlaceTypes' BY SMTT(60) DEF Places, PlaceTypes, States
  <1>2. Apart' BY SMTT(60), <1>0, <1>n, PlaceFacts DEF Places, Apart, PlaceTypes, Somewhere
  <1>3. Kept' BY <1>0, <1>s, PlaceFacts DEF Places, PlaceTypes, Kept, Somewhere
  <1> QED BY <1>1, <1>2, <1>3 DEF Places

\* The program counters at which a goroutine has a task in hand
Holding == {"submit", "direct", "enqueue", "refused", "add", "execute", "ack", "busy",
            "failed", "hand over"}
PCs == Holding \cup {"idle", "head", "scan", "select", "exit", "dispatched", "notify", "added",
                     "check", "visit", "handed over"}

\* A goroutine has a task in hand at the program counters of Holding only.
GoInv ==
    /\ pc \in [Goroutines -> PCs]
    /\ \A g \in Goroutines : arg[g] # NoTask <=> pc[g] \in Holding

\* the types of keys, known channels and the dispatcher's round
KeyInv ==
    /\ key \in [Tasks -> Keys] /\ known \subseteq Keys /\ round.keys \subseteq Keys
    /\ round = [left |-> round.left, keys |-> round.keys, throttled |-> round.throttled,
                dispatched |-> round.dispatched, throttle |-> round.throttle]

\* The goroutines are distinct, and no task is NoTask.
LEMMA GoroutineFacts ==
  /\ Submitters \subseteq Goroutines /\ Workers \subseteq Submitters
  /\ Reader \in Submitters /\ Loop \in Submitters /\ Dispatcher \in Goroutines
  /\ Loop \notin Workers /\ Reader \notin Workers /\ Dispatcher \notin Submitters /\ Reader # Loop
  /\ Reader # Dispatcher /\ Loop # Dispatcher
  /\ NoTask \notin Tasks
  BY SchedulerConstants DEF Submitters, Goroutines, Reader, Loop, Dispatcher, NoTask

\* An idle goroutine holds no task.
LEMMA IdleFacts == ASSUME NEW g PROVE Idle(g) \in PCs \ Holding
  BY SMTT(60) DEF Idle, Holding, PCs

\* Every step keeps a task in hand exactly at the program counters of Holding.
LEMMA GoNext ==
  ASSUME PlaceTypes, GoInv, KeyInv, [Next]_vars
  PROVE  GoInv'
  <1> USE GoroutineFacts DEF Goes, Moves, PlaceTypes, GoInv, Holding, PCs
  <1>a. \A g \in Goroutines : pc[g] \in Holding => arg[g] \in Tasks
    BY Zenon
  <1>b. \A g \in Goroutines : pc[g] \notin Holding => arg[g] = NoTask
    BY ZenonT(60)
  <1>1. ASSUME NEW g \in Submitters, SubmitStep(g) PROVE GoInv'
    <2>1. CASE TrySubmit(g)
      BY Zenon, <2>1, <1>a DEF TrySubmit
    <2>2. CASE DispatchDirectly(g)
      BY ZenonT(60), <2>2, <1>a DEF DispatchDirectly
    <2>3. CASE DispatchedDirectly(g)
      BY Zenon, <2>3, IdleFacts DEF DispatchedDirectly
    <2>4. CASE Enqueue(g)
      BY ZenonT(60), <2>4, <1>a DEF Enqueue
    <2>5. CASE Notify(g)
      BY Zenon, <2>5, IdleFacts DEF Notify
    <2>6. CASE Add(g)
      BY Zenon, <2>6 DEF Add
    <2>7. CASE Added(g)
      BY ZenonT(60), <2>7, IdleFacts DEF Added
    <2> QED
      BY Zenon, <1>1, <2>1, <2>2, <2>3, <2>4, <2>5, <2>6, <2>7 DEF SubmitStep
  <1>2. ASSUME NEW w \in Workers, WorkerStep(w) PROVE GoInv'
    <2>1. CASE WorkerLoop(w)
      BY Zenon, <2>1, <1>b DEF WorkerLoop
    <2>2. CASE WorkerStops(w)
      BY Zenon, <2>2, <1>b DEF WorkerStops
    <2>3. CASE ReceiveTask(w)
      <3>1. Head(tasksChan) \in Tasks
        BY Zenon, <2>3, RangeTail DEF ReceiveTask
      <3> QED BY Zenon, <2>3, <3>1 DEF ReceiveTask
    <2>4. CASE Execute(w)
      <3>1. \E to \in {"ack", "busy", "failed"} :
               pc' = [pc EXCEPT ![w] = to] /\ arg' = [arg EXCEPT ![w] = arg[w]]
        BY Zenon, <2>4 DEF Execute
      <3>2. arg[w] \in Tasks
        BY Zenon, <2>4, <1>a DEF Execute
      <3> QED BY ZenonT(60), <3>1, <3>2
    <2>5. CASE Ack(w)
      BY Zenon, <2>5 DEF Ack
    <2>6. CASE Nack(w)
      <3>1. arg[w] \in Tasks
        BY Zenon, <2>6, <1>a DEF Nack
      <3>2. \/ pc' = [pc EXCEPT ![w] = "head"] /\ arg' = [arg EXCEPT ![w] = NoTask]
            \/ \E to \in {"submit", "add"} :
                  pc' = [pc EXCEPT ![w] = to] /\ arg' = [arg EXCEPT ![w] = arg[w]]
        BY Zenon, <2>6 DEF Nack
      <3> QED BY ZenonT(60), <3>1, <3>2
    <2>7. CASE NotSubmitted(w)
      BY Zenon, <2>7, <1>a DEF NotSubmitted
    <2> QED
      BY ZenonT(60), <1>2, <2>1, <2>2, <2>3, <2>4, <2>5, <2>6, <2>7 DEF WorkerStep
  <1>3. CASE DispatcherStep
    <2>1. CASE ReceiveNotification
      BY Zenon, <2>1, <1>b DEF ReceiveNotification
    <2>2. CASE EventLoopStops
      BY ZenonT(60), <2>2, <1>b DEF EventLoopStops
    <2>3. CASE BeginRound
      BY ZenonT(60), <2>3 DEF BeginRound
    <2>4. CASE SkipChannel \/ ThrottleChannel \/ DispatchTimerFires
      BY Zenon, <2>4 DEF SkipChannel, ThrottleChannel, DispatchTimerFires, goVars
    <2>5. CASE TakeTask
      <3>1. Visited \in Keys /\ channels[Visited] # << >>
        BY Zenon, <2>5 DEF TakeTask, CanVisit, KeyInv
      <3>2. Head(channels[Visited]) \in Tasks
        BY Zenon, <3>1, RangeTail
      <3> QED BY Zenon, <2>5, <3>2 DEF TakeTask
    <2>6. CASE HandOver
      BY Zenon, <2>6 DEF HandOver
    <2>7. CASE HandedOver
      BY Zenon, <2>7, <1>b DEF HandedOver
    <2>8. CASE EndRound
      <3>1. \E to \in {"idle", "check"} :
               pc' = [pc EXCEPT ![Dispatcher] = to] /\ arg' = [arg EXCEPT ![Dispatcher] = NoTask]
        BY Zenon, <2>8 DEF EndRound
      <3> QED BY ZenonT(60), <3>1
    <2> QED
      BY ZenonT(60), <1>3, <2>1, <2>2, <2>3, <2>4, <2>5, <2>6, <2>7, <2>8 DEF DispatcherStep
  <1>4. CASE ReschedulerStep
    <2>1. CASE GateFires \/ StopRescheduler \/ (\E t \in Tasks : Due(t))
               \/ \E K \in Namespaces : RescheduleNamespace(K)
      BY ZenonT(60), <2>1 DEF GateFires, StopRescheduler, Due, RescheduleNamespace, goVars
    <2>2. CASE ReceiveFire
      BY ZenonT(60), <2>2 DEF ReceiveFire
    <2>3. CASE SubmitLater
      BY Zenon, <2>3 DEF SubmitLater
    <2>4. CASE ReschedulerDrains
      BY Zenon, <2>4, <1>b DEF ReschedulerDrains
    <2>5. ASSUME NEW k \in Keys, KeyDone(k) PROVE GoInv'
      BY Zenon, <2>5 DEF KeyDone
    <2>6. ASSUME NEW t \in Tasks, RescheduleDue(t) PROVE GoInv'
      BY ZenonT(60), <2>6 DEF RescheduleDue, goVars
    <2> QED
      BY Zenon, <1>4, <2>1, <2>2, <2>3, <2>4, <2>5, <2>6 DEF ReschedulerStep
  <1>5. CASE StopStep
    BY Zenon, <1>5 DEF StopStep, Stop, StopFIFO, StopDrains, StopAborts, MonitorStops, goVars
  <1>6. ASSUME NEW t \in Tasks, Load(t) \/ Cancel(t) PROVE GoInv'
    <2>1. CASE Cancel(t)
      BY Zenon, <2>1 DEF Cancel, goVars
    <2>2. CASE Load(t)
      <3>1. \E to \in {"submit", "add"} :
               pc' = [pc EXCEPT ![Reader] = to] /\ arg' = [arg EXCEPT ![Reader] = t]
        BY Zenon, <2>2 DEF Load
      <3> QED BY ZenonT(60), <3>1
    <2> QED BY Zenon, <1>6, <2>1, <2>2
  <1>7. CASE Reschedule
    <2>1. arg[Reader] \in Tasks
      BY ZenonT(60), <1>7, <1>a DEF Reschedule
    <2>2. \/ pc' = [pc EXCEPT ![Reader] = "idle"] /\ arg' = [arg EXCEPT ![Reader] = NoTask]
          \/ pc' = [pc EXCEPT ![Reader] = "add"] /\ arg' = [arg EXCEPT ![Reader] = arg[Reader]]
      BY ZenonT(60), <1>7 DEF Reschedule
    <2> QED
      BY ZenonT(60), <2>1, <2>2
  <1>8. CASE UNCHANGED vars
    BY Zenon, <1>8 DEF vars, goVars
  <1> QED
    BY Zenon, <1>1, <1>2, <1>3, <1>4, <1>5, <1>6, <1>7, <1>8 DEF Next

\* Every step keeps the types of keys, known channels and rounds.
LEMMA KeyNext ==
  ASSUME PlaceTypes, GoInv, KeyInv, [Next]_vars
  PROVE  KeyInv'
  <1> USE GoroutineFacts DEF KeyInv
  <1>a. \A g \in Goroutines : pc[g] \in Holding => arg[g] \in Tasks
    BY DEF GoInv, PlaceTypes
  <1>1. ASSUME NEW g \in Submitters, SubmitStep(g) PROVE KeyInv'
    <2>1. CASE Enqueue(g)
      <3>1. key[arg[g]] \in Keys
        BY ZenonT(60), <2>1, <1>a DEF Enqueue, Holding
      <3> QED BY SMTT(60), <2>1, <3>1 DEF Enqueue, taskVars
    <2>2. CASE SubmitStep(g) /\ ~Enqueue(g)
      BY SMTT(60), <2>2 DEF SubmitStep, TrySubmit, DispatchDirectly, DispatchedDirectly, Notify, Add,
                  Added, taskVars, wrrVars
    <2> QED BY <1>1, <2>1, <2>2
  <1>2. ASSUME NEW w \in Workers, WorkerStep(w) PROVE KeyInv'
    <2>1. CASE Nack(w)
      BY SMTT(60), <2>1 DEF Nack, wrrVars
    <2>2. CASE WorkerStep(w) /\ ~Nack(w)
      BY SMTT(60), <2>2 DEF WorkerStep, WorkerLoop, WorkerStops, ReceiveTask, Execute, Ack, NotSubmitted,
                  taskVars, wrrVars
    <2> QED BY SMTT(60), <1>2, <2>1, <2>2
  <1>3. CASE DispatcherStep
    <2>1. CASE BeginRound
      BY <2>1 DEF BeginRound, taskVars, wrrVars
    <2>2. CASE SkipChannel \/ ThrottleChannel
      BY ZenonT(60), <2>2 DEF SkipChannel, ThrottleChannel, taskVars, wrrVars
    <2>3. CASE TakeTask
      BY Zenon, <2>3 DEF TakeTask, taskVars
    <2>4. CASE EndRound
      BY <2>4 DEF EndRound, NoRound, taskVars
    <2>5. CASE ReceiveNotification \/ EventLoopStops \/ HandOver \/ HandedOver
               \/ DispatchTimerFires
      BY Zenon, <2>5 DEF ReceiveNotification, EventLoopStops, HandOver, HandedOver, DispatchTimerFires,
                  taskVars, wrrVars
    <2> QED BY SMTT(60), <1>3, <2>1, <2>2, <2>3, <2>4, <2>5 DEF DispatcherStep
  <1>4. CASE ReschedulerStep
    BY <1>4 DEF ReschedulerStep, GateFires, StopRescheduler, Due, RescheduleNamespace, ReceiveFire,
                SubmitLater, ReschedulerDrains, KeyDone, RescheduleDue, taskVars, wrrVars
  <1>5. CASE StopStep
    BY SMTT(60), <1>5 DEF StopStep, Stop, StopFIFO, StopDrains, StopAborts, MonitorStops, taskVars, wrrVars
  <1>6. ASSUME NEW t \in Tasks, Load(t) \/ Cancel(t) PROVE KeyInv'
    BY SMTT(60), <1>6 DEF Load, Cancel, wrrVars
  <1>7. CASE Reschedule
    BY SMTT(60), <1>7 DEF Reschedule, wrrVars
  <1>8. CASE UNCHANGED vars
    BY <1>8 DEF vars, taskVars, wrrVars
  <1> QED
    BY <1>1, <1>2, <1>3, <1>4, <1>5, <1>6, <1>7, <1>8 DEF Next

\* A goroutine that keeps the task it has changes no hand.
LEMMA SameHands ==
  ASSUME PlaceTypes, NEW g \in Goroutines, NEW t, arg' = [arg EXCEPT ![g] = t], arg[g] = t
  PROVE  arg' = arg
  BY SMTT(60) DEF PlaceTypes

\* A step that changes neither states nor places keeps Places.
LEMMA StayPending ==
  ASSUME Places, UNCHANGED <<state, arg, tasksChan, channels, Rescheduled, reschedulerStatus>>
  PROVE  Places'
  BY Stay DEF Settles, StaysStarted, Places, PlaceTypes

\* The steps of TrySubmit and Add keep Places.
LEMMA PlacesSubmit ==
  ASSUME Places, GoInv, KeyInv, NEW g \in Submitters, SubmitStep(g)
  PROVE  Places'
  <1> USE GoroutineFacts DEF Goes, taskVars, fifoVars, wrrVars, rescheduleVars, Rescheduled
  <1>a. PlaceTypes /\ g \in Goroutines
    BY DEF Places
  <1>b. pc[g] \in Holding => arg[g] \in Tasks
    BY <1>a DEF GoInv, PlaceTypes
  <1>c. pc[g] \notin Holding => arg[g] = NoTask
    BY SMTT(60), <1>a DEF GoInv
  <1>1. CASE TrySubmit(g)
    <2>1. arg' = arg
      BY Zenon, <1>1, <1>a, SameHands DEF TrySubmit
    <2> QED BY SMTT(60), <1>1, <2>1, StayPending DEF TrySubmit
  <1>2. CASE DispatchDirectly(g)
    <2>1. CASE tasksChan' = Append(tasksChan, arg[g]) /\ arg' = [arg EXCEPT ![g] = NoTask]
      <3>1. arg[g] \in Tasks
        BY <1>2, <1>b DEF DispatchDirectly, Holding
      <3> QED BY Zenon, <1>2, <1>a, <2>1, <3>1, ToFIFO DEF DispatchDirectly
    <2>2. CASE tasksChan' = tasksChan /\ arg' = [arg EXCEPT ![g] = arg[g]]
      <3>1. arg' = arg
        BY Zenon, <1>a, <2>2, SameHands
      <3> QED BY <1>2, <2>2, <3>1, StayPending DEF DispatchDirectly
    <2> QED BY <1>2, <2>1, <2>2 DEF DispatchDirectly
  <1>3. CASE DispatchedDirectly(g)
    <2>1. arg' = arg
      BY Zenon, <1>3, <1>a, <1>c, SameHands DEF DispatchedDirectly, Holding
    <2>2. CASE DrainTasks
      BY <1>3, <2>1, <2>2, DrainFIFO DEF DispatchedDirectly
    <2>3. CASE UNCHANGED <<state, tasksChan>>
      BY <1>3, <2>1, <2>3, StayPending DEF DispatchedDirectly
    <2> QED BY <1>3, <2>2, <2>3 DEF DispatchedDirectly, DrainIfStopped
  <1>4. CASE Enqueue(g)
    <2>1. arg[g] \in Tasks /\ key[arg[g]] \in Keys
      BY SMTT(60), <1>4, <1>b DEF Enqueue, Holding, KeyInv
    <2>2. CASE Len(channels[key[arg[g]]]) < ChannelSize
      <3>1. /\ arg' = [arg EXCEPT ![g] = NoTask]
            /\ channels' = [channels EXCEPT ![key[arg[g]]] = Append(@, arg[g])]
            /\ UNCHANGED <<tasksChan, Rescheduled, reschedulerStatus, state>>
        BY <1>4, <2>2 DEF Enqueue
      <3> QED BY ZenonT(60), <1>a, <2>1, <3>1, ToChannel
    <2>3. CASE ~(Len(channels[key[arg[g]]]) < ChannelSize)
      <3>1. arg' = arg
        BY <1>4, <1>a, <2>3, SameHands DEF Enqueue
      <3> QED BY <1>4, <2>3, <3>1, StayPending DEF Enqueue
    <2> QED BY SMTT(60), <2>2, <2>3
  <1>5. CASE Notify(g)
    <2>1. arg' = arg
      BY Zenon, <1>5, <1>a, <1>c, SameHands DEF Notify, Holding
    <2>2. CASE AbortTasks
      BY <1>5, <2>1, <2>2, DrainChannels DEF Notify
    <2>3. CASE UNCHANGED <<state, channels>>
      BY <1>5, <2>1, <2>3, StayPending DEF Notify
    <2> QED BY <1>5, <2>2, <2>3 DEF Notify, NotifyDispatcher
  <1>6. CASE Add(g)
    <2>1. arg[g] \in Tasks
      BY <1>6, <1>b DEF Add, Holding
    <2> QED BY Zenon, <1>6, <1>a, <2>1, ToRescheduler DEF Add
  <1>7. CASE Added(g)
    <2>1. arg' = arg
      BY Zenon, <1>7, <1>a, <1>c, SameHands DEF Added, Holding
    <2>2. CASE reschedulerStatus = "stopped"
      BY <1>7, <2>1, <2>2, DrainRescheduler DEF Added
    <2>3. CASE reschedulerStatus # "stopped"
      BY <1>7, <2>1, <2>3, StayPending DEF Added
    <2> QED BY <2>2, <2>3
  <1> QED
    BY SMTT(60), <1>1, <1>2, <1>3, <1>4, <1>5, <1>6, <1>7, SubmitStep(g) DEF SubmitStep

\* The steps of a worker keep Places.
LEMMA PlacesWorker ==
  ASSUME Places, GoInv, NEW w \in Workers, WorkerStep(w)
  PROVE  Places'
  <1> USE GoroutineFacts DEF Goes, Moves, taskVars, fifoVars, wrrVars, rescheduleVars, Rescheduled
  <1>a. PlaceTypes /\ w \in Goroutines
    BY DEF Places
  <1>b. pc[w] \in Holding => arg[w] \in Tasks
    BY <1>a DEF GoInv, PlaceTypes
  <1>c. pc[w] \notin Holding => arg[w] = NoTask
    BY SMTT(60), <1>a DEF GoInv
  <1>1. CASE WorkerLoop(w) \/ WorkerStops(w) \/ NotSubmitted(w)
    <2>1. arg' = arg
      BY SMTT(60), <1>1, <1>a, SameHands DEF WorkerLoop, WorkerStops, NotSubmitted
    <2> QED BY SMTT(60), <1>1, <2>1, StayPending DEF WorkerLoop, WorkerStops, NotSubmitted
  <1>2. CASE ReceiveTask(w)
    <2>1. arg[w] = NoTask
      BY <1>2, <1>c DEF ReceiveTask, Holding
    <2> QED BY ZenonT(60), <1>2, <1>a, <2>1, FromFIFO DEF ReceiveTask
  <1>3. CASE Execute(w)
    <2>1. arg' = arg
      BY <1>3, <1>a, SameHands DEF Execute
    <2> QED BY <1>3, <2>1, StayPending DEF Execute
  <1>4. CASE Ack(w)
    <2>1. arg[w] \in Tasks
      BY <1>4, <1>b DEF Ack, Holding
    <2>2. Settles /\ state'[arg[w]] # "pending"
      BY <1>4, <1>a, <2>1 DEF Ack, Settles, PlaceTypes, States
    <2> QED BY ZenonT(60), <1>4, <1>a, <2>2, Drop DEF Ack
  <1>5. CASE Nack(w)
    <2>1. arg[w] \in Tasks
      BY ZenonT(60), <1>5, <1>b DEF Nack, Holding
    <2>2. CASE fifoStatus = "stopped"
      <3>1. state' = Aborted({arg[w]}) /\ arg' = [arg EXCEPT ![w] = NoTask]
        BY <1>5, <2>2 DEF Nack
      <3>2. Settles /\ state'[arg[w]] # "pending"
        BY <1>a, <2>1, <3>1, AbortedSettles
      <3> QED BY Zenon, <1>5, <1>a, <3>1, <3>2, Drop DEF Nack
    <2>3. CASE fifoStatus # "stopped" /\ state[arg[w]] # "pending"
      <3>1. state' = state /\ arg' = [arg EXCEPT ![w] = NoTask]
        BY <1>5, <2>3 DEF Nack
      <3>2. Settles
        BY <1>a, <3>1 DEF Settles, PlaceTypes
      <3> QED BY Zenon, <1>5, <1>a, <2>3, <3>1, <3>2, Drop DEF Nack
    <2>4. CASE fifoStatus # "stopped" /\ state[arg[w]] = "pending"
      <3>1. state' = state /\ arg' = [arg EXCEPT ![w] = arg[w]]
        BY <1>5, <2>4 DEF Nack
      <3>2. arg' = arg
        BY ZenonT(60), <1>a, <3>1, SameHands
      <3> QED BY <1>5, <3>1, <3>2, StayPending DEF Nack
    <2> QED BY <2>2, <2>3, <2>4
  <1> QED
    BY <1>1, <1>2, <1>3, <1>4, <1>5, WorkerStep(w) DEF WorkerStep

\* The steps of the dispatcher keep Places.
LEMMA PlacesDispatcher ==
  ASSUME Places, GoInv, KeyInv, DispatcherStep
  PROVE  Places'
  <1> USE GoroutineFacts
      DEF Goes, Moves, taskVars, fifoVars, wrrVars, rescheduleVars, goVars, Rescheduled
  <1>a. PlaceTypes
    BY DEF Places
  <1>b. pc[Dispatcher] \in Holding => arg[Dispatcher] \in Tasks
    BY <1>a DEF GoInv, PlaceTypes
  <1>c. pc[Dispatcher] \notin Holding => arg[Dispatcher] = NoTask
    BY <1>a DEF GoInv
  <1>1. CASE ReceiveNotification \/ EventLoopStops
    <2>1. arg' = arg
      BY SMTT(60), <1>1, <1>a, SameHands DEF ReceiveNotification, EventLoopStops
    <2> QED BY <1>1, <2>1, StayPending DEF ReceiveNotification, EventLoopStops
  <1>2. CASE BeginRound \/ EndRound
    <2>1. arg[Dispatcher] = NoTask /\ arg' = [arg EXCEPT ![Dispatcher] = NoTask]
      BY Zenon, <1>2, <1>c DEF BeginRound, EndRound, Holding
    <2>2. arg' = arg
      BY Zenon, <1>a, <2>1, SameHands
    <2> QED BY SMTT(60), <1>2, <2>2, StayPending DEF BeginRound, EndRound
  <1>3. CASE SkipChannel \/ ThrottleChannel
    BY <1>3, StayPending DEF SkipChannel, ThrottleChannel
  <1>4. CASE TakeTask
    <2>1. Visited \in Keys /\ channels[Visited] # << >> /\ arg[Dispatcher] = NoTask
      BY Zenon, <1>4, <1>c DEF TakeTask, CanVisit, Visiting, KeyInv, Holding
    <2>2. /\ arg' = [arg EXCEPT ![Dispatcher] = Head(channels[Visited])]
          /\ channels' = [channels EXCEPT ![Visited] = Tail(@)]
          /\ UNCHANGED <<tasksChan, Rescheduled, reschedulerStatus, state>>
      BY Zenon, <1>4 DEF TakeTask
    <2> QED BY ZenonT(60), <2>1, <2>2, FromChannel
  <1>5. CASE HandOver
    <2>1. arg[Dispatcher] \in Tasks
      BY Zenon, <1>5, <1>b DEF HandOver, Holding
    <2> QED BY Zenon, <1>5, <2>1, ToFIFO DEF HandOver
  <1>6. CASE HandedOver
    <2>1. arg' = arg
      BY ZenonT(60), <1>6, <1>a, SameHands DEF HandedOver
    <2>2. CASE DrainTasks
      BY ZenonT(60), <1>6, <2>1, <2>2, DrainFIFO DEF HandedOver
    <2>3. CASE UNCHANGED <<state, tasksChan>>
      BY ZenonT(60), <1>6, <2>1, <2>3, StayPending DEF HandedOver
    <2> QED BY ZenonT(60), <1>6, <2>2, <2>3 DEF HandedOver, DrainIfStopped
  <1>7. CASE DispatchTimerFires
    <2>1. CASE AbortTasks
      BY SMTT(60), <1>7, <2>1, DrainChannels DEF DispatchTimerFires
    <2>2. CASE UNCHANGED <<state, channels>>
      BY SMTT(60), <1>7, <2>2, StayPending DEF DispatchTimerFires
    <2> QED BY SMTT(60), <1>7, <2>1, <2>2 DEF DispatchTimerFires, NotifyDispatcher
  <1> QED
    BY <1>1, <1>2, <1>3, <1>4, <1>5, <1>6, <1>7, DispatcherStep DEF DispatcherStep

\* The steps of the rescheduler keep Places.
LEMMA PlacesRescheduler ==
  ASSUME Places, GoInv, waiting \cap due = {}, ReschedulerStep
  PROVE  Places'
  <1> USE GoroutineFacts
      DEF Goes, Moves, taskVars, fifoVars, wrrVars, rescheduleVars, goVars, Rescheduled
  <1>a. PlaceTypes /\ Loop \in Goroutines
    BY DEF Places
  <1>b. pc[Loop] \in Holding => arg[Loop] \in Tasks
    BY <1>a DEF GoInv, PlaceTypes
  <1>c. pc[Loop] \notin Holding => arg[Loop] = NoTask
    BY SMTT(60), <1>a DEF GoInv
  <1>1. CASE GateFires \/ (\E t \in Tasks : Due(t))
             \/ \E K \in Namespaces : RescheduleNamespace(K)
    <2>1. Rescheduled' = Rescheduled
      BY SMTT(60), <1>1 DEF GateFires, Due, RescheduleNamespace
    <2> QED BY SMTT(60), <1>1, <2>1, StayPending DEF GateFires, Due, RescheduleNamespace
  <1>2. CASE ReceiveFire \/ \E k \in Keys : KeyDone(k)
    <2>1. arg[Loop] = NoTask /\ arg' = [arg EXCEPT ![Loop] = NoTask]
      BY Zenon, <1>2, <1>c DEF ReceiveFire, KeyDone, Holding
    <2>2. arg' = arg
      BY ZenonT(60), <1>a, <2>1, SameHands
    <2> QED BY SMTT(60), <1>2, <2>2, StayPending DEF ReceiveFire, KeyDone
  <1>3. ASSUME NEW t \in Tasks, RescheduleDue(t) PROVE Places'
    <2>1. arg[Loop] = NoTask /\ t \in Rescheduled /\ Rescheduled' = Rescheduled \ {t}
      BY Zenon, <1>3, <1>c DEF RescheduleDue, Holding
    <2>2. CASE state[t] = "cancelled"
      BY SMTT(60), <1>3, <2>1, <2>2, LeaveRescheduler DEF RescheduleDue
    <2>3. CASE state[t] # "cancelled"
      BY SMTT(60), <1>3, <2>1, <2>3, FromRescheduler DEF RescheduleDue
    <2> QED BY <2>2, <2>3
  <1>4. CASE SubmitLater
    <2>1. arg[Loop] \in Tasks
      BY <1>4, <1>b DEF SubmitLater, Holding
    <2>2. Rescheduled' = Rescheduled \cup {arg[Loop]} /\ arg' = [arg EXCEPT ![Loop] = NoTask]
      BY <1>4 DEF SubmitLater
    <2> QED BY ZenonT(60), <1>4, <1>a, <2>1, <2>2, ToRescheduler DEF SubmitLater
  <1>5. CASE StopRescheduler
    <2>1. Settles /\ StaysStarted
      BY SMTT(60), <1>5, <1>a DEF StopRescheduler, Settles, StaysStarted, PlaceTypes
    <2> QED BY <1>5, <2>1, Stay DEF StopRescheduler
  <1>6. CASE ReschedulerDrains
    <2>1. arg' = arg
      BY Zenon, <1>6, <1>a, SameHands DEF ReschedulerDrains
    <2> QED BY SMTT(60), <1>6, <2>1, DrainRescheduler DEF ReschedulerDrains
  <1> QED
    BY SMTT(60), <1>1, <1>2, <1>3, <1>4, <1>5, <1>6, ReschedulerStep DEF ReschedulerStep

\* Every step keeps Places.
LEMMA PlacesNext ==
  ASSUME Places, GoInv, KeyInv, waiting \cap due = {}, [Next]_vars
  PROVE  Places'
  <1> USE GoroutineFacts
      DEF Goes, Moves, taskVars, fifoVars, wrrVars, rescheduleVars, goVars, Rescheduled
  <1>a. PlaceTypes /\ Reader \in Goroutines
    BY DEF Places
  <1>1. ASSUME NEW t \in Tasks, Load(t) PROVE Places'
    <2>1. arg[Reader] = NoTask
      BY Zenon, <1>1, <1>a DEF Load, GoInv, Holding
    <2>2. arg' = [arg EXCEPT ![Reader] = t]
      BY <1>1 DEF Load
    <2> QED BY ZenonT(60), <1>1, <1>a, <2>1, <2>2, LoadNew DEF Load
  <1>2. ASSUME NEW t \in Tasks, Cancel(t) PROVE Places'
    <2>1. Settles /\ StaysStarted
      BY SMTT(60), <1>2, <1>a DEF Cancel, Settles, StaysStarted, PlaceTypes, States
    <2> QED BY <1>2, <2>1, Stay DEF Cancel
  <1>3. CASE Reschedule
    <2>1. CASE state[arg[Reader]] = "pending"
      <3>1. arg' = arg
        BY SMTT(60), <1>3, <1>a, <2>1, SameHands DEF Reschedule
      <3> QED BY SMTT(60), <1>3, <3>1, StayPending DEF Reschedule
    <2>2. CASE state[arg[Reader]] # "pending"
      <3>1. arg' = [arg EXCEPT ![Reader] = NoTask] /\ state' = state
        BY <1>3, <2>2 DEF Reschedule
      <3>2. Settles
        BY <1>a, <3>1 DEF Settles, PlaceTypes
      <3> QED BY ZenonT(60), <1>3, <1>a, <2>2, <3>1, <3>2, Drop DEF Reschedule
    <2> QED BY SMTT(60), <2>1, <2>2
  <1>4. CASE StopStep
    <2>1. CASE Stop \/ StopFIFO \/ MonitorStops
      BY <2>1, StayPending DEF Stop, StopFIFO, MonitorStops
    <2>2. CASE StopDrains
      BY SMTT(60), <2>2, DrainFIFO DEF StopDrains
    <2>3. CASE StopAborts
      BY SMTT(60), <2>3, DrainChannels DEF StopAborts
    <2> QED BY <1>4, <2>1, <2>2, <2>3 DEF StopStep
  <1>5. CASE UNCHANGED vars
    BY SMTT(60), <1>5, StayPending DEF vars
  <1> QED
    BY <1>1, <1>2, <1>3, <1>4, <1>5, PlacesSubmit, PlacesWorker, PlacesDispatcher,
       PlacesRescheduler DEF Next

-----------------------------------------------------------------------------
(* The rescheduler's gate *)

\* No task is both before and after its time; the gate is armed for all of them.
GateInv == waiting \cap due = {} /\ GateArmed

\* A step that leaves the rescheduler and the keys alone keeps GateInv.
LEMMA GateFrame ==
  ASSUME GateInv, UNCHANGED <<rescheduleVars, key>>
  PROVE  GateInv'
  BY SMTT(60) DEF GateInv, GateArmed, Rescheduled, rescheduleVars

\* A task in hand may change its key: it is not in the rescheduler.
LEMMA GateKey ==
  ASSUME Places, KeyInv, GateInv, NEW t \in Tasks \ Rescheduled, NEW k \in Keys,
         key' = [key EXCEPT ![t] = k], UNCHANGED rescheduleVars
  PROVE  GateInv'
  <1>1. \A u \in Rescheduled : key'[u] = key[u]
    BY SMTT(60) DEF KeyInv, Places, PlaceTypes
  <1> QED BY SMTT(60), <1>1 DEF GateInv, GateArmed, Rescheduled, rescheduleVars

\* Every step keeps the gate armed for what the rescheduler holds.
LEMMA GateNext ==
  ASSUME Places, GoInv, KeyInv, GateInv, [Next]_vars
  PROVE  GateInv'
  <1> USE GoroutineFacts
  <1>a. \A g \in Goroutines : pc[g] \in Holding => arg[g] \in Tasks \ Rescheduled
    BY SMTT(60) DEF GoInv, Places, PlaceTypes, Apart
  <1>1. ASSUME NEW g \in Submitters, SubmitStep(g) PROVE GateInv'
    <2>1. CASE Add(g)
      <3>1. arg[g] \notin Rescheduled
        BY ZenonT(60), <2>1, <1>a DEF Add, Holding
      <3> QED BY SMTT(60), <2>1, <3>1 DEF Add, GateInv, GateArmed, Rescheduled
    <2>2. CASE Added(g)
      BY SMTT(60), <2>2 DEF Added, GateInv, GateArmed, Rescheduled, taskVars
    <2>3. CASE SubmitStep(g) /\ ~Add(g) /\ ~Added(g)
      BY Zenon, <2>3, GateFrame DEF SubmitStep, TrySubmit, DispatchDirectly, DispatchedDirectly, Enqueue,
                             Notify, taskVars
    <2> QED BY SMTT(60), <1>1, <2>1, <2>2, <2>3
  <1>2. ASSUME NEW w \in Workers, WorkerStep(w) PROVE GateInv'
    <2>1. CASE Nack(w)
      <3>1. arg[w] \in Tasks \ Rescheduled
        BY ZenonT(60), <2>1, <1>a DEF Nack, Holding
      <3>2. key' = key \/ \E k \in Keys : key' = [key EXCEPT ![arg[w]] = k]
        BY ZenonT(60), <2>1 DEF Nack
      <3>3. UNCHANGED rescheduleVars
        BY SMTT(60), <2>1 DEF Nack
      <3> QED BY SMTT(60), <3>1, <3>2, <3>3, GateFrame, GateKey
    <2>2. CASE WorkerStep(w) /\ ~Nack(w)
      BY ZenonT(60), <2>2, GateFrame DEF WorkerStep, WorkerLoop, WorkerStops, ReceiveTask, Execute, Ack,
                             NotSubmitted, taskVars
    <2> QED BY SMTT(60), <1>2, <2>1, <2>2
  <1>3. CASE DispatcherStep
    BY ZenonT(60), <1>3, GateFrame DEF DispatcherStep, ReceiveNotification, EventLoopStops, BeginRound,
       SkipChannel, ThrottleChannel, TakeTask, HandOver, HandedOver, EndRound,
       DispatchTimerFires, taskVars
  <1>4. CASE ReschedulerStep
    <2> USE DEF GateInv, GateArmed, Rescheduled, taskVars
    <2>1. CASE GateFires \/ StopRescheduler \/ ReschedulerDrains
      BY SMTT(60), <2>1 DEF GateFires, StopRescheduler, ReschedulerDrains
    <2>2. CASE ReceiveFire
      BY ZenonT(60), <2>2 DEF ReceiveFire
    <2>3. ASSUME NEW t \in Tasks, Due(t) PROVE GateInv'
      BY SMTT(60), <2>3 DEF Due
    <2>4. ASSUME NEW K \in Namespaces, RescheduleNamespace(K) PROVE GateInv'
      BY SMTT(60), <2>4 DEF RescheduleNamespace
    <2>5. ASSUME NEW k \in Keys, KeyDone(k) PROVE GateInv'
      BY ZenonT(60), <2>5 DEF KeyDone
    <2>6. ASSUME NEW t \in Tasks, RescheduleDue(t) PROVE GateInv'
      BY <2>6 DEF RescheduleDue
    <2>7. CASE SubmitLater
      <3>1. arg[Loop] \notin Rescheduled
        BY ZenonT(60), <2>7, <1>a DEF SubmitLater, Holding
      <3> QED BY <2>7, <3>1 DEF SubmitLater
    <2> QED
      BY SMTT(60), <1>4, <2>1, <2>2, <2>3, <2>4, <2>5, <2>6, <2>7 DEF ReschedulerStep
  <1>5. CASE StopStep
    BY SMTT(60), <1>5, GateFrame DEF StopStep, Stop, StopFIFO, StopDrains, StopAborts, MonitorStops, taskVars
  <1>6. ASSUME NEW t \in Tasks, Load(t) \/ Cancel(t) PROVE GateInv'
    BY SMTT(60), <1>6, GateFrame DEF Load, Cancel
  <1>7. CASE Reschedule
    <2>1. arg[Reader] \in Tasks \ Rescheduled
      BY ZenonT(60), <1>7, <1>a DEF Reschedule, Holding
    <2>2. key' = key \/ \E k \in Keys : key' = [key EXCEPT ![arg[Reader]] = k]
      BY SMTT(60), <1>7 DEF Reschedule
    <2>3. UNCHANGED rescheduleVars
      BY SMTT(60), <1>7 DEF Reschedule
    <2> QED BY SMTT(60), <2>1, <2>2, <2>3, GateFrame, GateKey
  <1>8. CASE UNCHANGED vars
    BY SMTT(60), <1>8, GateFrame DEF vars, taskVars
  <1> QED
    BY SMTT(60), <1>1, <1>2, <1>3, <1>4, <1>5, <1>6, <1>7, <1>8 DEF Next

-----------------------------------------------------------------------------
(* Shutdown *)

\* StoppedIsDrained from the step on at which each queue is drained: tasksChan
\* when the FIFO scheduler's Stop is past its drain, the channels at the end
DrainInv ==
    /\ stopper # "none" => status = "stopped"
    /\ stopper \in {"drain", "abort", "done"} => fifoStatus = "stopped"
    /\ stopper \in {"abort", "done"} /\ tasksChan # << >> =>
          pc[Dispatcher] = "handed over" \/ \E g \in Submitters : pc[g] = "dispatched"
    /\ stopper = "done" /\ Channeled # {} => \E g \in Submitters : pc[g] = "notify"
    /\ pc[Loop] = "exit" => reschedulerStatus = "stopped"
    /\ ReschedulerDrained

\* No goroutine moves.
LEMMA DrainStay ==
  ASSUME DrainInv, UNCHANGED <<pc, status, reschedulerStatus, fifoStatus, stopper>>,
         tasksChan' # << >> => tasksChan # << >>, Channeled' # {} => Channeled # {},
         Rescheduled' # {} => Rescheduled # {}
  PROVE  DrainInv'
  BY Zenon DEF DrainInv, ReschedulerDrained

\* Channels that do not change have the same tasks.
LEMMA ChanneledSame == UNCHANGED channels => Channeled' = Channeled
  BY SMTT(60) DEF Channeled

\* abortTasks leaves no task in a channel.
LEMMA AbortEmpties == AbortTasks => Channeled' = {}
  BY SMTT(60), RangeEmpty DEF AbortTasks, Channeled

\* The steps of TrySubmit and Add keep DrainInv.
LEMMA DrainSubmit ==
  ASSUME GoInv, DrainInv, NEW g \in Submitters, SubmitStep(g)
  PROVE  DrainInv'
  <1> USE GoroutineFacts, ChanneledSame
      DEF taskVars, fifoVars, wrrVars, rescheduleVars, stopVars, Rescheduled, Goes, GoInv
  <1>1. CASE TrySubmit(g)
    <2>1. \A h \in Goroutines \ {g} : pc'[h] = pc[h]
      BY SMTT(60), <1>1 DEF TrySubmit
    <2>2. pc[g] = "submit" /\ pc'[g] \in {"direct", "enqueue"}
      BY SMTT(60), <1>1 DEF TrySubmit
    <2> QED BY ZenonT(60), <1>1, <2>1, <2>2 DEF TrySubmit, DrainInv, ReschedulerDrained
  <1>2. CASE DispatchDirectly(g)
    <2>1. \A h \in Goroutines \ {g} : pc'[h] = pc[h]
      BY <1>2 DEF DispatchDirectly
    <2>2. /\ pc[g] = "direct" /\ pc'[g] \in {"dispatched", "enqueue"}
          /\ tasksChan' # tasksChan => pc'[g] = "dispatched"
      BY SMTT(60), <1>2 DEF DispatchDirectly
    <2> QED BY ZenonT(60), <1>2, <2>1, <2>2 DEF DispatchDirectly, DrainInv, ReschedulerDrained
  <1>3. CASE Enqueue(g)
    <2>1. \A h \in Goroutines \ {g} : pc'[h] = pc[h]
      BY SMTT(60), <1>3 DEF Enqueue
    <2>2. /\ pc[g] = "enqueue" /\ pc'[g] \in {"notify", "refused"}
          /\ channels' # channels => pc'[g] = "notify"
      BY SMTT(60), <1>3 DEF Enqueue
    <2> QED BY ZenonT(60), <1>3, <2>1, <2>2 DEF Enqueue, DrainInv, ReschedulerDrained
  <1>4. CASE Add(g)
    <2>1. \A h \in Goroutines \ {g} : pc'[h] = pc[h]
      BY SMTT(60), <1>4 DEF Add
    <2>2. pc[g] = "add" /\ pc'[g] = "added"
      BY SMTT(60), <1>4 DEF Add
    <2> QED BY ZenonT(60), <1>4, <2>1, <2>2 DEF Add, DrainInv, ReschedulerDrained
  <1>5. CASE DispatchedDirectly(g)
    <2>1. \A h \in Goroutines : pc'[h] = IF h = g THEN Idle(g) ELSE pc[h]
      BY SMTT(60), <1>5 DEF DispatchedDirectly
    <2>2. Idle(g) \in PCs \ Holding
      BY SMTT(60), IdleFacts
    <2>3. stopper \in {"abort", "done"} => tasksChan' = << >>
      BY ZenonT(60), <1>5 DEF DispatchedDirectly, DrainIfStopped, DrainTasks, DrainInv
    <2> QED BY ZenonT(60), <1>5, <2>1, <2>2, <2>3 DEF DispatchedDirectly, DrainInv, ReschedulerDrained, Idle
  <1>6. CASE Notify(g)
    <2>1. \A h \in Goroutines : pc'[h] = IF h = g THEN Idle(g) ELSE pc[h]
      BY SMTT(60), <1>6 DEF Notify
    <2>2. stopper = "done" => Channeled' = {}
      BY ZenonT(60), <1>6, AbortEmpties DEF Notify, NotifyDispatcher, DrainInv
    <2> QED BY ZenonT(60), <1>6, <2>1, <2>2 DEF Notify, DrainInv, ReschedulerDrained, Idle
  <1>7. CASE Added(g)
    <2>1. \A h \in Goroutines : pc'[h] = IF h = g THEN Idle(g) ELSE pc[h]
      BY SMTT(60), <1>7 DEF Added
    <2>2. reschedulerStatus = "stopped" => Rescheduled' = {}
      BY SMTT(60), <1>7 DEF Added
    <2> QED BY ZenonT(60), <1>7, <2>1, <2>2 DEF Added, DrainInv, ReschedulerDrained, Idle
  <1> QED
    BY SMTT(60), <1>1, <1>2, <1>3, <1>4, <1>5, <1>6, <1>7, SubmitStep(g) DEF SubmitStep

\* The steps of a worker keep DrainInv.
LEMMA DrainWorker ==
  ASSUME GoInv, DrainInv, NEW w \in Workers, WorkerStep(w)
  PROVE  DrainInv'
  <1> USE GoroutineFacts, ChanneledSame
      DEF taskVars, fifoVars, wrrVars, rescheduleVars, stopVars, Rescheduled, Goes, Moves, GoInv
  <1>1. \A h \in Goroutines \ {w} : pc'[h] = pc[h]
    BY ZenonT(60), WorkerStep(w) DEF WorkerStep, WorkerLoop, WorkerStops, ReceiveTask, Execute, Ack, Nack,
                         NotSubmitted
  <1>2. pc[w] \in {"head", "select", "execute", "ack", "busy", "failed", "refused"}
    BY ZenonT(60), WorkerStep(w) DEF WorkerStep, WorkerLoop, WorkerStops, ReceiveTask, Execute, Ack, Nack,
                         NotSubmitted
  <1>3. /\ UNCHANGED <<channels, Rescheduled, status, stopper, fifoStatus, reschedulerStatus>>
        /\ tasksChan' # << >> => tasksChan # << >>
    BY ZenonT(60), WorkerStep(w) DEF WorkerStep, WorkerLoop, WorkerStops, ReceiveTask, Execute, Ack, Nack,
                         NotSubmitted
  <1> QED BY ZenonT(60), <1>1, <1>2, <1>3 DEF DrainInv, ReschedulerDrained

\* The steps of the dispatcher keep DrainInv.
LEMMA DrainDispatcher ==
  ASSUME PlaceTypes, GoInv, KeyInv, DrainInv, DispatcherStep
  PROVE  DrainInv'
  <1> USE GoroutineFacts, ChanneledSame
      DEF taskVars, fifoVars, wrrVars, rescheduleVars, stopVars, goVars, Rescheduled, Goes, Moves,
          GoInv
  <1>1. CASE SkipChannel \/ ThrottleChannel
    BY SMTT(60), <1>1, DrainStay DEF SkipChannel, ThrottleChannel
  <1>2. CASE DispatchTimerFires
    <2>1. status = "stopped" => Channeled' = {}
      BY SMTT(60), <1>2, AbortEmpties DEF DispatchTimerFires, NotifyDispatcher
    <2>2. status # "stopped" => Channeled' = Channeled
      BY SMTT(60), <1>2 DEF DispatchTimerFires, NotifyDispatcher
    <2> QED BY ZenonT(60), <1>2, <2>1, <2>2 DEF DispatchTimerFires, DrainInv, ReschedulerDrained
  <1>3. CASE ReceiveNotification \/ EventLoopStops \/ BeginRound \/ EndRound
    <2>1. \A h \in Goroutines \ {Dispatcher} : pc'[h] = pc[h]
      BY ZenonT(60), <1>3 DEF ReceiveNotification, EventLoopStops, BeginRound, EndRound
    <2>2. pc[Dispatcher] # "handed over"
      BY ZenonT(60), <1>3 DEF ReceiveNotification, EventLoopStops, BeginRound, EndRound
    <2>3. UNCHANGED <<tasksChan, channels, waiting, due, status, stopper, fifoStatus,
                      reschedulerStatus>>
      BY Zenon, <1>3 DEF ReceiveNotification, EventLoopStops, BeginRound, EndRound
    <2> QED BY ZenonT(60), <2>1, <2>2, <2>3 DEF DrainInv, ReschedulerDrained
  <1>4. CASE TakeTask
    <2>1. \A h \in Goroutines \ {Dispatcher} : pc'[h] = pc[h]
      BY Zenon, <1>4 DEF TakeTask
    <2>2. pc[Dispatcher] = "visit"
      BY Zenon, <1>4 DEF TakeTask, Visiting
    <2>3. Visited \in Keys /\ channels[Visited] # << >>
      BY ZenonT(60), <1>4 DEF TakeTask, CanVisit, KeyInv
    <2>4. Range(Tail(channels[Visited])) \subseteq Range(channels[Visited])
      BY <2>3, RangeTail DEF PlaceTypes
    <2>5. \A k \in Keys : channels'[k] = IF k = Visited THEN Tail(channels[k]) ELSE channels[k]
      BY ZenonT(60), <1>4 DEF TakeTask, PlaceTypes
    <2>6. \A k \in Keys : Range(channels'[k]) \subseteq Range(channels[k])
      BY SMTT(60), <2>4, <2>5
    <2>7. Channeled' # {} => Channeled # {}
      BY SMTT(60), <2>6 DEF Channeled
    <2> QED BY Zenon, <1>4, <2>1, <2>2, <2>7 DEF TakeTask, DrainInv, ReschedulerDrained
  <1>5. CASE HandOver
    <2>1. \A h \in Goroutines \ {Dispatcher} : pc'[h] = pc[h]
      BY ZenonT(60), <1>5 DEF HandOver
    <2>2. pc'[Dispatcher] = "handed over"
      BY ZenonT(60), <1>5 DEF HandOver
    <2> QED BY ZenonT(60), <1>5, <2>1, <2>2 DEF HandOver, DrainInv, ReschedulerDrained
  <1>6. CASE HandedOver
    <2>1. \A h \in Goroutines \ {Dispatcher} : pc'[h] = pc[h]
      BY ZenonT(60), <1>6 DEF HandedOver
    <2>2. fifoStatus = "stopped" => tasksChan' = << >>
      BY ZenonT(60), <1>6 DEF HandedOver, DrainIfStopped, DrainTasks
    <2> QED BY ZenonT(60), <1>6, <2>1, <2>2 DEF HandedOver, DrainInv, ReschedulerDrained
  <1> QED
    BY SMTT(60), <1>1, <1>2, <1>3, <1>4, <1>5, <1>6, DispatcherStep DEF DispatcherStep

\* The steps of the rescheduler keep DrainInv.
LEMMA DrainRescheduling ==
  ASSUME GoInv, DrainInv, ReschedulerStep
  PROVE  DrainInv'
  <1> USE GoroutineFacts, ChanneledSame
      DEF taskVars, fifoVars, wrrVars, rescheduleVars, stopVars, goVars, Rescheduled, Goes, Moves,
          GoInv
  <1>1. CASE GateFires \/ (\E t \in Tasks : Due(t))
             \/ \E K \in Namespaces : RescheduleNamespace(K)
    <2>1. \/ waiting' = waiting /\ due' = due
          \/ \E S \in SUBSET waiting : waiting' = waiting \ S /\ due' = due \cup S
      <3>1. CASE GateFires
        BY ZenonT(60), <3>1 DEF GateFires
      <3>2. CASE \E t \in Tasks : Due(t)
        BY ZenonT(60), <3>2 DEF Due
      <3>3. CASE \E K \in Namespaces : RescheduleNamespace(K)
        BY ZenonT(60), <3>3 DEF RescheduleNamespace
      <3> QED BY Zenon, <1>1, <3>1, <3>2, <3>3
    <2>2. UNCHANGED <<tasksChan, channels, pc, status, stopper, fifoStatus, reschedulerStatus>>
      BY ZenonT(60), <1>1 DEF GateFires, Due, RescheduleNamespace
    <2>3. Rescheduled' = Rescheduled
      BY ZenonT(60), <2>1
    <2> HIDE DEF Rescheduled
    <2> QED BY ZenonT(60), <2>2, <2>3, DrainStay
  <1>2. CASE StopRescheduler
    BY ZenonT(60), <1>2 DEF StopRescheduler, DrainInv, ReschedulerDrained
  <1>3. CASE ReschedulerDrains
    <2>1. \A h \in Goroutines \ {Loop} : pc'[h] = pc[h]
      BY SMTT(60), <1>3 DEF ReschedulerDrains
    <2>2. pc[Loop] = "idle" /\ pc'[Loop] = "exit" /\ Rescheduled' = {}
      BY SMTT(60), <1>3 DEF ReschedulerDrains
    <2> QED BY ZenonT(60), <1>3, <2>1, <2>2 DEF ReschedulerDrains, DrainInv, ReschedulerDrained
  <1>4. CASE ReceiveFire \/ SubmitLater \/ (\E k \in Keys : KeyDone(k))
             \/ \E t \in Tasks : RescheduleDue(t)
    <2>1. \A h \in Goroutines \ {Loop} : pc'[h] = pc[h]
      BY ZenonT(60), <1>4 DEF ReceiveFire, SubmitLater, KeyDone, RescheduleDue
    <2>2. pc[Loop] \in {"idle", "refused", "scan"} /\ pc'[Loop] \in {"idle", "scan", "submit"}
      BY ZenonT(60), <1>4 DEF ReceiveFire, SubmitLater, KeyDone, RescheduleDue
    <2>3. UNCHANGED <<tasksChan, channels, status, stopper, fifoStatus, reschedulerStatus>>
      BY ZenonT(60), <1>4 DEF ReceiveFire, SubmitLater, KeyDone, RescheduleDue
    <2> QED BY ZenonT(60), <2>1, <2>2, <2>3 DEF DrainInv, ReschedulerDrained
  <1> QED
    BY SMTT(60), <1>1, <1>2, <1>3, <1>4, ReschedulerStep DEF ReschedulerStep

\* Every step keeps DrainInv.
LEMMA DrainNext ==
  ASSUME PlaceTypes, GoInv, KeyInv, DrainInv, [Next]_vars
  PROVE  DrainInv'
  <1> USE GoroutineFacts, ChanneledSame
      DEF taskVars, fifoVars, wrrVars, rescheduleVars, stopVars, goVars, Rescheduled, Goes, GoInv
  <1>1. ASSUME NEW t \in Tasks, Load(t) PROVE DrainInv'
    <2>1. \A h \in Goroutines \ {Reader} : pc'[h] = pc[h]
      BY SMTT(60), <1>1 DEF Load
    <2>2. pc[Reader] = "idle"
      BY SMTT(60), <1>1 DEF Load
    <2> QED BY ZenonT(60), <1>1, <2>1, <2>2 DEF Load, DrainInv, ReschedulerDrained
  <1>2. ASSUME NEW t \in Tasks, Cancel(t) PROVE DrainInv'
    BY SMTT(60), <1>2, DrainStay DEF Cancel
  <1>3. CASE Reschedule
    <2>1. \A h \in Goroutines \ {Reader} : pc'[h] = pc[h]
      BY SMTT(60), <1>3 DEF Reschedule
    <2>2. pc[Reader] = "refused"
      BY SMTT(60), <1>3 DEF Reschedule
    <2> QED BY ZenonT(60), <1>3, <2>1, <2>2 DEF Reschedule, DrainInv, ReschedulerDrained
  <1>4. CASE StopStep
    <2> USE DEF DrainInv, ReschedulerDrained
    <2>1. CASE Stop
      BY SMTT(60), <2>1 DEF Stop
    <2>2. CASE StopFIFO
      BY SMTT(60), <2>2 DEF StopFIFO
    <2>3. CASE StopDrains
      BY SMTT(60), <2>3 DEF StopDrains, DrainTasks
    <2>4. CASE StopAborts
      BY ZenonT(60), <2>4, AbortEmpties DEF StopAborts
    <2>5. CASE MonitorStops
      BY ZenonT(60), <2>5 DEF MonitorStops
    <2> QED BY ZenonT(60), <1>4, <2>1, <2>2, <2>3, <2>4, <2>5 DEF StopStep
  <1>5. CASE UNCHANGED vars
    BY SMTT(60), <1>5, DrainStay DEF vars
  <1> QED
    BY SMTT(60), <1>1, <1>2, <1>3, <1>4, <1>5, DrainSubmit, DrainWorker, DrainDispatcher,
       DrainRescheduling DEF Next

-----------------------------------------------------------------------------
(* The theorems *)

\* the inductive invariant
Inv == Places /\ GoInv /\ KeyInv /\ GateInv /\ DrainInv

\* The invariant holds initially.
LEMMA InitInv == Init => Inv
  <1> SUFFICES ASSUME Init PROVE Inv
    BY SMTT(60)
  <1> USE GoroutineFacts, RangeEmpty DEF Init
  <1>1. \A k \in Keys : channels[k] = << >> /\ Range(channels[k]) = {} /\ IsInjective(channels[k])
    BY SMTT(60)
  <1>2. PlaceTypes
    BY SMTT(60) DEF PlaceTypes, States, Rescheduled
  <1>3. Apart
    BY SMTT(60), <1>1 DEF Apart, Rescheduled
  <1>4. Kept
    BY SMTT(60), <1>1 DEF Kept, Somewhere, Rescheduled
  <1>5. GoInv
    BY SMTT(60) DEF GoInv, PCs, Holding
  <1>6. KeyInv
    BY SMTT(60) DEF KeyInv, NoRound
  <1>7. GateInv
    BY SMTT(60) DEF GateInv, GateArmed, Rescheduled
  <1>8. DrainInv
    BY SMTT(60) DEF DrainInv, ReschedulerDrained, Rescheduled
  <1> QED BY <1>2, <1>3, <1>4, <1>5, <1>6, <1>7, <1>8 DEF Inv, Places

\* Every step keeps the invariant.
LEMMA NextInv == Inv /\ [Next]_vars => Inv'
  <1> SUFFICES ASSUME Inv, [Next]_vars PROVE Inv'
    OBVIOUS
  <1>1. PlaceTypes /\ waiting \cap due = {}
    BY DEF Inv, Places, GateInv
  <1> QED
    BY <1>1, GoNext, KeyNext, PlacesNext, GateNext, DrainNext DEF Inv

\* The invariant implies the properties.
LEMMA InvImplies ==
  Inv => NeverTwice /\ NotLost /\ GateArmed /\ StoppedIsDrained /\ ReschedulerDrained
  <1> SUFFICES ASSUME Inv
               PROVE  NeverTwice /\ NotLost /\ GateArmed /\ StoppedIsDrained /\ ReschedulerDrained
    OBVIOUS
  <1>1. PlaceTypes /\ Apart /\ Kept
    BY SMTT(60) DEF Inv, Places
  <1>2. NeverTwice
    BY Zenon, <1>1, ApartNeverTwice DEF Inv, GateInv
  <1>3. NotLost
    BY SMTT(60), <1>1, GoroutineFacts DEF Kept, Somewhere, NotLost, Channeled, InHand
  <1>4. GateArmed /\ StoppedIsDrained /\ ReschedulerDrained
    BY Zenon DEF Inv, GateInv, DrainInv, StoppedIsDrained
  <1> QED BY <1>2, <1>3, <1>4

(* The inductive invariant holds in every behaviour, for any tasks, keys,   *)
(* workers, weights and capacities.                                         *)
THEOREM Invariant == Spec => []Inv
  BY InitInv, NextInv, PTL DEF Spec

(* No executable is ever in two places: no two workers run it at once, and  *)
(* neither Nack nor the rescheduler submits it a second time.               *)
THEOREM TasksNeverTwice == Spec => []NeverTwice
  BY Invariant, InvImplies, PTL

(* While the rescheduler runs, none of TrySubmit, Nack, Reschedule, the     *)
(* dispatcher and the rescheduler's loop drops a pending executable.        *)
THEOREM NoTaskDropped == Spec => []NotLost
  BY Invariant, InvImplies, PTL

(* The timer gate of the rescheduler is armed, has fired or is being        *)
(* attended to for every executable it holds.                               *)
THEOREM GateAlwaysArmed == Spec => []GateArmed
  BY Invariant, InvImplies, PTL

(* After Stop of the schedulers every executable still in a channel is      *)
(* about to be aborted by the goroutine that put it there.                  *)
THEOREM ShutdownDrains == Spec => []StoppedIsDrained
  BY Invariant, InvImplies, PTL

(* After the rescheduler's loop has ended every executable it still holds   *)
(* is about to be drained by the goroutine that added it.                   *)
THEOREM ReschedulerShutdownDrains == Spec => []ReschedulerDrained
  BY Invariant, InvImplies, PTL

=============================================================================
