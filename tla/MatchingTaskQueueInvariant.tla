--------------------- MODULE MatchingTaskQueueInvariant ---------------------
(***************************************************************************)
(* The inductive invariant of MatchingTaskQueue, for any number of         *)
(* managers, tasks, leases, timeouts and rewrites, what the steps that     *)
(* hand out no task ID and write no task have in common, and that the      *)
(* steps of the row, of loading and stopping, of the ack manager and of the*)
(* reader preserve it.                                                     *)
(***************************************************************************)
EXTENDS MatchingTaskQueue, TLAPS

(* Finite sets *)

\* The empty set is finite.
LEMMA EmptyFinite == IsFiniteSet({})
  <1>1. << >> \in Seq({}) /\ \A s \in {} : \E n \in 1 .. Len(<< >>) : << >>[n] = s
    OBVIOUS
  <1> QED
    BY Zenon, <1>1 DEF IsFiniteSet

\* An enumeration, possibly with repetitions, makes a set finite.
LEMMA Enumerated ==
    ASSUME NEW S, NEW n \in Nat, NEW f \in [1 .. n -> S], \A s \in S : \E i \in 1 .. n : f[i] = s
    PROVE  IsFiniteSet(S)
  <1>1. f \in Seq(S) /\ Len(f) = n
    OBVIOUS
  <1> QED
    BY <1>1 DEF IsFiniteSet

\* What a function on a finite set reaches is finite.
LEMMA ImageFinite ==
    ASSUME NEW S, IsFiniteSet(S), NEW T, NEW f \in [S -> T], \A t \in T : \E s \in S : f[s] = t
    PROVE  IsFiniteSet(T)
  <1>1. PICK e \in Seq(S) : \A s \in S : \E i \in 1 .. Len(e) : e[i] = s
    BY Zenon DEF IsFiniteSet
  <1> DEFINE n == Len(e)
  <1> DEFINE d == [i \in 1 .. n |-> f[e[i]]]
  <1>2. n \in Nat /\ d \in [1 .. n -> T] /\ \A i \in 1 .. n : d[i] = f[e[i]]
    OBVIOUS
  <1> HIDE DEF d
  <1>3. ASSUME NEW t \in T PROVE \E i \in 1 .. n : d[i] = t
    <2>1. PICK s \in S : f[s] = t
      OBVIOUS
    <2>2. PICK i \in 1 .. n : e[i] = s
      BY Zenon, <1>1
    <2> QED
      BY Zenon, <1>2, <2>1, <2>2
  <1> HIDE DEF n
  <1> QED
    BY <1>2, <1>3, Enumerated

\* A subset of a finite set is finite.
LEMMA SubsetFinite ==
    ASSUME NEW S, IsFiniteSet(S), NEW T \in SUBSET S
    PROVE  IsFiniteSet(T)
  <1>1. CASE T = {}
    BY <1>1, EmptyFinite
  <1>2. CASE T # {}
    <2>1. PICK x : x \in T
      BY <1>2
    <2> DEFINE f == [s \in S |-> IF s \in T THEN s ELSE x]
    <2>2. f \in [S -> T] /\ \A t \in T : t \in S /\ f[t] = t
      BY <2>1
    <2> HIDE DEF f
    <2> QED
      BY <2>2, ImageFinite
  <1> QED
    BY <1>1, <1>2

\* An interval of numbers is finite.
LEMMA IntervalFinite ==
    ASSUME NEW n \in Nat
    PROVE  IsFiniteSet(1 .. n)
  <1> DEFINE f == [i \in 1 .. n |-> i]
  <1>1. f \in [1 .. n -> 1 .. n] /\ \A i \in 1 .. n : f[i] = i
    OBVIOUS
  <1> HIDE DEF f
  <1> QED
    BY <1>1, Enumerated

\* The union of two finite sets is finite.
LEMMA UnionFinite ==
    ASSUME NEW S, IsFiniteSet(S), NEW T, IsFiniteSet(T)
    PROVE  IsFiniteSet(S \cup T)
  <1>1. PICK e \in Seq(S) : \A s \in S : \E i \in 1 .. Len(e) : e[i] = s
    BY Zenon DEF IsFiniteSet
  <1> DEFINE n == Len(e)
  <1>2. PICK d \in Seq(T) : \A t \in T : \E i \in 1 .. Len(d) : d[i] = t
    BY Zenon DEF IsFiniteSet
  <1> DEFINE k == Len(d)
  <1> DEFINE f == [i \in 1 .. n + k |-> IF i <= n THEN e[i] ELSE d[i - n]]
  <1>3. \A i \in 1 .. n + k : f[i] = IF i <= n THEN e[i] ELSE d[i - n]
    OBVIOUS
  <1>4. f \in [1 .. n + k -> S \cup T]
    OBVIOUS
  <1> HIDE DEF f
  <1>5. ASSUME NEW s \in S PROVE \E i \in 1 .. n + k : f[i] = s
    <2>1. PICK i \in 1 .. n : e[i] = s
      BY <1>1
    <2>2. i \in 1 .. n + k /\ i <= n
      OBVIOUS
    <2> QED
      BY <1>3, <2>1, <2>2
  <1>6. ASSUME NEW t \in T PROVE \E i \in 1 .. n + k : f[i] = t
    <2>1. PICK i \in 1 .. k : d[i] = t
      BY SMTT(60), <1>2
    <2>2. n + i \in 1 .. n + k /\ ~(n + i <= n) /\ (n + i) - n = i
      OBVIOUS
    <2> QED
      BY <1>3, <2>1, <2>2
  <1>7. n + k \in Nat
    OBVIOUS
  <1> QED
    BY ZenonT(60), <1>4, <1>5, <1>6, <1>7, Enumerated

\* A finite set with one more element is finite.
LEMMA AddFinite ==
    ASSUME NEW S, IsFiniteSet(S), NEW x
    PROVE  IsFiniteSet(S \cup {x})
  <1> DEFINE f == [i \in 1 .. 1 |-> x]
  <1>1. f \in [1 .. 1 -> {x}] /\ f[1] = x /\ 1 \in 1 .. 1
    OBVIOUS
  <1> HIDE DEF f
  <1>2. IsFiniteSet({x})
    BY ZenonT(60), <1>1, Enumerated
  <1> QED
    BY <1>2, UnionFinite

\* Library facts that the proofs need of natural numbers and finite sets.  Steps that
\* need them have them as an assumption, which MatchingTaskQueueProofs discharges:
\* only that module has to have the library in scope.
LeastElement == \A S \in SUBSET Nat : S # {} => \E x \in S : \A y \in S : x <= y

Counting ==
    \A S : IsFiniteSet(S) =>
        /\ Cardinality(S) \in Nat /\ (Cardinality(S) = 0 => S = {})
        /\ \A T \in SUBSET S : Cardinality(T) <= Cardinality(S)

-----------------------------------------------------------------------------
(* Arithmetic *)

\* Max, of a nonempty set of integers that has an upper bound
LEMMA MaxOf ==
    ASSUME LeastElement, NEW S \in SUBSET Int, S # {}, NEW b \in Int, \A x \in S : x <= b
    PROVE  Max(S) \in S /\ \A y \in S : y <= Max(S)
  <1> DEFINE D == {b - x : x \in S}
  <1>1. D \in SUBSET Nat /\ D # {}
    <2>1. ASSUME NEW x \in S PROVE b - x \in Nat
      <3>1. x \in Int /\ x <= b
        OBVIOUS
      <3> QED
        BY <3>1
    <2> QED
      BY Zenon, <2>1
  <1>2. PICK d \in D : \A e \in D : d <= e
    BY Zenon, <1>1 DEF LeastElement
  <1>3. PICK x \in S : d = b - x
    BY Zenon, <1>2
  <1>4. ASSUME NEW y \in S PROVE x >= y
    <2>1. d <= b - y
      BY Zenon, <1>2
    <2>2. x \in Int /\ y \in Int
      BY Zenon
    <2> QED
      BY <1>3, <2>1, <2>2
  <1>5. \E z \in S : \A y \in S : z >= y
    BY Zenon, <1>4
  <1>6. Max(S) \in S /\ \A y \in S : Max(S) >= y
    BY Zenon, <1>5 DEF Max
  <1> QED
    BY Zenon, <1>6

\* Min, of two integers
LEMMA MinOfTwo ==
    ASSUME NEW a \in Int, NEW b \in Int
    PROVE  /\ Min({a, b}) \in Int /\ Min({a, b}) <= a /\ Min({a, b}) <= b
           /\ Min({a, b}) = a \/ Min({a, b}) = b
  <1>1. \E x \in {a, b} : \A y \in {a, b} : x <= y
    OBVIOUS
  <1>2. Min({a, b}) \in {a, b} /\ \A y \in {a, b} : Min({a, b}) <= y
    BY Zenon, <1>1 DEF Min
  <1> QED
    BY Zenon, <1>2

\* The block of a later lease is above that of an earlier one.
LEMMA BlocksApart ==
    ASSUME NEW r \in Nat, NEW s \in Nat, r < s
    PROVE  r * RangeSize <= (s - 1) * RangeSize
  <1>1. RangeSize \in Nat \ {0}
    BY Zenon, MatchingBounds
  <1> QED
    BY <1>1

-----------------------------------------------------------------------------
(* The inductive invariant *)

Rows == [id : Nat, task : Tasks]

Requests == [task : Tasks, of : Nat]

ManagerStates == {"new", "leasing", "up", "stopping", "closing", "stopped"}

Manager ==
    [st : ManagerStates, seen : [range : Nat, ack : Nat], range : Nat, dbAck : Nat,
     block : [start : Nat, end : Nat], maxRead : Nat,
     read : Int, ack : Int, open : SUBSET Nat, acked : SUBSET Nat, held : SUBSET Rows,
     queue : SUBSET Requests, wpc : {"idle", "write", "publish"},
     batch : SUBSET [id : Nat, req : Requests],
     replies : SUBSET [req : Requests, ok : BOOLEAN],
     signal : BOOLEAN, reading : SUBSET Rows, collecting : Int, collected : Int]

Types ==
    /\ row \in [range : Nat, ack : Nat]
    /\ rows \in SUBSET Rows
    /\ late \in SUBSET [prev : Nat, range : Nat, ack : Nat, tasks : SUBSET Rows]
    /\ mgr \in [Managers -> Manager]
    /\ created \in SUBSET [id : Nat, task : Tasks, lease : Nat]
    /\ promised \in SUBSET Tasks /\ started \in SUBSET Tasks /\ expired \in SUBSET Tasks

Alive(g) == g.st \in {"up", "stopping", "closing"}

\* Requests that the writer of a manager has, has written, or has answered
RequestsOf(g) == g.queue \cup {e.req : e \in g.batch} \cup {p.req : p \in g.replies}

\* No level and no task of a manager is above x.
UpTo(g, x) ==
    /\ g.ack <= x /\ g.dbAck <= x /\ g.seen.ack <= x /\ g.collecting <= x /\ g.read <= x
    /\ \A i \in g.open \cup g.acked : i <= x
    /\ \A q \in RequestsOf(g) : q.of <= x
    /\ \A r \in g.held : r.id <= x

\* What a manager that has a lease knows by itself
AliveInv(g) ==
    /\ g.range >= 1 /\ g.block.end = g.range * RangeSize
    /\ (g.range - 1) * RangeSize < g.block.start /\ g.block.start <= g.block.end + 1
    /\ 0 <= g.ack /\ g.maxRead < g.block.start /\ UpTo(g, g.maxRead)
    /\ g.wpc = "idle" <=> g.batch = {}
    /\ \A e \in g.batch : g.maxRead < e.id /\ e.id < g.block.start
    /\ \A r \in g.reading : g.read < r.id /\ r.id <= g.maxRead
    /\ \A i \in g.open : i <= g.read

LocalInv(g) ==
    /\ g.st \in {"new", "leasing"} => g = [NewManager EXCEPT !.st = g.st, !.seen = g.seen]
    /\ g.st = "stopped" => g.read = -1 /\ g.queue = {} /\ g.batch = {} /\ g.reading = {}
    /\ Alive(g) => AliveInv(g)
    /\ IsFiniteSet(g.queue) /\ IsFiniteSet(g.batch)
    /\ \A p \in g.replies : p.req.of = 0 => p.ok

\* A call in the store's hands renews a lease, or acts under it.
CallInv(c) ==
    /\ c.range <= MaxRange /\ IsFiniteSet(c.tasks)
    /\ c.range = c.prev \/ c.range = c.prev + 1

Holds(m) == Alive(mgr[m]) /\ mgr[m].range = row.range

\* Who has which lease, and how far everybody has come
LeaseInv ==
    /\ row.range <= MaxRange /\ row.ack <= row.range * RangeSize
    /\ \A c \in late : CallInv(c) /\ c.prev <= row.range /\ c.ack <= row.range * RangeSize
    /\ \A m \in Managers :
           /\ LocalInv(mgr[m]) /\ UpTo(mgr[m], row.range * RangeSize)
           /\ mgr[m].seen.range <= row.range
           /\ mgr[m].st = "leasing" => mgr[m].seen.range < MaxRange
           /\ Alive(mgr[m]) => mgr[m].range <= row.range
    /\ \A m \in Managers : Holds(m) =>
           /\ row.ack <= mgr[m].maxRead
           /\ \A c \in late : c.ack <= mgr[m].maxRead
           /\ \A n \in Managers : UpTo(mgr[n], mgr[m].maxRead)
    /\ \A m, n \in Managers : m # n /\ Alive(mgr[m]) /\ Alive(mgr[n]) =>
           /\ mgr[m].range # mgr[n].range
           /\ mgr[m].range < mgr[n].range => mgr[m].block.end <= mgr[n].maxRead

\* Rows that have been written, or that a call or a batch may still write
CallClaims(c) == {[id |-> r.id, task |-> r.task, lease |-> c.range] : r \in c.tasks}

BatchClaims(g) ==
    {[id |-> e.id, task |-> e.req.task, lease |-> g.range] :
        e \in {f \in g.batch : g.wpc = "write"}}

Claims ==
    created \cup (UNION {CallClaims(c) : c \in late})
            \cup (UNION {BatchClaims(mgr[m]) : m \in Managers})

\* Every ID is claimed once, and no block has an ID that is claimed.
ClaimInv ==
    /\ \A x, y \in Claims : x.id = y.id => x = y
    /\ \A x \in Claims : 1 <= x.id /\ x.id <= row.range * RangeSize
    /\ \A m \in Managers : Alive(mgr[m]) =>
           \A x \in Claims : x.id < mgr[m].block.start \/ x.id > mgr[m].block.end

\* The managers know only tasks that have been written.
Known(i, t) == \E x \in created : x.id = i /\ x.task = t

KnownInv ==
    /\ IsFiniteSet(rows)
    /\ \A r \in rows : Known(r.id, r.task)
    /\ \A m \in Managers :
           /\ \A r \in mgr[m].held \cup mgr[m].reading : Known(r.id, r.task)
           /\ \A q \in RequestsOf(mgr[m]) : q.of # 0 => Known(q.of, q.task)

\* A manager has not passed row r, and will not: it has still to read r or to
\* complete it, and it has not written it back.
Beyond(g, r) ==
    /\ g.ack < r.id /\ g.dbAck < r.id /\ g.seen.ack < r.id /\ g.collecting < r.id
    /\ r.id \in g.open \/ (g.read < r.id /\ \A i \in g.open \cup g.acked : i < r.id)
    /\ g.read < r.id => \A q \in g.reading : r.id <= q.id => r \in g.reading
    /\ \A p \in g.replies : p.ok => p.req.of # r.id

Safe(r) ==
    /\ row.ack < r.id /\ \A c \in late : c.ack < r.id
    /\ \A m \in Managers : Beyond(mgr[m], r)

\* AddTask has returned without error, or is about to.
Accepted(t) ==
    \/ t \in promised
    \/ \E m \in Managers : \E p \in mgr[m].replies : p.ok /\ p.req = Request(t, 0)

SafeInv ==
    \A t \in Tasks \ (started \cup expired) :
        Accepted(t) => \E r \in rows : r.task = t /\ Safe(r)

QueueInv == Types /\ LeaseInv /\ ClaimInv /\ KnownInv /\ SafeInv

-----------------------------------------------------------------------------
(* Steps of one manager *)

\* What the invariant says about one manager and the row
LEMMA Facts ==
    ASSUME QueueInv, NEW m \in Managers
    PROVE  /\ mgr[m] \in Manager /\ LocalInv(mgr[m]) /\ UpTo(mgr[m], row.range * RangeSize)
           /\ Running(m) <=> Alive(mgr[m])
           /\ Alive(mgr[m]) => mgr[m].range <= row.range /\ AliveInv(mgr[m])
           /\ row.range \in Nat /\ row.range <= MaxRange /\ row.ack \in Nat
           /\ mgr[m].range \in Nat /\ mgr[m].dbAck \in Nat /\ mgr[m].seen.ack \in Nat
           /\ mgr[m].seen.range \in Nat
  <1>1. mgr[m] \in Manager /\ row \in [range : Nat, ack : Nat]
    BY Zenon DEF QueueInv, Types
  <1>2. /\ LocalInv(mgr[m]) /\ UpTo(mgr[m], row.range * RangeSize) /\ row.range <= MaxRange
        /\ Alive(mgr[m]) => mgr[m].range <= row.range /\ AliveInv(mgr[m])
    BY Zenon DEF QueueInv, LeaseInv, LocalInv
  <1> QED
    BY Zenon, <1>1, <1>2 DEF Running, Alive, Manager

\* A number and the next one
LEMMA Successor ==
    ASSUME NEW x \in Nat
    PROVE  x <= x /\ x < x + 1 /\ x <= x + 1 /\ 0 <= x + 1
  OBVIOUS

\* A number after another one is positive.
LEMMA AfterSome ==
    ASSUME NEW x \in Nat, NEW y \in Nat, x < y
    PROVE  x + 1 <= y /\ 0 < y /\ -1 < y
  OBVIOUS

\* What is up to y is up to all that y is up to.
LEMMA UpToThenUpTo ==
    ASSUME NEW x \in Nat, NEW y \in Nat, NEW z \in Nat, x <= y, y <= z
    PROVE  x <= z
  OBVIOUS

\* What is up to y is below all that y is below.
LEMMA UpToThenBelow ==
    ASSUME NEW x \in Nat, NEW y \in Nat, NEW z \in Nat, x <= y, y < z
    PROVE  x < z
  OBVIOUS

\* The fields of a row
LEMMA RowFields ==
    ASSUME NEW f, NEW x, NEW y, f = [range |-> x, ack |-> y]
    PROVE  f.range = x /\ f.ack = y
  OBVIOUS

\* The row after its range is renewed
LEMMA RenewedRow ==
    ASSUME NEW x \in Nat, NEW y \in Nat
    PROVE  [range |-> x + 1, ack |-> y] \in [range : Nat, ack : Nat]
  OBVIOUS

\* The fields of a block of IDs
LEMMA BlockFields ==
    ASSUME NEW f, NEW x, NEW y, f = [start |-> x, end |-> y]
    PROVE  f.start = x /\ f.end = y
  OBVIOUS

\* A manager that has just had its lease is up to all that the ack level it read is.
LEMMA LeasedUpTo ==
    ASSUME NEW h, NEW x \in Nat, NEW a \in Nat, a <= x,
           h.seen = [range |-> 0, ack |-> 0], h.dbAck = a, h.ack = a, h.read = a,
           h.open = {}, h.acked = {}, h.held = {}, h.collecting = NoGC, RequestsOf(h) = {}
    PROVE  UpTo(h, x)
  <1>1. 0 <= x /\ NoGC <= x
    BY DEF NoGC
  <1>2. h.seen.ack = 0
    OBVIOUS
  <1> QED
    BY Zenon, <1>1, <1>2 DEF UpTo

\* What a manager knows by itself as soon as it has its lease
LEMMA LeasedAlive ==
    ASSUME NEW h, NEW n \in Nat, NEW top \in Nat, NEW last \in Nat, NEW a \in Nat,
           top = (n + 1 - 1) * RangeSize, last = (n + 1) * RangeSize, top <= last,
           h.range = n + 1, h.block = [start |-> top + 1, end |-> last],
           h.maxRead = top, h.ack = a, UpTo(h, top), h.wpc = "idle",
           h.batch = {}, h.reading = {}, h.open = {}
    PROVE  AliveInv(h)
  <1>1. h.block.start = top + 1 /\ h.block.end = last
    OBVIOUS
  <1>2. n + 1 >= 1 /\ top < top + 1 /\ top + 1 <= last + 1 /\ 0 <= a
    OBVIOUS
  <1> QED
    BY SMTT(60), <1>1, <1>2 DEF AliveInv

\* A new lease is after the row and after all that the late calls expect.
LEMMA NextLease ==
    ASSUME Types, LeaseInv
    PROVE  /\ row.range + 1 \in Nat /\ row.range <= row.range + 1
           /\ \A c \in late : CallInv(c) /\ c.prev <= row.range + 1
  <1>1. row.range \in Nat /\ \A c \in late : c.prev \in Nat /\ CallInv(c) /\ c.prev <= row.range
    BY DEF Types, LeaseInv
  <1> QED
    BY <1>1

\* A manager with one field replaced by a value of the right type is a manager.
LEMMA FieldTypes ==
    ASSUME NEW g \in Manager
    PROVE  /\ \A v \in SUBSET Requests : [g EXCEPT !.queue = v] \in Manager
           /\ \A v \in SUBSET [req : Requests, ok : BOOLEAN] : [g EXCEPT !.replies = v] \in Manager
           /\ \A v \in [start : Nat, end : Nat] : [g EXCEPT !.block = v] \in Manager
           /\ \A v \in SUBSET [id : Nat, req : Requests] : [g EXCEPT !.batch = v] \in Manager
           /\ \A v \in {"idle", "write", "publish"} : [g EXCEPT !.wpc = v] \in Manager
           /\ \A v \in BOOLEAN : [g EXCEPT !.signal = v] \in Manager
           /\ \A v \in SUBSET Rows : [g EXCEPT !.reading = v] \in Manager
           /\ \A v \in ManagerStates : [g EXCEPT !.st = v] \in Manager
  <1>1. ASSUME NEW v \in SUBSET Requests PROVE [g EXCEPT !.queue = v] \in Manager
    BY DEF Manager
  <1>2. ASSUME NEW v \in SUBSET [req : Requests, ok : BOOLEAN] PROVE [g EXCEPT !.replies = v] \in Manager
    BY DEF Manager
  <1>3. ASSUME NEW v \in [start : Nat, end : Nat] PROVE [g EXCEPT !.block = v] \in Manager
    BY DEF Manager
  <1>4. ASSUME NEW v \in SUBSET [id : Nat, req : Requests] PROVE [g EXCEPT !.batch = v] \in Manager
    BY ZenonT(60) DEF Manager
  <1>5. ASSUME NEW v \in {"idle", "write", "publish"} PROVE [g EXCEPT !.wpc = v] \in Manager
    BY DEF Manager
  <1>6. ASSUME NEW v \in BOOLEAN PROVE [g EXCEPT !.signal = v] \in Manager
    BY DEF Manager
  <1>7. ASSUME NEW v \in SUBSET Rows PROVE [g EXCEPT !.reading = v] \in Manager
    BY DEF Manager
  <1>8. ASSUME NEW v \in ManagerStates PROVE [g EXCEPT !.st = v] \in Manager
    BY DEF Manager
  <1> QED
    BY Zenon, <1>1, <1>2, <1>3, <1>4, <1>5, <1>6, <1>7, <1>8

\* No level in sight is above x.
LevelsUpTo(x) ==
    /\ row.ack <= x /\ \A c \in late : c.ack <= x
    /\ \A n \in Managers : UpTo(mgr[n], x)

\* A manager g becomes h: its levels stay where all the levels have been, or
\* below its own read level.
Grows(g, h) == \A x \in Nat : UpTo(g, x) /\ (Alive(g) => g.maxRead <= x) => UpTo(h, x)

\* Whoever is up to x is up to all that is above.
LEMMA UpToMonotonic ==
    ASSUME NEW g \in Manager, NEW x \in Nat, NEW y \in Nat, UpTo(g, x), x <= y
    PROVE  UpTo(g, y)
  <1>1. \A q \in RequestsOf(g) : q.of \in Nat
    BY DEF Manager, RequestsOf, Requests
  <1>2. /\ g.ack \in Int /\ g.dbAck \in Int /\ g.seen.ack \in Int /\ g.collecting \in Int /\ g.read \in Int
        /\ \A i \in g.open \cup g.acked : i \in Int
        /\ \A r \in g.held : r.id \in Int
    BY DEF Manager, Rows
  <1> QED
    BY <1>1, <1>2 DEF UpTo

\* The bounds of the block of a manager that has a lease, and of its read level
LEMMA AliveBounds ==
    ASSUME NEW g \in Manager, LocalInv(g), Alive(g)
    PROVE  /\ g.range \in Nat /\ g.maxRead \in Nat /\ g.block.start \in Nat /\ g.block.end \in Nat
           /\ g.maxRead <= g.block.end /\ g.block.end = g.range * RangeSize
           /\ g.range >= 1 /\ (g.range - 1) * RangeSize < g.block.start
           /\ g.block.start <= g.block.end + 1
  <1>1. AliveInv(g)
    BY Zenon DEF LocalInv
  <1>2. g.range \in Nat /\ g.maxRead \in Nat /\ g.block \in [start : Nat, end : Nat]
    BY Zenon DEF Manager
  <1> QED
    BY <1>1, <1>2 DEF AliveInv

\* A manager keeps its block, takes the next lease, or is loaded.
Advances(g, h) ==
    Alive(h) =>
      \/ /\ Alive(g) /\ h.range = g.range /\ h.block.end = g.block.end /\ g.maxRead <= h.maxRead
      \/ /\ Alive(g) /\ g.range = row.range /\ h.range = row.range + 1 /\ row'.range = row.range + 1
         /\ g.maxRead <= h.maxRead
      \/ /\ ~Alive(g) /\ h.range = row.range + 1 /\ row'.range = row.range + 1
         /\ row.range * RangeSize <= h.maxRead

\* When one manager and the row move on, LeaseInv is kept if neither goes beyond what the
\* holder of the lease has published.
LEMMA LeaseStep ==
    ASSUME Types, LeaseInv, Types', NEW m \in Managers, NEW h \in Manager, mgr' = [mgr EXCEPT ![m] = h],
           LocalInv(h), Advances(mgr[m], h),
           row.range <= row'.range, row'.range <= MaxRange,
           \A x \in Nat : LevelsUpTo(x) /\ (Alive(mgr[m]) => mgr[m].maxRead <= x)
                            => UpTo(h, x) /\ row'.ack <= x /\ \A c \in late' : c.ack <= x,
           \A c \in late' : CallInv(c) /\ c.prev <= row'.range,
           h.seen.range <= row'.range, h.st = "leasing" => h.seen.range < MaxRange
    PROVE  LeaseInv'
  <1> DEFINE g == mgr[m]
             top == row.range * RangeSize
  <1>1. /\ row.range \in Nat /\ row'.range \in Nat /\ RangeSize \in Nat \ {0}
        /\ row'.ack \in Nat /\ \A c \in late' : c.ack \in Nat
    BY Zenon, MatchingBounds DEF Types
  <1>2. /\ \A n \in Managers : mgr[n] \in Manager /\ LocalInv(mgr[n]) /\ UpTo(mgr[n], top)
        /\ mgr'[m] = h /\ \A n \in Managers \ {m} : mgr'[n] = mgr[n]
        /\ \A n \in Managers : Alive(mgr[n]) => mgr[n].range <= row.range
        /\ \A n \in Managers : mgr[n].seen.range <= row.range
        /\ \A n \in Managers : mgr[n].st = "leasing" => mgr[n].seen.range < MaxRange
    BY Zenon DEF Types, LeaseInv
  <1>3. top \in Nat /\ row'.range * RangeSize \in Nat /\ top <= row'.range * RangeSize
    <2>1. CASE row.range = row'.range
      BY <1>1, <2>1
    <2>2. CASE row.range < row'.range
      BY SMTT(60), <1>1, <2>2, BlocksApart
    <2> QED
      BY <1>1, <2>1, <2>2
  <1>4. ASSUME NEW n \in Managers, Alive(mgr[n])
        PROVE  /\ mgr[n].block.end = mgr[n].range * RangeSize /\ mgr[n].block.end <= top
               /\ mgr[n].maxRead <= mgr[n].block.end
               /\ mgr[n].maxRead \in Nat /\ mgr[n].block.end \in Nat /\ mgr[n].range \in Nat
    <2>1. /\ mgr[n].range <= row.range /\ mgr[n].block.end = mgr[n].range * RangeSize
          /\ mgr[n].maxRead <= mgr[n].block.end
          /\ mgr[n].maxRead \in Nat /\ mgr[n].block.end \in Nat /\ mgr[n].range \in Nat
      BY Zenon, <1>2, <1>4, AliveBounds
    <2>2. CASE mgr[n].range = row.range
      BY SMTT(60), <2>1, <2>2
    <2>3. CASE mgr[n].range < row.range
      BY <1>1, <2>1, <2>3, BlocksApart
    <2> QED
      BY <1>1, <2>1, <2>2, <2>3
  <1>5. LevelsUpTo(top)
    BY Zenon, <1>2 DEF LeaseInv, LevelsUpTo
  <1>6. UpTo(h, top) /\ row'.ack <= top /\ \A c \in late' : c.ack <= top
    BY <1>3, <1>4, <1>5
  <1>7. ASSUME NEW n \in Managers
        PROVE  /\ LocalInv(mgr'[n]) /\ UpTo(mgr'[n], row'.range * RangeSize)
               /\ mgr'[n].seen.range <= row'.range
               /\ mgr'[n].st = "leasing" => mgr'[n].seen.range < MaxRange
               /\ Alive(mgr'[n]) => mgr'[n].range <= row'.range
    <2>1. CASE n = m
      <3>1. UpTo(h, row'.range * RangeSize)
        BY ZenonT(60), <1>3, <1>6, UpToMonotonic
      <3>2. Alive(h) => h.range <= row'.range
        BY SMTT(60), <1>1, <1>2, <1>4 DEF Advances
      <3> QED
        BY Zenon, <1>2, <2>1, <3>1, <3>2
    <2>2. CASE n # m
      <3>1. mgr'[n] = mgr[n] /\ mgr[n] \in Manager
        BY Zenon, <1>2, <2>2
      <3>2. mgr[n].seen.range \in Nat /\ mgr[n].range \in Nat
        BY Zenon, <3>1 DEF Manager
      <3> QED
        BY <1>1, <1>2, <1>3, <3>1, <3>2, UpToMonotonic
    <2> QED
      BY Zenon, <2>1, <2>2
  <1>8. ASSUME NEW n \in Managers, Alive(mgr'[n]), mgr'[n].range = row'.range
        PROVE  /\ mgr'[n].maxRead \in Nat
               /\ row'.ack <= mgr'[n].maxRead /\ \A c \in late' : c.ack <= mgr'[n].maxRead
               /\ \A k \in Managers : UpTo(mgr'[k], mgr'[n].maxRead)
    <2>1. PICK x \in Nat : /\ LevelsUpTo(x) /\ (Alive(g) => g.maxRead <= x)
                           /\ mgr'[n].maxRead \in Nat /\ x <= mgr'[n].maxRead
      <3>1. CASE n # m
        <4>1. mgr'[n] = mgr[n] /\ Alive(mgr[n]) /\ mgr[n].range = row.range /\ row'.range = row.range
          BY <1>1, <1>2, <1>4, <1>8, <3>1
        <4>2. LevelsUpTo(mgr[n].maxRead)
          BY Zenon, <4>1 DEF LevelsUpTo, LeaseInv, Holds
        <4>3. Alive(g) => g.maxRead <= mgr[n].maxRead
          <5> SUFFICES ASSUME Alive(g) PROVE g.maxRead <= mgr[n].maxRead
            OBVIOUS
          <5>1. g.range # mgr[n].range /\ (g.range < mgr[n].range => g.block.end <= mgr[n].maxRead)
            BY Zenon, <3>1, <4>1 DEF LeaseInv
          <5> QED
            BY SMTT(60), <1>2, <1>4, <4>1, <5>1
        <4> QED
          BY SMTT(60), <1>4, <4>1, <4>2, <4>3
      <3>2. CASE n = m
        <4>1. mgr'[n] = h /\ Alive(h) /\ h.range = row'.range /\ h.maxRead \in Nat
          BY SMTT(60), <1>2, <1>8, <3>2 DEF Manager
        <4>2. CASE Alive(g)
          <5>1. g.range = row.range /\ g.maxRead <= h.maxRead
            BY <1>1, <1>2, <1>4, <4>1, <4>2 DEF Advances
          <5>2. LevelsUpTo(g.maxRead)
            BY Zenon, <4>2, <5>1 DEF LevelsUpTo, LeaseInv, Holds
          <5> QED
            BY SMTT(60), <1>4, <4>1, <4>2, <5>1, <5>2
        <4>3. CASE ~Alive(g)
          BY Zenon, <1>3, <1>5, <4>1, <4>3 DEF Advances
        <4> QED
          BY ZenonT(60), <4>2, <4>3
      <3> QED
        BY Zenon, <3>1, <3>2
    <2>2. UpTo(h, x) /\ row'.ack <= x /\ \A c \in late' : c.ack <= x
      BY Zenon, <2>1
    <2>3. ASSUME NEW k \in Managers PROVE UpTo(mgr'[k], mgr'[n].maxRead)
      <3>1. UpTo(mgr'[k], x) /\ mgr'[k] \in Manager
        BY Zenon, <1>2, <2>1, <2>2 DEF LevelsUpTo
      <3> QED
        BY Zenon, <2>1, <3>1, UpToMonotonic
    <2> QED
      BY <1>1, <2>1, <2>2, <2>3
  <1>9. ASSUME NEW n \in Managers, NEW k \in Managers, n # k, Alive(mgr'[n]), Alive(mgr'[k])
        PROVE  /\ mgr'[n].range # mgr'[k].range
               /\ mgr'[n].range < mgr'[k].range => mgr'[n].block.end <= mgr'[k].maxRead
    <2>1. CASE n # m /\ k # m
      BY ZenonT(60), <1>2, <1>9, <2>1 DEF LeaseInv
    <2>2. ASSUME NEW j \in Managers \ {m}, Alive(mgr[j]), Alive(h)
          PROVE  /\ h.range # mgr[j].range
                 /\ h.range < mgr[j].range => h.block.end <= mgr[j].maxRead
                 /\ mgr[j].range < h.range => mgr[j].block.end <= h.maxRead
      <3>1. /\ h.range \in Nat /\ h.maxRead \in Nat
            /\ mgr[j].range \in Nat /\ mgr[j].range <= row.range /\ mgr[j].block.end <= top
            /\ mgr[j].block.end \in Nat
        BY ZenonT(60), <1>2, <1>4, <2>2 DEF Manager
      <3>2. CASE Alive(g) 
        <4>1. /\ g.range # mgr[j].range
              /\ g.range < mgr[j].range => g.block.end <= mgr[j].maxRead
              /\ mgr[j].range < g.range => mgr[j].block.end <= g.maxRead
          BY Zenon, <2>2, <3>2 DEF LeaseInv
        <4>2. g.range \in Nat /\ g.maxRead \in Nat
          BY ZenonT(60), <1>4, <3>2
        <4> QED
          BY SMTT(60), <1>1, <2>2, <3>1, <3>2, <4>1, <4>2 DEF Advances
      <3>3. CASE ~Alive(g)
        BY SMTT(60), <1>1, <1>3, <2>2, <3>1, <3>3 DEF Advances
      <3> QED
        BY Zenon, <3>2, <3>3
    <2> QED
      BY Zenon, <1>2, <1>9, <2>1, <2>2
  <1>10. row'.ack <= row'.range * RangeSize /\ \A c \in late' : c.ack <= row'.range * RangeSize
    BY <1>1, <1>3, <1>6
  <1>11. \A c \in late' : CallInv(c) /\ c.prev <= row'.range /\ c.ack <= row'.range * RangeSize
    BY Zenon, <1>10
  <1>12. \A n \in Managers : Holds(n)' =>
           /\ row'.ack <= mgr'[n].maxRead
           /\ \A c \in late' : c.ack <= mgr'[n].maxRead
           /\ \A k \in Managers : UpTo(mgr'[k], mgr'[n].maxRead)
    BY Zenon, <1>8 DEF Holds
  <1> QED
    BY Zenon, <1>7, <1>9, <1>10, <1>11, <1>12 DEF LeaseInv

\* The last ID of the leases grows with the lease.
LEMMA TopGrows ==
    ASSUME NEW r \in Nat, NEW s \in Nat, r <= s
    PROVE  /\ r * RangeSize \in Nat /\ s * RangeSize \in Nat
           /\ r * RangeSize <= s * RangeSize
  <1>1. RangeSize \in Nat \ {0}
    BY Zenon, MatchingBounds
  <1>2. CASE r = s
    BY <1>1, <1>2
  <1>3. CASE r < s
    BY <1>1, <1>3, BlocksApart
  <1> QED
    BY <1>2, <1>3

\* The last ID of the next range
LEMMA NextTop ==
    ASSUME NEW r \in Nat
    PROVE  /\ r * RangeSize \in Nat /\ (r + 1) * RangeSize \in Nat
           /\ r * RangeSize <= (r + 1) * RangeSize /\ (r + 1 - 1) * RangeSize = r * RangeSize
  <1>1. r + 1 \in Nat /\ r <= r + 1 /\ r + 1 - 1 = r
    OBVIOUS
  <1> QED
    BY Zenon, <1>1, TopGrows

\* The types of the claims
LEMMA ClaimTypes ==
    ASSUME Types
    PROVE  Claims \subseteq [id : Nat, task : Tasks, lease : Nat]
  <1>1. created \subseteq [id : Nat, task : Tasks, lease : Nat]
    BY Zenon DEF Types
  <1>2. ASSUME NEW c \in late PROVE CallClaims(c) \subseteq [id : Nat, task : Tasks, lease : Nat]
    <2>1. c.range \in Nat /\ c.tasks \subseteq Rows
      BY Zenon DEF Types
    <2> QED
      BY <2>1 DEF CallClaims, Rows
  <1>3. ASSUME NEW n \in Managers PROVE BatchClaims(mgr[n]) \subseteq [id : Nat, task : Tasks, lease : Nat]
    <2>1. mgr[n].range \in Nat /\ mgr[n].batch \subseteq [id : Nat, req : Requests]
      BY Zenon DEF Types, Manager
    <2> QED
      BY <2>1 DEF BatchClaims, Requests
  <1> QED
    BY Zenon, <1>1, <1>2, <1>3 DEF Claims

\* A step that claims no ID, and gives a block only to who has it or to a new lease, keeps ClaimInv.
LEMMA ClaimKeep ==
    ASSUME Types, ClaimInv, Types', NEW m \in Managers, NEW h \in Manager, mgr' = [mgr EXCEPT ![m] = h],
           row.range <= row'.range, created' \subseteq Claims,
           \A c \in late' : CallClaims(c) \subseteq Claims, BatchClaims(h) \subseteq Claims,
           Alive(h) => \/ /\ Alive(mgr[m]) /\ mgr[m].block.start <= h.block.start
                          /\ h.block.end = mgr[m].block.end
                       \/ row.range * RangeSize < h.block.start
    PROVE  ClaimInv'
  <1>1. mgr'[m] = h /\ \A n \in Managers \ {m} : mgr'[n] = mgr[n]
    BY Zenon DEF Types
  <1>2. Claims' \subseteq Claims
    <2>1. ASSUME NEW n \in Managers PROVE BatchClaims(mgr'[n]) \subseteq Claims
      <3>1. BatchClaims(mgr[n]) \subseteq Claims
        BY Zenon DEF Claims
      <3> QED
        BY Zenon, <1>1, <3>1
    <2>2. Claims' = created' \cup (UNION {CallClaims(c) : c \in late'})
                             \cup (UNION {BatchClaims(mgr'[n]) : n \in Managers})
      BY Zenon DEF Claims, CallClaims, BatchClaims
    <2>3. UNION {CallClaims(c) : c \in late'} \subseteq Claims
      OBVIOUS
    <2>4. UNION {BatchClaims(mgr'[n]) : n \in Managers} \subseteq Claims
      BY Zenon, <2>1
    <2> QED
      BY Zenon, <2>2, <2>3, <2>4
  <1>3. /\ row.range * RangeSize \in Nat /\ row'.range * RangeSize \in Nat
        /\ row.range * RangeSize <= row'.range * RangeSize
    BY Zenon, TopGrows DEF Types
  <1>4. \A x \in Claims : x.id \in Nat /\ 1 <= x.id /\ x.id <= row.range * RangeSize
    BY Zenon, ClaimTypes DEF ClaimInv
  <1>5. ASSUME NEW n \in Managers, Alive(mgr'[n]), NEW x \in Claims
        PROVE  x.id < mgr'[n].block.start \/ x.id > mgr'[n].block.end
    <2>1. CASE n # m
      BY ZenonT(60), <1>1, <1>5, <2>1 DEF ClaimInv
    <2>2. CASE n = m
      <3>1. mgr'[n] = h /\ h.block.start \in Nat /\ mgr[m].block.start \in Nat
        BY Zenon, <1>1, <2>2 DEF Types, Manager
      <3>2. Alive(mgr[m]) => x.id < mgr[m].block.start \/ x.id > mgr[m].block.end
        BY Zenon DEF ClaimInv
      <3> QED
        BY <1>3, <1>4, <1>5, <3>1, <3>2
    <2> QED
      BY Zenon, <2>1, <2>2
  <1>6. /\ \A x, y \in Claims' : x.id = y.id => x = y
        /\ \A x \in Claims' : 1 <= x.id /\ x.id <= row'.range * RangeSize
    BY <1>2, <1>3, <1>4 DEF ClaimInv
  <1>7. \A n \in Managers : Alive(mgr'[n]) =>
           \A x \in Claims' : x.id < mgr'[n].block.start \/ x.id > mgr'[n].block.end
    BY Zenon, <1>2, <1>5
  <1> QED
    BY Zenon, <1>6, <1>7 DEF ClaimInv

\* A step in which a manager gets only rows of the store keeps KnownInv.
LEMMA KnownStep ==
    ASSUME Types, KnownInv, NEW m \in Managers, NEW h \in Manager, mgr' = [mgr EXCEPT ![m] = h],
           created \subseteq created', IsFiniteSet(rows'),
           \A r \in rows' : r \in rows \/ Known(r.id, r.task)',
           h.held \cup h.reading \subseteq mgr[m].held \cup mgr[m].reading \cup rows,
           \A q \in RequestsOf(h) :
               \/ q \in RequestsOf(mgr[m]) \/ q.of = 0
               \/ \E r \in mgr[m].held : q = Request(r.task, r.id)
    PROVE  KnownInv'
  <1>1. mgr'[m] = h /\ \A n \in Managers \ {m} : mgr'[n] = mgr[n]
    BY Zenon DEF Types
  <1>2. ASSUME NEW i, NEW t, Known(i, t) PROVE Known(i, t)'
    BY Zenon, <1>2 DEF Known
  <1>3. ASSUME NEW n \in Managers, NEW r \in mgr'[n].held \cup mgr'[n].reading
        PROVE  Known(r.id, r.task)'
    BY Zenon, <1>1, <1>2, <1>3 DEF KnownInv
  <1>4. ASSUME NEW n \in Managers, NEW q \in RequestsOf(mgr'[n]), q.of # 0
        PROVE  Known(q.of, q.task)'
    <2>1. CASE n # m
      BY Zenon, <1>1, <1>2, <1>4, <2>1 DEF KnownInv
    <2>2. CASE n = m
      <3>1. q \in RequestsOf(mgr[m]) \/ \E r \in mgr[m].held : q = Request(r.task, r.id)
        BY Zenon, <1>1, <1>4, <2>2
      <3>2. CASE q \in RequestsOf(mgr[m])
        BY Zenon, <1>2, <1>4, <3>2 DEF KnownInv
      <3>3. ASSUME NEW r \in mgr[m].held, q = Request(r.task, r.id) PROVE Known(q.of, q.task)'
        <4>1. Known(r.id, r.task)
          BY Zenon DEF KnownInv
        <4> QED
          BY Zenon, <1>2, <3>3, <4>1 DEF Request
      <3> QED
        BY Zenon, <3>1, <3>2, <3>3
    <2> QED
      BY Zenon, <2>1, <2>2
  <1>5. ASSUME NEW r \in rows' PROVE Known(r.id, r.task)'
    BY Zenon, <1>2 DEF KnownInv
  <1> QED
    BY Zenon, <1>3, <1>4, <1>5 DEF KnownInv

\* A step that accepts no task keeps SafeInv, if it neither deletes nor passes a row that is safe.
LEMMA SafeKeep ==
    ASSUME Types, SafeInv, NEW m \in Managers, NEW h \in Manager, mgr' = [mgr EXCEPT ![m] = h],
           started \subseteq started', expired \subseteq expired',
           \A t \in Tasks : Accepted(t)' => Accepted(t),
           \A r \in rows : Safe(r) /\ r.task \notin started' \cup expired' =>
               /\ r \in rows' /\ row'.ack < r.id /\ \A c \in late' : c.ack < r.id
               /\ Beyond(h, r)
    PROVE  SafeInv'
  <1> SUFFICES ASSUME NEW t \in Tasks, t \notin started' \cup expired', Accepted(t)'
               PROVE  \E r \in rows' : r.task = t /\ Safe(r)'
    BY Zenon DEF SafeInv
  <1>1. PICK r \in rows : r.task = t /\ Safe(r)
    BY Zenon DEF SafeInv
  <1>2. /\ r \in rows' /\ row'.ack < r.id /\ \A c \in late' : c.ack < r.id
        /\ Beyond(h, r)
    BY Zenon, <1>1
  <1>3. mgr'[m] = h /\ \A n \in Managers \ {m} : mgr'[n] = mgr[n]
    BY Zenon DEF Types
  <1>4. \A n \in Managers : Beyond(mgr'[n], r)
    BY Zenon, <1>1, <1>2, <1>3 DEF Safe
  <1>5. Safe(r)'
    BY Zenon, <1>2, <1>4 DEF Safe
  <1> QED
    BY Zenon, <1>1, <1>2, <1>5

-----------------------------------------------------------------------------
(* Steps that take no new ID and write no task *)

Calls == [prev : Nat, range : Nat, ack : Nat, tasks : SUBSET Rows]

\* The store keeps its lease, and takes no ack level that nobody had.
StoreKeeps ==
    /\ row' \in [range : Nat, ack : Nat] /\ row'.range = row.range
    /\ late' \in SUBSET Calls
    /\ \A c \in late' : CallInv(c) /\ c.prev <= row.range /\ CallClaims(c) \subseteq Claims
    /\ created \subseteq created' /\ created' \subseteq Claims
    /\ \A x \in Nat : LevelsUpTo(x) => row'.ack <= x /\ \A c \in late' : c.ack <= x
    /\ \A r \in Rows : Safe(r) => row'.ack < r.id /\ \A c \in late' : c.ack < r.id

Quiet(g, h) ==
    /\ h \in Manager /\ LocalInv(h) /\ Grows(g, h)
    /\ Alive(h) => /\ Alive(g) /\ h.range = g.range /\ h.block.end = g.block.end
                   /\ g.block.start <= h.block.start /\ g.maxRead <= h.maxRead
    /\ h.seen.range <= g.seen.range /\ h.st # "leasing"
    /\ BatchClaims(h) \subseteq BatchClaims(g)

Knows(g, h) ==
    /\ h.held \cup h.reading \subseteq g.held \cup g.reading \cup rows
    /\ \A q \in RequestsOf(h) :
           \/ q \in RequestsOf(g) \/ q.of = 0
           \/ \E r \in g.held : q = Request(r.task, r.id)

\* A step that leaves the store alone is one of StoreKeeps.
LEMMA StoreUnchanged ==
    ASSUME QueueInv, UNCHANGED <<row, late, created>>
    PROVE  StoreKeeps
  <1>1. Types /\ LeaseInv
    BY Zenon DEF QueueInv
  <1>2. \A c \in late : CallInv(c) /\ c.prev <= row.range
    BY Zenon, <1>1 DEF LeaseInv
  <1>3. created \subseteq Claims /\ \A c \in late : CallClaims(c) \subseteq Claims
    BY Zenon DEF Claims
  <1>4. row \in [range : Nat, ack : Nat] /\ late \in SUBSET Calls
    BY Zenon, <1>1 DEF Types, Calls
  <1>5. row' = row /\ late' = late /\ created' = created
    OBVIOUS
  <1> QED
    BY Zenon, <1>2, <1>3, <1>4, <1>5 DEF StoreKeeps, LevelsUpTo, Safe

\* The ack level of a call is one that its manager has.
LEMMA StoreCall ==
    ASSUME QueueInv, NEW m \in Managers, NEW c \in Calls, CallInv(c), c.prev <= row.range,
           CallClaims(c) \subseteq Claims,
           c.ack = mgr[m].ack \/ c.ack = mgr[m].dbAck \/ c.ack = mgr[m].seen.ack,
           TimesOut(c) \/ Refused(c) \/ (c.range = c.prev /\ Succeeds(c))
    PROVE  StoreKeeps
  <1>1. Types /\ LeaseInv
    BY Zenon DEF QueueInv
  <1>2. \A d \in late : CallInv(d) /\ d.prev <= row.range
    BY Zenon, <1>1 DEF LeaseInv
  <1>3. created \subseteq Claims /\ \A d \in late : CallClaims(d) \subseteq Claims
    BY Zenon DEF Claims
  <1>4. row \in [range : Nat, ack : Nat] /\ late \in SUBSET Calls /\ c.ack \in Nat
    BY Zenon, <1>1 DEF Types, Calls
  <1>5. ASSUME NEW x \in Nat, LevelsUpTo(x) PROVE c.ack <= x /\ row.ack <= x /\ \A d \in late : d.ack <= x
    BY Zenon, <1>5 DEF LevelsUpTo, UpTo
  <1>6. ASSUME NEW r \in Rows, Safe(r)
        PROVE  c.ack < r.id /\ row.ack < r.id /\ \A d \in late : d.ack < r.id
    BY Zenon, <1>6 DEF Safe, Beyond
  <1>7. CASE TimesOut(c)
    <2>1. late' = late \cup {c} /\ row' = row /\ created' = created
      BY Zenon, <1>7 DEF TimesOut
    <2>2. late' \in SUBSET Calls /\ \A d \in late' : d \in late \/ d = c
      BY Zenon, <1>4, <2>1
    <2> QED
      BY Zenon, <1>2, <1>3, <1>4, <1>5, <1>6, <2>1, <2>2 DEF StoreKeeps
  <1>8. CASE Refused(c)
    <2>1. UNCHANGED <<row, late, created>>
      BY Zenon, <1>8 DEF Refused, storeVars
    <2> QED
      BY Zenon, <2>1, StoreUnchanged
  <1>9. CASE c.range = c.prev /\ Succeeds(c)
    <2>1. /\ late' = late /\ created' = created \cup CallClaims(c)
          /\ row' \in [range : Nat, ack : Nat] /\ row'.range = row.range
          /\ row'.ack = c.ack \/ row'.ack = row.ack
      <3>1. PICK a : row' = [range |-> c.range, ack |-> a] /\ (a = c.ack \/ a = row.ack)
        BY Zenon, <1>9 DEF Succeeds, Apply
      <3>2. c.range = row.range /\ row.range \in Nat /\ row.ack \in Nat
        BY Zenon, <1>4, <1>9 DEF Succeeds, Apply
      <3> QED
        BY Zenon, <1>4, <1>9, <3>1, <3>2 DEF Succeeds, Apply, CallClaims
    <2>2. /\ \A x \in Nat : LevelsUpTo(x) => row'.ack <= x /\ \A d \in late' : d.ack <= x
          /\ \A r \in Rows : Safe(r) => row'.ack < r.id /\ \A d \in late' : d.ack < r.id
      BY Zenon, <1>5, <1>6, <2>1
    <2> QED
      BY Zenon, <1>2, <1>3, <1>4, <2>1, <2>2 DEF StoreKeeps
  <1> QED
    BY Zenon, <1>7, <1>8, <1>9

\* A step that hands out no ID and claims no row keeps the types, LeaseInv and ClaimInv.
LEMMA QuietStep ==
    ASSUME QueueInv, NEW m \in Managers, NEW h, mgr' = [mgr EXCEPT ![m] = h],
           StoreKeeps, Quiet(mgr[m], h), rows' \in SUBSET Rows,
           promised' \in SUBSET Tasks, started' \in SUBSET Tasks, expired' \in SUBSET Tasks
    PROVE  Types' /\ LeaseInv' /\ ClaimInv'
  <1>1. Types /\ LeaseInv /\ ClaimInv
    BY Zenon DEF QueueInv
  <1>2. h \in Manager /\ row.range \in Nat /\ row'.range = row.range /\ mgr[m] \in Manager
    BY Zenon, <1>1 DEF Quiet, StoreKeeps, Types
  <1>3. Types'
    <2>1. mgr' \in [Managers -> Manager]
      BY Zenon, <1>1, <1>2 DEF Types
    <2>2. created' \in SUBSET [id : Nat, task : Tasks, lease : Nat]
      BY Zenon, <1>1, ClaimTypes DEF StoreKeeps
    <2> QED
      BY Zenon, <2>1, <2>2 DEF Types, StoreKeeps, Calls
  <1>4. LeaseInv'
    <2>1. LocalInv(h) /\ Advances(mgr[m], h)
      BY Zenon DEF Quiet, Advances
    <2>2. row.range <= row'.range /\ row'.range <= MaxRange
      BY <1>1, <1>2 DEF LeaseInv
    <2>3. ASSUME NEW x \in Nat, LevelsUpTo(x), Alive(mgr[m]) => mgr[m].maxRead <= x
          PROVE  UpTo(h, x) /\ row'.ack <= x /\ \A c \in late' : c.ack <= x
      BY Zenon, <2>3 DEF StoreKeeps, Quiet, Grows, LevelsUpTo
    <2>4. \A c \in late' : CallInv(c) /\ c.prev <= row'.range
      BY Zenon, <1>2 DEF StoreKeeps
    <2>5. h.seen.range <= row'.range /\ (h.st = "leasing" => h.seen.range < MaxRange)
      <3>1. mgr[m].seen.range <= row.range /\ mgr[m].seen.range \in Nat /\ h.seen.range \in Nat
        BY Zenon, <1>1, <1>2 DEF LeaseInv, Manager
      <3>2. h.seen.range <= mgr[m].seen.range /\ h.st # "leasing"
        BY Zenon DEF Quiet
      <3> QED
        BY <1>2, <3>1, <3>2
    <2> QED
      BY ZenonT(60), <1>1, <1>2, <1>3, <2>1, <2>2, <2>3, <2>4, <2>5, LeaseStep
  <1>5. ClaimInv'
    <2>1. BatchClaims(h) \subseteq Claims
      BY Zenon DEF Quiet, Claims
    <2>2. row.range <= row'.range
      BY <1>2
    <2> QED
      BY Zenon, <1>1, <1>2, <1>3, <2>1, <2>2, ClaimKeep DEF StoreKeeps, Quiet
  <1> QED
    BY Zenon, <1>3, <1>4, <1>5

\* A task is accepted only by a new answer.
LEMMA AcceptKeep ==
    ASSUME Types, NEW m \in Managers, NEW h, mgr' = [mgr EXCEPT ![m] = h], promised' = promised,
           \A p \in h.replies : p.ok => p \in mgr[m].replies, NEW t \in Tasks, Accepted(t)'
    PROVE  Accepted(t)
  <1>1. mgr'[m] = h /\ \A n \in Managers \ {m} : mgr'[n] = mgr[n]
    BY Zenon DEF Types
  <1> QED
    BY Zenon, <1>1 DEF Accepted

\* What is left to show of a step that writes no task
LEMMA RestStep ==
    ASSUME QueueInv, NEW m \in Managers, NEW h \in Manager, mgr' = [mgr EXCEPT ![m] = h],
           Types', LeaseInv', ClaimInv', Knows(mgr[m], h), created \subseteq created', rows' \subseteq rows,
           promised' = promised, started \subseteq started', expired' = expired,
           \A p \in h.replies : p.ok => p \in mgr[m].replies,
           \A r \in rows : Safe(r) /\ r.task \notin started' \cup expired => r \in rows' /\ Beyond(h, r),
           \A r \in rows : Safe(r) => row'.ack < r.id /\ \A c \in late' : c.ack < r.id
    PROVE  QueueInv'
  <1>1. Types /\ KnownInv /\ SafeInv
    BY Zenon DEF QueueInv
  <1>2. KnownInv'
    <2>1. IsFiniteSet(rows')
      BY Zenon, <1>1, SubsetFinite DEF KnownInv
    <2> QED
      BY Zenon, <1>1, <2>1, KnownStep DEF Knows
  <1>3. SafeInv'
    <2>1. \A t \in Tasks : Accepted(t)' => Accepted(t)
      BY Zenon, <1>1, AcceptKeep
    <2>2. ASSUME NEW r \in rows, Safe(r), r.task \notin started' \cup expired'
          PROVE  /\ r \in rows' /\ row'.ack < r.id /\ \A c \in late' : c.ack < r.id
                 /\ Beyond(h, r)
      BY Zenon, <2>2
    <2> QED
      BY Zenon, <1>1, <2>1, <2>2, SafeKeep
  <1> QED
    BY Zenon, <1>2, <1>3 DEF QueueInv

\* A step of a manager that takes no ID and writes no task
LEMMA OrdinaryStep ==
    ASSUME QueueInv, NEW m \in Managers, NEW h, mgr' = [mgr EXCEPT ![m] = h],
           StoreKeeps, Quiet(mgr[m], h), Knows(mgr[m], h), rows' \subseteq rows,
           promised' = promised, started' \in SUBSET Tasks, started \subseteq started', expired' = expired,
           \A p \in h.replies : p.ok => p \in mgr[m].replies,
           \A r \in rows : Safe(r) /\ r.task \notin started' \cup expired => r \in rows' /\ Beyond(h, r)
    PROVE  QueueInv'
  <1>1. Types /\ KnownInv /\ SafeInv /\ h \in Manager
    BY Zenon DEF QueueInv, Quiet
  <1>2. Types' /\ LeaseInv' /\ ClaimInv'
    BY Zenon, <1>1, QuietStep DEF Types
  <1>3. ASSUME NEW r \in rows, Safe(r) PROVE row'.ack < r.id /\ \A c \in late' : c.ack < r.id
    BY Zenon, <1>1, <1>3 DEF StoreKeeps, Types
  <1> QED
    BY Zenon, <1>1, <1>2, <1>3, RestStep DEF StoreKeeps

\* Manager g becomes h and keeps its place in the queue: the reader and the
\* ack manager stay where they are.
Similar(g, h) ==
    /\ g \in Manager /\ h \in Manager
    /\ \/ Alive(g) /\ Alive(h)
       \/ g.st = "stopped" /\ h.st = "stopped" /\ h.dbAck = g.dbAck /\ h.queue = {}
    /\ h.seen = g.seen /\ h.range = g.range /\ h.maxRead = g.maxRead /\ h.read = g.read
    /\ h.ack = g.ack /\ h.open = g.open /\ h.acked = g.acked /\ h.batch = g.batch
    /\ h.reading = g.reading /\ h.held \subseteq g.held
    /\ h.block.end = g.block.end /\ g.block.start <= h.block.start
    /\ h.block.start <= g.block.end + 1 \/ h.block = g.block
    /\ h.wpc = g.wpc \/ (g.wpc = "write" /\ h.wpc = "publish")
    /\ h.dbAck = g.dbAck \/ h.dbAck = g.ack
    /\ h.collecting = g.collecting \/ h.collecting = g.ack \/ h.collecting = NoGC
    /\ IsFiniteSet(h.queue)
    /\ \A q \in h.queue : \/ q \in RequestsOf(g) \/ q.of = 0
                          \/ \E r \in g.held : q = Request(r.task, r.id)
    /\ \A p \in h.replies : \/ p \in g.replies
                            \/ ~p.ok /\ p.req.of # 0 /\ p.req \in RequestsOf(g)

\* The requests of a similar manager are those it had, new ones, or of rows it holds.
LEMMA SimilarRequests ==
    ASSUME NEW g, NEW h, Similar(g, h), NEW q \in RequestsOf(h)
    PROVE  \/ q \in RequestsOf(g) \/ q.of = 0
           \/ \E r \in g.held : q = Request(r.task, r.id)
  BY ZenonT(60) DEF Similar, RequestsOf

\* A similar manager is up to where it was.
LEMMA SimilarUpTo ==
    ASSUME NEW g, NEW h, Similar(g, h), NEW x \in Nat, UpTo(g, x)
    PROVE  UpTo(h, x)
  <1>1. \A q \in RequestsOf(h) : q.of <= x
    BY SMTT(60), SimilarRequests DEF UpTo, Request
  <1>2. h.dbAck <= x /\ h.collecting <= x
    BY DEF Similar, UpTo, NoGC
  <1>3. /\ h.ack <= x /\ h.seen.ack <= x /\ h.read <= x
        /\ \A i \in h.open \cup h.acked : i <= x
        /\ \A r \in h.held : r.id <= x
    BY Zenon DEF Similar, UpTo
  <1> QED
    BY Zenon, <1>1, <1>2, <1>3 DEF UpTo

\* A step to a similar manager is quiet, learns nothing, accepts nothing and passes no row.
LEMMA SimilarIsQuiet ==
    ASSUME NEW g, NEW h, Similar(g, h), LocalInv(g)
    PROVE  /\ Quiet(g, h) /\ Knows(g, h)
           /\ \A p \in h.replies : p.ok => p \in g.replies
           /\ \A r \in Rows : Beyond(g, r) => Beyond(h, r)
  <1>1. Knows(g, h)
    <2>1. h.held \cup h.reading \subseteq g.held \cup g.reading \cup rows
      BY Zenon DEF Similar
    <2> QED
      BY Zenon, <2>1, SimilarRequests DEF Knows
  <1>2. ASSUME NEW r \in Rows, Beyond(g, r) PROVE Beyond(h, r)
    <2>1. /\ h.ack < r.id /\ h.dbAck < r.id /\ h.seen.ack < r.id /\ h.collecting < r.id
      BY <1>2 DEF Beyond, Similar, NoGC, Rows
    <2>2. \A p \in h.replies : p.ok => p.req.of # r.id
      BY Zenon, <1>2 DEF Beyond, Similar
    <2> QED
      BY ZenonT(60), <1>2, <2>1, <2>2 DEF Beyond, Similar
  <1>3. Grows(g, h)
    BY Zenon, SimilarUpTo DEF Grows
  <1>4. LocalInv(h)
    <2>1. \A p \in h.replies : p.req.of = 0 => p.ok
      BY Zenon DEF Similar, LocalInv
    <2>2. IsFiniteSet(h.queue) /\ IsFiniteSet(h.batch) /\ h.st \notin {"new", "leasing"}
      BY Zenon DEF Similar, LocalInv, Alive
    <2>3. CASE h.st = "stopped"
      <3>1. g.st = "stopped"
        BY Zenon, <2>3 DEF Similar, Alive
      <3>2. h.read = -1 /\ h.queue = {} /\ h.batch = {} /\ h.reading = {}
        BY Zenon, <2>3, <3>1 DEF Similar, LocalInv, Alive
      <3> QED
        BY Zenon, <2>1, <2>2, <2>3, <3>2 DEF LocalInv, Alive
    <2>4. CASE Alive(h)
      <3>1. AliveInv(g) /\ g \in Manager /\ h \in Manager
        BY Zenon, <2>4 DEF Similar, LocalInv, Alive
      <3>2. UpTo(h, h.maxRead)
        BY ZenonT(60), <3>1, SimilarUpTo DEF Similar, AliveInv, Manager
      <3>3. /\ g.block.start \in Nat /\ h.block.start \in Nat /\ g.block.end \in Nat
            /\ (g.range - 1) * RangeSize \in Int /\ g.maxRead \in Nat
            /\ \A e \in g.batch : e.id \in Nat
        BY SMTT(60), <3>1, MatchingBounds DEF Manager
      <3>4. /\ h.range >= 1 /\ h.block.end = h.range * RangeSize
            /\ (h.range - 1) * RangeSize < h.block.start /\ h.block.start <= h.block.end + 1
            /\ h.maxRead < h.block.start
            /\ \A e \in h.batch : h.maxRead < e.id /\ e.id < h.block.start
        BY <3>1, <3>3 DEF Similar, AliveInv
      <3>5. h.wpc = "idle" <=> h.batch = {}
        BY Zenon, <3>1 DEF Similar, AliveInv
      <3>6. /\ 0 <= h.ack
            /\ \A r \in h.reading : h.read < r.id /\ r.id <= h.maxRead
            /\ \A i \in h.open : i <= h.read
        BY Zenon, <3>1 DEF Similar, AliveInv
      <3>7. AliveInv(h)
        BY ZenonT(60), <3>2, <3>4, <3>5, <3>6 DEF AliveInv
      <3> QED
        BY Zenon, <2>1, <2>2, <2>4, <3>7 DEF LocalInv, Alive
    <2> QED
      BY Zenon, <2>3, <2>4 DEF Similar
  <1>5. /\ h \in Manager /\ h.seen.range <= g.seen.range /\ h.st # "leasing"
        /\ Alive(h) => /\ Alive(g) /\ h.range = g.range /\ h.block.end = g.block.end
                       /\ g.block.start <= h.block.start /\ g.maxRead <= h.maxRead
    BY DEF Similar, Alive, Manager
  <1>6. BatchClaims(h) \subseteq BatchClaims(g)
    BY ZenonT(60) DEF Similar, BatchClaims
  <1>7. Quiet(g, h)
    BY Zenon, <1>3, <1>4, <1>5, <1>6 DEF Quiet
  <1> QED
    BY Zenon, <1>1, <1>2, <1>7 DEF Similar

\* So it keeps the invariant.
LEMMA SimilarStep ==
    ASSUME QueueInv, NEW m \in Managers, NEW h, mgr' = [mgr EXCEPT ![m] = h],
           StoreKeeps, Similar(mgr[m], h), rows' = rows, UNCHANGED <<promised, started, expired>>
    PROVE  QueueInv'
  <1>1. LocalInv(mgr[m]) /\ rows \in SUBSET Rows /\ started \in SUBSET Tasks
    BY Zenon DEF QueueInv, LeaseInv, Types
  <1>2. /\ Quiet(mgr[m], h) /\ Knows(mgr[m], h)
        /\ \A p \in h.replies : p.ok => p \in mgr[m].replies
        /\ \A r \in Rows : Beyond(mgr[m], r) => Beyond(h, r)
    BY Zenon, <1>1, SimilarIsQuiet
  <1>3. \A r \in rows : Safe(r) => Beyond(h, r)
    BY ZenonT(60), <1>1, <1>2 DEF Safe
  <1> QED
    BY Zenon, <1>1, <1>2, <1>3, OrdinaryStep

\* A manager is similar to itself.
LEMMA SimilarSelf ==
    ASSUME NEW g \in Manager, Alive(g) \/ g.st = "stopped", LocalInv(g)
    PROVE  Similar(g, g)
  <1>1. IsFiniteSet(g.queue) /\ (g.st = "stopped" => g.queue = {})
    BY Zenon DEF LocalInv
  <1>2. g.block \in [start : Nat, end : Nat]
    BY Zenon DEF Manager
  <1> QED
    BY SMTT(60), <1>1, <1>2 DEF Similar, RequestsOf

\* Fields that a step may change without moving the manager
LEMMA SimilarSmall ==
    ASSUME NEW g \in Manager, NEW h, Similar(g, h), NEW b \in BOOLEAN
    PROVE  /\ Similar(g, [h EXCEPT !.signal = b])
           /\ Similar(g, Unload(h))
           /\ Alive(g) => Similar(g, [h EXCEPT !.dbAck = IF 0 <= g.ack THEN g.ack ELSE @])
  <1>1. h \in Manager
    BY Zenon DEF Similar
  <1>2. Similar(g, [h EXCEPT !.signal = b])
    <2>1. [h EXCEPT !.signal = b] \in Manager
      BY SMTT(60), <1>1 DEF Manager
    <2> QED
      BY SMTT(60), <1>1, <2>1 DEF Similar, Manager, Alive
  <1>3. Similar(g, Unload(h))
    <2>1. Unload(h) \in Manager
      BY SMTT(60), <1>1 DEF Manager, Unload, ManagerStates
    <2>2. /\ Alive(h) => Alive(Unload(h))
          /\ h.st = "stopped" => Unload(h).st = "stopped"
      BY ZenonT(60), <1>1 DEF Manager, Unload, Alive
    <2> QED
      BY SMTT(60), <1>1, <2>1, <2>2 DEF Similar, Manager, Unload
  <1>4. ASSUME Alive(g) PROVE Similar(g, [h EXCEPT !.dbAck = IF 0 <= g.ack THEN g.ack ELSE @])
    <2>1. [h EXCEPT !.dbAck = IF 0 <= g.ack THEN g.ack ELSE @] \in Manager
      BY SMTT(60), <1>1 DEF Manager
    <2> QED
      BY SMTT(60), <1>1, <1>4, <2>1 DEF Similar, Manager, Alive
  <1> QED
    BY Zenon, <1>2, <1>3, <1>4

\* Closing does not move a manager that has its lease.
LEMMA SimilarClosing ==
    ASSUME NEW g \in Manager, NEW h, Similar(g, h), Alive(g)
    PROVE  Similar(g, [h EXCEPT !.st = "closing"])
  <1>1. h \in Manager
    BY Zenon DEF Similar
  <1>2. [h EXCEPT !.st = "closing"] \in Manager
    BY ZenonT(60), <1>1, FieldTypes DEF ManagerStates
  <1> QED
    BY ZenonT(60), <1>1, <1>2 DEF Similar, Manager, Alive

\* Only a manager that has had a lease has tasks or answers.
LEMMA Busy ==
    ASSUME NEW g \in Manager, LocalInv(g), g.held # {} \/ g.replies # {}
    PROVE  Alive(g) \/ g.st = "stopped"
  <1>1. g.st \notin {"new", "leasing"}
    BY ZenonT(60) DEF LocalInv, NewManager, Manager
  <1> QED
    BY Zenon, <1>1 DEF Manager, ManagerStates, Alive

\* A manager is similar to itself with an answer taken.
LEMMA AnsweredSimilar ==
    ASSUME NEW g \in Manager, LocalInv(g), NEW p \in g.replies
    PROVE  Similar(g, [g EXCEPT !.replies = @ \ {p}])
  <1> DEFINE h == [g EXCEPT !.replies = @ \ {p}]
  <1>1. Similar(g, g)
    BY Zenon, Busy, SimilarSelf
  <1>2. g.replies \ {p} \in SUBSET [req : Requests, ok : BOOLEAN]
    BY Zenon DEF Manager
  <1>3. h \in Manager
    BY Zenon, <1>2, FieldTypes
  <1> QED
    BY Zenon, <1>1, <1>3 DEF Similar, Manager, Alive

\* A request whose ID could not be had, or whose write failed, is answered.
LEMMA AnswerTypes ==
    ASSUME NEW g \in Manager, NEW R, R \subseteq RequestsOf(g)
    PROVE  /\ Answer(R, FALSE) \subseteq [req : Requests, ok : BOOLEAN]
           /\ Answer(R, TRUE) \subseteq [req : Requests, ok : BOOLEAN]
           /\ \A p \in Answer(R, FALSE) : ~p.ok /\ p.req.of # 0 /\ p.req \in RequestsOf(g)
           /\ \A p \in Answer(R, TRUE) : p.ok /\ p.req \in R
  <1>1. RequestsOf(g) \subseteq Requests
    BY SMTT(60) DEF RequestsOf, Manager
  <1>2. /\ Answer(R, TRUE) = {[req |-> q, ok |-> TRUE] : q \in R}
        /\ Answer(R, FALSE) = {[req |-> q, ok |-> FALSE] : q \in {s \in R : s.of # 0}}
    BY Zenon DEF Answer
  <1>3. ASSUME NEW p \in Answer(R, TRUE)
        PROVE  p \in [req : Requests, ok : BOOLEAN] /\ p.ok /\ p.req \in R
    <2>1. PICK q \in R : p = [req |-> q, ok |-> TRUE]
      BY Zenon, <1>2
    <2> QED
      BY Zenon, <1>1, <2>1
  <1>4. ASSUME NEW p \in Answer(R, FALSE)
        PROVE  p \in [req : Requests, ok : BOOLEAN] /\ ~p.ok /\ p.req.of # 0 /\ p.req \in RequestsOf(g)
    <2>1. PICK q \in R : q.of # 0 /\ p = [req |-> q, ok |-> FALSE]
      BY Zenon, <1>2
    <2> QED
      BY Zenon, <1>1, <2>1
  <1> QED
    BY Zenon, <1>3, <1>4

-----------------------------------------------------------------------------
(* The reader *)

\* The reader of manager g, or its ack manager, moves within the read level.
Reads(g, h) ==
    /\ h \in Manager /\ h.st = g.st /\ h.seen = g.seen /\ h.range = g.range /\ h.dbAck = g.dbAck
    /\ h.block = g.block /\ h.maxRead = g.maxRead /\ h.acked = g.acked
    /\ h.queue = g.queue /\ h.wpc = g.wpc /\ h.batch = g.batch /\ h.replies = g.replies
    /\ h.collecting = g.collecting
    /\ h.held \cup h.reading \subseteq g.held \cup g.reading \cup rows
    /\ 0 <= h.ack /\ h.ack <= g.maxRead /\ h.read <= g.maxRead
    /\ \A i \in h.open : i <= h.read
    /\ \A r \in h.held : r.id <= g.maxRead
    /\ \A r \in h.reading : h.read < r.id /\ r.id <= g.maxRead

\* A step of the reader that passes no safe row keeps the invariant.
LEMMA ReaderStep ==
    ASSUME QueueInv, NEW m \in Managers, Alive(mgr[m]), NEW h, Reads(mgr[m], h),
           mgr' = [mgr EXCEPT ![m] = h], UNCHANGED <<storeVars, taskVars>>,
           \A r \in rows : Safe(r) /\ r.task \notin started \cup expired => Beyond(h, r)
    PROVE  QueueInv'
  <1> DEFINE g == mgr[m]
  <1>1. /\ g \in Manager /\ LocalInv(g) /\ AliveInv(g) /\ g.maxRead \in Nat
        /\ rows \in SUBSET Rows /\ started \in SUBSET Tasks
    BY Zenon, Facts DEF QueueInv, Types, Manager
  <1>2. StoreKeeps /\ rows' = rows /\ UNCHANGED <<promised, started, expired>>
    BY Zenon, StoreUnchanged DEF storeVars, taskVars
  <1>3. RequestsOf(h) = RequestsOf(g) /\ BatchClaims(h) = BatchClaims(g) /\ Alive(h)
    BY ZenonT(60) DEF Reads, RequestsOf, BatchClaims, Alive
  <1>4. ASSUME NEW x \in Nat, UpTo(g, x), g.maxRead <= x PROVE UpTo(h, x)
    <2>1. h.ack <= x /\ h.read <= x /\ (\A r \in h.held : r.id <= x) /\ \A i \in h.open : i <= x
      <3>1. /\ h.ack \in Int /\ h.read \in Int /\ (\A r \in h.held : r.id \in Int)
            /\ \A i \in h.open : i \in Int
        BY SMTT(60) DEF Reads, Manager, Rows
      <3> QED
        BY SMTT(60), <1>1, <1>4, <3>1 DEF Reads
    <2>2. \A i \in h.open \cup h.acked : i <= x
      BY Zenon, <1>4, <2>1 DEF Reads, UpTo
    <2> QED
      BY ZenonT(60), <1>3, <1>4, <2>1, <2>2 DEF Reads, UpTo
  <1>5. LocalInv(h)
    <2>1. UpTo(h, h.maxRead)
      BY SMTT(60), <1>1, <1>4 DEF AliveInv, Reads
    <2>2. AliveInv(h)
      BY Zenon, <1>1, <2>1 DEF AliveInv, Reads
    <2> QED
      BY ZenonT(60), <1>1, <1>3, <2>2 DEF LocalInv, Reads, Alive
  <1>6. Quiet(g, h)
    <2>1. Grows(g, h)
      BY ZenonT(60), <1>4 DEF Grows
    <2>2. h \in Manager /\ h.seen.range <= g.seen.range /\ h.st # "leasing"
      BY SMTT(60), <1>1, <1>3 DEF Reads, Alive, Manager
    <2>3. /\ h.range = g.range /\ h.block.end = g.block.end
          /\ g.block.start <= h.block.start /\ g.maxRead <= h.maxRead
      BY SMTT(60), <1>1 DEF Reads, Manager
    <2> QED
      BY ZenonT(60), <1>3, <1>5, <2>1, <2>2, <2>3 DEF Quiet
  <1>7. Knows(g, h)
    BY Zenon, <1>3 DEF Knows, Reads
  <1>8. \A p \in h.replies : p.ok => p \in g.replies
    BY Zenon DEF Reads
  <1> QED
    BY ZenonT(60), <1>1, <1>2, <1>6, <1>7, <1>8, OrdinaryStep

\* The row of an ID is the one that has been read.
LEMMA OneRow ==
    ASSUME QueueInv, NEW m \in Managers, NEW s \in rows, NEW r \in mgr[m].reading, s.id = r.id
    PROVE  s = r
  <1>1. PICK x \in created : x.id = r.id /\ x.task = r.task
    BY Zenon DEF QueueInv, KnownInv, Known
  <1>2. PICK y \in created : y.id = s.id /\ y.task = s.task
    BY Zenon DEF QueueInv, KnownInv, Known
  <1>3. x.id = y.id => x = y
    BY Zenon DEF QueueInv, ClaimInv, Claims
  <1>4. r \in Rows /\ s \in Rows
    BY Zenon DEF QueueInv, Types, Manager
  <1> QED
    BY SMTT(60), <1>1, <1>2, <1>3, <1>4 DEF Rows

\* A task that goes from the reader to the buffer keeps the invariant.
LEMMA AddTaskToBufferStep ==
    ASSUME QueueInv, NEW m \in Managers, AddTaskToBuffer(m)
    PROVE  QueueInv'
  <1> DEFINE g == mgr[m]
  <1>1. PICK r \in g.reading :
            /\ \A q \in g.reading : r.id <= q.id
            /\ LET k == [g EXCEPT !.read = r.id, !.reading = @ \ {r}, !.signal = @ \/ g.reading = {r}]
               IN  mgr' = [mgr EXCEPT ![m] = IF r.task \in expired THEN k
                            ELSE [k EXCEPT !.open = @ \cup {r.id}, !.held = @ \cup {r}]]
    BY Zenon DEF AddTaskToBuffer
  <1> DEFINE sig == g.signal \/ g.reading = {r}
             k == [g EXCEPT !.read = r.id, !.reading = @ \ {r}, !.signal = sig]
             j == [k EXCEPT !.open = @ \cup {r.id}, !.held = @ \cup {r}]
             h == IF r.task \in expired THEN k ELSE j
  <1>2. mgr' = [mgr EXCEPT ![m] = h] /\ UNCHANGED <<storeVars, taskVars>> /\ Alive(g)
    BY ZenonT(60), <1>1, Facts DEF AddTaskToBuffer
  <1>3. g \in Manager /\ AliveInv(g) /\ r \in Rows /\ r.id \in Nat /\ g.maxRead \in Nat
    BY ZenonT(60), <1>2, Facts DEF Manager, Rows
  <1>4. g.read < r.id /\ r.id <= g.maxRead /\ g.read \in Int
    BY Zenon, <1>3 DEF AliveInv, Manager
  <1>5. sig \in BOOLEAN
    BY ZenonT(60) DEF sig
  <1> HIDE DEF sig
  <1>6. /\ k \in Manager /\ k.st = g.st /\ k.seen = g.seen /\ k.range = g.range /\ k.dbAck = g.dbAck
        /\ k.block = g.block /\ k.maxRead = g.maxRead /\ k.acked = g.acked /\ k.ack = g.ack
        /\ k.queue = g.queue /\ k.wpc = g.wpc /\ k.batch = g.batch /\ k.replies = g.replies
        /\ k.collecting = g.collecting /\ k.held = g.held /\ k.open = g.open
        /\ k.reading = g.reading \ {r} /\ k.read = r.id
    <2> DEFINE R == g.reading \ {r}
    <2>1. R \in SUBSET Rows /\ k = [g EXCEPT !.read = r.id, !.reading = R, !.signal = sig]
      BY ZenonT(60), <1>3 DEF Manager
    <2> HIDE DEF R, k
    <2>2. [g EXCEPT !.read = r.id] \in Manager
      BY SMTT(60), <1>3 DEF Manager
    <2>3. [g EXCEPT !.read = r.id, !.reading = R] \in Manager
      BY ZenonT(60), <2>1, <2>2, FieldTypes
    <2>4. k \in Manager
      BY ZenonT(60), <1>5, <2>1, <2>3, FieldTypes
    <2> QED
      BY SMTT(60), <1>3, <2>1, <2>4 DEF Manager, R
  <1> HIDE DEF k
  <1>7. /\ j \in Manager /\ j.st = g.st /\ j.seen = g.seen /\ j.range = g.range /\ j.dbAck = g.dbAck
        /\ j.block = g.block /\ j.maxRead = g.maxRead /\ j.acked = g.acked /\ j.ack = g.ack
        /\ j.queue = g.queue /\ j.wpc = g.wpc /\ j.batch = g.batch /\ j.replies = g.replies
        /\ j.collecting = g.collecting /\ j.held = g.held \cup {r} /\ j.open = g.open \cup {r.id}
        /\ j.reading = g.reading \ {r} /\ j.read = r.id
    <2> DEFINE O == k.open \cup {r.id}
               H == k.held \cup {r}
    <2>1. O \in SUBSET Nat /\ H \in SUBSET Rows /\ j = [k EXCEPT !.open = O, !.held = H]
      BY SMTT(60), <1>3, <1>6 DEF Manager
    <2> HIDE DEF O, H, j
    <2>2. j \in Manager
      BY ZenonT(60), <1>6, <2>1 DEF Manager
    <2> QED
      BY ZenonT(60), <1>6, <2>1, <2>2 DEF Manager, O, H
  <1> HIDE DEF j
  <1>8. /\ h.held \subseteq g.held \cup {r} /\ h.open \subseteq g.open \cup {r.id}
        /\ r.task \notin expired => r.id \in h.open
        /\ g.open \subseteq h.open /\ h.reading = g.reading \ {r} /\ h.read = r.id
        /\ h.ack = g.ack /\ h.dbAck = g.dbAck /\ h.seen = g.seen /\ h.collecting = g.collecting
        /\ h.acked = g.acked /\ h.replies = g.replies
    BY Zenon, <1>6, <1>7
  <1>9. Reads(g, h)
    <2>1. /\ h \in Manager /\ h.st = g.st /\ h.range = g.range
          /\ h.block = g.block /\ h.maxRead = g.maxRead
          /\ h.queue = g.queue /\ h.wpc = g.wpc /\ h.batch = g.batch
      BY ZenonT(60), <1>6, <1>7
    <2> HIDE DEF h
    <2>2. /\ h.held \cup h.reading \subseteq g.held \cup g.reading \cup rows
          /\ 0 <= h.ack /\ h.ack <= g.maxRead /\ h.read <= g.maxRead
      BY ZenonT(60), <1>3, <1>4, <1>8 DEF AliveInv, UpTo
    <2>3. \A i \in h.open : i <= h.read
      BY SMTT(60), <1>3, <1>4, <1>8 DEF AliveInv, Manager
    <2>4. \A q \in h.held : q.id <= g.maxRead
      BY ZenonT(60), <1>3, <1>4, <1>8 DEF AliveInv, UpTo
    <2>5. ASSUME NEW q \in h.reading PROVE h.read < q.id /\ q.id <= g.maxRead
      <3>1. q \in g.reading /\ q # r /\ q \in Rows
        BY ZenonT(60), <1>3, <1>8 DEF Manager
      <3>2. q.id # r.id
        <4>1. PICK x \in created : x.id = r.id /\ x.task = r.task
          BY Zenon DEF QueueInv, KnownInv, Known
        <4>2. PICK y \in created : y.id = q.id /\ y.task = q.task
          BY ZenonT(60), <3>1 DEF QueueInv, KnownInv, Known
        <4>3. x.id = y.id => x = y
          BY Zenon DEF QueueInv, ClaimInv, Claims
        <4> QED
          BY SMTT(60), <1>3, <3>1, <4>1, <4>2, <4>3 DEF Rows
      <3>3. r.id <= q.id /\ q.id <= g.maxRead /\ q.id \in Nat
        BY ZenonT(60), <1>1, <1>3, <3>1 DEF AliveInv, Rows
      <3> QED
        BY SMTT(60), <1>3, <1>8, <3>2, <3>3
    <2> QED
      BY SMTT(60), <1>8, <2>1, <2>2, <2>3, <2>4, <2>5 DEF Reads
  <1> HIDE DEF h
  <1>10. ASSUME NEW s \in rows, Safe(s), s.task \notin started \cup expired PROVE Beyond(h, s)
    <2>1. Beyond(g, s) /\ s.id \in Nat
      BY ZenonT(60), <1>10 DEF Safe, QueueInv, Types, Rows
    <2>2. CASE r.id < s.id
      BY SMTT(60), <1>3, <1>4, <1>8, <2>1, <2>2 DEF Beyond
    <2>3. CASE s.id <= r.id
      <3>1. CASE s.id \in g.open
        <4>1. s.id <= g.read
          BY ZenonT(60), <1>3, <3>1 DEF AliveInv
        <4>2. ~(h.read < s.id)
          BY SMTT(60), <1>3, <1>4, <1>8, <2>1, <4>1
        <4> QED
          BY ZenonT(60), <1>8, <2>1, <3>1, <4>2 DEF Beyond
      <3>2. CASE s.id \notin g.open
        <4>1. s \in g.reading
          BY ZenonT(60), <2>1, <2>3, <3>2 DEF Beyond
        <4>2. s.id = r.id
          BY SMTT(60), <1>1, <1>3, <2>1, <2>3, <4>1
        <4>3. s = r
          BY ZenonT(60), <4>2, OneRow
        <4>4. s.id \in h.open /\ ~(h.read < s.id)
          BY SMTT(60), <1>3, <1>8, <1>10, <4>3
        <4> QED
          BY ZenonT(60), <1>8, <2>1, <4>4 DEF Beyond
      <3> QED
        BY ZenonT(60), <3>1, <3>2
    <2> QED
      BY SMTT(60), <1>3, <2>1, <2>2, <2>3
  <1> QED
    BY ZenonT(60), <1>2, <1>9, <1>10, ReaderStep

\* A page has every row below its last one.
LEMMA PageDownward ==
    ASSUME Counting,
           NEW found \in SUBSET Rows, IsFiniteSet(found), NEW s \in found, NEW q \in Page(found), s.id <= q.id
    PROVE  s \in Page(found)
  <1> DEFINE below(r) == {p \in found : p.id < r.id}
  <1>1. q \in found /\ Cardinality(below(q)) < BatchSize
    BY Zenon DEF Page
  <1>2. below(s) \in SUBSET below(q)
    BY SMTT(60), <1>1 DEF Rows
  <1>3. IsFiniteSet(below(q)) /\ IsFiniteSet(below(s))
    BY Zenon, SubsetFinite
  <1> HIDE DEF below
  <1>4. Cardinality(below(s)) <= Cardinality(below(q))
    BY Zenon, <1>2, <1>3 DEF Counting
  <1>5. Cardinality(below(s)) \in Nat /\ Cardinality(below(q)) \in Nat /\ BatchSize \in Nat
    BY ZenonT(60), <1>3, MatchingBounds DEF Counting
  <1>6. Cardinality(below(s)) < BatchSize
    BY SMTT(60), <1>1, <1>4, <1>5
  <1> QED
    BY Zenon, <1>6 DEF Page, below

\* A read of the store keeps the invariant: it passes only IDs that have no row.
LEMMA GetTaskBatchStep ==
    ASSUME LeastElement, Counting, QueueInv, NEW m \in Managers, GetTaskBatch(m)
    PROVE  QueueInv'
  <1> DEFINE g == mgr[m]
             upper(k) == Min({g.maxRead, g.read + k * RangeSize})
             found(k) == {r \in rows : g.read < r.id /\ r.id <= upper(k)}
             hits == {k \in 1 .. ReadsPerPump : found(k) # {}}
             level == IF g.read < g.maxRead THEN upper(ReadsPerPump) ELSE g.read
             gap == SetReadLevelAfterGap(g, level)
             none == [gap EXCEPT !.signal = level # g.maxRead]
             some == [g EXCEPT !.reading = Page(found(Min(hits))), !.signal = FALSE]
  <1>1. Alive(g) /\ g.reading = {} /\ UNCHANGED <<storeVars, taskVars>>
    BY Zenon, Facts DEF GetTaskBatch
  <1>2. mgr' = [mgr EXCEPT ![m] = IF hits = {} THEN none ELSE some]
    BY ZenonT(60) DEF GetTaskBatch
  <1>3. /\ g \in Manager /\ AliveInv(g) /\ g.read \in Int /\ g.maxRead \in Nat /\ g.ack \in Int
        /\ rows \in SUBSET Rows /\ IsFiniteSet(rows)
        /\ RangeSize \in Nat \ {0} /\ ReadsPerPump \in Nat \ {0}
    <2>1. g \in Manager /\ AliveInv(g)
      BY Zenon, <1>1, Facts
    <2>2. g.read \in Int /\ g.maxRead \in Nat /\ g.ack \in Int
      BY Zenon, <2>1 DEF Manager
    <2>3. rows \in SUBSET Rows /\ IsFiniteSet(rows)
      BY Zenon DEF QueueInv, Types, KnownInv
    <2> QED
      BY Zenon, <2>1, <2>2, <2>3, MatchingBounds
  <1>4. /\ 0 <= g.ack /\ g.ack <= g.maxRead /\ g.read <= g.maxRead
        /\ \A i \in g.open : i <= g.read
        /\ \A r \in g.held : r.id <= g.maxRead
    BY Zenon, <1>3 DEF AliveInv, UpTo
  <1>5. ASSUME NEW k \in 1 .. ReadsPerPump
        PROVE  /\ upper(k) \in Int /\ upper(k) <= g.maxRead
               /\ g.read <= upper(k)
    <2>1. g.read + k * RangeSize \in Int /\ g.read <= g.read + k * RangeSize
      <3>1. k \in Nat /\ 0 <= k
        BY SMTT(60), <1>3
      <3>2. 0 * RangeSize <= k * RangeSize /\ k * RangeSize \in Nat /\ 0 * RangeSize = 0
        BY SMTT(60), <1>3, <3>1, TopGrows
      <3> QED
        BY SMTT(60), <1>3, <3>2
    <2> DEFINE b == g.read + k * RangeSize
    <2>2. b \in Int /\ g.read <= b
      BY ZenonT(60), <2>1
    <2> HIDE DEF b
    <2>3. /\ Min({g.maxRead, b}) \in Int /\ Min({g.maxRead, b}) <= g.maxRead
          /\ Min({g.maxRead, b}) = g.maxRead \/ Min({g.maxRead, b}) = b
      <3>1. g.maxRead \in Int
        BY SMTT(60), <1>3
      <3> HIDE DEF g
      <3> QED
        BY ZenonT(60), <2>2, <3>1, MinOfTwo
    <2>4. g.read <= Min({g.maxRead, b})
      BY ZenonT(60), <1>4, <2>2, <2>3
    <2> QED
      BY ZenonT(60), <2>3, <2>4 DEF b
  <1> HIDE DEF upper
  <1>6. level \in Int /\ level <= g.maxRead /\ g.read <= level
    BY SMTT(60), <1>3, <1>4, <1>5
  <1>7. CASE hits = {}
    <2>1. ASSUME NEW s \in rows, g.read < s.id PROVE level < s.id
      <3>1. s.id \in Nat
        BY ZenonT(60), <1>3 DEF Rows
      <3>2. CASE g.read < g.maxRead
        <4>1. ReadsPerPump \in 1 .. ReadsPerPump /\ level = upper(ReadsPerPump)
          BY SMTT(60), <1>3, <3>2
        <4>2. s \notin found(ReadsPerPump)
          BY ZenonT(60), <1>7, <4>1
        <4> QED
          BY SMTT(60), <1>6, <2>1, <3>1, <4>1, <4>2
      <3>3. CASE ~(g.read < g.maxRead)
        BY ZenonT(60), <2>1, <3>3
      <3> QED
        BY Zenon, <3>2, <3>3
    <2> DEFINE sig == level # g.maxRead
               a == IF g.ack = g.read THEN level ELSE g.ack
    <2>2. none = [g EXCEPT !.ack = a, !.read = level, !.signal = sig]
      BY ZenonT(60) DEF SetReadLevelAfterGap
    <2>3. sig \in BOOLEAN /\ a \in Int /\ 0 <= a /\ a <= g.maxRead
      BY SMTT(60), <1>3, <1>4, <1>6
    <2>4. a = g.ack \/ (a = level /\ g.ack = g.read)
      OBVIOUS
    <2> HIDE DEF sig, a, level, gap, none
    <2>5. none \in Manager
      <3>1. [g EXCEPT !.ack = a, !.read = level] \in Manager
        BY ZenonT(60), <1>3, <1>6, <2>3 DEF Manager
      <3> QED
        BY ZenonT(60), <2>2, <2>3, <3>1, FieldTypes
    <2>6. /\ none.st = g.st /\ none.seen = g.seen /\ none.range = g.range /\ none.dbAck = g.dbAck
          /\ none.block = g.block /\ none.maxRead = g.maxRead /\ none.acked = g.acked
          /\ none.queue = g.queue /\ none.wpc = g.wpc /\ none.batch = g.batch /\ none.replies = g.replies
          /\ none.collecting = g.collecting /\ none.held = g.held /\ none.open = g.open
          /\ none.reading = g.reading /\ none.read = level /\ none.ack = a
      BY Zenon, <1>3, <2>2 DEF Manager
    <2>7. Reads(g, none)
      <3>1. \A i \in none.open : i <= none.read
        <4>1. \A i \in g.open : i \in Int
          BY SMTT(60), <1>3 DEF Manager
        <4> QED
          BY SMTT(60), <1>3, <1>4, <1>6, <2>6, <4>1
      <3> QED
        BY SMTT(60), <1>1, <1>4, <1>6, <2>3, <2>5, <2>6, <3>1 DEF Reads
    <2>8. ASSUME NEW s \in rows, Safe(s) PROVE Beyond(none, s)
      <3>1. Beyond(g, s) /\ s.id \in Nat
        BY ZenonT(60), <1>3, <2>8 DEF Safe, Rows
      <3>2. CASE s.id \in g.open
        <4>1. a = g.ack
          BY SMTT(60), <1>3, <1>4, <2>4, <3>1, <3>2 DEF Beyond
        <4> QED
          BY ZenonT(60), <1>1, <2>6, <3>1, <3>2, <4>1 DEF Beyond
      <3>3. CASE s.id \notin g.open
        <4>1. level < s.id
          BY ZenonT(60), <2>1, <3>1, <3>3 DEF Beyond
        <4>2. a < s.id
          BY ZenonT(60), <2>4, <3>1, <4>1 DEF Beyond
        <4> QED
          BY SMTT(60), <1>1, <2>6, <3>1, <3>3, <4>1, <4>2 DEF Beyond
      <3> QED
        BY ZenonT(60), <3>2, <3>3
    <2> QED
      BY ZenonT(60), <1>1, <1>2, <1>7, <2>7, <2>8, ReaderStep
  <1>8. CASE hits # {}
    <2>1. hits \in SUBSET Nat
      BY SMTT(60), <1>3
    <2>2. \E x \in hits : \A y \in hits : x <= y
      BY Zenon, <1>8, <2>1 DEF LeastElement
    <2>3. Min(hits) \in hits
      BY Zenon, <2>2 DEF Min
    <2> DEFINE k == Min(hits)
               R == Page(found(k))
    <2>4. k \in 1 .. ReadsPerPump /\ upper(k) <= g.maxRead /\ upper(k) \in Int
      BY Zenon, <1>5, <2>3
    <2> HIDE DEF k
    <2>5. found(k) \in SUBSET Rows /\ found(k) \in SUBSET rows /\ IsFiniteSet(found(k))
      BY ZenonT(60), <1>3, SubsetFinite
    <2>6. ASSUME NEW q \in R PROVE q \in rows /\ q \in Rows /\ g.read < q.id /\ q.id <= g.maxRead /\ q.id <= upper(k)
      <3>1. q \in found(k)
        BY Zenon DEF Page
      <3>2. q.id \in Nat
        BY ZenonT(60), <2>5, <3>1 DEF Rows
      <3> QED
        BY SMTT(60), <1>3, <2>4, <2>5, <3>1, <3>2
    <2>7. ASSUME NEW s \in rows, g.read < s.id, NEW q \in R, s.id <= q.id PROVE s \in R
      <3>1. q.id <= upper(k) /\ q \in Rows
        BY Zenon, <2>6
      <3>2. s.id \in Nat /\ q.id \in Nat
        BY ZenonT(60), <1>3, <3>1 DEF Rows
      <3>3. s \in found(k)
        BY SMTT(60), <2>4, <2>7, <3>1, <3>2
      <3> HIDE DEF found
      <3> QED
        BY ZenonT(60), <2>5, <2>7, <3>3, PageDownward
    <2>8. some = [g EXCEPT !.reading = R, !.signal = FALSE] /\ R \in SUBSET Rows
      BY Zenon, <2>6 DEF k
    <2> HIDE DEF R, some
    <2>9. some \in Manager
      <3>1. [g EXCEPT !.reading = R] \in Manager
        BY ZenonT(60), <1>3, <2>8, FieldTypes
      <3> QED
        BY ZenonT(60), <2>8, <3>1, FieldTypes
    <2>10. /\ some.st = g.st /\ some.seen = g.seen /\ some.range = g.range /\ some.dbAck = g.dbAck
           /\ some.block = g.block /\ some.maxRead = g.maxRead /\ some.acked = g.acked
           /\ some.queue = g.queue /\ some.wpc = g.wpc /\ some.batch = g.batch /\ some.replies = g.replies
           /\ some.collecting = g.collecting /\ some.held = g.held /\ some.open = g.open
           /\ some.reading = R /\ some.read = g.read /\ some.ack = g.ack
      BY ZenonT(60), <1>3, <2>8 DEF Manager
    <2>11. Reads(g, some)
      BY ZenonT(60), <1>4, <2>6, <2>9, <2>10 DEF Reads
    <2>12. ASSUME NEW s \in rows, Safe(s) PROVE Beyond(some, s)
      <3>1. Beyond(g, s)
        BY Zenon, <2>12 DEF Safe
      <3> QED
        BY ZenonT(60), <2>7, <2>10, <3>1 DEF Beyond
    <2> QED
      BY SMTT(60), <1>1, <1>2, <1>8, <2>11, <2>12, ReaderStep
  <1> QED
    BY Zenon, <1>7, <1>8

-----------------------------------------------------------------------------
(* The row of the queue and the collector *)

\* A write under the lease a manager has
LEMMA LeasedCall ==
    ASSUME QueueInv, NEW m \in Managers, Alive(mgr[m]), NEW a,
           a = mgr[m].ack \/ a = mgr[m].dbAck
    PROVE  /\ Call(mgr[m].range, mgr[m].range, a, {}) \in Calls
           /\ CallInv(Call(mgr[m].range, mgr[m].range, a, {}))
           /\ (TimesOut(Call(mgr[m].range, mgr[m].range, a, {}))
               \/ Refused(Call(mgr[m].range, mgr[m].range, a, {}))
               \/ Succeeds(Call(mgr[m].range, mgr[m].range, a, {}))) => StoreKeeps /\ rows' = rows
  <1> DEFINE c == Call(mgr[m].range, mgr[m].range, a, {})
  <1>1. a \in Nat /\ mgr[m].range \in Nat /\ mgr[m].range <= row.range /\ mgr[m].range <= MaxRange
    BY Facts, MatchingBounds DEF AliveInv, Manager
  <1>2. /\ c.prev = mgr[m].range /\ c.range = mgr[m].range /\ c.ack = a /\ c.tasks = {}
        /\ c \in Calls
    BY Zenon, <1>1 DEF Call, Calls
  <1>3. CallInv(c) /\ CallClaims(c) = {}
    BY Zenon, <1>1, <1>2, EmptyFinite DEF CallInv, CallClaims
  <1> HIDE DEF c
  <1>4. TimesOut(c) \/ Refused(c) \/ Succeeds(c) => StoreKeeps /\ rows' = rows
    <2> SUFFICES ASSUME TimesOut(c) \/ Refused(c) \/ Succeeds(c) PROVE StoreKeeps /\ rows' = rows
      OBVIOUS
    <2>1. rows' = rows
      BY Zenon, <1>2 DEF TimesOut, Refused, Succeeds, Apply, storeVars
    <2>2. StoreKeeps
      BY Zenon, <1>1, <1>2, <1>3, StoreCall
    <2> QED
      BY Zenon, <2>1, <2>2
  <1> QED
    BY ZenonT(60), <1>2, <1>3, <1>4 DEF c

\* The periodic update of the row keeps the invariant.
LEMMA UpdateAckStep ==
    ASSUME QueueInv, NEW m \in Managers, UpdateAck(m)
    PROVE  QueueInv'
  <1> DEFINE g == mgr[m]
             h == [g EXCEPT !.signal = TRUE]
             c == Call(g.range, g.range, g.ack, {})
  <1>1. /\ g \in Manager /\ LocalInv(g) /\ Alive(g) /\ 0 <= g.ack
    BY Zenon, Facts DEF UpdateAck, AliveInv
  <1>2. StoreKeeps /\ rows' = rows
    BY Zenon, <1>1, LeasedCall DEF UpdateAck
  <1>3. Similar(g, h)
    BY Zenon, <1>1, SimilarSelf, SimilarSmall
  <1>4. Similar(g, Unload(h)) /\ Similar(g, [h EXCEPT !.dbAck = g.ack])
    BY Zenon, <1>1, <1>3, SimilarSmall
  <1>5. PICK k \in {h, Unload(h), [h EXCEPT !.dbAck = g.ack]} : mgr' = [mgr EXCEPT ![m] = k]
    BY Zenon DEF UpdateAck
  <1>6. UNCHANGED <<promised, started, expired>>
    BY Zenon DEF UpdateAck, taskVars
  <1> QED
    BY ZenonT(60), <1>2, <1>3, <1>4, <1>5, <1>6, SimilarStep

\* The last update of the row, in Stop, keeps the invariant.
LEMMA StopPersistStep ==
    ASSUME QueueInv, NEW m \in Managers, StopPersist(m)
    PROVE  QueueInv'
  <1> DEFINE g == mgr[m]
             h == [RunGCNow(g) EXCEPT !.st = "closing"]
  <1>1. /\ g \in Manager /\ LocalInv(g) /\ Alive(g) /\ 0 <= g.ack
    BY Zenon, Facts DEF StopPersist, Alive, AliveInv
  <1>2. StoreKeeps /\ rows' = rows
    BY Zenon, <1>1, LeasedCall DEF StopPersist
  <1>3. Similar(g, h)
    <2>1. Similar(g, g)
      BY Zenon, <1>1, SimilarSelf
    <2>2. Similar(g, RunGCNow(g)) /\ RunGCNow(g) \in Manager
      <3>1. Collect(g) \in Manager
        BY SMTT(60), <1>1 DEF Collect, Manager
      <3>2. Similar(g, Collect(g))
        BY ZenonT(60), <1>1, <2>1, <3>1 DEF Collect, Manager, Similar, Alive
      <3> QED
        BY ZenonT(60), <1>1, <2>1, <3>1, <3>2 DEF RunGCNow
    <2> QED
      BY ZenonT(60), <1>1, <2>2, SimilarClosing
  <1>4. Similar(g, [h EXCEPT !.dbAck = g.ack])
    BY Zenon, <1>1, <1>3, SimilarSmall
  <1>5. PICK k \in {h, [h EXCEPT !.dbAck = g.ack]} : mgr' = [mgr EXCEPT ![m] = k]
    BY Zenon DEF StopPersist
  <1>6. UNCHANGED <<promised, started, expired>>
    BY Zenon DEF StopPersist, taskVars
  <1> QED
    BY ZenonT(60), <1>2, <1>3, <1>4, <1>5, <1>6, SimilarStep

\* The collection of tasks up to the ack level keeps the invariant.
LEMMA DeleteTasksStep ==
    ASSUME QueueInv, NEW m \in Managers, DeleteTasks(m)
    PROVE  QueueInv'
  <1> DEFINE g == mgr[m]
             below == {r \in rows : r.id <= g.collecting}
  <1>1. PICK i \in 0 .. g.collecting :
            LET gone == {r \in below : r.id <= i}
            IN  /\ rows' = rows \ gone
                /\ mgr' = [mgr EXCEPT ![m].collecting = NoGC,
                                      ![m].collected = IF gone = below THEN g.collecting ELSE @]
    BY SMTT(60) DEF DeleteTasks
  <1> DEFINE gone == {r \in below : r.id <= i}
             h == [g EXCEPT !.collecting = NoGC, !.collected = IF gone = below THEN g.collecting ELSE @]
  <1>2. g \in Manager /\ LocalInv(g) /\ g.collecting # NoGC
    BY Zenon, Facts DEF DeleteTasks
  <1>3. rows' = rows \ gone /\ mgr' = [mgr EXCEPT ![m] = h]
    BY Zenon, <1>1
  <1>4. StoreKeeps /\ UNCHANGED <<promised, started, expired>>
    BY Zenon, StoreUnchanged DEF DeleteTasks, taskVars
  <1>5. Similar(g, h)
    <2>1. g.st \notin {"new", "leasing"}
      BY ZenonT(60), <1>2 DEF LocalInv, NewManager, Manager
    <2>2. Alive(g) \/ g.st = "stopped"
      BY Zenon, <1>2, <2>1 DEF Manager, ManagerStates, Alive
    <2>3. Similar(g, g)
      BY ZenonT(60), <1>2, <2>2, SimilarSelf
    <2> DEFINE v == IF gone = below THEN g.collecting ELSE g.collected
    <2>4. v \in Int /\ NoGC \in Int
      BY SMTT(60), <1>2 DEF Manager, NoGC
    <2>5. h = [g EXCEPT !.collecting = NoGC, !.collected = v]
      OBVIOUS
    <2> HIDE DEF v, h
    <2>6. h \in Manager
      BY ZenonT(60), <1>2, <2>4, <2>5 DEF Manager
    <2> QED
      BY SMTT(60), <1>2, <2>3, <2>5, <2>6 DEF Similar, Manager, Alive
  <1> HIDE DEF h
  <1>6. /\ Quiet(g, h) /\ Knows(g, h)
        /\ \A q \in h.replies : q.ok => q \in g.replies
        /\ \A r \in Rows : Beyond(g, r) => Beyond(h, r)
    BY Zenon, <1>2, <1>5, SimilarIsQuiet
  <1>7. rows \in SUBSET Rows /\ started \in SUBSET Tasks
    BY Zenon DEF QueueInv, Types
  <1>8. ASSUME NEW r \in rows, Safe(r) PROVE r \in rows' /\ Beyond(h, r)
    <2>1. Beyond(g, r) /\ r \in Rows
      BY ZenonT(60), <1>7, <1>8 DEF Safe
    <2>2. g.collecting < r.id /\ g.collecting \in Int /\ r.id \in Int
      BY SMTT(60), <1>2, <2>1 DEF Beyond, Manager, Rows
    <2>3. r \notin gone
      BY SMTT(60), <2>2
    <2> QED
      BY Zenon, <1>3, <1>6, <2>1, <2>3
  <1> QED
    BY ZenonT(60), <1>3, <1>4, <1>6, <1>7, <1>8, OrdinaryStep

-----------------------------------------------------------------------------
(* Loading and stopping *)

\* The start of an unload keeps the invariant.
LEMMA UnloadStep ==
    ASSUME QueueInv, NEW m \in Managers, UnloadTaskQueue(m)
    PROVE  QueueInv'
  <1>1. mgr[m] \in Manager /\ LocalInv(mgr[m]) /\ Alive(mgr[m])
    BY Zenon, Facts DEF UnloadTaskQueue, Alive
  <1>2. StoreKeeps /\ rows' = rows
    BY Zenon, StoreUnchanged DEF UnloadTaskQueue, storeVars
  <1>3. Similar(mgr[m], Unload(mgr[m]))
    BY Zenon, <1>1, SimilarSelf, SimilarSmall
  <1>4. mgr' = [mgr EXCEPT ![m] = Unload(mgr[m])] /\ UNCHANGED <<promised, started, expired>>
    BY Zenon DEF UnloadTaskQueue, taskVars
  <1> QED
    BY Zenon, <1>2, <1>3, <1>4, SimilarStep

\* What is left of a manager that has stopped
Remains(g, h) ==
    /\ h \in Manager /\ h.st = "stopped" /\ h.read = -1 /\ h.dbAck = 0
    /\ h.seen = [range |-> 0, ack |-> 0]
    /\ h.queue = {} /\ h.batch = {} /\ h.reading = {}
    /\ \/ h.ack = g.ack /\ h.open = g.open /\ h.acked = g.acked
       \/ h.ack = -1 /\ h.open = {} /\ h.acked = {}
    /\ h.held \subseteq g.held /\ h.replies \subseteq g.replies /\ h.collecting = g.collecting

\* A step in which only what a manager is doing ends keeps the invariant.
LEMMA RemainsStep ==
    ASSUME QueueInv, NEW m \in Managers, NEW h, Remains(mgr[m], h),
           mgr' = [mgr EXCEPT ![m] = h], UNCHANGED <<storeVars, taskVars>>
    PROVE  QueueInv'
  <1> DEFINE g == mgr[m]
  <1>1. g \in Manager /\ LocalInv(g) /\ rows \in SUBSET Rows /\ started \in SUBSET Tasks
    BY Zenon, Facts DEF QueueInv, Types
  <1>2. StoreKeeps /\ rows' = rows /\ UNCHANGED <<promised, started, expired>>
    BY Zenon, StoreUnchanged DEF storeVars, taskVars
  <1>3. RequestsOf(h) \subseteq RequestsOf(g)
    BY Zenon DEF Remains, RequestsOf
  <1>4. Knows(g, h)
    BY Zenon, <1>3 DEF Knows, Remains
  <1>5. LocalInv(h)
    BY ZenonT(60), <1>1, EmptyFinite DEF Remains, LocalInv, Alive
  <1>6. ASSUME NEW x \in Nat, UpTo(g, x) PROVE UpTo(h, x)
    BY SMTT(60), <1>3, <1>6 DEF UpTo, Remains
  <1>7. Quiet(g, h)
    <2>1. BatchClaims(h) = {}
      BY ZenonT(60) DEF BatchClaims, Remains
    <2>2. ~Alive(h) /\ h.seen.range <= g.seen.range /\ h.st # "leasing" /\ h \in Manager
      BY SMTT(60), <1>1 DEF Remains, Alive, Manager
    <2> QED
      BY Zenon, <1>5, <1>6, <2>1, <2>2 DEF Quiet, Grows
  <1>8. ASSUME NEW r \in rows, Safe(r) PROVE Beyond(h, r)
    <2>1. Beyond(g, r) /\ r.id \in Nat /\ g.dbAck < r.id /\ g.dbAck \in Nat
      BY Zenon, <1>1, <1>8 DEF Safe, Rows, Beyond, Manager
    <2>2. 0 < r.id /\ -1 < r.id
      BY SMTT(60), <2>1
    <2> QED
      BY SMTT(60), <2>1, <2>2 DEF Beyond, Remains
  <1> QED
    BY ZenonT(60), <1>1, <1>2, <1>4, <1>7, <1>8, OrdinaryStep DEF Remains

\* A manager that is not loaded has the type of a manager.
LEMMA NewManagerType ==
    NewManager \in Manager
  BY SMTT(60) DEF NewManager, Manager, ManagerStates, NoGC

\* The end of Stop keeps the invariant.
LEMMA StopCancelStep ==
    ASSUME QueueInv, NEW m \in Managers, StopCancel(m)
    PROVE  QueueInv'
  <1> DEFINE h == Stopped(mgr[m])
  <1>1. mgr[m] \in Manager
    BY Zenon, Facts
  <1>2. h \in Manager
    BY ZenonT(60), <1>1, NewManagerType DEF Stopped, Manager, ManagerStates
  <1>3. Remains(mgr[m], h)
    BY SMTT(60), <1>1, <1>2 DEF Remains, Stopped, NewManager
  <1>4. mgr' = [mgr EXCEPT ![m] = h] /\ UNCHANGED <<storeVars, taskVars>>
    BY Zenon DEF StopCancel
  <1> QED
    BY Zenon, <1>3, <1>4, RemainsStep

\* A crash keeps the invariant.
LEMMA CrashStep ==
    ASSUME QueueInv, NEW m \in Managers, Crash(m)
    PROVE  QueueInv'
  <1> DEFINE h == [NewManager EXCEPT !.st = "stopped", !.collecting = mgr[m].collecting]
  <1>1. mgr[m] \in Manager
    BY Zenon, Facts
  <1>2. h \in Manager
    BY ZenonT(60), <1>1, NewManagerType DEF Manager, ManagerStates
  <1>3. Remains(mgr[m], h)
    BY ZenonT(60), <1>1, <1>2 DEF Remains, NewManager
  <1>4. mgr' = [mgr EXCEPT ![m] = h] /\ UNCHANGED <<storeVars, taskVars>>
    BY Zenon DEF Crash
  <1> QED
    BY Zenon, <1>3, <1>4, RemainsStep

\* A manager before its first lease
LEMMA Unborn ==
    ASSUME NEW g \in Manager, LocalInv(g), g.st \in {"new", "leasing"}
    PROVE  /\ g = [NewManager EXCEPT !.st = g.st, !.seen = g.seen]
           /\ g.range = 0 /\ g.dbAck = 0 /\ g.read = -1 /\ g.ack = -1 /\ g.open = {} /\ g.acked = {}
           /\ g.held = {} /\ g.queue = {} /\ g.batch = {} /\ g.replies = {} /\ g.reading = {}
           /\ g.collecting = NoGC /\ g.wpc = "idle" /\ ~Alive(g)
  BY ZenonT(60) DEF LocalInv, NewManager, Alive

\* The lease is taken by another manager, or the outcome is not known.
LEMMA TakeOverFailsStep ==
    ASSUME QueueInv, NEW m \in Managers, mgr[m].st = "leasing", NEW c,
           c = Call(mgr[m].seen.range, mgr[m].seen.range + 1, mgr[m].seen.ack, {}),
           \/ Refused(c) /\ mgr' = [mgr EXCEPT ![m].st = "stopped"]
           \/ TimesOut(c) /\ mgr' = [mgr EXCEPT ![m].st = "new"],
           UNCHANGED taskVars
    PROVE  QueueInv'
  <1> DEFINE g == mgr[m]
  <1>1. /\ g \in Manager /\ LocalInv(g) /\ rows \in SUBSET Rows /\ started \in SUBSET Tasks
        /\ g.seen.range \in Nat /\ g.seen.ack \in Nat /\ row.range \in Nat /\ MaxRange \in Nat
    BY Zenon, Facts, MatchingBounds DEF QueueInv, Types
  <1>2. g.seen.range < MaxRange /\ g.seen.range <= row.range
    BY Zenon DEF QueueInv, LeaseInv
  <1>3. StoreKeeps
    <2>1. c.prev = g.seen.range /\ c.range = g.seen.range + 1 /\ c.ack = g.seen.ack /\ c.tasks = {}
      BY Zenon DEF Call
    <2>2. c \in Calls
      BY SMTT(60), <1>1 DEF Call, Calls
    <2>3. CallInv(c) /\ c.prev <= row.range
      <3>1. IsFiniteSet(c.tasks)
        BY ZenonT(60), <2>1, EmptyFinite
      <3>2. c.range <= MaxRange /\ c.range = c.prev + 1 /\ c.prev <= row.range
        BY SMTT(60), <1>1, <1>2, <2>1
      <3> QED
        BY Zenon, <3>1, <3>2 DEF CallInv
    <2>4. CallClaims(c) \subseteq Claims
      BY Zenon, <2>1 DEF CallClaims
    <2> QED
      BY Zenon, <2>1, <2>2, <2>3, <2>4, StoreCall
  <1>4. rows' = rows /\ UNCHANGED <<promised, started, expired>>
    BY Zenon DEF TimesOut, Refused, storeVars, taskVars
  <1>5. PICK s \in {"stopped", "new"} : mgr' = [mgr EXCEPT ![m].st = s]
    OBVIOUS
  <1> DEFINE h == [g EXCEPT !.st = s]
  <1>6. mgr' = [mgr EXCEPT ![m] = h]
    BY Zenon, <1>5
  <1>7. /\ h \in Manager /\ h.st = s /\ h.seen = g.seen /\ h.range = 0 /\ h.dbAck = 0 /\ h.read = -1
        /\ h.ack = -1 /\ h.open = {} /\ h.acked = {} /\ h.held = {} /\ h.queue = {} /\ h.batch = {}
        /\ h.replies = {} /\ h.reading = {} /\ h.collecting = NoGC
    <2>1. h \in Manager
      BY SMTT(60), <1>1 DEF Manager, ManagerStates
    <2> QED
      BY ZenonT(60), <1>1, <2>1, Unborn DEF Manager
  <1>8. h = [NewManager EXCEPT !.st = h.st, !.seen = h.seen]
    <2>1. g = [NewManager EXCEPT !.st = "leasing", !.seen = g.seen]
      BY Zenon, <1>1, Unborn
    <2>2. h.st = s /\ h.seen = g.seen
      BY Zenon, <1>7
    <2> QED
      BY ZenonT(60), <2>1, <2>2 DEF NewManager
  <1>9. RequestsOf(h) = {} /\ BatchClaims(h) = {}
    BY Zenon, <1>7 DEF RequestsOf, BatchClaims
  <1> HIDE DEF h
  <1>10. Quiet(g, h)
    <2>1. LocalInv(h) /\ ~Alive(h)
      BY ZenonT(60), <1>7, <1>8, EmptyFinite DEF LocalInv, Alive
    <2>2. Grows(g, h)
      BY SMTT(60), <1>7, <1>9 DEF Grows, UpTo, NoGC
    <2>3. h.seen.range <= g.seen.range /\ h.st # "leasing"
      BY SMTT(60), <1>1, <1>7
    <2> QED
      BY ZenonT(60), <1>7, <1>9, <2>1, <2>2, <2>3 DEF Quiet
  <1>11. Knows(g, h)
    BY Zenon, <1>7, <1>9 DEF Knows
  <1>12. ASSUME NEW r \in rows, Safe(r) PROVE Beyond(h, r)
    <2>1. Beyond(g, r) /\ r.id \in Nat /\ g.seen.ack < r.id
      BY ZenonT(60), <1>1, <1>12 DEF Safe, Rows, Beyond
    <2>2. 0 < r.id /\ -1 < r.id
      BY SMTT(60), <1>1, <2>1
    <2> QED
      BY Zenon, <1>7, <2>1, <2>2 DEF Beyond, NoGC
  <1> QED
    BY Zenon, <1>1, <1>3, <1>4, <1>6, <1>7, <1>10, <1>11, <1>12, OrdinaryStep

\* Of two updates of the same fields the second one counts.
LEMMA TwoFields ==
    ASSUME NEW n \in Manager, NEW a, NEW b, NEW c, NEW d
    PROVE  [[n EXCEPT !.st = a, !.seen = b] EXCEPT !.st = c, !.seen = d]
              = [n EXCEPT !.st = c, !.seen = d]
  BY Zenon DEF Manager

\* The read of the row by a new manager keeps the invariant.
LEMMA LoadStep ==
    ASSUME QueueInv, NEW m \in Managers, Load(m)
    PROVE  QueueInv'
  <1> DEFINE g == mgr[m]
             h == [g EXCEPT !.st = "leasing", !.seen = row]
  <1>1. /\ g \in Manager /\ LocalInv(g) /\ g.st = "new" /\ row \in [range : Nat, ack : Nat]
        /\ row.range < MaxRange /\ MaxRange \in Nat /\ Types /\ LeaseInv /\ ClaimInv
    BY Zenon, Facts, MatchingBounds DEF QueueInv, Types, Load
  <1>2. mgr' = [mgr EXCEPT ![m] = h] /\ UNCHANGED <<storeVars, taskVars>>
    BY Zenon DEF Load
  <1>3. UNCHANGED <<row, rows, late, created, promised, started, expired>>
    BY ZenonT(30), <1>2 DEF storeVars, taskVars
  <1>4. /\ h \in Manager /\ h.st = "leasing" /\ h.seen = row /\ h.dbAck = 0 /\ h.read = -1
        /\ h.ack = -1 /\ h.open = {} /\ h.acked = {} /\ h.held = {} /\ h.queue = {} /\ h.batch = {}
        /\ h.replies = {} /\ h.reading = {} /\ h.collecting = NoGC
    <2>1. h \in Manager
      BY ZenonT(60), <1>1 DEF Manager, ManagerStates
    <2> QED
      BY ZenonT(60), <1>1, <2>1, Unborn DEF Manager
  <1>5. LocalInv(h)
    <2>1. g = [NewManager EXCEPT !.st = "new", !.seen = g.seen]
      BY Zenon, <1>1, Unborn
    <2>2. h = [NewManager EXCEPT !.st = "leasing", !.seen = row]
      BY Zenon, <2>1, TwoFields, NewManagerType
    <2>3. h = [NewManager EXCEPT !.st = h.st, !.seen = h.seen]
      BY Zenon, <1>4, <2>2
    <2> HIDE DEF h
    <2> QED
      BY Zenon, <1>4, <2>3, EmptyFinite DEF LocalInv, Alive
  <1>6. RequestsOf(h) = {} /\ BatchClaims(h) = {} /\ ~Alive(h)
    BY Zenon, <1>4 DEF RequestsOf, BatchClaims, Alive
  <1> HIDE DEF h
  <1>7. Types'
    BY ZenonT(60), <1>1, <1>2, <1>3, <1>4 DEF Types
  <1>8. LeaseInv'
    <2>1. ASSUME NEW x \in Nat, LevelsUpTo(x)
          PROVE  UpTo(h, x) /\ row'.ack <= x /\ \A c \in late' : c.ack <= x
      BY SMTT(60), <1>3, <1>4, <1>6, <2>1 DEF UpTo, NoGC, LevelsUpTo
    <2>2. \A c \in late' : CallInv(c) /\ c.prev <= row'.range
      BY ZenonT(60), <1>1, <1>3 DEF LeaseInv
    <2>3. row.range <= row'.range /\ row'.range <= MaxRange /\ h.seen.range <= row'.range
          /\ h.seen.range < MaxRange
      BY SMTT(60), <1>1, <1>3, <1>4
    <2>4. Advances(g, h)
      BY Zenon, <1>6 DEF Advances
    <2> QED
      BY ZenonT(60), <1>1, <1>2, <1>4, <1>5, <1>7, <2>1, <2>2, <2>3, <2>4, LeaseStep
  <1>9. ClaimInv'
    <2>1. created' \subseteq Claims /\ \A c \in late' : CallClaims(c) \subseteq Claims
      BY Zenon, <1>3 DEF Claims
    <2>2. row.range <= row'.range
      BY SMTT(60), <1>1, <1>3
    <2> QED
      BY ZenonT(60), <1>1, <1>2, <1>4, <1>6, <1>7, <2>1, <2>2, ClaimKeep
  <1>10. Knows(g, h)
    BY Zenon, <1>4, <1>6 DEF Knows
  <1>11. ASSUME NEW r \in rows, Safe(r) PROVE Beyond(h, r) /\ row.ack < r.id /\ \A c \in late : c.ack < r.id
    <2>1. row.ack < r.id /\ r.id \in Nat /\ row.ack \in Nat
      BY Zenon, <1>1, <1>11 DEF Safe, Types, Rows
    <2>2. 0 < r.id /\ -1 < r.id
      BY SMTT(60), <2>1
    <2>3. Beyond(h, r)
      BY Zenon, <1>4, <2>1, <2>2 DEF Beyond, NoGC
    <2> QED
      BY Zenon, <1>11, <2>1, <2>3 DEF Safe
  <1> QED
    BY ZenonT(60), <1>2, <1>3, <1>4, <1>7, <1>8, <1>9, <1>10, <1>11, RestStep

\* A lease that is taken over keeps the invariant: the block is new, and nobody is beyond it.
LEMMA TakeOverSucceedsStep ==
    ASSUME QueueInv, NEW m \in Managers, mgr[m].st = "leasing",
           Succeeds(Call(mgr[m].seen.range, mgr[m].seen.range + 1, mgr[m].seen.ack, {})),
           mgr' = [mgr EXCEPT ![m] = Leased(mgr[m])], UNCHANGED taskVars
    PROVE  QueueInv'
  <1> DEFINE g == mgr[m]
             h == Leased(g)
             top == row.range * RangeSize
  <1>1. /\ g \in Manager /\ LocalInv(g) /\ row.range \in Nat /\ row.ack \in Nat
        /\ MaxRange \in Nat /\ RangeSize \in Nat \ {0} /\ Types /\ LeaseInv /\ ClaimInv
        /\ g.seen.range \in Nat /\ g.seen.ack \in Nat /\ UpTo(g, top)
    BY Zenon, Facts, MatchingBounds DEF QueueInv
  <1>2. g.seen.range < MaxRange /\ g.seen.ack <= top /\ ~Alive(g)
    BY Zenon, <1>1 DEF LeaseInv, UpTo, Alive
  <1>3. /\ row.range = g.seen.range /\ row' = [range |-> row.range + 1, ack |-> g.seen.ack]
        /\ UNCHANGED <<rows, late, created, promised, started, expired>>
    BY ZenonT(60) DEF Succeeds, Apply, Call, taskVars
  <1>4. /\ top \in Nat /\ (row.range + 1) * RangeSize \in Nat /\ top <= (row.range + 1) * RangeSize
        /\ (row.range + 1 - 1) * RangeSize = top
    BY Zenon, <1>1, NextTop
  <1> DEFINE B == [start |-> top + 1, end |-> (row.range + 1) * RangeSize]
  <1>5. RangeIDToTaskIDBlock(g.seen.range + 1) = B /\ B.start - 1 = top /\ B \in [start : Nat, end : Nat]
    BY SMTT(60), <1>1, <1>3, <1>4 DEF RangeIDToTaskIDBlock
  <1>6. /\ h \in Manager /\ h.st = "up" /\ h.seen = [range |-> 0, ack |-> 0] /\ h.range = row.range + 1
        /\ h.dbAck = g.seen.ack /\ h.block = B /\ h.maxRead = top /\ h.ack = g.seen.ack
        /\ h.read = g.seen.ack /\ h.open = {} /\ h.acked = {} /\ h.held = {} /\ h.queue = {}
        /\ h.batch = {} /\ h.replies = {} /\ h.reading = {} /\ h.collecting = NoGC /\ h.wpc = "idle"
    <2>1. /\ g.open = {} /\ g.acked = {} /\ g.held = {} /\ g.queue = {} /\ g.wpc = "idle"
          /\ g.batch = {} /\ g.replies = {} /\ g.reading = {} /\ g.collecting = NoGC
      BY Zenon, <1>1, Unborn
    <2>2. h = [g EXCEPT !.st = "up", !.seen = [range |-> 0, ack |-> 0], !.range = row.range + 1,
                        !.dbAck = g.seen.ack, !.block = B, !.maxRead = top,
                        !.ack = g.seen.ack, !.read = g.seen.ack, !.signal = TRUE]
      BY ZenonT(60), <1>3, <1>5 DEF Leased, NewManager
    <2>3. [range |-> 0, ack |-> 0] \in [range : Nat, ack : Nat] /\ row.range + 1 \in Nat
      BY SMTT(60), <1>1
    <2> DEFINE z == [range |-> 0, ack |-> 0]
    <2> HIDE DEF h, B, top, z
    <2>4. h \in Manager
      <3> DEFINE k == [g EXCEPT !.st = "up", !.seen = z, !.range = row.range + 1]
                 i == [k EXCEPT !.dbAck = g.seen.ack, !.block = B]
                 j == [i EXCEPT !.maxRead = top]
      <3>1. h = [j EXCEPT !.ack = g.seen.ack, !.read = g.seen.ack, !.signal = TRUE]
        BY <2>2, Zenon DEF z
      <3>2. k \in Manager
        BY ZenonT(60), <1>1, <2>3 DEF Manager, ManagerStates, z
      <3> HIDE DEF k
      <3>3. i \in Manager
        <4>1. [k EXCEPT !.dbAck = g.seen.ack] \in Manager
          BY ZenonT(60), <1>1, <3>2 DEF Manager
        <4> QED
          BY Zenon, <1>5, <4>1, FieldTypes
      <3> HIDE DEF i
      <3>4. j \in Manager
        BY SMTT(60), <1>4, <3>3 DEF Manager
      <3> HIDE DEF j
      <3> QED
        <4>1. g.seen.ack \in Int /\ TRUE \in BOOLEAN
          BY SMTT(60), <1>1
        <4>2. [j EXCEPT !.ack = g.seen.ack, !.read = g.seen.ack] \in Manager
          BY ZenonT(60), <3>4, <4>1 DEF Manager
        <4>3. [[j EXCEPT !.ack = g.seen.ack, !.read = g.seen.ack] EXCEPT !.signal = TRUE] \in Manager
          BY Zenon, <4>1, <4>2, FieldTypes
        <4> QED
          BY ZenonT(60), <3>1, <4>3
    <2> HIDE DEF g, h, B, top
    <2>5. /\ h.st = "up" /\ h.seen = [range |-> 0, ack |-> 0] /\ h.range = row.range + 1
          /\ h.dbAck = g.seen.ack /\ h.block = B /\ h.maxRead = top /\ h.ack = g.seen.ack
          /\ h.read = g.seen.ack
      BY ZenonT(60), <1>1, <2>2 DEF Manager
    <2>6. /\ h.open = g.open /\ h.acked = g.acked /\ h.held = g.held /\ h.queue = g.queue
          /\ h.batch = g.batch /\ h.replies = g.replies /\ h.reading = g.reading
          /\ h.collecting = g.collecting /\ h.wpc = g.wpc
      BY ZenonT(60), <1>1, <2>2 DEF Manager
    <2> QED
      BY ZenonT(60), <2>1, <2>4, <2>5, <2>6
  <1>7. RequestsOf(h) = {} /\ BatchClaims(h) = {} /\ Alive(h)
    BY ZenonT(60), <1>6 DEF RequestsOf, BatchClaims, Alive
  <1> HIDE DEF h
  <1>8. UpTo(h, top)
    BY ZenonT(60), <1>1, <1>2, <1>4, <1>6, <1>7, LeasedUpTo
  <1>9. LocalInv(h)
    <2>1. AliveInv(h)
      BY ZenonT(60), <1>1, <1>4, <1>6, <1>8, LeasedAlive
    <2> QED
      BY ZenonT(60), <1>6, <1>7, <2>1, EmptyFinite DEF LocalInv
  <1>10. Types'
    <2>1. row' \in [range : Nat, ack : Nat]
      BY ZenonT(60), <1>1, <1>3, RenewedRow
    <2>2. mgr' \in [Managers -> Manager]
      BY ZenonT(30), <1>1, <1>6 DEF Types, h
    <2> QED
      BY ZenonT(60), <1>1, <1>3, <2>1, <2>2 DEF Types
  <1>11. LeaseInv'
    <2>1. ASSUME NEW x \in Nat, LevelsUpTo(x)
          PROVE  UpTo(h, x) /\ row'.ack <= x /\ \A c \in late' : c.ack <= x
      <3>1. g.seen.ack <= x
        BY ZenonT(60), <2>1 DEF LevelsUpTo, UpTo
      <3> QED
        <4>1. UpTo(h, x)
          BY ZenonT(60), <1>1, <1>6, <1>7, <3>1, LeasedUpTo
        <4>2. row'.ack = g.seen.ack /\ late' = late
          BY Zenon, <1>3, RowFields
        <4> QED
          BY Zenon, <2>1, <3>1, <4>1, <4>2 DEF LevelsUpTo
    <2>2. \A c \in late' : CallInv(c) /\ c.prev <= row'.range
      <3>1. row'.range = row.range + 1 /\ late' = late
        BY ZenonT(60), <1>3
      <3> QED
        BY ZenonT(60), <1>1, <3>1, NextLease
    <2>3. /\ row.range <= row'.range /\ row'.range <= MaxRange /\ h.seen.range <= row'.range
          /\ h.st # "leasing"
      <3>1. row'.range = row.range + 1
        BY Zenon, <1>3, RowFields
      <3>2. h.seen.range = 0
        <4>1. h.seen = [range |-> 0, ack |-> 0]
          BY Zenon, <1>6
        <4> QED
          BY Zenon, <4>1, RowFields
      <3>3. row.range < MaxRange
        BY Zenon, <1>2, <1>3
      <3>4. row.range <= row.range + 1 /\ 0 <= row.range + 1
        BY Zenon, <1>1, Successor
      <3>5. row.range + 1 <= MaxRange
        BY Zenon, <1>1, <3>3, AfterSome
      <3> QED
        BY Zenon, <1>6, <3>1, <3>2, <3>4, <3>5
    <2>4. Advances(g, h)
      <3>1. row'.range = row.range + 1 /\ h.range = row.range + 1 /\ h.maxRead = top /\ top <= top
        BY ZenonT(60), <1>3, <1>4, <1>6, Successor
      <3> QED
        BY ZenonT(60), <1>2, <3>1 DEF Advances
    <2> QED
      BY ZenonT(60), <1>1, <1>6, <1>9, <1>10, <2>1, <2>2, <2>3, <2>4, LeaseStep DEF h
  <1>12. ClaimInv'
    <2>1. created' \subseteq Claims /\ \A c \in late' : CallClaims(c) \subseteq Claims
      BY ZenonT(60), <1>3 DEF Claims
    <2>2. row.range <= row'.range /\ top < h.block.start
      <3>1. row'.range = row.range + 1
        BY Zenon, <1>3, RowFields
      <3>2. h.block.start = top + 1
        <4> DEFINE last == (row.range + 1) * RangeSize
        <4>1. h.block = [start |-> top + 1, end |-> last]
          BY Zenon, <1>6
        <4> HIDE DEF top, last
        <4> QED
          BY Zenon, <4>1, BlockFields
      <3>3. row.range <= row.range + 1
        BY Zenon, <1>1, Successor
      <3>4. top < top + 1
        BY Zenon, <1>4, Successor
      <3> QED
        BY Zenon, <3>1, <3>2, <3>3, <3>4
    <2> QED
      BY ZenonT(60), <1>1, <1>6, <1>7, <1>10, <2>1, <2>2, ClaimKeep DEF h
  <1>13. Knows(g, h)
    BY Zenon, <1>6, <1>7 DEF Knows
  <1>14. ASSUME NEW r \in rows, Safe(r) PROVE Beyond(h, r) /\ row'.ack < r.id /\ \A c \in late' : c.ack < r.id
    <2>1. g.seen.ack < r.id /\ r.id \in Nat
      BY ZenonT(60), <1>1, <1>14 DEF Safe, Types, Rows, Beyond
    <2>2. 0 < r.id /\ -1 < r.id
      BY Zenon, <1>1, <2>1, AfterSome
    <2>3. Beyond(h, r)
      <3>1. h.ack < r.id /\ h.dbAck < r.id /\ h.read < r.id /\ h.collecting < r.id
        BY Zenon, <1>6, <2>1, <2>2 DEF NoGC
      <3>2. h.seen.ack < r.id
        <4>1. h.seen = [range |-> 0, ack |-> 0]
          BY Zenon, <1>6
        <4> QED
          BY Zenon, <2>2, <4>1, RowFields
      <3> QED
        BY ZenonT(60), <1>6, <3>1, <3>2 DEF Beyond
    <2> QED
      BY ZenonT(60), <1>3, <1>14, <2>1, <2>3 DEF Safe
  <1> QED
    BY ZenonT(60), <1>3, <1>6, <1>10, <1>11, <1>12, <1>13, <1>14, RestStep DEF h

-----------------------------------------------------------------------------
(* The ack manager *)

\* completeTask does not pass a row that is still open, or not read.
LEMMA CompleteFacts ==
    ASSUME LeastElement,
           NEW g \in Manager, NEW top \in Nat, UpTo(g, top), NEW id \in Nat, NEW h, h = AckComplete(g, id)
    PROVE  /\ h \in Manager /\ h.st = g.st /\ h.seen = g.seen /\ h.range = g.range /\ h.dbAck = g.dbAck
           /\ h.block = g.block /\ h.maxRead = g.maxRead /\ h.read = g.read /\ h.held = g.held
           /\ h.queue = g.queue /\ h.wpc = g.wpc /\ h.batch = g.batch /\ h.replies = g.replies
           /\ h.reading = g.reading /\ h.collecting = g.collecting
           /\ h.open = g.open \ {id} /\ h.acked \subseteq g.acked \cup g.open
           /\ h.ack = g.ack \/ h.ack \in g.acked \cup g.open
           /\ \A n \in Nat : n \in g.open /\ n # id /\ g.ack < n => h.ack < n
  <1> DEFINE open == g.open \ {id}
             acked == IF id \in g.open THEN g.acked \cup {id} ELSE g.acked
             passed == {i \in acked : \A o \in open : i < o}
             ack == IF passed = {} THEN g.ack ELSE Max(passed)
  <1>1. h = [g EXCEPT !.open = open, !.acked = acked \ passed, !.ack = ack]
    BY Zenon DEF AckComplete
  <1>2. g.open \in SUBSET Nat /\ g.acked \in SUBSET Nat /\ g.ack \in Int
    BY Zenon DEF Manager
  <1>3. acked \subseteq g.acked \cup g.open /\ open \in SUBSET Nat
    BY ZenonT(60), <1>2
  <1>4. passed \subseteq g.acked \cup g.open /\ passed \in SUBSET Int /\ \A i \in passed : i <= top
    BY SMTT(60), <1>2, <1>3 DEF UpTo
  <1>5. \A n \in open : \A i \in passed : i < n
    BY SMTT(60)
  <1> HIDE DEF passed, acked
  <1>6. passed # {} => Max(passed) \in passed
    BY SMTT(60), <1>4, MaxOf
  <1>7. ack = g.ack \/ ack \in passed
    BY Zenon, <1>6
  <1>8. ack \in Int /\ acked \ passed \in SUBSET Nat
    BY ZenonT(60), <1>2, <1>3, <1>4, <1>7
  <1>9. \A n \in open : g.ack < n => ack < n
    BY ZenonT(60), <1>5, <1>7
  <1> HIDE DEF open, ack
  <1>10. h \in Manager
    <2> DEFINE left == acked \ passed
    <2>1. left \in SUBSET Nat /\ h = [g EXCEPT !.open = open, !.acked = left, !.ack = ack]
      BY Zenon, <1>1, <1>8
    <2> HIDE DEF left
    <2> DEFINE k == [g EXCEPT !.open = open]
               j == [k EXCEPT !.acked = left]
    <2>2. k \in Manager
      BY ZenonT(60), <1>3 DEF Manager
    <2>3. h = [j EXCEPT !.ack = ack] /\ ack \in Int
      BY Zenon, <1>8, <2>1
    <2> HIDE DEF k
    <2>4. j \in Manager
      BY SMTT(60), <2>1, <2>2 DEF Manager
    <2> HIDE DEF j
    <2> QED
      BY SMTT(60), <2>3, <2>4 DEF Manager
  <1>11. /\ h.st = g.st /\ h.seen = g.seen /\ h.range = g.range /\ h.dbAck = g.dbAck
         /\ h.block = g.block /\ h.maxRead = g.maxRead /\ h.read = g.read /\ h.held = g.held
         /\ h.queue = g.queue /\ h.wpc = g.wpc /\ h.batch = g.batch /\ h.replies = g.replies
         /\ h.reading = g.reading /\ h.collecting = g.collecting
         /\ h.open = open /\ h.acked = acked \ passed /\ h.ack = ack
    BY SMTT(60), <1>1 DEF Manager
  <1>12. open = g.open \ {id}
    BY ZenonT(60) DEF open
  <1> QED
    BY ZenonT(60), <1>3, <1>4, <1>7, <1>9, <1>10, <1>11, <1>12

\* What the completion of a task, and the start of a collection after it, do to a manager
LEMMA CompletedFacts ==
    ASSUME LeastElement,
           NEW g \in Manager, LocalInv(g), NEW top \in Nat, UpTo(g, top), Alive(g) \/ g.st = "stopped",
           NEW id \in Nat, NEW k, k = AckComplete(g, id), NEW h \in RunGC(k)
    PROVE  /\ h \in Manager /\ LocalInv(h) /\ h.st = g.st /\ h.seen = g.seen
           /\ h.range = g.range /\ h.block = g.block /\ h.maxRead = g.maxRead
           /\ h.held = g.held /\ h.reading = g.reading /\ RequestsOf(h) = RequestsOf(g)
           /\ h.replies = g.replies /\ BatchClaims(h) = BatchClaims(g)
           /\ \A x \in Nat : UpTo(g, x) => UpTo(h, x)
           /\ \A r \in Rows : Beyond(g, r) /\ r.id # id => Beyond(h, r)
  <1>1. /\ k \in Manager /\ k.st = g.st /\ k.seen = g.seen /\ k.range = g.range /\ k.dbAck = g.dbAck
        /\ k.block = g.block /\ k.maxRead = g.maxRead /\ k.read = g.read /\ k.held = g.held
        /\ k.queue = g.queue /\ k.wpc = g.wpc /\ k.batch = g.batch /\ k.replies = g.replies
        /\ k.reading = g.reading /\ k.collecting = g.collecting
        /\ k.open = g.open \ {id} /\ k.acked \subseteq g.acked \cup g.open
        /\ k.ack = g.ack \/ k.ack \in g.acked \cup g.open
        /\ \A n \in Nat : n \in g.open /\ n # id /\ g.ack < n => k.ack < n
    BY CompleteFacts
  <1>2. h = k \/ h = [k EXCEPT !.collecting = k.ack]
    BY Zenon DEF RunGC, Collect
  <1>3. k.ack \in Int
    BY Zenon, <1>1 DEF Manager
  <1>4. h \in Manager
    BY SMTT(60), <1>1, <1>2, <1>3 DEF Manager
  <1>5. /\ h.st = g.st /\ h.seen = g.seen /\ h.range = g.range /\ h.dbAck = g.dbAck
        /\ h.block = g.block /\ h.maxRead = g.maxRead /\ h.read = g.read /\ h.held = g.held
        /\ h.queue = g.queue /\ h.wpc = g.wpc /\ h.batch = g.batch /\ h.replies = g.replies
        /\ h.reading = g.reading
        /\ h.collecting = g.collecting \/ h.collecting = h.ack
        /\ h.open = g.open \ {id} /\ h.acked \subseteq g.acked \cup g.open
        /\ h.ack = g.ack \/ h.ack \in g.acked \cup g.open
        /\ \A n \in Nat : n \in g.open /\ n # id /\ g.ack < n => h.ack < n
    BY SMTT(60), <1>1, <1>2, <1>4 DEF Manager
  <1>6. RequestsOf(h) = RequestsOf(g) /\ BatchClaims(h) = BatchClaims(g)
    BY ZenonT(60), <1>5 DEF RequestsOf, BatchClaims
  <1>7. ASSUME NEW x \in Nat, UpTo(g, x) PROVE UpTo(h, x)
    BY Zenon, <1>5, <1>6, <1>7 DEF UpTo
  <1>8. ASSUME NEW r \in Rows, Beyond(g, r), r.id # id PROVE Beyond(h, r)
    <2>1. r.id \in Nat
      BY Zenon DEF Rows
    <2>2. h.ack < r.id
      BY ZenonT(60), <1>5, <1>8, <2>1 DEF Beyond
    <2>3. r.id \in h.open \/ (h.read < r.id /\ \A i \in h.open \cup h.acked : i < r.id)
      BY Zenon, <1>5, <1>8 DEF Beyond
    <2> QED
      BY ZenonT(60), <1>5, <1>8, <2>2, <2>3 DEF Beyond
  <1>9. LocalInv(h)
    <2>1. /\ IsFiniteSet(h.queue) /\ IsFiniteSet(h.batch) /\ h.st \notin {"new", "leasing"}
          /\ \A p \in h.replies : p.req.of = 0 => p.ok
      BY Zenon, <1>5 DEF LocalInv, Alive
    <2>2. h.st = "stopped" => h.read = -1 /\ h.queue = {} /\ h.batch = {} /\ h.reading = {}
      BY Zenon, <1>5 DEF LocalInv
    <2>3. ASSUME Alive(h) PROVE AliveInv(h)
      <3>1. AliveInv(g)
        BY ZenonT(60), <1>5, <2>3 DEF LocalInv, Alive
      <3>2. UpTo(h, h.maxRead) /\ 0 <= h.ack
        <4>1. g.maxRead \in Nat /\ UpTo(g, g.maxRead) /\ 0 <= g.ack
          BY Zenon, <3>1 DEF AliveInv, Manager
        <4>2. g.acked \in SUBSET Nat /\ g.open \in SUBSET Nat
          BY Zenon DEF Manager
        <4> QED
          BY SMTT(60), <1>5, <1>7, <4>1, <4>2
      <3> QED
        BY ZenonT(60), <1>5, <3>1, <3>2 DEF AliveInv
    <2> QED
      BY ZenonT(60), <2>1, <2>2, <2>3 DEF LocalInv
  <1> QED
    BY SMTT(60), <1>4, <1>5, <1>6, <1>7, <1>8, <1>9

\* A manager puts a task away, completes it, and may run the collector.
LEMMA CompletingStep ==
    ASSUME LeastElement, QueueInv, NEW m \in Managers, NEW k, Similar(mgr[m], k), NEW id \in Nat,
           NEW h \in RunGC(AckComplete(k, id)), mgr' = [mgr EXCEPT ![m] = h],
           UNCHANGED <<storeVars, promised, expired>>, started' \in SUBSET Tasks, started \subseteq started',
           \A r \in rows : Safe(r) /\ r.task \notin started' \cup expired => r.id # id
    PROVE  QueueInv'
  <1> DEFINE g == mgr[m]
  <1>1. g \in Manager /\ LocalInv(g) /\ rows \in SUBSET Rows
    BY Zenon, Facts DEF QueueInv, Types
  <1>2. /\ Quiet(g, k) /\ Knows(g, k)
        /\ \A q \in k.replies : q.ok => q \in g.replies
        /\ \A r \in Rows : Beyond(g, r) => Beyond(k, r)
        /\ \A x \in Nat : UpTo(g, x) => UpTo(k, x)
    BY ZenonT(60), <1>1, SimilarIsQuiet, SimilarUpTo
  <1>3. k \in Manager /\ LocalInv(k) /\ (Alive(k) \/ k.st = "stopped") /\ (Alive(k) => Alive(g))
    BY Zenon, <1>2 DEF Quiet, Similar
  <1>4. PICK top \in Nat : UpTo(k, top)
    <2>1. row.range * RangeSize \in Nat /\ UpTo(g, row.range * RangeSize)
      BY Facts, MatchingBounds
    <2> QED
      BY ZenonT(60), <1>2, <2>1
  <1>5. /\ h \in Manager /\ LocalInv(h) /\ h.st = k.st /\ h.seen = k.seen
        /\ h.range = k.range /\ h.block = k.block /\ h.maxRead = k.maxRead
        /\ h.held = k.held /\ h.reading = k.reading /\ RequestsOf(h) = RequestsOf(k)
        /\ h.replies = k.replies /\ BatchClaims(h) = BatchClaims(k)
        /\ \A x \in Nat : UpTo(k, x) => UpTo(h, x)
        /\ \A r \in Rows : Beyond(k, r) /\ r.id # id => Beyond(h, r)
    BY ZenonT(60), <1>3, <1>4, CompletedFacts
  <1>6. Quiet(g, h)
    <2>1. Grows(g, h)
      BY Zenon, <1>2, <1>5 DEF Grows
    <2>2. Alive(h) => Alive(k)
      BY Zenon, <1>5 DEF Alive
    <2> QED
      BY Zenon, <1>2, <1>5, <2>1, <2>2 DEF Quiet
  <1>7. Knows(g, h)
    BY Zenon, <1>2, <1>5 DEF Knows
  <1>8. ASSUME NEW r \in rows, Safe(r), r.task \notin started' \cup expired PROVE Beyond(h, r)
    BY ZenonT(60), <1>1, <1>2, <1>5, <1>8 DEF Safe
  <1>9. StoreKeeps /\ rows' = rows
    BY Zenon, StoreUnchanged DEF storeVars
  <1> QED
    BY ZenonT(60), <1>2, <1>5, <1>6, <1>7, <1>8, <1>9, OrdinaryStep

\* A task that could not be started and is to be written again keeps the invariant.
LEMMA FailTaskStep ==
    ASSUME QueueInv, NEW m \in Managers, NEW r \in mgr[m].held, FailTask(m, r)
    PROVE  QueueInv'
  <1> DEFINE g == mgr[m]
             k == [g EXCEPT !.held = @ \ {r}]
             h == [k EXCEPT !.queue = @ \cup {Request(r.task, r.id)}]
  <1>1. g \in Manager /\ LocalInv(g) /\ r \in Rows
    BY Zenon, Facts DEF Manager
  <1>2. Alive(g) \/ g.st = "stopped"
    <2>1. g.st \notin {"new", "leasing"}
      BY ZenonT(60), <1>1 DEF LocalInv, NewManager, Manager
    <2> QED
      BY Zenon, <1>1, <2>1 DEF Manager, ManagerStates, Alive
  <1>3. StoreKeeps /\ rows' = rows
    BY Zenon, StoreUnchanged DEF FailTask, storeVars
  <1>4. k \in Manager /\ Similar(g, k)
    <2>1. k \in Manager
      BY SMTT(60), <1>1 DEF Manager
    <2>2. Similar(g, g)
      BY ZenonT(60), <1>1, <1>2, SimilarSelf
    <2> QED
      BY Zenon, <1>1, <2>1, <2>2 DEF Similar, Manager, Alive
  <1>5. ASSUME Running(m) PROVE Similar(g, h)
    <2>1. Request(r.task, r.id) \in Requests /\ Alive(g)
      BY Zenon, <1>1, <1>5, Facts DEF Request, Requests, Rows
    <2>2. h \in Manager
      BY ZenonT(60), <1>4, <2>1 DEF Manager
    <2>3. IsFiniteSet(h.queue)
      BY Zenon, <1>1, AddFinite DEF LocalInv, Manager
    <2>4. \A q \in h.queue : q \in RequestsOf(g) \/ q = Request(r.task, r.id)
      BY Zenon, <1>1 DEF RequestsOf, Manager
    <2> QED
      BY ZenonT(60), <1>4, <2>1, <2>2, <2>3, <2>4 DEF Similar, Manager, Alive
  <1>6. /\ mgr' = [mgr EXCEPT ![m] = IF Running(m) THEN h ELSE k]
        /\ UNCHANGED <<promised, started, expired>>
    BY Zenon DEF FailTask
  <1> QED
    BY ZenonT(60), <1>3, <1>4, <1>5, <1>6, SimilarStep

\* A task that has been started, or has expired, keeps the invariant.
LEMMA FinishTaskStep ==
    ASSUME LeastElement, QueueInv, NEW m \in Managers, NEW r \in mgr[m].held, FinishTask(m, r)
    PROVE  QueueInv'
  <1> DEFINE g == mgr[m]
             k == [g EXCEPT !.held = @ \ {r}]
  <1>1. g \in Manager /\ LocalInv(g) /\ r \in Rows
    BY Zenon, Facts DEF Manager
  <1>2. Similar(g, k)
    <2>1. k \in Manager
      BY ZenonT(60), <1>1 DEF Manager
    <2>2. Similar(g, g)
      BY Zenon, <1>1, Busy, SimilarSelf
    <2> QED
      BY ZenonT(60), <1>1, <2>1, <2>2 DEF Similar, Manager, Alive
  <1>3. PICK h \in RunGC(AckComplete(k, r.id)) : mgr' = [mgr EXCEPT ![m] = h]
    BY Zenon DEF FinishTask
  <1>4. r.id \in Nat /\ r.task \in Tasks /\ started \in SUBSET Tasks
    BY Zenon, <1>1 DEF Rows, QueueInv, Types
  <1>5. started' \in SUBSET Tasks /\ started \subseteq started' /\ r.task \in started' \cup expired
    BY Zenon, <1>4 DEF FinishTask
  <1>6. ASSUME NEW s \in rows, s.task \notin started' \cup expired PROVE s.id # r.id
    <2>1. PICK x \in created : x.id = r.id /\ x.task = r.task
      BY Zenon DEF QueueInv, KnownInv, Known
    <2>2. PICK y \in created : y.id = s.id /\ y.task = s.task
      BY Zenon DEF QueueInv, KnownInv, Known
    <2>3. x.id = y.id => x = y
      BY Zenon DEF QueueInv, ClaimInv, Claims
    <2> QED
      BY ZenonT(60), <1>5, <1>6, <2>1, <2>2, <2>3
  <1>7. UNCHANGED <<storeVars, promised, expired>>
    BY Zenon DEF FinishTask
  <1> QED
    BY Zenon, <1>2, <1>3, <1>4, <1>5, <1>6, <1>7, CompletingStep

\* A rewrite that fails keeps the invariant.
LEMMA RewriteFailsStep ==
    ASSUME QueueInv, NEW m \in Managers, NEW p \in mgr[m].replies, ~p.ok, RewriteReturns(m, p)
    PROVE  QueueInv'
  <1> DEFINE g == mgr[m]
             k == [g EXCEPT !.replies = @ \ {p}]
             h == [k EXCEPT !.queue = @ \cup {p.req}]
  <1>1. g \in Manager /\ LocalInv(g) /\ Similar(g, k)
    BY Zenon, Facts, AnsweredSimilar
  <1>2. StoreKeeps /\ rows' = rows /\ UNCHANGED <<promised, started, expired>>
    BY Zenon, StoreUnchanged DEF RewriteReturns, storeVars, taskVars
  <1>3. Similar(g, Unload(k))
    BY Zenon, <1>1, SimilarSmall
  <1>4. ASSUME Running(m) PROVE Similar(g, h)
    <2>1. Alive(g) /\ p.req \in Requests /\ p.req \in RequestsOf(g) /\ k \in Manager /\ k.queue = g.queue
      BY SMTT(60), <1>1, <1>4, Facts DEF Manager, RequestsOf, Similar
    <2>2. k.queue \cup {p.req} \in SUBSET Requests /\ IsFiniteSet(k.queue \cup {p.req})
      <3>1. k.queue \in SUBSET Requests /\ IsFiniteSet(k.queue)
        BY Zenon, <1>1, <2>1 DEF LocalInv, Manager
      <3> HIDE DEF k
      <3> QED
        BY Zenon, <2>1, <3>1, AddFinite
    <2>3. h \in Manager
      BY ZenonT(60), <2>1, <2>2, FieldTypes
    <2>4. \A q \in k.queue \cup {p.req} : q \in RequestsOf(g)
      BY Zenon, <2>1 DEF RequestsOf
    <2> HIDE DEF k
    <2> QED
      BY ZenonT(60), <1>1, <2>1, <2>2, <2>3, <2>4 DEF Similar, Manager, Alive
  <1>5. \/ mgr' = [mgr EXCEPT ![m] = Unload(k)]
        \/ Running(m) /\ mgr' = [mgr EXCEPT ![m] = h]
    BY Zenon DEF RewriteReturns
  <1> QED
    BY ZenonT(60), <1>2, <1>3, <1>4, <1>5, SimilarStep

\* The completion of a task that has been written again keeps the invariant.
LEMMA RewriteSucceedsStep ==
    ASSUME LeastElement,
           QueueInv, NEW m \in Managers, NEW p \in mgr[m].replies, p.ok, RewriteReturns(m, p)
    PROVE  QueueInv'
  <1> DEFINE g == mgr[m]
             k == [g EXCEPT !.replies = @ \ {p}]
             j == [k EXCEPT !.signal = Running(m)]
  <1>1. g \in Manager /\ LocalInv(g) /\ Similar(g, k) /\ Running(m) \in BOOLEAN
    BY Facts, AnsweredSimilar DEF Running
  <1>2. Similar(g, j)
    BY Zenon, <1>1, SimilarSmall
  <1>3. PICK h \in RunGC(AckComplete(j, p.req.of)) : mgr' = [mgr EXCEPT ![m] = h]
    BY Zenon DEF RewriteReturns
  <1>4. p.req.of \in Nat /\ started \in SUBSET Tasks
    BY Zenon, <1>1 DEF Manager, Requests, QueueInv, Types
  <1>5. \A r \in rows : Safe(r) => r.id # p.req.of
    BY Zenon DEF Safe, Beyond
  <1>6. UNCHANGED <<storeVars, promised, expired, started>>
    BY Zenon DEF RewriteReturns, taskVars
  <1> QED
    BY ZenonT(60), <1>2, <1>3, <1>4, <1>5, <1>6, CompletingStep
=============================================================================
