---------------------------- MODULE QueueProofs ----------------------------
(***************************************************************************)
(* Theorems about the queues of a history shard.                           *)
(*                                                                         *)
(* The first part is about the operators of QueueSlice: what the           *)
(* predicates of a scope mean, and that splitting by predicate, shrinking, *)
(* clearing and merging trackers neither lose a task nor miscount one, for *)
(* any namespaces and any slice.  The second part is about ScheduledQueue, *)
(* for any bounds and any configuration of the queue.                      *)
(***************************************************************************)
EXTENDS ScheduledQueue, QueueSlice, FiniteSetTheorems, WellFoundedInduction, TLAPS

-----------------------------------------------------------------------------
(* Slices *)

\* the predicates that tasks.NewNamespacePredicate, predicates.Universal, Empty,
\* And, Or and Not build
Predicates ==
    {Universal, Empty} \cup {NamespacePredicate(N) : N \in SUBSET Namespaces}
                       \cup {Composite(N) : N \in SUBSET Namespaces}

\* the slice with the given fields
SliceWith(m, x, p, i, K, A, c) ==
    [min |-> m, max |-> x, pred |-> p, iters |-> i, pending |-> K, acked |-> A, count |-> c]

\* the slice s with one field or its tracker replaced
WithMin(s, m) == [s EXCEPT !.min = m]
WithPred(s, p) == [s EXCEPT !.pred = p]
WithAcked(s, A) == [s EXCEPT !.acked = A]
WithTracker(s, K, A, c) == [s EXCEPT !.pending = K, !.acked = A, !.count = c]

\* the slices: finitely many tasks are pending
Slices ==
    {s \in [min : Nat, max : Nat, pred : Predicates, iters : Seq([min : Nat, max : Nat]),
            pending : SUBSET (DOMAIN NamespaceOf \cap Nat),
            acked : SUBSET (DOMAIN NamespaceOf \cap Nat), count : [Namespaces -> Int]] :
        s.acked \subseteq s.pending /\ IsFiniteSet(s.pending)}

-----------------------------------------------------------------------------
(* Predicates *)

\* The form of a predicate, and the namespaces of one that is empty or universal
LEMMA PredicateFacts ==
  ASSUME NEW p \in Predicates
  PROVE  /\ p = [form |-> p.form, ns |-> p.ns] /\ p.ns \subseteq Namespaces
         /\ p.form \in {"universal", "empty", "namespaces", "composite"}
         /\ p.form = "universal" => p.ns = Namespaces
         /\ p.form = "empty" => p.ns = {}
  BY DEF Predicates, Universal, Empty, NamespacePredicate, Composite

(* predicates.And passes the namespaces that both pass, whichever of its    *)
(* simplifications applies.                                                 *)
THEOREM AndPasses ==
  ASSUME NEW p \in Predicates, NEW q \in Predicates
  PROVE  AndPredicates(p, q) \in Predicates /\ AndPredicates(p, q).ns = p.ns \cap q.ns
  <1> DEFINE both == p.ns \cap q.ns
  <1>1. /\ p.ns \subseteq Namespaces /\ q.ns \subseteq Namespaces
        /\ p.form = "universal" => p.ns = Namespaces
        /\ q.form = "universal" => q.ns = Namespaces
        /\ p.form = "empty" => p.ns = {}
        /\ q.form = "empty" => q.ns = {}
    BY Zenon, PredicateFacts
  <1>2. /\ Empty \in Predicates /\ Empty.ns = {}
        /\ NamespacePredicate(both) \in Predicates /\ NamespacePredicate(both).ns = both
        /\ Composite(both) \in Predicates /\ Composite(both).ns = both
    BY <1>1 DEF Predicates, Empty, NamespacePredicate, Composite
  <1>3. AndPredicates(p, q) = IF {p.form, q.form} = {"namespaces"}
                              THEN IF both = {} THEN Empty ELSE NamespacePredicate(both)
                              ELSE IF "empty" \in {p.form, q.form} THEN Empty
                              ELSE IF p.form = "universal" THEN q
                              ELSE IF q.form = "universal" THEN p
                              ELSE Composite(both)
    BY Zenon DEF AndPredicates
  <1> QED
    BY ZenonT(60), <1>1, <1>2, <1>3

(* predicates.Or passes the namespaces that either passes. *)
THEOREM OrPasses ==
  ASSUME NEW p \in Predicates, NEW q \in Predicates
  PROVE  OrPredicates(p, q) \in Predicates /\ OrPredicates(p, q).ns = p.ns \cup q.ns
  <1> DEFINE either == p.ns \cup q.ns
  <1>1. /\ p.ns \subseteq Namespaces /\ q.ns \subseteq Namespaces
        /\ p.form = "universal" => p.ns = Namespaces
        /\ q.form = "universal" => q.ns = Namespaces
        /\ p.form = "empty" => p.ns = {}
        /\ q.form = "empty" => q.ns = {}
    BY Zenon, PredicateFacts
  <1>2. /\ Universal \in Predicates /\ Universal.ns = Namespaces
        /\ NamespacePredicate(either) \in Predicates /\ NamespacePredicate(either).ns = either
        /\ Composite(either) \in Predicates /\ Composite(either).ns = either
    BY <1>1 DEF Predicates, Universal, NamespacePredicate, Composite
  <1>3. OrPredicates(p, q) = IF {p.form, q.form} = {"namespaces"} THEN NamespacePredicate(either)
                             ELSE IF "universal" \in {p.form, q.form} THEN Universal
                             ELSE IF p.form = "empty" THEN q
                             ELSE IF q.form = "empty" THEN p
                             ELSE Composite(either)
    BY Zenon DEF OrPredicates
  <1> QED
    BY ZenonT(60), <1>1, <1>2, <1>3

-----------------------------------------------------------------------------
(* Trackers *)

\* Counts add up when the tasks are disjoint.
LEMMA CountsAdd ==
  ASSUME NEW K, NEW L, IsFiniteSet(K), IsFiniteSet(L), K \cap L = {}
  PROVE  PerNamespace(K \cup L) = Plus(PerNamespace(K), PerNamespace(L))
  <1> DEFINE Of(S, n) == {k \in S : NamespaceOf[k] = n}
  <1>1. ASSUME NEW n \in Namespaces
        PROVE  Cardinality(Of(K \cup L, n)) = Cardinality(Of(K, n)) + Cardinality(Of(L, n))
    <2>1. Of(K, n) \in SUBSET K /\ Of(L, n) \in SUBSET L
      OBVIOUS
    <2>2. Of(K \cup L, n) = Of(K, n) \cup Of(L, n) /\ Of(K, n) \cap Of(L, n) = {}
      OBVIOUS
    <2> HIDE DEF Of
    <2>3. IsFiniteSet(Of(K, n)) /\ IsFiniteSet(Of(L, n))
      BY Zenon, <2>1, FS_Subset
    <2>4. Cardinality(Of(K, n)) \in Nat /\ Cardinality(Of(L, n)) \in Nat
      BY Zenon, <2>3, FS_CardinalityType
    <2>5. Cardinality(Of(K, n) \cup Of(L, n))
             = Cardinality(Of(K, n)) + Cardinality(Of(L, n)) - Cardinality(Of(K, n) \cap Of(L, n))
      BY Zenon, <2>3, FS_Union
    <2>6. Cardinality(Of(K, n) \cap Of(L, n)) = 0
      BY Zenon, <2>2, FS_EmptySet
    <2>7. Cardinality(Of(K, n) \cup Of(L, n)) = Cardinality(Of(K, n)) + Cardinality(Of(L, n))
      BY <2>4, <2>5, <2>6
    <2> QED
      BY Zenon, <2>2, <2>7
  <1>2. PerNamespace(K \cup L) = [n \in Namespaces |-> Cardinality(Of(K \cup L, n))]
        /\ PerNamespace(K) = [n \in Namespaces |-> Cardinality(Of(K, n))]
        /\ PerNamespace(L) = [n \in Namespaces |-> Cardinality(Of(L, n))]
    BY Zenon DEF PerNamespace
  <1> HIDE DEF Of
  <1> QED
    BY <1>1, <1>2 DEF Plus

\* The counts of finitely many tasks are numbers.
LEMMA CountsType ==
  ASSUME NEW K, IsFiniteSet(K)
  PROVE  PerNamespace(K) \in [Namespaces -> Nat]
  <1>1. ASSUME NEW n \in Namespaces PROVE Cardinality({k \in K : NamespaceOf[k] = n}) \in Nat
    <2>1. {k \in K : NamespaceOf[k] = n} \in SUBSET K
      OBVIOUS
    <2> QED
      BY Zenon, <2>1, FS_Subset, FS_CardinalityType
  <1> QED
    BY Zenon, <1>1 DEF PerNamespace

\* What is taken away from the tasks is taken away from the counts.
LEMMA CountsTaken ==
  ASSUME NEW K, NEW L, IsFiniteSet(K)
  PROVE  Minus(PerNamespace(K), PerNamespace(K \ L)) = PerNamespace(K \cap L)
  <1>1. K \cap L \in SUBSET K /\ K \ L \in SUBSET K /\ K = (K \cap L) \cup (K \ L)
        /\ (K \cap L) \cap (K \ L) = {}
    OBVIOUS
  <1>2. IsFiniteSet(K \cap L) /\ IsFiniteSet(K \ L)
    BY Zenon, <1>1, FS_Subset
  <1>3. PerNamespace(K) = Plus(PerNamespace(K \cap L), PerNamespace(K \ L))
    BY Zenon, <1>1, <1>2, CountsAdd
  <1>4. PerNamespace(K \cap L) \in [Namespaces -> Nat] /\ PerNamespace(K \ L) \in [Namespaces -> Nat]
    BY Zenon, <1>2, CountsType
  <1>5. ASSUME NEW f \in [Namespaces -> Nat], NEW g \in [Namespaces -> Nat]
        PROVE  Minus(Plus(f, g), g) = f
    BY SMT DEF Plus, Minus
  <1> QED
    BY Zenon, <1>3, <1>4, <1>5

-----------------------------------------------------------------------------
(* Records *)

\* A slice is the record of its fields.
LEMMA SliceFields ==
  ASSUME NEW s \in Slices
  PROVE  /\ s = SliceWith(s.min, s.max, s.pred, s.iters, s.pending, s.acked, s.count)
         /\ s.min \in Nat /\ s.max \in Nat /\ s.pred \in Predicates
         /\ s.iters \in Seq([min : Nat, max : Nat]) /\ IsFiniteSet(s.pending)
         /\ s.pending \subseteq DOMAIN NamespaceOf /\ s.pending \subseteq Nat
         /\ s.acked \subseteq s.pending /\ s.count \in [Namespaces -> Int]
  BY DEF Slices, SliceWith

\* The fields of a record that is built from them
LEMMA FieldsOf ==
  ASSUME NEW m, NEW x, NEW p, NEW i, NEW K, NEW A, NEW c,
         NEW r, r = SliceWith(m, x, p, i, K, A, c)
  PROVE  /\ r.min = m /\ r.max = x /\ r.pred = p /\ r.iters = i /\ r.pending = K
         /\ r.acked = A /\ r.count = c
  BY SMT DEF SliceWith

\* Such a record with one field, or with its tracker, replaced
LEMMA UpdatesOf ==
  ASSUME NEW m, NEW x, NEW p, NEW i, NEW K, NEW A, NEW c,
         NEW r, r = SliceWith(m, x, p, i, K, A, c), NEW v
  PROVE  /\ WithMin(r, v) = SliceWith(v, x, p, i, K, A, c)
         /\ WithPred(r, v) = SliceWith(m, x, v, i, K, A, c)
         /\ WithAcked(r, v) = SliceWith(m, x, p, i, K, v, c)
  BY SMT DEF SliceWith, WithMin, WithPred, WithAcked

\* A tracker is replaced.
LEMMA TrackerUpdate ==
  ASSUME NEW s \in Slices, NEW K, NEW A, NEW c
  PROVE  WithTracker(s, K, A, c) = SliceWith(s.min, s.max, s.pred, s.iters, K, A, c)
  <1> DEFINE r == SliceWith(s.min, s.max, s.pred, s.iters, s.pending, s.acked, s.count)
  <1>1. s = r
    BY Zenon, SliceFields
  <1>2. [r EXCEPT !.pending = K] = SliceWith(s.min, s.max, s.pred, s.iters, K, s.acked, s.count)
    BY SMT DEF SliceWith
  <1>3. [SliceWith(s.min, s.max, s.pred, s.iters, K, s.acked, s.count) EXCEPT !.acked = A]
           = SliceWith(s.min, s.max, s.pred, s.iters, K, A, s.count)
    BY SMT DEF SliceWith
  <1>4. [SliceWith(s.min, s.max, s.pred, s.iters, K, A, s.count) EXCEPT !.count = c]
           = SliceWith(s.min, s.max, s.pred, s.iters, K, A, c)
    BY SMT DEF SliceWith
  <1> HIDE DEF r
  <1>5. [r EXCEPT !.pending = K, !.acked = A, !.count = c]
           = [[[r EXCEPT !.pending = K] EXCEPT !.acked = A] EXCEPT !.count = c]
    BY SMT
  <1> QED
    BY Zenon, <1>1, <1>2, <1>3, <1>4, <1>5 DEF WithTracker

\* A slice made of its parts
LEMMA MakeSlice ==
  ASSUME NEW m \in Nat, NEW x \in Nat, NEW p \in Predicates,
         NEW i \in Seq([min : Nat, max : Nat]), NEW c \in [Namespaces -> Int],
         NEW K \in SUBSET (DOMAIN NamespaceOf \cap Nat), IsFiniteSet(K), NEW A \in SUBSET K
  PROVE  SliceWith(m, x, p, i, K, A, c) \in Slices
  BY DEF Slices, SliceWith

\* A slice with an empty tracker
LEMMA EmptySlice ==
  ASSUME NEW m \in Nat, NEW x \in Nat, NEW p \in Predicates,
         NEW i \in Seq([min : Nat, max : Nat]), NEW c \in [Namespaces -> Int]
  PROVE  SliceWith(m, x, p, i, {}, {}, c) \in Slices
  <1> DEFINE K == {}
  <1>1. K \in SUBSET (DOMAIN NamespaceOf \cap Nat) /\ IsFiniteSet(K) /\ K \in SUBSET K
    BY Zenon, FS_EmptySet
  <1> HIDE DEF K
  <1>2. SliceWith(m, x, p, i, K, K, c) \in Slices
    BY SMT, <1>1, MakeSlice
  <1> QED
    BY Zenon, <1>2 DEF K

\* A record with the fields of a slice is one.
LEMMA SliceOf ==
  ASSUME NEW s \in Slices, NEW m \in Nat, NEW p \in Predicates, NEW K, K \subseteq s.pending,
         NEW A, A \subseteq K, NEW c \in [Namespaces -> Int]
  PROVE  SliceWith(m, s.max, p, s.iters, K, A, c) \in Slices /\ IsFiniteSet(K)
  <1>1. IsFiniteSet(K)
    BY Zenon, SliceFields, FS_Subset
  <1> QED
    BY <1>1 DEF Slices, SliceWith

-----------------------------------------------------------------------------
(* Trackers *)

(* executableTracker.split: of the tasks of a tracker each goes to one of   *)
(* the two, done or not as it was, and both count what they have.           *)
THEOREM TrackerSplitExact ==
  ASSUME NEW s \in Slices, ExactCount(s), NEW K
  PROVE  /\ Kept(s, K) = SliceWith(s.min, s.max, s.pred, s.iters, s.pending \cap K,
                                   s.acked \cap K, PerNamespace(s.pending \cap K))
         /\ Moved(s, K) = SliceWith(s.min, s.max, s.pred, s.iters, s.pending \ K,
                                    s.acked \ K, PerNamespace(s.pending \ K))
         /\ s.pending \cap K \subseteq s.pending /\ s.acked \cap K \subseteq s.pending \cap K
         /\ s.pending \ K \subseteq s.pending /\ s.acked \ K \subseteq s.pending \ K
         /\ PerNamespace(s.pending \cap K) \in [Namespaces -> Int]
         /\ PerNamespace(s.pending \ K) \in [Namespaces -> Int]
  <1>1. Minus(s.count, PerNamespace(s.pending \ K)) = PerNamespace(s.pending \cap K)
    BY Zenon, SliceFields, CountsTaken DEF ExactCount
  <1>2. Kept(s, K) = SliceWith(s.min, s.max, s.pred, s.iters, s.pending \cap K,
                               s.acked \cap K, Minus(s.count, PerNamespace(s.pending \ K)))
    <2>1. Kept(s, K) = WithTracker(s, s.pending \cap K, s.acked \cap K,
                                   Minus(s.count, PerNamespace(s.pending \ K)))
      BY Zenon DEF Kept, WithTracker
    <2> QED
      BY Zenon, <2>1, TrackerUpdate
  <1>3. Moved(s, K) = SliceWith(s.min, s.max, s.pred, s.iters, s.pending \ K,
                                s.acked \ K, PerNamespace(s.pending \ K))
    <2>1. Moved(s, K) = WithTracker(s, s.pending \ K, s.acked \ K, PerNamespace(s.pending \ K))
      BY Zenon DEF Moved, WithTracker
    <2> QED
      BY Zenon, <2>1, TrackerUpdate
  <1>4. s.acked \subseteq s.pending /\ IsFiniteSet(s.pending)
    BY Zenon, SliceFields
  <1>5. /\ s.pending \cap K \in SUBSET s.pending /\ s.acked \cap K \subseteq s.pending \cap K
        /\ s.pending \ K \in SUBSET s.pending /\ s.acked \ K \subseteq s.pending \ K
    BY <1>4
  <1>6. /\ PerNamespace(s.pending \cap K) \in [Namespaces -> Nat]
        /\ PerNamespace(s.pending \ K) \in [Namespaces -> Nat]
    BY Zenon, <1>4, <1>5, FS_Subset, CountsType
  <1>7. ASSUME NEW f \in [Namespaces -> Nat] PROVE f \in [Namespaces -> Int]
    OBVIOUS
  <1> QED
    BY Zenon, <1>1, <1>2, <1>3, <1>5, <1>6, <1>7

(* executableTracker.merge: two trackers that share no task become one that *)
(* has the tasks of both, done or not as they were, and counts them, also   *)
(* when the trackers are swapped because the second is the larger one.      *)
THEOREM TrackersMergeExact ==
  ASSUME NEW s \in Slices, NEW t \in Slices, ExactCount(s), ExactCount(t),
         s.pending \cap t.pending = {}
  PROVE  MergeTrackers(s, t)
            = SliceWith(s.min, s.max, s.pred, s.iters, s.pending \cup t.pending,
                        s.acked \cup t.acked, PerNamespace(s.pending \cup t.pending))
  <1> DEFINE Merged(big, small) ==
               WithTracker(s, big.pending \cup small.pending,
                           (big.acked \ small.pending) \cup small.acked,
                           Plus(big.count, PerNamespace(small.pending)))
             Both(a, b) == SliceWith(s.min, s.max, s.pred, s.iters, a.pending \cup b.pending,
                                     a.acked \cup b.acked, PerNamespace(a.pending \cup b.pending))
  <1>1. ASSUME NEW a \in Slices, NEW b \in Slices, ExactCount(a), a.pending \cap b.pending = {}
        PROVE  Merged(a, b) = Both(a, b)
    <2>1. PerNamespace(a.pending \cup b.pending) = Plus(a.count, PerNamespace(b.pending))
      <3>1. IsFiniteSet(a.pending) /\ IsFiniteSet(b.pending) /\ a.count = PerNamespace(a.pending)
        BY Zenon, <1>1, SliceFields DEF ExactCount
      <3> QED
        BY ZenonT(60), <1>1, <3>1, CountsAdd
    <2>2. a.acked \subseteq a.pending
      BY Zenon, SliceFields
    <2>3. (a.acked \ b.pending) \cup b.acked = a.acked \cup b.acked
      BY <1>1, <2>2
    <2>4. Merged(a, b) = SliceWith(s.min, s.max, s.pred, s.iters, a.pending \cup b.pending,
                                   (a.acked \ b.pending) \cup b.acked,
                                   Plus(a.count, PerNamespace(b.pending)))
      BY ZenonT(60), TrackerUpdate
    <2> QED
      BY Zenon, <2>1, <2>3, <2>4
  <1>2. MergeTrackers(s, t) = IF Cardinality(s.pending) < Cardinality(t.pending)
                              THEN Merged(t, s) ELSE Merged(s, t)
    BY Zenon DEF MergeTrackers, WithTracker
  <1>3. t.pending \cap s.pending = {} /\ t.pending \cup s.pending = s.pending \cup t.pending
        /\ t.acked \cup s.acked = s.acked \cup t.acked
    OBVIOUS
  <1>4. Both(t, s) = Both(s, t)
    BY Zenon, <1>3
  <1> HIDE DEF Merged
  <1>5. Merged(t, s) = Both(t, s) /\ Merged(s, t) = Both(s, t)
    BY Zenon, <1>1, <1>3
  <1> QED
    BY Zenon, <1>2, <1>4, <1>5

-----------------------------------------------------------------------------
(* Splitting by predicate *)

\* What InScope, WillProcess and ValidSlice say of a slice given by its fields
LEMMA SliceMeaning ==
  ASSUME NEW m, NEW x, NEW p, NEW i, NEW K, NEW A, NEW c,
         NEW r, r = SliceWith(m, x, p, i, K, A, c)
  PROVE  /\ ExactCount(r) <=> c = PerNamespace(K)
         /\ \A k : InScope(r, k) <=> m <= k /\ k < x /\ NamespaceOf[k] \in p.ns
         /\ \A k : WillProcess(r, k) <=> /\ InScope(r, k)
                                         /\ \/ k \in K \ A
                                            \/ \E j \in DOMAIN i : ContainsKey(i[j], k)
         /\ ValidSlice(r) <=>
              /\ m <= x
              /\ \A k \in K : InScope(r, k)
              /\ \A j \in DOMAIN i :
                  /\ m <= i[j].min /\ i[j].min <= i[j].max /\ i[j].max <= x
                  /\ \A h \in DOMAIN i : h < j => i[h].max < i[j].min
  <1>1. r.min = m /\ r.max = x /\ r.pred = p /\ r.iters = i /\ r.pending = K /\ r.acked = A
        /\ r.count = c
    BY SMT, FieldsOf
  <1>2. ExactCount(r) <=> c = PerNamespace(K)
    BY Zenon, <1>1 DEF ExactCount
  <1>3. ASSUME NEW k PROVE InScope(r, k) <=> m <= k /\ k < x /\ NamespaceOf[k] \in p.ns
    BY Zenon, <1>1 DEF InScope, ContainsKey, Test
  <1>4. ASSUME NEW k
        PROVE  WillProcess(r, k) <=> /\ InScope(r, k)
                                     /\ \/ k \in K \ A
                                        \/ \E j \in DOMAIN i : ContainsKey(i[j], k)
    BY Zenon, <1>1 DEF WillProcess
  <1>5. ValidSlice(r) <=>
          /\ m <= x
          /\ \A k \in K : InScope(r, k)
          /\ \A j \in DOMAIN i :
              /\ m <= i[j].min /\ i[j].min <= i[j].max /\ i[j].max <= x
              /\ \A h \in DOMAIN i : h < j => i[h].max < i[j].min
    BY Zenon, <1>1 DEF ValidSlice
  <1> QED
    BY Zenon, <1>2, <1>3, <1>4, <1>5

\* SplitByPredicate as two slices given by their fields
LEMMA SplitFields ==
  ASSUME NEW s \in Slices, ExactCount(s), NEW N \in SUBSET Namespaces
  PROVE  \E p \in Predicates, q \in Predicates, K \in SUBSET s.pending :
           /\ p.ns = s.pred.ns \cap N /\ q.ns = s.pred.ns \ N
           /\ K = {k \in s.pending : NamespaceOf[k] \in p.ns}
           /\ SplitByPredicate(s, N)[1]
                 = SliceWith(s.min, s.max, p, s.iters, s.pending \cap K, s.acked \cap K,
                             PerNamespace(s.pending \cap K))
           /\ SplitByPredicate(s, N)[2]
                 = SliceWith(s.min, s.max, q, s.iters, s.pending \ K, s.acked \ K,
                             PerNamespace(s.pending \ K))
           /\ SplitByPredicate(s, N)[1] \in Slices /\ SplitByPredicate(s, N)[2] \in Slices
  <1> DEFINE p == AndPredicates(s.pred, NamespacePredicate(N))
             q == AndPredicates(s.pred, NotNamespaces(N))
             K == {k \in s.pending : Test(p, k)}
             one == [Kept(s, K) EXCEPT !.pred = p]
             two == [Moved(s, K) EXCEPT !.pred = AndPredicates(@, NotNamespaces(N))]
  <1>1. s.pred \in Predicates /\ s.min \in Nat /\ s.pred.ns \subseteq Namespaces
    BY Zenon, SliceFields, PredicateFacts
  <1>2. /\ NamespacePredicate(N) \in Predicates /\ NamespacePredicate(N).ns = N
        /\ NotNamespaces(N) \in Predicates /\ NotNamespaces(N).ns = Namespaces \ N
    BY SMT DEF Predicates, NamespacePredicate, NotNamespaces, Composite
  <1>3. p \in Predicates /\ p.ns = s.pred.ns \cap N
    BY Zenon, <1>1, <1>2, AndPasses
  <1>4. q \in Predicates /\ q.ns = s.pred.ns \cap (Namespaces \ N)
    BY Zenon, <1>1, <1>2, AndPasses
  <1>5. q.ns = s.pred.ns \ N
    <2>1. s.pred.ns \cap (Namespaces \ N) = s.pred.ns \ N
      BY <1>1
    <2> QED
      BY Zenon, <1>4, <2>1
  <1>6. K \in SUBSET s.pending /\ K = {k \in s.pending : NamespaceOf[k] \in p.ns}
    BY Zenon DEF Test
  <1>7. SplitByPredicate(s, N)[1] = one /\ SplitByPredicate(s, N)[2] = two
    BY DEF SplitByPredicate
  <1> HIDE DEF p, K
  <1>8. one = SliceWith(s.min, s.max, p, s.iters, s.pending \cap K, s.acked \cap K,
                        PerNamespace(s.pending \cap K))
    <2>1. Kept(s, K) = SliceWith(s.min, s.max, s.pred, s.iters, s.pending \cap K, s.acked \cap K,
                                 PerNamespace(s.pending \cap K))
      BY Zenon, TrackerSplitExact
    <2>2. one = WithPred(Kept(s, K), p)
      BY Zenon DEF WithPred
    <2> QED
      BY SMT, <2>1, <2>2, UpdatesOf
  <1>9. two = SliceWith(s.min, s.max, q, s.iters, s.pending \ K, s.acked \ K,
                        PerNamespace(s.pending \ K))
    <2>1. Moved(s, K) = SliceWith(s.min, s.max, s.pred, s.iters, s.pending \ K, s.acked \ K,
                                  PerNamespace(s.pending \ K))
      BY Zenon, TrackerSplitExact
    <2>2. Moved(s, K).pred = s.pred
      BY SMT, <2>1, FieldsOf
    <2>3. two = WithPred(Moved(s, K), q)
      BY Zenon, <2>2 DEF WithPred
    <2> HIDE DEF q
    <2> QED
      BY SMT, <2>1, <2>3, UpdatesOf
  <1> HIDE DEF q, one, two
  <1>10. one \in Slices /\ two \in Slices
    <2>1. /\ s.pending \cap K \subseteq s.pending /\ s.acked \cap K \subseteq s.pending \cap K
          /\ s.pending \ K \subseteq s.pending /\ s.acked \ K \subseteq s.pending \ K
          /\ PerNamespace(s.pending \cap K) \in [Namespaces -> Int]
          /\ PerNamespace(s.pending \ K) \in [Namespaces -> Int]
      BY Zenon, TrackerSplitExact
    <2>2. one \in Slices
      BY ZenonT(60), <1>1, <1>3, <1>8, <2>1, SliceOf
    <2>3. two \in Slices
      BY Zenon, <1>1, <1>4, <1>9, <2>1, SliceOf
    <2> QED
      BY Zenon, <2>2, <2>3
  <1> QED
    BY Zenon, <1>3, <1>4, <1>5, <1>6, <1>7, <1>8, <1>9, <1>10

(* SplitByPredicate loses and doubles nothing: a task of the slice is in    *)
(* the scope of exactly one of the two parts, what the slice has still to   *)
(* execute is executed by that part, and both parts are slices whose counts *)
(* agree with their tasks, that read and track only their own tasks.        *)
THEOREM SplitByPredicateExact ==
  ASSUME NEW s \in Slices, ExactCount(s), NEW N \in SUBSET Namespaces
  PROVE  LET one == SplitByPredicate(s, N)[1]
             two == SplitByPredicate(s, N)[2]
         IN  /\ one \in Slices /\ two \in Slices /\ ExactCount(one) /\ ExactCount(two)
             /\ ValidSlice(s) => ValidSlice(one) /\ ValidSlice(two)
             /\ \A k \in DOMAIN NamespaceOf :
                  /\ InScope(s, k) <=> InScope(one, k) \/ InScope(two, k)
                  /\ ~(InScope(one, k) /\ InScope(two, k))
                  /\ WillProcess(s, k) <=> WillProcess(one, k) \/ WillProcess(two, k)
  <1> DEFINE one == SplitByPredicate(s, N)[1]
             two == SplitByPredicate(s, N)[2]
  <1>1. PICK p \in Predicates, q \in Predicates, K \in SUBSET s.pending :
           /\ p.ns = s.pred.ns \cap N /\ q.ns = s.pred.ns \ N
           /\ K = {k \in s.pending : NamespaceOf[k] \in p.ns}
           /\ one = SliceWith(s.min, s.max, p, s.iters, s.pending \cap K, s.acked \cap K,
                              PerNamespace(s.pending \cap K))
           /\ two = SliceWith(s.min, s.max, q, s.iters, s.pending \ K, s.acked \ K,
                              PerNamespace(s.pending \ K))
           /\ one \in Slices /\ two \in Slices
    BY Zenon, SplitFields
  <1> HIDE DEF one, two
  <1>2. s = SliceWith(s.min, s.max, s.pred, s.iters, s.pending, s.acked, s.count)
        /\ s.acked \subseteq s.pending
    BY ZenonT(60), SliceFields
  <1>3. ASSUME NEW k
        PROVE  /\ InScope(s, k) <=> s.min <= k /\ k < s.max /\ NamespaceOf[k] \in s.pred.ns
               /\ InScope(one, k) <=> s.min <= k /\ k < s.max /\ NamespaceOf[k] \in p.ns
               /\ InScope(two, k) <=> s.min <= k /\ k < s.max /\ NamespaceOf[k] \in q.ns
    BY SMT, <1>1, <1>2, SliceMeaning
  <1>4. ASSUME NEW k PROVE p.ns = s.pred.ns \cap N /\ q.ns = s.pred.ns \ N
                           => /\ InScope(s, k) <=> InScope(one, k) \/ InScope(two, k)
                              /\ ~(InScope(one, k) /\ InScope(two, k))
    BY <1>3
  <1>5. ASSUME NEW k \in s.pending, InScope(s, k)
        PROVE  (k \in K => InScope(one, k)) /\ (k \notin K => InScope(two, k))
    BY ZenonT(60), <1>1, <1>3, <1>4, <1>5
  <1> DEFINE read(k) == \E j \in DOMAIN s.iters : ContainsKey(s.iters[j], k)
  <1>6. ASSUME NEW k
        PROVE  /\ WillProcess(s, k) <=> InScope(s, k) /\ (k \in s.pending \ s.acked \/ read(k))
               /\ WillProcess(one, k) <=> InScope(one, k)
                     /\ (k \in (s.pending \cap K) \ (s.acked \cap K) \/ read(k))
               /\ WillProcess(two, k) <=> InScope(two, k)
                     /\ (k \in (s.pending \ K) \ (s.acked \ K) \/ read(k))
    BY SMT, <1>1, <1>2, SliceMeaning
  <1> HIDE DEF read
  <1>7. ASSUME NEW k
        PROVE  WillProcess(s, k) <=> WillProcess(one, k) \/ WillProcess(two, k)
    <2>1. (InScope(s, k) <=> InScope(one, k) \/ InScope(two, k))
          /\ ~(InScope(one, k) /\ InScope(two, k))
      BY Zenon, <1>1, <1>4
    <2>2. k \in s.pending /\ InScope(s, k)
             => (k \in K => InScope(one, k)) /\ (k \notin K => InScope(two, k))
      BY ZenonT(60), <1>5
    <2> QED
      BY <1>6, <2>1, <2>2
  <1>8. ExactCount(one) /\ ExactCount(two)
    BY SMT, <1>1, SliceMeaning
  <1> DEFINE tidy == \A j \in DOMAIN s.iters :
                       /\ s.min <= s.iters[j].min /\ s.iters[j].min <= s.iters[j].max
                       /\ s.iters[j].max <= s.max
                       /\ \A h \in DOMAIN s.iters : h < j => s.iters[h].max < s.iters[j].min
  <1>9. ValidSlice(s) => s.min <= s.max /\ (\A k \in s.pending : InScope(s, k)) /\ tidy
    BY ZenonT(60) DEF ValidSlice
  <1>10. /\ ValidSlice(one) <=> s.min <= s.max /\ (\A k \in s.pending \cap K : InScope(one, k)) /\ tidy
         /\ ValidSlice(two) <=> s.min <= s.max /\ (\A k \in s.pending \ K : InScope(two, k)) /\ tidy
    BY SMT, <1>1, SliceMeaning
  <1> HIDE DEF tidy
  <1>11. ValidSlice(s) => ValidSlice(one) /\ ValidSlice(two)
    BY Zenon, <1>5, <1>9, <1>10
  <1> QED
    BY Zenon, <1>1, <1>4, <1>7, <1>8, <1>11 DEF one, two

-----------------------------------------------------------------------------
(* Shrinking and clearing *)

\* A nonempty set of keys has a least one.
LEMMA LeastKey ==
  ASSUME NEW S \in SUBSET Nat, S # {}
  PROVE  \E x \in S : \A y \in S : x <= y
  <1> DEFINE R == OpToRel(<, Nat)
  <1>0. IsWellFoundedOn(R, Nat)
    BY Zenon, NatLessThanWellFounded
  <1> HIDE DEF R
  <1>1. \E x \in S : \A y \in S : ~(<<y, x>> \in R)
    BY Zenon, <1>0, WFMin
  <1>2. PICK x \in S : \A y \in S : ~(<<y, x>> \in R)
    BY Zenon, <1>1
  <1>3. ASSUME NEW y \in S PROVE x <= y
    <2>1. ~(<<y, x>> \in {ss \in Nat \X Nat : ss[1] < ss[2]})
      BY Zenon, <1>2 DEF R, OpToRel
    <2>2. x \in Nat /\ y \in Nat
      OBVIOUS
    <2> QED
      BY SMT, <2>1, <2>2
  <1> QED
    BY Zenon, <1>3

\* The elements of a sequence
LEMMA ElementsOf ==
  ASSUME NEW T, NEW q \in Seq(T), NEW j \in DOMAIN q
  PROVE  q # << >> /\ 1 \in DOMAIN q /\ j \in Nat /\ 1 <= j /\ q[1] \in T /\ q[j] \in T
  OBVIOUS

\* shrink of a tracker drops what is done, and counts what is left.
LEMMA ShrinkTrackerFields ==
  ASSUME NEW s \in Slices, ExactCount(s)
  PROVE  LET P == s.pending \ s.acked
         IN  /\ ShrinkTracker(s) = SliceWith(s.min, s.max, s.pred, s.iters, P, {}, PerNamespace(P))
             /\ ShrinkTracker(s) \in Slices
  <1> DEFINE P == s.pending \ s.acked
             t == ShrinkTracker(s)
  <1>1. /\ s.pending \cap P = P /\ s.acked \cap P = {} /\ P \subseteq s.pending /\ {} \subseteq P
    OBVIOUS
  <1> HIDE DEF P
  <1>2. /\ Kept(s, P) = SliceWith(s.min, s.max, s.pred, s.iters, s.pending \cap P,
                                  s.acked \cap P, PerNamespace(s.pending \cap P))
        /\ PerNamespace(s.pending \cap P) \in [Namespaces -> Int]
    BY Zenon, TrackerSplitExact
  <1>3. t = WithAcked(Kept(s, P), {})
    BY Zenon DEF ShrinkTracker, WithAcked, P
  <1> HIDE DEF t
  <1>4. Kept(s, P) = SliceWith(s.min, s.max, s.pred, s.iters, P, {}, PerNamespace(P))
        /\ PerNamespace(P) \in [Namespaces -> Int]
    BY Zenon, <1>1, <1>2
  <1>5. t = SliceWith(s.min, s.max, s.pred, s.iters, P, {}, PerNamespace(P))
    BY SMT, <1>3, <1>4, UpdatesOf
  <1>6. s.min \in Nat /\ s.pred \in Predicates
    BY Zenon, SliceFields
  <1>7. t \in Slices
    BY Zenon, <1>1, <1>4, <1>5, <1>6, SliceOf
  <1> QED
    BY Zenon, <1>5, <1>7 DEF t, P

\* shrinkRange moves the lower bound up to the least task that is tracked or
\* has still to be read, to the upper one if there is none.
LEMMA ShrinkRangeFields ==
  ASSUME NEW s \in Slices, ValidSlice(s)
  PROVE  \E m \in Nat :
           /\ ShrinkRange(s) = SliceWith(m, s.max, s.pred, s.iters, s.pending, s.acked, s.count)
           /\ s.min <= m /\ m <= s.max
           /\ \A k \in s.pending : m <= k
           /\ \A j \in DOMAIN s.iters : m <= s.iters[j].min
           /\ s.pending = {} /\ s.iters = << >> => m = s.max
  <1> DEFINE left == s.pending \cup (IF MoreTasks(s) THEN {s.iters[1].min} ELSE {})
             m == IF left = {} THEN s.max ELSE CHOOSE k \in left : \A j \in left : k <= j
  <1>1. /\ s = SliceWith(s.min, s.max, s.pred, s.iters, s.pending, s.acked, s.count)
        /\ s.min \in Nat /\ s.max \in Nat /\ s.pending \subseteq Nat
        /\ s.iters \in Seq([min : Nat, max : Nat])
    BY Zenon, SliceFields
  <1>2. ShrinkRange(s) = WithMin(s, m)
    BY Zenon DEF ShrinkRange, WithMin
  <1>3. /\ s.min <= s.max
        /\ \A k \in s.pending : s.min <= k /\ k < s.max
        /\ \A j \in DOMAIN s.iters :
            /\ s.min <= s.iters[j].min /\ s.iters[j].min <= s.iters[j].max
            /\ s.iters[j].max <= s.max
            /\ \A h \in DOMAIN s.iters : h < j => s.iters[h].max < s.iters[j].min
    BY Zenon DEF ValidSlice, InScope, ContainsKey
  <1>4. ASSUME NEW j \in DOMAIN s.iters
        PROVE  /\ MoreTasks(s) /\ 1 \in DOMAIN s.iters /\ s.iters[1].min <= s.iters[j].min
               /\ s.iters[1].min \in Nat /\ s.iters[j].min \in Nat
    <2>1. /\ s.iters # << >> /\ 1 \in DOMAIN s.iters /\ j \in Nat /\ 1 <= j
          /\ s.iters[1] \in [min : Nat, max : Nat] /\ s.iters[j] \in [min : Nat, max : Nat]
      BY Zenon, <1>1, ElementsOf
    <2>2. s.iters[1].min <= s.iters[1].max /\ (1 < j => s.iters[1].max < s.iters[j].min)
      BY Zenon, <1>3, <2>1
    <2>3. /\ s.iters[1].min \in Nat /\ s.iters[1].max \in Nat /\ s.iters[j].min \in Nat
      BY SMT, <2>1
    <2>4. s.iters[1].min <= s.iters[j].min
      BY SMT, <2>1, <2>2, <2>3
    <2> QED
      BY Zenon, <2>1, <2>3, <2>4 DEF MoreTasks
  <1>5. MoreTasks(s) => 1 \in DOMAIN s.iters
    BY SMT, <1>1 DEF MoreTasks
  <1>6. left \in SUBSET Nat /\ \A k \in left : s.min <= k /\ k <= s.max
    <2>1. ASSUME MoreTasks(s)
          PROVE  /\ s.iters[1].min \in Nat /\ s.min <= s.iters[1].min /\ s.iters[1].min <= s.max
      <3>1. /\ s.iters[1] \in [min : Nat, max : Nat] /\ s.min <= s.iters[1].min
            /\ s.iters[1].min <= s.iters[1].max /\ s.iters[1].max <= s.max
        BY Zenon, <1>1, <1>3, <1>5, <2>1, ElementsOf
      <3>2. s.iters[1].min \in Nat /\ s.iters[1].max \in Nat
        BY SMT, <3>1
      <3> QED
        BY SMT, <1>1, <3>1, <3>2
    <2>2. ASSUME NEW k \in s.pending PROVE k \in Nat /\ s.min <= k /\ k <= s.max
      BY SMT, <1>1, <1>3
    <2> QED
      BY Zenon, <2>1, <2>2
  <1>7. s.pending \subseteq left /\ (MoreTasks(s) => s.iters[1].min \in left)
    BY Zenon
  <1>8. s.pending = {} /\ s.iters = << >> => left = {}
    BY Zenon DEF MoreTasks
  <1> HIDE DEF left
  <1>9. CASE left = {}
    <2>1. m = s.max
      BY Zenon, <1>9
    <2>2. \A k \in s.pending : m <= k
      BY Zenon, <1>7, <1>9
    <2>3. \A j \in DOMAIN s.iters : m <= s.iters[j].min
      BY Zenon, <1>4, <1>7, <1>9
    <2> HIDE DEF m
    <2>4. ShrinkRange(s) = SliceWith(m, s.max, s.pred, s.iters, s.pending, s.acked, s.count)
      BY SMT, <1>1, <1>2, UpdatesOf
    <2>5. s.min <= m /\ m <= s.max /\ m \in Nat
      BY SMT, <1>1, <1>3, <2>1
    <2> QED
      BY Zenon, <2>1, <2>2, <2>3, <2>4, <2>5
  <1>10. CASE left # {}
    <2>1. \E x \in left : \A y \in left : x <= y
      BY Zenon, <1>6, <1>10, LeastKey
    <2>2. m \in left /\ \A y \in left : m <= y
      BY Zenon, <1>10, <2>1
    <2> HIDE DEF m
    <2>3. m \in Nat /\ s.min <= m /\ m <= s.max
      BY Zenon, <1>6, <2>2
    <2>4. \A k \in s.pending : m <= k
      BY Zenon, <1>7, <2>2
    <2>5. ASSUME NEW j \in DOMAIN s.iters PROVE m <= s.iters[j].min
      <3>1. m <= s.iters[1].min /\ s.iters[1].min <= s.iters[j].min
            /\ s.iters[1].min \in Nat /\ s.iters[j].min \in Nat
        BY Zenon, <1>4, <1>7, <2>2
      <3> QED
        BY SMT, <2>3, <3>1
    <2>6. ShrinkRange(s) = SliceWith(m, s.max, s.pred, s.iters, s.pending, s.acked, s.count)
      BY SMT, <1>1, <1>2, UpdatesOf
    <2> QED
      BY Zenon, <1>8, <1>10, <2>3, <2>4, <2>5, <2>6
  <1> QED
    BY Zenon, <1>9, <1>10

\* shrinkPredicate narrows the predicate to the namespaces of the tasks that
\* are left, and only when there is nothing more to read.
LEMMA ShrinkPredicateFields ==
  ASSUME NEW s \in Slices, ExactCount(s), \A k \in s.pending : NamespaceOf[k] \in s.pred.ns
  PROVE  \E p \in Predicates :
           /\ ShrinkPredicate(s) = SliceWith(s.min, s.max, p, s.iters, s.pending, s.acked, s.count)
           /\ p.ns \subseteq s.pred.ns /\ (s.iters # << >> => p = s.pred)
           /\ \A k \in s.pending : NamespaceOf[k] \in p.ns
  <1> DEFINE N == {n \in Namespaces : s.count[n] # 0}
             p == AndPredicates(s.pred, NamespacePredicate(N))
  <1>1. /\ s = SliceWith(s.min, s.max, s.pred, s.iters, s.pending, s.acked, s.count)
        /\ s.pred \in Predicates /\ IsFiniteSet(s.pending) /\ s.pending \subseteq DOMAIN NamespaceOf
    BY Zenon, SliceFields
  <1>2. NamespacePredicate(N) \in Predicates /\ NamespacePredicate(N).ns = N
    <2>1. N \in SUBSET Namespaces
      OBVIOUS
    <2> HIDE DEF N
    <2> QED
      BY SMT, <2>1 DEF Predicates, NamespacePredicate
  <1>3. p \in Predicates /\ p.ns = s.pred.ns \cap N
    <2>1. s.pred \in Predicates
      BY Zenon, SliceFields
    <2> HIDE DEF N
    <2> QED
      BY SMT, <1>2, <2>1, AndPasses
  <1>4. ASSUME NEW k \in s.pending PROVE NamespaceOf[k] \in N
    <2> DEFINE C == {j \in s.pending : NamespaceOf[j] = NamespaceOf[k]}
    <2>1. NamespaceOf[k] \in Namespaces
      BY Zenon, <1>1, NamespaceAssumption
    <2>2. C \in SUBSET s.pending /\ k \in C
      OBVIOUS
    <2>3. s.count[NamespaceOf[k]] = Cardinality(C)
      BY Zenon, <2>1 DEF ExactCount, PerNamespace
    <2> HIDE DEF C
    <2>4. IsFiniteSet(C) /\ C # {}
      BY Zenon, <1>1, <2>2, FS_Subset
    <2>5. Cardinality(C) # 0
      BY Zenon, <2>4, FS_EmptySet
    <2> QED
      BY Zenon, <2>1, <2>3, <2>5
  <1>5. \/ ShrinkPredicate(s) = s
        \/ s.iters = << >> /\ ShrinkPredicate(s) = WithPred(s, p)
    <2>1. ShrinkPredicate(s) = IF MoreTasks(s) \/ Cardinality(N) > MaxShrinkNamespaces THEN s
                               ELSE WithPred(s, p)
      BY Zenon DEF ShrinkPredicate, WithPred
    <2> HIDE DEF N, p
    <2> QED
      BY Zenon, <2>1 DEF MoreTasks
  <1> HIDE DEF N, p
  <1>6. CASE ShrinkPredicate(s) = s
    <2>1. ShrinkPredicate(s) = SliceWith(s.min, s.max, s.pred, s.iters, s.pending, s.acked, s.count)
      BY Zenon, <1>1, <1>6
    <2>2. s.pred.ns \subseteq s.pred.ns
      OBVIOUS
    <2> QED
      BY Zenon, <1>1, <2>1, <2>2
  <1>7. CASE s.iters = << >> /\ ShrinkPredicate(s) = WithPred(s, p)
    <2>1. ShrinkPredicate(s) = SliceWith(s.min, s.max, p, s.iters, s.pending, s.acked, s.count)
      BY SMT, <1>1, <1>7, UpdatesOf
    <2>2. p.ns \subseteq s.pred.ns /\ \A k \in s.pending : NamespaceOf[k] \in p.ns
      BY Zenon, <1>3, <1>4
    <2> QED
      BY Zenon, <1>3, <1>7, <2>1, <2>2
  <1> QED
    BY Zenon, <1>5, <1>6, <1>7

(* ShrinkScope drops what is done and nothing else: what the slice has      *)
(* still to execute is the same before and after, although its range and    *)
(* its predicate only narrow, and the slice still counts, reads and tracks  *)
(* its own tasks.  A slice with nothing left to do has an empty scope       *)
(* afterwards, which is what removes it and lets the ack level pass.        *)
THEOREM ShrinkScopeExact ==
  ASSUME NEW s \in Slices, ExactCount(s), ValidSlice(s)
  PROVE  LET t == ShrinkScope(s)
         IN  /\ t \in Slices /\ ExactCount(t) /\ ValidSlice(t)
             /\ t.pending = s.pending \ s.acked /\ t.acked = {}
             /\ \A k \in Nat : /\ InScope(t, k) => InScope(s, k)
                               /\ WillProcess(t, k) <=> WillProcess(s, k)
             /\ s.pending \subseteq s.acked /\ ~MoreTasks(s) => IsEmptyScope(t)
  <1> DEFINE P == s.pending \ s.acked
             a == ShrinkTracker(s)
             b == ShrinkRange(a)
             t == ShrinkPredicate(b)
             read(k) == \E j \in DOMAIN s.iters : ContainsKey(s.iters[j], k)
             tidy(m) == \A j \in DOMAIN s.iters :
                          /\ m <= s.iters[j].min /\ s.iters[j].min <= s.iters[j].max
                          /\ s.iters[j].max <= s.max
                          /\ \A h \in DOMAIN s.iters : h < j => s.iters[h].max < s.iters[j].min
  <1>1. /\ s.min \in Nat /\ s.max \in Nat /\ s.pred \in Predicates /\ s.pending \subseteq Nat
        /\ s.iters \in Seq([min : Nat, max : Nat])
    BY Zenon, SliceFields
  <1>2. /\ s.min <= s.max /\ tidy(s.min)
        /\ \A k \in s.pending : s.min <= k /\ k < s.max /\ NamespaceOf[k] \in s.pred.ns
    BY Zenon DEF ValidSlice, InScope, ContainsKey, Test
  <1>3. a = SliceWith(s.min, s.max, s.pred, s.iters, P, {}, PerNamespace(P)) /\ a \in Slices
    BY Zenon, ShrinkTrackerFields
  <1>4. P \subseteq s.pending /\ (P = {} <=> s.pending \subseteq s.acked) /\ {} \subseteq P
        /\ \A k : k \in P <=> k \in s.pending /\ k \notin s.acked
    OBVIOUS
  <1> HIDE DEF P, a
  <1>5. /\ a.min = s.min /\ a.max = s.max /\ a.pred = s.pred /\ a.iters = s.iters
        /\ a.pending = P /\ a.acked = {} /\ a.count = PerNamespace(P)
    BY SMT, <1>3, FieldsOf
  <1>6. ValidSlice(a)
    BY Zenon, <1>2, <1>4, <1>5 DEF ValidSlice, InScope, ContainsKey, Test
  <1>7. PICK m \in Nat :
          /\ b = SliceWith(m, a.max, a.pred, a.iters, a.pending, a.acked, a.count)
          /\ a.min <= m /\ m <= a.max
          /\ \A k \in a.pending : m <= k
          /\ \A j \in DOMAIN a.iters : m <= a.iters[j].min
          /\ a.pending = {} /\ a.iters = << >> => m = a.max
    BY Zenon, <1>3, <1>6, ShrinkRangeFields
  <1> HIDE DEF b
  <1>8. /\ b = SliceWith(m, s.max, s.pred, s.iters, P, {}, PerNamespace(P))
        /\ s.min <= m /\ m <= s.max
        /\ \A k \in P : m <= k
        /\ \A j \in DOMAIN s.iters : m <= s.iters[j].min
        /\ P = {} /\ s.iters = << >> => m = s.max
    BY Zenon, <1>5, <1>7
  <1>9. /\ b.min = m /\ b.max = s.max /\ b.pred = s.pred /\ b.iters = s.iters
        /\ b.pending = P /\ b.acked = {} /\ b.count = PerNamespace(P)
    BY SMT, <1>8, FieldsOf
  <1>10. PerNamespace(P) \in [Namespaces -> Int]
    BY Zenon, <1>3, <1>5, SliceFields
  <1>11. b \in Slices
    <2>1. a.pending \subseteq a.pending /\ {} \subseteq a.pending
      OBVIOUS
    <2>2. b = SliceWith(m, a.max, s.pred, a.iters, a.pending, {}, PerNamespace(P))
      BY Zenon, <1>5, <1>7
    <2> QED
      BY Zenon, <1>1, <1>3, <1>10, <2>1, <2>2, SliceOf
  <1>12. ExactCount(b) /\ \A k \in b.pending : NamespaceOf[k] \in b.pred.ns
    BY Zenon, <1>2, <1>4, <1>9 DEF ExactCount
  <1>13. PICK p \in Predicates :
           /\ t = SliceWith(b.min, b.max, p, b.iters, b.pending, b.acked, b.count)
           /\ p.ns \subseteq b.pred.ns /\ (b.iters # << >> => p = b.pred)
           /\ \A k \in b.pending : NamespaceOf[k] \in p.ns
    BY Zenon, <1>11, <1>12, ShrinkPredicateFields
  <1> HIDE DEF t
  <1>14. /\ t = SliceWith(m, s.max, p, s.iters, P, {}, PerNamespace(P))
         /\ p.ns \subseteq s.pred.ns /\ (s.iters # << >> => p = s.pred)
         /\ \A k \in P : NamespaceOf[k] \in p.ns
    BY Zenon, <1>9, <1>13
  <1>15. /\ t.min = m /\ t.max = s.max /\ t.pred = p /\ t.iters = s.iters
         /\ t.pending = P /\ t.acked = {} /\ t.count = PerNamespace(P)
    BY SMT, <1>14, FieldsOf
  <1>16. t \in Slices
    <2>1. b.pending \subseteq b.pending /\ {} \subseteq b.pending
      OBVIOUS
    <2>2. t = SliceWith(m, b.max, p, b.iters, b.pending, {}, PerNamespace(P))
      BY Zenon, <1>9, <1>13
    <2> QED
      BY Zenon, <1>10, <1>11, <2>1, <2>2, SliceOf
  <1>17. ExactCount(t)
    BY Zenon, <1>15 DEF ExactCount
  <1>18. ValidSlice(t)
    <2>1. tidy(m)
      BY Zenon, <1>2, <1>8
    <2>2. \A k \in P : m <= k /\ k < s.max /\ NamespaceOf[k] \in p.ns
      BY Zenon, <1>2, <1>4, <1>8, <1>14
    <2> QED
      BY Zenon, <1>8, <1>15, <2>1, <2>2 DEF ValidSlice, InScope, ContainsKey, Test
  <1>19. ASSUME NEW k \in Nat PROVE InScope(t, k) => InScope(s, k)
    <2>1. m <= k => s.min <= k
      BY SMT, <1>1, <1>8
    <2> QED
      BY Zenon, <1>14, <1>15, <2>1 DEF InScope, ContainsKey, Test
  <1>20. ASSUME NEW k \in Nat PROVE WillProcess(t, k) <=> WillProcess(s, k)
    <2>1. /\ WillProcess(s, k) <=> InScope(s, k) /\ (k \in P \/ read(k))
          /\ WillProcess(t, k) <=> InScope(t, k) /\ (k \in P \/ read(k))
      BY Zenon, <1>4, <1>15 DEF WillProcess
    <2>2. ASSUME InScope(s, k), k \in P PROVE InScope(t, k)
      BY Zenon, <1>2, <1>4, <1>8, <1>14, <1>15, <2>2 DEF InScope, ContainsKey, Test
    <2>3. ASSUME InScope(s, k), read(k) PROVE InScope(t, k)
      <3>1. PICK j \in DOMAIN s.iters : s.iters[j].min <= k
        BY Zenon, <2>3 DEF ContainsKey
      <3>2. s.iters # << >> /\ s.iters[j] \in [min : Nat, max : Nat] /\ m <= s.iters[j].min
        BY Zenon, <1>1, <1>8, ElementsOf
      <3>3. s.iters[j].min \in Nat
        BY SMT, <3>2
      <3>4. m <= k
        BY SMT, <3>1, <3>2, <3>3
      <3>5. p = s.pred
        BY Zenon, <1>14, <3>2
      <3> QED
        BY Zenon, <1>15, <2>3, <3>4, <3>5 DEF InScope, ContainsKey, Test
    <2> HIDE DEF read
    <2> QED
      BY Zenon, <1>19, <2>1, <2>2, <2>3
  <1>21. s.pending \subseteq s.acked /\ ~MoreTasks(s) => IsEmptyScope(t)
    BY Zenon, <1>4, <1>8, <1>15 DEF MoreTasks, IsEmptyScope
  <1>22. ShrinkScope(s) = t
    BY Zenon DEF ShrinkScope, t, b, a
  <1> QED
    BY Zenon, <1>15, <1>16, <1>17, <1>18, <1>19, <1>20, <1>21, <1>22 DEF P

(* Clear forgets every task and reads its scope again: what the slice had   *)
(* still to execute it has still to execute, and it reads only tasks that   *)
(* were in its scope.                                                       *)
THEOREM ClearExact ==
  ASSUME NEW s \in Slices, ExactCount(s), ValidSlice(s)
  PROVE  LET t == Clear(s)
         IN  /\ t \in Slices /\ ExactCount(t) /\ ValidSlice(t) /\ t.pending = {}
             /\ \A k \in Nat : /\ InScope(t, k) => InScope(s, k)
                               /\ WillProcess(s, k) => WillProcess(t, k)
  <1> DEFINE u == ShrinkScope(s)
             t == Clear(s)
             i == <<[min |-> u.min, max |-> u.max]>>
  <1>1. /\ u \in Slices /\ ValidSlice(u)
        /\ \A k \in Nat : /\ InScope(u, k) => InScope(s, k)
                          /\ WillProcess(u, k) <=> WillProcess(s, k)
    BY Zenon, ShrinkScopeExact
  <1> HIDE DEF u
  <1>2. u.min \in Nat /\ u.max \in Nat /\ u.min <= u.max /\ u.pred \in Predicates
    BY Zenon, <1>1, SliceFields DEF ValidSlice
  <1>3. t = SliceWith(u.min, u.max, u.pred, i, {}, {}, PerNamespace({}))
    <2>1. /\ ScopeOf(u).min = u.min /\ ScopeOf(u).max = u.max /\ ScopeOf(u).pred = u.pred
      BY SMT DEF ScopeOf
    <2>2. t = NewSlice(ScopeOf(u))
      BY Zenon DEF Clear, u
    <2> QED
      BY Zenon, <2>1, <2>2 DEF NewSlice, SliceWith
  <1>4. /\ i \in Seq([min : Nat, max : Nat]) /\ DOMAIN i = {1}
        /\ i[1].min = u.min /\ i[1].max = u.max
    BY SMT, <1>2
  <1> HIDE DEF i, t
  <1>5. /\ t.min = u.min /\ t.max = u.max /\ t.pred = u.pred /\ t.iters = i
        /\ t.pending = {} /\ t.acked = {} /\ t.count = PerNamespace({})
    BY SMT, <1>3, FieldsOf
  <1>6. IsFiniteSet({}) /\ PerNamespace({}) \in [Namespaces -> Int]
    <2>1. IsFiniteSet({})
      BY Zenon, FS_EmptySet
    <2>2. PerNamespace({}) \in [Namespaces -> Nat]
      BY Zenon, <2>1, CountsType
    <2>3. ASSUME NEW f \in [Namespaces -> Nat] PROVE f \in [Namespaces -> Int]
      OBVIOUS
    <2> QED
      BY Zenon, <2>1, <2>2, <2>3
  <1>7. t \in Slices
    BY Zenon, <1>2, <1>3, <1>4, <1>6, EmptySlice
  <1>8. ExactCount(t)
    BY Zenon, <1>5 DEF ExactCount
  <1>9. ValidSlice(t)
    <2>1. ~(1 < 1) /\ u.min <= u.min /\ u.max <= u.max
      BY SMT, <1>2
    <2> QED
      BY Zenon, <1>2, <1>4, <1>5, <2>1 DEF ValidSlice
  <1>10. ASSUME NEW k \in Nat PROVE InScope(t, k) <=> InScope(u, k)
    BY Zenon, <1>5 DEF InScope, ContainsKey, Test
  <1>11. ASSUME NEW k \in Nat, InScope(u, k) PROVE WillProcess(t, k)
    <2>1. ContainsKey(i[1], k)
      BY Zenon, <1>4, <1>11 DEF InScope, ContainsKey
    <2> QED
      BY Zenon, <1>4, <1>5, <1>10, <1>11, <2>1 DEF WillProcess
  <1>12. ASSUME NEW k \in Nat, WillProcess(u, k) PROVE WillProcess(t, k)
    BY Zenon, <1>11, <1>12 DEF WillProcess
  <1> QED
    BY Zenon, <1>1, <1>5, <1>7, <1>8, <1>9, <1>10, <1>12 DEF t


-----------------------------------------------------------------------------
(* The inductive invariant of ScheduledQueue *)

Types ==
    /\ now \in Nat \ {0} /\ level \in Nat /\ unread \in Nat
    /\ shard \in [acquired : BOOLEAN, notify : Nat]
    /\ rows \subseteq Times /\ limbo \subseteq Times /\ toNotify \subseteq Times
    /\ newTime \in Nat /\ newTimerCh \in BOOLEAN /\ lookAheadCh \in BOOLEAN
    /\ gate \in [active : BOOLEAN, at : Nat, fired : BOOLEAN]
    /\ loop \in [pc : {"idle", "newTime", "update"}, wake : Nat]
    /\ saved \in [high : Nat, slices : BOOLEAN]
    /\ loading \in BOOLEAN

\* A write of unknown outcome can land only while the shard is not Acquired, and
\* meanwhile the queue does not get past it.
LimboInv == \A t \in limbo : ~shard.acquired /\ t >= unread

\* A queue that is started from the persisted state skips no timer either.
SavedInv ==
    /\ saved.high <= unread
    /\ \A t \in rows \ loaded : t >= saved.high \/ saved.slices

\* newTime is set only until the event loop, which is told so, has taken it.
NewTimeInv == newTime # Zero => newTimerCh \/ loop.pc = "newTime"

\* A load is under way or will follow, whatever the gate is armed for.
LoadAhead ==
    ~shard.acquired \/ shard.notify > 0 \/ gate.fired \/ loading \/ lookAheadCh

\* The queue wakes up in time for timer t.
Covered(t) ==
    LET soon(x) == x <= Later(t, now + Delay)
    IN  \/ LoadAhead
        \/ t \in toNotify
        \/ newTime # Zero /\ soon(newTime)
        \/ loop.pc = "update" /\ soon(loop.wake)
        \/ gate.active /\ soon(gate.at)

\* The queue wakes up at all.
Awake ==
    LoadAhead \/ toNotify # {} \/ newTimerCh \/ loop.pc # "idle" \/ gate.active

\* No timer is skipped, now or by a queue that starts again.
SkipInv == NoTimerSkipped /\ LimboInv /\ SavedInv

\* The queue wakes up for every timer it has not loaded.
WakeInv == NewTimeInv /\ Awake /\ \A t \in rows \ loaded : Covered(t)

TimerInv == Types /\ SkipInv /\ WakeInv

-----------------------------------------------------------------------------
(* Lemmas *)

\* A non-empty set of fire times has a first one.
LEMMA FirstTimer ==
    ASSUME NEW S \in SUBSET Nat, S # {}
    PROVE  \E x \in S : \A y \in S : x <= y
  <1>1. PICK x \in S : \A y \in S : ~(<<y, x>> \in OpToRel(<, Nat))
    BY Zenon, NatLessThanWellFounded, WFMin
  <1>2. ASSUME NEW y \in S PROVE x <= y
    <2>1. ~(<<y, x>> \in {ss \in Nat \X Nat : ss[1] < ss[2]})
      BY <1>1 DEF OpToRel
    <2>2. x \in Nat /\ y \in Nat
      OBVIOUS
    <2> QED
      BY <2>1, <2>2
  <1> QED
    BY <1>2

\* The later of two times is one of them, and no earlier than either.
LEMMA LaterFacts ==
    ASSUME NEW a \in Nat, NEW b \in Nat
    PROVE  Later(a, b) \in Nat /\ Later(a, b) >= a /\ Later(a, b) >= b
  BY DEF Later

\* A timer gets a fire time that the queue has not read past.
LEMMA ScheduledAhead ==
    ASSUME Types, NEW ts \in Times
    PROVE  ScheduledAt(ts) >= level
  <1>1. ts \in Nat /\ level \in Nat /\ now \in Nat
    BY TimeBounds DEF Types, Times
  <1>2. Later(level, now) \in Nat /\ Later(level, now) >= level
    BY Zenon, <1>1, LaterFacts
  <1> QED
    BY <1>1, <1>2 DEF ScheduledAt

\* LocalGateImpl.Update arms the gate, and never for later than it was.
LEMMA UpdatedFacts ==
    ASSUME NEW g \in [active : BOOLEAN, at : Nat, fired : BOOLEAN], NEW t \in Nat
    PROVE  /\ Updated(g, t) \in [active : BOOLEAN, at : Nat, fired : BOOLEAN]
           /\ Updated(g, t).active /\ Updated(g, t).fired = g.fired
           /\ Updated(g, t).at <= t /\ (g.active => Updated(g, t).at <= g.at)
  <1>1. CASE g.active /\ g.at < t
    BY <1>1 DEF Updated
  <1>2. CASE ~(g.active /\ g.at < t)
    <2>1. Updated(g, t) = [g EXCEPT !.active = TRUE, !.at = t]
      BY Zenon, <1>2 DEF Updated
    <2>2. Updated(g, t) = [active |-> TRUE, at |-> t, fired |-> g.fired]
      BY Zenon, <2>1
    <2> QED
      BY <1>2, <2>2
  <1> QED
    BY <1>1, <1>2

\* notify keeps the earlier of two times, and tells the event loop.
LEMMA NotifyFacts ==
    ASSUME Types, NewTimeInv, NEW t \in Nat \ {0}, Notify(t), loop' = loop
    PROVE  /\ newTime' \in Nat /\ newTimerCh' \in BOOLEAN /\ NewTimeInv'
           /\ newTime' # Zero /\ newTime' <= t
           /\ newTime # Zero => newTime' <= newTime
           /\ newTimerCh => newTimerCh'
  <1>1. CASE newTime # Zero /\ t >= newTime
    BY <1>1 DEF Notify, Types, NewTimeInv
  <1>2. CASE ~(newTime # Zero /\ t >= newTime)
    <2>1. newTime' = t /\ newTimerCh' = TRUE
      BY Zenon, <1>2 DEF Notify
    <2> QED
      BY <1>2, <2>1 DEF Types, NewTimeInv, Zero
  <1> QED
    BY <1>1, <1>2

\* What the look-ahead arms the gate for is no later than a timer that is still
\* ahead of the read position, or than the delay.
LEMMA LookAheadFacts ==
    ASSUME Types, LookAheadTask
    PROVE  /\ loop' \in [pc : {"idle", "newTime", "update"}, wake : Nat] /\ loop'.pc = "update"
           /\ \A t \in rows : t >= unread => loop'.wake <= Later(t, now + Delay)
  <1> DEFINE window == {t \in rows : unread <= t /\ t < unread + MaxPoll}
             first == IF window = {} THEN unread + MaxPoll
                      ELSE CHOOSE t \in window : \A u \in window : t <= u
  <1>1. /\ unread \in Nat /\ now \in Nat /\ rows \in SUBSET Nat /\ MaxPoll \in Nat /\ Delay \in Nat
    BY TimeBounds DEF Types, Times
  <1>2. PICK w \in {first, unread} \cup ({now + Delay} \cap Times) : loop' = [pc |-> "update", wake |-> w]
    BY Zenon DEF LookAheadTask
  <1>3. first \in Nat /\ \A t \in rows : t >= unread => first <= t
    <2>1. CASE window = {}
      BY <1>1, <2>1
    <2>2. CASE window # {}
      <3>1. window \in SUBSET Nat
        BY Zenon, <1>1
      <3>2. first \in window /\ \A u \in window : first <= u
        <4>1. \E x \in window : \A u \in window : x <= u
          BY Zenon, <2>2, <3>1, FirstTimer
        <4> HIDE DEF window
        <4> QED
          BY Zenon, <2>2, <4>1
      <3> HIDE DEF first
      <3>3. first \in Nat /\ first < unread + MaxPoll
        BY <1>1, <3>2
      <3>4. ASSUME NEW t \in rows, t >= unread PROVE first <= t
        <4>1. t \in window \/ t >= unread + MaxPoll
          BY <1>1, <3>4
        <4> QED
          BY <1>1, <3>2, <3>3, <4>1
      <3> QED
        BY <3>3, <3>4
    <2> QED
      BY <2>1, <2>2
  <1> HIDE DEF first
  <1>4. w \in Nat /\ (w = first \/ w = unread \/ w = now + Delay)
    BY <1>1, <1>2, <1>3
  <1>5. ASSUME NEW t \in rows, t >= unread PROVE w <= Later(t, now + Delay)
    <2>1. t \in Nat /\ now + Delay \in Nat
      BY <1>1
    <2>2. Later(t, now + Delay) \in Nat /\ Later(t, now + Delay) >= t /\ Later(t, now + Delay) >= now + Delay
      BY <2>1, LaterFacts
    <2>3. w <= t \/ w = now + Delay
      BY <1>1, <1>3, <1>4, <1>5, <2>1
    <2> QED
      BY <1>1, <1>4, <2>1, <2>2, <2>3
  <1> QED
    BY <1>2, <1>4, <1>5

-----------------------------------------------------------------------------
(* The steps *)

\* Every step keeps the types.
LEMMA TypesStep ==
    ASSUME Types, NewTimeInv, [Next]_vars
    PROVE  Types'
  <1> USE DEF Types
  <1>0. /\ now \in Nat \ {0} /\ level \in Nat /\ unread \in Nat /\ Times \subseteq Nat \ {0}
        /\ Shift \in Nat /\ Zero \in Nat
    BY TimeBounds DEF Times, Zero
  <1>1. CASE Tick
    BY <1>1, <1>0 DEF Tick, storeVars, queueVars, boundVars
  <1>2. CASE GateFires
    BY <1>2, <1>0 DEF GateFires, storeVars, boundVars
  <1>3. ASSUME NEW ts \in Times, WriteTimer(ts) PROVE Types'
    BY <1>3 DEF WriteTimer, queueVars, boundVars
  <1>4. ASSUME NEW ts \in Times, WriteUnknown(ts) PROVE Types'
    BY Zenon, <1>4 DEF WriteUnknown, queueVars
  <1>5. ASSUME NEW ts \in Times, WriteLands(ts) PROVE Types'
    BY <1>5 DEF WriteLands, queueVars, boundVars
  <1>6. ASSUME NEW ts \in Times, NotifyNewTasks(ts) PROVE Types'
    <2>1. /\ newTime' \in Nat /\ newTimerCh' \in BOOLEAN
      BY <1>0, <1>6, NotifyFacts DEF NotifyNewTasks
    <2> QED
      BY <1>6, <2>1 DEF NotifyNewTasks, storeVars, boundVars
  <1>7. CASE Acquired
    BY <1>7 DEF Acquired, queueVars, boundVars
  <1>8. CASE NotifyQueueProcessor
    <2>1. /\ newTime' \in Nat /\ newTimerCh' \in BOOLEAN
      BY <1>0, <1>8, NotifyFacts DEF NotifyQueueProcessor
    <2>2. shard' \in [acquired : BOOLEAN, notify : Nat]
      BY <1>8 DEF NotifyQueueProcessor
    <2> QED
      BY <1>8, <2>1, <2>2 DEF NotifyQueueProcessor, storeVars, boundVars
  <1>9. CASE ReceiveNewTimer
    BY Zenon, <1>9 DEF ReceiveNewTimer, storeVars, boundVars
  <1>10. CASE ProcessNewTime
    <2>1. gate' \in [active : BOOLEAN, at : Nat, fired : BOOLEAN]
      BY <1>10, UpdatedFacts DEF ProcessNewTime
    <2> QED
      BY <1>0, <1>10, <2>1 DEF ProcessNewTime, storeVars, boundVars, Idle
  <1>11. CASE ProcessNewRange
    <2>1. level' \in Nat /\ unread' \in Nat /\ loading' \in BOOLEAN
      <3>1. now + Shift \in Nat
        BY <1>0
      <3>2. Later(level, now + Shift) \in Nat
        BY Zenon, <1>0, <3>1, LaterFacts
      <3> QED
        BY ZenonT(60), <1>0, <1>11, <3>2 DEF ProcessNewRange
    <2>2. gate' \in [active : BOOLEAN, at : Nat, fired : BOOLEAN]
      BY Zenon, <1>11 DEF ProcessNewRange
    <2> QED
      BY <1>11, <2>1, <2>2 DEF ProcessNewRange, storeVars, boundVars
  <1>12. CASE LookAheadTask
    <2>1. loop' \in [pc : {"idle", "newTime", "update"}, wake : Nat]
      BY <1>12, LookAheadFacts
    <2> QED
      BY Zenon, <1>12, <2>1 DEF LookAheadTask, storeVars, boundVars
  <1>13. CASE UpdateGate
    <2>1. gate' \in [active : BOOLEAN, at : Nat, fired : BOOLEAN]
      BY <1>13, UpdatedFacts DEF UpdateGate
    <2> QED
      BY <1>0, <1>13, <2>1 DEF UpdateGate, storeVars, boundVars, Idle
  <1>14. CASE Checkpoint
    BY <1>14 DEF Checkpoint, queueVars, boundVars
  <1>15. CASE ReaderCompletion
    BY Zenon, <1>15 DEF ReaderCompletion, storeVars, boundVars
  <1>16. CASE Restart
    <2>1. saved.high \in Nat /\ saved.slices \in BOOLEAN
      BY Zenon
    <2>2. level' \in Nat /\ unread' \in Nat /\ newTime' \in Nat /\ loading' \in BOOLEAN
      BY <1>0, <1>16, <2>1 DEF Restart
    <2>3. /\ shard' \in [acquired : BOOLEAN, notify : Nat]
          /\ gate' \in [active : BOOLEAN, at : Nat, fired : BOOLEAN]
          /\ loop' \in [pc : {"idle", "newTime", "update"}, wake : Nat]
      BY <1>0, <1>16 DEF Restart, NoGate, Idle
    <2> QED
      BY Zenon, <1>16, <2>2, <2>3 DEF Restart
  <1>17. CASE UNCHANGED vars
    BY <1>17 DEF vars, storeVars, queueVars, boundVars
  <1> QED
    BY ZenonT(60), <1>1, <1>2, <1>3, <1>4, <1>5, <1>6, <1>7, <1>8, <1>9, <1>10, <1>11, <1>12, <1>13, <1>14,
       <1>15, <1>16, <1>17 DEF Next, LoopStep

\* Every step keeps the timers ahead of the read position.
LEMMA SkipStep ==
    ASSUME Types, SkipInv, [Next]_vars
    PROVE  SkipInv'
  <1> USE DEF SkipInv, NoTimerSkipped, LimboInv, SavedInv
  <1>0. /\ now \in Nat /\ level \in Nat /\ unread \in Nat /\ saved.high \in Nat /\ Times \subseteq Nat
        /\ Shift \in Nat /\ rows \subseteq Nat /\ limbo \subseteq Nat
    BY TimeBounds DEF Types, Times
  <1>1. CASE Tick
    BY <1>1 DEF Tick, storeVars, queueVars
  <1>2. CASE GateFires
    BY <1>2 DEF GateFires, storeVars
  <1>3. ASSUME NEW ts \in Times, WriteTimer(ts) PROVE SkipInv'
    <2>1. ScheduledAt(ts) \in Nat /\ ScheduledAt(ts) >= level
      BY Zenon, <1>0, <1>3, ScheduledAhead DEF WriteTimer
    <2>2. ScheduledAt(ts) >= unread /\ ScheduledAt(ts) >= saved.high
      BY <1>0, <2>1
    <2> QED
      BY <1>3, <2>2 DEF WriteTimer, queueVars
  <1>4. ASSUME NEW ts \in Times, WriteUnknown(ts) PROVE SkipInv'
    <2>1. ScheduledAt(ts) \in Nat /\ ScheduledAt(ts) >= level
      BY <1>0, <1>4, ScheduledAhead DEF WriteUnknown
    <2>2. ScheduledAt(ts) >= unread
      BY <1>0, <2>1
    <2>3. ~shard'.acquired
      BY <1>4 DEF WriteUnknown, Types
    <2>4. LimboInv'
      BY <1>4, <2>2, <2>3 DEF WriteUnknown, queueVars
    <2> QED
      BY <1>4, <2>4 DEF WriteUnknown, queueVars
  <1>5. ASSUME NEW ts \in Times, WriteLands(ts) PROVE SkipInv'
    <2>1. ts >= unread /\ ts >= saved.high
      BY <1>0, <1>5 DEF WriteLands
    <2> QED
      BY <1>5, <2>1 DEF WriteLands, queueVars
  <1>6. ASSUME NEW ts \in Times, NotifyNewTasks(ts) PROVE SkipInv'
    BY <1>6 DEF NotifyNewTasks, storeVars
  <1>7. CASE Acquired
    BY <1>7 DEF Acquired, queueVars
  <1>8. CASE NotifyQueueProcessor
    <2>1. shard'.acquired = shard.acquired
      BY <1>8 DEF NotifyQueueProcessor, Types
    <2> QED
      BY <1>8, <2>1 DEF NotifyQueueProcessor, storeVars
  <1>9. CASE ReceiveNewTimer
    BY <1>9 DEF ReceiveNewTimer, storeVars
  <1>10. CASE ProcessNewTime
    BY <1>10 DEF ProcessNewTime, storeVars
  <1>11. CASE ProcessNewRange
    <2>1. CASE shard.acquired
      <3>0. now + Shift \in Nat
        BY <1>0
      <3>1. Later(level, now + Shift) \in Nat /\ Later(level, now + Shift) >= level
        BY Zenon, <1>0, <3>0, LaterFacts
      <3>2. unread' \in Nat /\ unread' = level' /\ unread' >= unread /\ loading'
        BY <1>0, <1>11, <2>1, <3>1 DEF ProcessNewRange
      <3>3. limbo = {}
        BY <2>1
      <3>4. saved.high <= unread'
        BY <1>0, <3>2
      <3> QED
        BY <1>11, <3>2, <3>3, <3>4 DEF ProcessNewRange, storeVars
    <2>2. CASE ~shard.acquired
      BY <1>11, <2>2 DEF ProcessNewRange, storeVars
    <2> QED
      BY <2>1, <2>2
  <1>12. CASE LookAheadTask
    BY <1>12 DEF LookAheadTask, storeVars
  <1>13. CASE UpdateGate
    BY <1>13 DEF UpdateGate, storeVars
  <1>14. CASE Checkpoint
    <2>1. CASE saved' = saved
      BY <1>14, <2>1 DEF Checkpoint, queueVars
    <2>2. CASE saved' # saved
      <3>1. PICK slices \in BOOLEAN : (loading => slices) /\ saved' = [high |-> unread, slices |-> slices]
        BY <1>14, <2>2 DEF Checkpoint
      <3>2. saved'.high = unread /\ (loading => saved'.slices)
        BY <3>1
      <3> QED
        BY <1>0, <1>14, <3>2 DEF Checkpoint, queueVars
    <2> QED
      BY <2>1, <2>2
  <1>15. CASE ReaderCompletion
    <2>1. \A t \in rows' \ loaded' : t \in rows \ loaded /\ t >= unread
      BY <1>0, <1>15 DEF ReaderCompletion, storeVars
    <2> QED
      BY <1>15, <2>1 DEF ReaderCompletion, storeVars
  <1>16. CASE Restart
    <2>1. unread' = saved.high /\ level' = saved.high + 1 /\ saved' = saved /\ rows' = rows
          /\ loaded' = loaded /\ loading' = saved.slices /\ limbo' = {}
      BY <1>16 DEF Restart
    <2> QED
      BY <1>0, <2>1
  <1>17. CASE UNCHANGED vars
    BY <1>17 DEF vars, storeVars, queueVars
  <1> QED
    BY ZenonT(60), <1>1, <1>2, <1>3, <1>4, <1>5, <1>6, <1>7, <1>8, <1>9, <1>10, <1>11, <1>12, <1>13, <1>14,
       <1>15, <1>16, <1>17 DEF Next, LoopStep

\* Every step keeps a wake-up for every timer that is not loaded.
LEMMA WakeStep ==
    ASSUME Types, Types', SkipInv, WakeInv, [Next]_vars
    PROVE  WakeInv'
  <1> USE DEF WakeInv
  <1>0. /\ now \in Nat \ {0} /\ now' \in Nat /\ unread \in Nat /\ Times \subseteq Nat \ {0} /\ Delay \in Nat
        /\ rows \subseteq Nat /\ rows' \subseteq Nat /\ newTime \in Nat
        /\ gate \in [active : BOOLEAN, at : Nat, fired : BOOLEAN]
        /\ loop \in [pc : {"idle", "newTime", "update"}, wake : Nat]
    BY TimeBounds DEF Types, Times
  <1>due. ASSUME NEW t \in Nat PROVE Later(t, now + Delay) \in Nat
    <2>1. now + Delay \in Nat
      BY <1>0
    <2> QED
      BY Zenon, <2>1, LaterFacts
  <1>1. CASE Tick
    <2>1. now' = now + 1 /\ UNCHANGED <<shard, rows, toNotify, newTime, newTimerCh, lookAheadCh, gate, loop, loading, loaded>>
      BY <1>1 DEF Tick, storeVars, queueVars
    <2>2. ASSUME NEW t \in rows PROVE Later(t, now + Delay) <= Later(t, now' + Delay)
      BY <1>0, <2>1 DEF Later
    <2>3. ASSUME NEW t \in rows' \ loaded' PROVE Covered(t)'
      <3>1. Covered(t) /\ t \in rows
        BY <2>1, <2>3
      <3>2. Later(t, now + Delay) <= Later(t, now' + Delay)
        BY <2>2, <3>1
      <3>3. Later(t, now + Delay) \in Nat /\ Later(t, now' + Delay) \in Nat
        BY <1>0, <1>due, <2>1, <3>1 DEF Later
      <3>4. ASSUME NEW x \in Nat, x <= Later(t, now + Delay) PROVE x <= Later(t, now' + Delay)
        BY SMTT(60), <3>2, <3>3, <3>4
      <3> QED
        BY <1>0, <2>1, <3>1, <3>4 DEF Covered, LoadAhead
    <2> QED
      BY <2>1, <2>3 DEF NewTimeInv, Awake, LoadAhead
  <1>2. CASE GateFires
    <2>1. gate'.fired
      BY <1>2 DEF GateFires
    <2> QED
      BY <1>2, <2>1 DEF GateFires, NewTimeInv, Awake, Covered, LoadAhead
  <1>3. ASSUME NEW ts \in Times, WriteTimer(ts) PROVE WakeInv'
    <2>1. PICK u : rows' = rows \cup {u} /\ toNotify' = toNotify \cup {u}
      BY <1>3 DEF WriteTimer
    <2>2. UNCHANGED <<now, shard, newTime, newTimerCh, lookAheadCh, gate, loop, loading, loaded>>
      BY <1>3 DEF WriteTimer, queueVars
    <2> QED
      BY <2>1, <2>2 DEF NewTimeInv, Awake, Covered, LoadAhead
  <1>4. ASSUME NEW ts \in Times, WriteUnknown(ts) PROVE WakeInv'
    <2>1. ~shard'.acquired
      BY <1>4 DEF WriteUnknown, Types
    <2> QED
      BY <1>4, <2>1 DEF WriteUnknown, queueVars, NewTimeInv, Awake, Covered, LoadAhead
  <1>5. ASSUME NEW ts \in Times, WriteLands(ts) PROVE WakeInv'
    <2>1. ~shard.acquired
      BY <1>5 DEF WriteLands, SkipInv, LimboInv
    <2> QED
      BY <1>5, <2>1 DEF WriteLands, queueVars, NewTimeInv, Awake, Covered, LoadAhead
  <1>6. ASSUME NEW ts \in Times, NotifyNewTasks(ts) PROVE WakeInv'
    <2>1. /\ newTime' \in Nat /\ NewTimeInv' /\ newTime' # Zero /\ newTime' <= ts
          /\ newTime # Zero => newTime' <= newTime
      BY <1>0, <1>6, NotifyFacts DEF NotifyNewTasks
    <2>2. toNotify' = toNotify \ {ts} /\ UNCHANGED <<now, shard, rows, lookAheadCh, gate, loop, loading, loaded>>
      BY <1>6 DEF NotifyNewTasks, storeVars
    <2>3. ASSUME NEW t \in rows' \ loaded' PROVE Covered(t)'
      <3>0. t \in rows \ loaded /\ t \in Nat
        BY <1>0, <2>2
      <3>1. Covered(t) /\ Later(t, now + Delay) \in Nat
        BY Zenon, <1>due, <3>0
      <3>2. CASE t = ts \/ (newTime # Zero /\ newTime <= Later(t, now + Delay))
        <4>1. Later(t, now + Delay) >= t
          BY <1>0, <3>0 DEF Later
        <4>2. newTime' <= Later(t, now + Delay)
          BY SMTT(60), <1>0, <2>1, <3>0, <3>1, <3>2, <4>1
        <4> QED
          BY <2>1, <2>2, <4>2 DEF Covered
      <3>3. CASE ~(t = ts \/ (newTime # Zero /\ newTime <= Later(t, now + Delay)))
        <4>1. LoadAhead => LoadAhead'
          BY <2>2 DEF LoadAhead
        <4>2. LoadAhead \/ t \in toNotify \ {ts} \/ (loop.pc = "update" /\ loop.wake <= Later(t, now + Delay))
                        \/ (gate.active /\ gate.at <= Later(t, now + Delay))
          BY Zenon, <3>1, <3>3 DEF Covered
        <4> QED
          BY <2>2, <4>1, <4>2 DEF Covered
      <3> QED
        BY <3>2, <3>3
    <2> QED
      BY <2>1, <2>2, <2>3 DEF Awake, NewTimeInv
  <1>7. CASE Acquired
    <2>1. shard'.notify > 0
      BY <1>7 DEF Acquired, Types
    <2> QED
      BY SMTT(60), <1>7, <2>1 DEF Acquired, queueVars, NewTimeInv, Awake, Covered, LoadAhead
  <1>8. CASE NotifyQueueProcessor
    <2>1. newTime' \in Nat /\ NewTimeInv' /\ newTime' # Zero /\ newTime' <= now
      BY <1>0, <1>8, NotifyFacts DEF NotifyQueueProcessor
    <2>2. now' = now /\ loop' = loop
      BY SMTT(60), <1>8 DEF NotifyQueueProcessor
    <2>3. ASSUME NEW t \in rows' \ loaded' PROVE Covered(t)'
      <3>1. Later(t, now + Delay) >= now /\ t \in Nat /\ Later(t, now + Delay) \in Nat
        BY <1>0, <1>due DEF Later
      <3>2. newTime' <= Later(t, now + Delay)
        BY <1>0, <2>1, <3>1
      <3> QED
        BY SMTT(60), <2>1, <2>2, <3>2 DEF Covered
    <2> QED
      BY <2>1, <2>2, <2>3 DEF Awake, NewTimeInv
  <1>9. CASE ReceiveNewTimer
    <2>1. loop'.pc = "newTime" /\ loop.pc = "idle"
      BY SMTT(60), <1>0, <1>9 DEF ReceiveNewTimer
    <2> QED
      BY <1>9, <2>1 DEF ReceiveNewTimer, storeVars, NewTimeInv, Awake, Covered, LoadAhead
  <1>10. CASE ProcessNewTime
    <2>1. /\ gate'.active /\ gate'.fired = gate.fired /\ gate'.at \in Nat
          /\ gate'.at <= newTime /\ (gate.active => gate'.at <= gate.at)
      BY <1>0, <1>10, UpdatedFacts DEF ProcessNewTime
    <2>2. newTime' = Zero /\ loop.pc = "newTime"
          /\ UNCHANGED <<now, shard, rows, toNotify, newTimerCh, lookAheadCh, loading, loaded>>
      BY <1>10 DEF ProcessNewTime, storeVars
    <2>3. ASSUME NEW t \in rows' \ loaded' PROVE Covered(t)'
      <3>0. t \in rows \ loaded /\ t \in Nat
        BY <1>0, <2>2
      <3>1. Covered(t) /\ Later(t, now + Delay) \in Nat
        BY Zenon, <1>due, <3>0
      <3>2. CASE newTime <= Later(t, now + Delay) \/ (gate.active /\ gate.at <= Later(t, now + Delay))
        <4>1. gate'.at <= Later(t, now + Delay)
          BY SMTT(60), <1>0, <2>1, <3>1, <3>2
        <4> QED
          BY <2>1, <2>2, <4>1 DEF Covered
      <3>3. CASE ~(newTime <= Later(t, now + Delay) \/ (gate.active /\ gate.at <= Later(t, now + Delay)))
        <4>1. LoadAhead => LoadAhead'
          BY <2>1, <2>2 DEF LoadAhead
        <4>2. LoadAhead \/ t \in toNotify
          BY <2>2, <3>1, <3>3 DEF Covered
        <4> QED
          BY SMTT(60), <2>1, <2>2, <4>1, <4>2 DEF Covered
      <3> QED
        BY <3>2, <3>3
    <2> QED
      BY <2>1, <2>2, <2>3 DEF Awake, NewTimeInv
  <1>11. CASE ProcessNewRange
    <2>1. /\ gate' = [gate EXCEPT !.fired = FALSE] /\ (shard.acquired => loading')
          /\ UNCHANGED <<now, shard, rows, toNotify, newTime, newTimerCh, lookAheadCh, loop, loaded>>
      BY <1>11 DEF ProcessNewRange, storeVars
    <2>2. LoadAhead'
      BY <2>1 DEF LoadAhead
    <2> QED
      BY <2>1, <2>2 DEF NewTimeInv, Awake, Covered
  <1>12. CASE LookAheadTask
    <2>1. loop'.pc = "update" /\ \A t \in rows : t >= unread => loop'.wake <= Later(t, now + Delay)
      BY <1>12, LookAheadFacts
    <2>2. loop.pc = "idle"
          /\ UNCHANGED <<now, shard, rows, toNotify, newTime, newTimerCh, gate, unread, loading, loaded>>
      BY SMTT(60), <1>12 DEF LookAheadTask, storeVars
    <2>3. ASSUME NEW t \in rows' \ loaded' PROVE Covered(t)'
      <3>1. t \in rows /\ (t >= unread \/ loading)
        BY SMTT(60), <2>2 DEF SkipInv, NoTimerSkipped
      <3> QED
        BY <2>1, <2>2, <3>1 DEF Covered, LoadAhead
    <2> QED
      BY <2>1, <2>2, <2>3 DEF Awake, NewTimeInv
  <1>13. CASE UpdateGate
    <2>1. /\ gate'.active /\ gate'.fired = gate.fired /\ gate'.at \in Nat
          /\ gate'.at <= loop.wake /\ (gate.active => gate'.at <= gate.at)
      BY <1>0, <1>13, UpdatedFacts DEF UpdateGate
    <2>2. loop.pc = "update" /\ loop'.pc = "idle"
          /\ UNCHANGED <<now, shard, rows, toNotify, newTime, newTimerCh, lookAheadCh, loading, loaded>>
      BY <1>13 DEF UpdateGate, storeVars, Idle
    <2>3. ASSUME NEW t \in rows' \ loaded' PROVE Covered(t)'
      <3>0. t \in rows \ loaded /\ t \in Nat
        BY SMTT(60), <1>0, <2>2
      <3>1. Covered(t) /\ Later(t, now + Delay) \in Nat
        BY Zenon, <1>due, <3>0
      <3>2. CASE loop.wake <= Later(t, now + Delay) \/ (gate.active /\ gate.at <= Later(t, now + Delay))
        <4>1. gate'.at <= Later(t, now + Delay)
          BY SMTT(60), <1>0, <2>1, <3>1, <3>2
        <4> QED
          BY <2>1, <2>2, <4>1 DEF Covered
      <3>3. CASE ~(loop.wake <= Later(t, now + Delay) \/ (gate.active /\ gate.at <= Later(t, now + Delay)))
        <4>1. LoadAhead => LoadAhead'
          BY <2>1, <2>2 DEF LoadAhead
        <4>2. LoadAhead \/ t \in toNotify \/ (newTime # Zero /\ newTime <= Later(t, now + Delay))
          BY ZenonT(60), <3>1, <3>3 DEF Covered
        <4> QED
          BY SMTT(60), <2>1, <2>2, <4>1, <4>2 DEF Covered
      <3> QED
        BY <3>2, <3>3
    <2> QED
      BY <2>1, <2>2, <2>3 DEF Awake, NewTimeInv
  <1>14. CASE Checkpoint
    BY SMTT(60), <1>14 DEF Checkpoint, queueVars, NewTimeInv, Awake, Covered, LoadAhead
  <1>15. CASE ReaderCompletion
    BY <1>15 DEF ReaderCompletion, storeVars, NewTimeInv, Awake, Covered, LoadAhead
  <1>16. CASE Restart
    <2>1. ~shard'.acquired /\ newTime' = Zero
      BY SMTT(60), <1>16 DEF Restart
    <2> QED
      BY <2>1 DEF NewTimeInv, Awake, Covered, LoadAhead
  <1>17. CASE UNCHANGED vars
    BY <1>17 DEF vars, storeVars, queueVars, NewTimeInv, Awake, Covered, LoadAhead
  <1> QED
    BY ZenonT(60), <1>1, <1>2, <1>3, <1>4, <1>5, <1>6, <1>7, <1>8, <1>9, <1>10, <1>11, <1>12, <1>13, <1>14,
       <1>15, <1>16, <1>17 DEF Next, LoopStep

-----------------------------------------------------------------------------
(* The theorems *)

\* A queue that starts with an empty store has the invariant.
LEMMA InitTimerInv ==
    ASSUME Init
    PROVE  TimerInv
  <1>1. Types
    <2>1. Zero \in Nat
      BY SMTT(60) DEF Zero
    <2>2. gate \in [active : BOOLEAN, at : Nat, fired : BOOLEAN]
      BY SMTT(60), <2>1 DEF Init, NoGate
    <2>3. loop \in [pc : {"idle", "newTime", "update"}, wake : Nat]
      BY SMTT(60), <2>1 DEF Init, Idle
    <2>4. shard \in [acquired : BOOLEAN, notify : Nat] /\ saved \in [high : Nat, slices : BOOLEAN]
      BY DEF Init
    <2>5. now \in Nat \ {0} /\ level \in Nat /\ unread \in Nat /\ newTime \in Nat
      BY <2>1 DEF Init
    <2> QED
      BY Zenon, <2>2, <2>3, <2>4, <2>5 DEF Init, Types
  <1>2. SkipInv
    BY DEF Init, SkipInv, NoTimerSkipped, LimboInv, SavedInv
  <1>3. WakeInv
    BY DEF Init, WakeInv, NewTimeInv, Awake, LoadAhead
  <1> QED
    BY <1>1, <1>2, <1>3 DEF TimerInv

\* The timers that are not loaded are ahead of the read position of the queue
\* and the queue wakes up for them, at every step of the shard, the writers, the gate
\* and processEventLoop, and through restarts.
THEOREM TimerInvariant == Spec => []TimerInv
  <1>1. Init => TimerInv
    BY InitTimerInv
  <1>2. TimerInv /\ [Next]_vars => TimerInv'
    <2> SUFFICES ASSUME TimerInv, [Next]_vars PROVE TimerInv'
      OBVIOUS
    <2>1. Types'
      BY Zenon, TypesStep DEF TimerInv, WakeInv
    <2>2. SkipInv'
      BY Zenon, SkipStep DEF TimerInv
    <2>3. WakeInv'
      BY Zenon, <2>1, WakeStep DEF TimerInv
    <2> QED
      BY Zenon, <2>1, <2>2, <2>3 DEF TimerInv
  <1> QED
    BY <1>1, <1>2, PTL DEF Spec

\* No write lands behind the read position: addTasks schedules a timer at or after the
\* level up to which processNewRange may have read, and the level does not move
\* while a write of unknown outcome may still land.
THEOREM NoTimerEverSkipped == Spec => []NoTimerSkipped
  <1>1. TimerInv => NoTimerSkipped
    BY DEF TimerInv, SkipInv
  <1> QED
    BY <1>1, TimerInvariant, PTL

\* Whenever nothing is under way, the gate of the queue is armed, and in time for every
\* timer it has not loaded: failed reads of the level, merged notifications and
\* throttled look-aheads never leave the queue asleep.
THEOREM AlwaysArmedInTime == Spec => []ArmedInTime
  <1>1. TimerInv => ArmedInTime
    <2> SUFFICES ASSUME TimerInv, Quiet PROVE gate.active /\ \A t \in rows \ loaded : gate.at <= Later(t, now + Delay)
      BY Zenon DEF ArmedInTime
    <2>1. newTime = Zero
      BY DEF TimerInv, WakeInv, NewTimeInv, Quiet
    <2>2. ~LoadAhead
      BY DEF LoadAhead, Quiet
    <2>3. gate.active
      BY <2>2 DEF TimerInv, WakeInv, Awake, Quiet
    <2>4. ASSUME NEW t \in rows \ loaded PROVE gate.at <= Later(t, now + Delay)
      <3>1. Covered(t)
        BY <2>4 DEF TimerInv, WakeInv
      <3> QED
        BY <2>1, <2>2, <3>1 DEF Covered, Quiet
    <2> QED
      BY <2>3, <2>4
  <1> QED
    BY <1>1, TimerInvariant, PTL

=============================================================================
