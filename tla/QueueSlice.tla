----------------------------- MODULE QueueSlice -----------------------------
(***************************************************************************)
(* Ranges, scopes, predicates, task trackers and slices of a history task  *)
(* queue: range.go, scope.go, tracker.go, iterator.go and slice.go of      *)
(* service/history/queues, with the predicates of common/predicates and    *)
(* service/history/tasks.                                                  *)
(*                                                                         *)
(* A slice is a record.  It covers the tasks with a key in min .. max - 1  *)
(* that pass pred; iters are the ranges of its iterators, that is what it  *)
(* has still to read from the store; pending are the keys in its tracker,  *)
(* acked the ones of these whose executable is done; count is the          *)
(* tracker's pendingPerNamespace, with 0 for an absent namespace.          *)
(*                                                                         *)
(* A predicate is its form and the namespaces that pass it.  Predicates    *)
(* built with predicates.And, Or and Not have the form "composite" and are *)
(* equal when the same namespaces pass them.                               *)
(***************************************************************************)
EXTENDS Integers, Sequences, FiniteSets

CONSTANTS
    Namespaces,            \* the namespaces
    NamespaceOf,           \* the namespace of the task with a given key
    MaxShrinkNamespaces    \* shrinkPredicateMaxPendingNamespaces

ASSUME NamespaceAssumption ==
    \A k \in DOMAIN NamespaceOf : NamespaceOf[k] \in Namespaces

Least(a, b) == IF a <= b THEN a ELSE b
Greatest(a, b) == IF a >= b THEN a ELSE b

-----------------------------------------------------------------------------
(* Range *)

ContainsKey(r, k) == r.min <= k /\ k < r.max
CanSplit(r, k) == ContainsKey(r, k) \/ r.max = k
CanMerge(r, q) == r.min <= q.max /\ r.max >= q.min
Hull(r, q) == [min |-> Least(r.min, q.min), max |-> Greatest(r.max, q.max)]

-----------------------------------------------------------------------------
(* Predicate *)

Universal == [form |-> "universal", ns |-> Namespaces]
Empty == [form |-> "empty", ns |-> {}]
NamespacePredicate(N) == [form |-> "namespaces", ns |-> N]
\* an And, Or or Not of others.  Two of them that pass the same namespaces are
\* equal here; Equals of the code compares their structure, and where it finds a
\* difference slices are merged range by range instead.
Composite(N) == [form |-> "composite", ns |-> N]
NotNamespaces(N) == Composite(Namespaces \ N)

AndPredicates(p, q) ==
    LET both == p.ns \cap q.ns
        forms == {p.form, q.form}
    IN  IF forms = {"namespaces"}
        THEN IF both = {} THEN Empty ELSE NamespacePredicate(both)
        ELSE IF "empty" \in forms THEN Empty
        ELSE IF p.form = "universal" THEN q
        ELSE IF q.form = "universal" THEN p
        ELSE Composite(both)

OrPredicates(p, q) ==
    LET either == p.ns \cup q.ns
        forms == {p.form, q.form}
    IN  IF forms = {"namespaces"} THEN NamespacePredicate(either)
        ELSE IF "universal" \in forms THEN Universal
        ELSE IF p.form = "empty" THEN q
        ELSE IF q.form = "empty" THEN p
        ELSE Composite(either)

Test(p, k) == NamespaceOf[k] \in p.ns

-----------------------------------------------------------------------------
(* Scope and executableTracker *)

ScopeOf(s) == [min |-> s.min, max |-> s.max, pred |-> s.pred]
InScope(s, k) == ContainsKey(s, k) /\ Test(s.pred, k)
IsEmptyScope(s) == s.min = s.max \/ s.pred.form = "empty"

PerNamespace(K) ==
    [n \in Namespaces |-> Cardinality({k \in K : NamespaceOf[k] = n})]

Plus(f, g) == [n \in Namespaces |-> f[n] + g[n]]
Minus(f, g) == [n \in Namespaces |-> f[n] - g[n]]

NewSlice(scope) ==
    [min |-> scope.min, max |-> scope.max, pred |-> scope.pred,
     iters |-> <<[min |-> scope.min, max |-> scope.max]>>,
     pending |-> {}, acked |-> {}, count |-> PerNamespace({})]

\* The two parts of a tracker: the keys K stay, the others move away.
Kept(s, K) ==
    [s EXCEPT !.pending = @ \cap K, !.acked = @ \cap K,
              !.count = Minus(@, PerNamespace(s.pending \ K))]

Moved(s, K) ==
    [s EXCEPT !.pending = @ \ K, !.acked = @ \ K,
              !.count = PerNamespace(s.pending \ K)]

\* As MergeTrackers, with the counts left behind when the trackers are swapped
MergeTrackers_CountsKept(s, t) ==
    LET swap == Cardinality(s.pending) < Cardinality(t.pending)
        big == IF swap THEN t ELSE s
        small == IF swap THEN s ELSE t
    IN  [s EXCEPT !.pending = big.pending \cup small.pending,
                  !.acked = (big.acked \ small.pending) \cup small.acked,
                  !.count = Plus(s.count, PerNamespace(small.pending))]

\* The executables of the smaller tracker replace the ones with the same key.
MergeTrackers(s, t) ==
    LET swap == Cardinality(s.pending) < Cardinality(t.pending)
        big == IF swap THEN t ELSE s
        small == IF swap THEN s ELSE t
    IN  [s EXCEPT !.pending = big.pending \cup small.pending,
                  !.acked = (big.acked \ small.pending) \cup small.acked,
                  !.count = Plus(big.count, PerNamespace(small.pending))]

AddExecutables(s, K) ==
    [s EXCEPT !.pending = @ \cup K, !.acked = @ \ K,
              !.count = Plus(@, PerNamespace(K))]

ShrinkTracker(s) == [Kept(s, s.pending \ s.acked) EXCEPT !.acked = {}]

-----------------------------------------------------------------------------
(* SliceImpl *)

MoreTasks(s) == s.iters # << >>

SplitByRange(s, k) ==
    LET K == {j \in s.pending : j < k}
        L == SelectSeq(s.iters, LAMBDA r : r.max <= k \/ r.min < k)
        R == SelectSeq(s.iters, LAMBDA r : r.max > k)
    IN  <<[Kept(s, K) EXCEPT
              !.max = k,
              !.iters = [i \in DOMAIN L |-> [L[i] EXCEPT !.max = Least(@, k)]]],
          [Moved(s, K) EXCEPT
              !.min = k,
              !.iters = [i \in DOMAIN R |-> [R[i] EXCEPT !.min = Greatest(@, k)]]]>>

\* As SplitByPredicate, with the slice itself as the rest
SplitByPredicate_SliceKept(s, N) ==
    LET pass == AndPredicates(s.pred, NamespacePredicate(N))
    IN  <<[Kept(s, {k \in s.pending : Test(pass, k)}) EXCEPT !.pred = pass], s>>

SplitByPredicate(s, N) ==
    LET pass == AndPredicates(s.pred, NamespacePredicate(N))
        K == {k \in s.pending : Test(pass, k)}
    IN  <<[Kept(s, K) EXCEPT !.pred = pass],
          [Moved(s, K) EXCEPT !.pred = AndPredicates(@, NotNamespaces(N))]>>

ShrinkRange(s) ==
    LET left == s.pending \cup (IF MoreTasks(s) THEN {s.iters[1].min} ELSE {})
    IN  [s EXCEPT !.min = IF left = {} THEN s.max
                          ELSE CHOOSE k \in left : \A j \in left : k <= j]

ShrinkPredicate(s) ==
    LET N == {n \in Namespaces : s.count[n] # 0}
    IN  IF MoreTasks(s) \/ Cardinality(N) > MaxShrinkNamespaces THEN s
        ELSE [s EXCEPT !.pred = AndPredicates(@, NamespacePredicate(N))]

ShrinkScope(s) == ShrinkPredicate(ShrinkRange(ShrinkTracker(s)))

Clear(s) == NewSlice(ScopeOf(ShrinkScope(s)))

-----------------------------------------------------------------------------

\* A slice reads and tracks only tasks of its scope, and its iterators are
\* ordered and disjoint, with a gap between them.
ValidSlice(s) ==
    /\ s.min <= s.max
    /\ \A k \in s.pending : InScope(s, k)
    /\ \A j \in DOMAIN s.iters :
        /\ s.min <= s.iters[j].min /\ s.iters[j].min <= s.iters[j].max
        /\ s.iters[j].max <= s.max
        /\ \A i \in DOMAIN s.iters : i < j => s.iters[i].max < s.iters[j].min

\* pendingPerNamespace agrees with the tasks of the tracker
ExactCount(s) == s.count = PerNamespace(s.pending)

\* s has still to execute k
WillProcess(s, k) ==
    /\ InScope(s, k)
    /\ \/ k \in s.pending \ s.acked
       \/ \E i \in DOMAIN s.iters : ContainsKey(s.iters[i], k)

=============================================================================
