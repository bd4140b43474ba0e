----------------------------- MODULE SliceMerge -----------------------------
(***************************************************************************)
(* How two slices of a history task queue become one, or up to three, with *)
(* disjoint scopes: the merge and compaction of slice.go and the merge of  *)
(* iterators of iterator.go in service/history/queues.                     *)
(***************************************************************************)
EXTENDS QueueSlice, SequencesExt

\* As AppendIterator, with iterators that touch kept apart
AppendIterator_Apart(iters, r) == Append(iters, r)

AppendIterator(iters, r) ==
    IF iters # << >> /\ CanMerge(Last(iters), r)
    THEN Append(Front(iters), Hull(Last(iters), r))
    ELSE Append(iters, r)

MergeIterators(s, t) ==
    FoldLeft(AppendIterator, << >>,
             SortSeq(s.iters \o t.iters, LAMBDA r, q : r.min < q.min))

MergeByRange(s, t) ==
    LET h == Hull(s, t)
    IN  [MergeTrackers(s, t) EXCEPT
            !.min = h.min, !.max = h.max, !.iters = MergeIterators(s, t)]

MergeByPredicate(s, t) ==
    [MergeTrackers(s, t) EXCEPT
        !.pred = OrPredicates(s.pred, t.pred), !.iters = MergeIterators(s, t)]

CompactWithSlice(s, t) ==
    LET h == Hull(s, t)
    IN  [MergeTrackers(s, t) EXCEPT
            !.min = h.min, !.max = h.max,
            !.pred = OrPredicates(s.pred, t.pred),
            !.iters = MergeIterators(s, t)]

\* Merge two slices that touch, s the one that starts first.
MergeOrdered(s, t) ==
    LET cur == SplitByRange(s, t.min)
        whole == CanSplit(t, cur[2].max)
        in == SplitByRange(t, cur[2].max)
        mid == SplitByRange(cur[2], t.max)
        parts == IF whole
                 THEN <<cur[1], MergeByPredicate(cur[2], in[1]), in[2]>>
                 ELSE <<cur[1], MergeByPredicate(mid[1], t), mid[2]>>
    IN  IF s.pred = t.pred
        THEN <<MergeByRange(s, t)>>
        ELSE SelectSeq(parts, LAMBDA p : ~IsEmptyScope(p))

MergeWithSlice(s, t) ==
    IF s.min > t.min THEN MergeOrdered(t, s) ELSE MergeOrdered(s, t)

=============================================================================
