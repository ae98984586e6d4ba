----------------------------- MODULE FetchMerge -----------------------------
(* query/fetch: the streaming k-way merge of a fan-out (mergeiter.go), the    *)
(* batch-level merge and the merge of series listings (merge.go).  A child    *)
(* yields batches of one series each, in ascending series id if it keeps the  *)
(* contract; a batch holds samples [ts, val, w], with weights or without.     *)
(* A step is a call of Next or Close; the concurrent pulls of one Next touch  *)
(* each its own slot, so they are one step.                                   *)
EXTENDS Integers, Sequences, SequencesExt, FiniteSets

CONSTANTS Inputs,     \* sequences of children; a child is a sequence of batches
          MaxFault,   \* failed pulls
          Nil

VARIABLES given,      \* what every child would yield
          rest,       \* what it has not yielded yet
          cur, heap, refill, last,
          err, out, eof, closed,
          released,   \* child -> the batches released to it or handed on
          faults

vars == <<given, rest, cur, heap, refill, last, err, out, eof, closed, released, faults>>

Child == DOMAIN given

Init ==
  /\ given \in Inputs
  /\ rest = given
  /\ cur = [i \in Child |-> Nil] /\ heap = <<>> /\ last = [i \in Child |-> Nil]
  /\ refill = [i \in Child |-> i]
  /\ err = FALSE /\ out = <<>> /\ eof = FALSE /\ closed = FALSE
  /\ released = [i \in Child |-> 0]
  /\ faults = 0

----------------------------------------------------------------------------
(* The heap of child indices, ordered by (pending id, child).                 *)

Less(c, a, b) == \/ c[a].id < c[b].id
                 \/ c[a].id = c[b].id /\ a < b

Swap(h, i, j) == [h EXCEPT ![i] = h[j], ![j] = h[i]]

RECURSIVE SiftUp(_, _, _)
SiftUp(c, h, i) ==
  IF i = 1 \/ ~Less(c, h[i], h[i \div 2])
  THEN h
  ELSE SiftUp(c, Swap(h, i, i \div 2), i \div 2)

Push(c, h, i) == SiftUp(c, Append(h, i), Len(h) + 1)

RECURSIVE SiftDown(_, _, _)
SiftDown(c, h, p) ==
  LET l == 2 * p
      r == 2 * p + 1
      s == IF r <= Len(h) /\ Less(c, h[r], h[l]) THEN r ELSE l
  IN  IF l > Len(h) \/ ~Less(c, h[s], h[p])
      THEN h
      ELSE SiftDown(c, Swap(h, p, s), s)

\* The heap without its top: the last index takes its place and sinks.
Pop(c, h) ==
  IF Len(h) = 1 THEN <<>>
  ELSE SiftDown(c, <<h[Len(h)]>> \o SubSeq(h, 2, Len(h) - 1), 1)

----------------------------------------------------------------------------
(* Samples.                                                                   *)

Ones(n) == [k \in 1 .. n |-> 1]

\* appendSamples: unit weights stand in for a source that carries none.
AppendSamples(a, b) ==
  [ts |-> a.ts \o b.ts, val |-> a.val \o b.val,
   sf |-> CASE a.sf = Nil /\ b.sf = Nil -> Nil
            [] a.sf = Nil /\ b.sf # Nil -> Ones(Len(a.ts)) \o b.sf
            [] a.sf # Nil /\ b.sf = Nil -> a.sf \o Ones(Len(b.ts))
            [] OTHER -> a.sf \o b.sf]

NoSamples == [ts |-> <<>>, val |-> <<>>, sf |-> Nil]

\* A mutant of Dedup: the first sample of a timestamp stays.
DedupFirst(s) ==
  LET ts == SetToSortSeq(Range(s.ts), <)
      at(t) == CHOOSE i \in DOMAIN s.ts :
                 s.ts[i] = t /\ \A j \in DOMAIN s.ts : s.ts[j] = t => i <= j
  IN  [ts |-> ts, val |-> [k \in DOMAIN ts |-> s.val[at(ts[k])]],
       sf |-> IF s.sf = Nil THEN Nil ELSE [k \in DOMAIN ts |-> s.sf[at(ts[k])]]]

\* dedupByTimestamp: ascending, the last sample of a timestamp with its weight.
Dedup(s) ==
  LET ts == SetToSortSeq(Range(s.ts), <)
      at(t) == CHOOSE i \in DOMAIN s.ts :
                 s.ts[i] = t /\ \A j \in DOMAIN s.ts : s.ts[j] = t => i >= j
  IN  [ts |-> ts, val |-> [k \in DOMAIN ts |-> s.val[at(ts[k])]],
       sf |-> IF s.sf = Nil THEN Nil ELSE [k \in DOMAIN ts |-> s.sf[at(ts[k])]]]

Gather(bs) == FoldLeft(LAMBDA a, b : AppendSamples(a, b.samples), NoSamples, bs)

\* combine, for the batches of one id in child order.
Combine(id, bs) == [id |-> id, samples |-> Dedup(Gather(bs))]

\* MergeBatches, over result groups.
MergeBatches(groups) ==
  LET all == FlattenSeq(groups)
      ids == SetToSortSeq({b.id : b \in Range(all)}, <)
      of(id) == SelectSeq(all, LAMBDA b : b.id = id)
  IN  [k \in DOMAIN ids |->
         IF Len(of(ids[k])) > 1
         THEN Combine(ids[k], of(ids[k]))
         ELSE [id |-> ids[k], samples |-> of(ids[k])[1].samples]]

\* mergeSeriesLists, after newSeriesList has sorted every child's ids.
RECURSIVE MergeSeries(_)
MergeSeries(lists) ==
  LET open == {i \in DOMAIN lists : lists[i] # <<>>}
      next == CHOOSE i \in open : \A j \in open :
                lists[i][1] < lists[j][1] \/ (lists[i][1] = lists[j][1] /\ i <= j)
      id == lists[next][1]
  IN  IF open = {}
      THEN <<>>
      ELSE <<id>> \o MergeSeries([i \in DOMAIN lists |->
                                    SelectSeq(lists[i], LAMBDA x : x # id)])

----------------------------------------------------------------------------
(* The iterator.                                                              *)

\* What the pulls of a step leave in the slots; a failing child yields nothing.
Pulled(bad) ==
  [i \in Child |-> IF i \in Range(refill) /\ i \notin bad /\ rest[i] # <<>>
                   THEN rest[i][1] ELSE cur[i]]

\* The children whose batch does not come after their last one.
Rogue(c) == {i \in Range(refill) : c[i] # Nil /\ last[i] # Nil /\ c[i].id <= last[i]}

Filled(c) ==
  FoldLeft(LAMBDA h, i : IF c[i] # Nil THEN Push(c, h, i) ELSE h, heap, refill)

\* The children that hold the smallest id, and the heap without them.
RECURSIVE PopAll(_, _, _)
PopAll(c, h, took) ==
  IF h # <<>> /\ (took = <<>> \/ c[h[1]].id = c[took[1]].id)
  THEN PopAll(c, Pop(c, h), Append(took, h[1]))
  ELSE [heap |-> h, took |-> took]

NextBatch(bad) ==
  LET c == Pulled(bad)
      h == Filled(c)
      p == PopAll(c, h, <<>>)
      failed == bad # {} \/ Rogue(c) # {}
  IN  /\ ~err /\ ~eof /\ ~closed
      /\ bad \subseteq Range(refill)
      /\ faults' = faults + Cardinality(bad)
      /\ faults' <= MaxFault
      /\ rest' = [i \in Child |-> IF c[i] # cur[i] THEN Tail(rest[i]) ELSE rest[i]]
      /\ last' = [i \in Child |-> IF i \in Range(refill) /\ c[i] # Nil /\ i \notin Rogue(c)
                                  THEN c[i].id ELSE last[i]]
      /\ err' = failed
      /\ eof' = (~failed /\ h = <<>>)
      /\ IF failed \/ h = <<>>
         THEN /\ cur' = c /\ heap' = h /\ refill' = <<>>
              /\ UNCHANGED <<out, released>>
         ELSE /\ heap' = p.heap /\ refill' = p.took
              /\ cur' = [i \in Child |-> IF i \in Range(p.took) THEN Nil ELSE c[i]]
              /\ released' = [i \in Child |-> released[i] + (IF i \in Range(p.took) THEN 1 ELSE 0)]
              /\ out' = Append(out, IF Len(p.took) = 1
                                    THEN c[p.took[1]]
                                    ELSE Combine(c[p.took[1]].id,
                                                 [k \in DOMAIN p.took |-> c[p.took[k]]]))
      /\ UNCHANGED <<given, closed>>

\* Close drops what is pending.
Close ==
  /\ ~closed
  /\ closed' = TRUE
  /\ released' = [i \in Child |-> released[i] + (IF cur[i] # Nil THEN 1 ELSE 0)]
  /\ cur' = [i \in Child |-> Nil]
  /\ UNCHANGED <<given, rest, heap, refill, last, err, out, eof, faults>>

Next == Close \/ \E bad \in SUBSET Child : NextBatch(bad)

Spec == Init /\ [][Next]_vars

----------------------------------------------------------------------------

Ascending(s) == \A i, j \in DOMAIN s : i < j => s[i].id < s[j].id
Ids(c) == {b.id : b \in Range(given[c])}

\* The sample of id at t that the last child to hold one gives.
Winner(id, t) ==
  LET has(c) == \E b \in Range(given[c]) : b.id = id /\ t \in Range(b.samples.ts)
      c == CHOOSE c \in Child : has(c) /\ \A d \in Child : has(d) => d <= c
      b == CHOOSE x \in Range(given[c]) : x.id = id
      k == CHOOSE j \in DOMAIN b.samples.ts : b.samples.ts[j] = t
  IN  [val |-> b.samples.val[k], w |-> IF b.samples.sf = Nil THEN 1 ELSE b.samples.sf[k]]

\* A merge that ends without an error has yielded, in ascending id order, every
\* series of every child exactly once, with each timestamp's value and weight
\* from the last child that holds it; and so does MergeBatches over the same
\* groups.  A child that breaks the order is never merged to the end.
FanOutExact ==
  eof =>
    /\ \A c \in Child : Ascending(given[c])
    /\ Ascending(out)
    /\ {b.id : b \in Range(out)} = UNION {Ids(c) : c \in Child}
    /\ \A b \in Range(out) :
         LET s == b.samples IN
         /\ \A i, j \in DOMAIN s.ts : i < j => s.ts[i] < s.ts[j]
         /\ Range(s.ts) = UNION {Range(x.samples.ts) :
              x \in {y \in UNION {Range(given[c]) : c \in Child} : y.id = b.id}}
         /\ \A i \in DOMAIN s.ts :
              [val |-> s.val[i], w |-> IF s.sf = Nil THEN 1 ELSE s.sf[i]] = Winner(b.id, s.ts[i])
    /\ out = MergeBatches(given)
    /\ MergeSeries([c \in Child |-> SetToSortSeq(Ids(c), <)]) = [k \in DOMAIN out |-> out[k].id]

\* What a child yielded is released or handed on once, by the time the merge is
\* closed, and until then at most one batch of a child is held.
ReleasedOnce ==
  \A c \in Child :
    released[c] + (IF cur[c] # Nil THEN 1 ELSE 0) = Len(given[c]) - Len(rest[c])
=============================================================================
