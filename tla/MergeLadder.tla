---------------------------- MODULE MergeLadder ----------------------------
(***************************************************************************)
(* What a merge of the metrics engine chooses to rewrite: the forced       *)
(* rewrite of expired rows, the size-tiered run inside one aligned time    *)
(* bucket, or straddlers to split on the top level (engine/compact.go,     *)
(* compactlocality.go, timebucket.go, internal/timebucket).  A part is the *)
(* set of its row timestamps and the range of its series ids; its size is  *)
(* its row count.  Ratios are compared by cross multiplication, and        *)
(* minMergeMultiplier = 1.7 is Num / Den.                                  *)
(***************************************************************************)
EXTENDS Integers, Sequences, FiniteSets, FiniteSetsExt, SequencesExt

CONSTANTS
    Ladder,         \* bucket widths, ascending, each dividing the next
    FlushRows,      \* the row sets a flush may write
    SeriesRange,    \* the <<first, last>> series ranges of flushed parts
    MaxFlush,       \* flushes explored
    CapBytes,       \* merge cap, 0 = unlimited
    MaxInputs,      \* maxMergeParts
    SmallRun,       \* smallRunBytes
    Cutoffs         \* retention cutoffs explored, ascending

VARIABLES parts, retain, idle, flushed

vars == <<parts, retain, idle, flushed>>

Num == 17
Den == 10
MinParts == 2
IdleRounds == 3
Top == Ladder[Len(Ladder)]

-----------------------------------------------------------------------------
(* Buckets *)

OfTruncating(ts, level) == IF ts < 0 THEN 0 - level * ((0 - ts) \div level) ELSE ts - (ts % level)

\* Rounds toward negative infinity, as TLA+'s % does.
Of(ts, level) == ts - (ts % level)

Lo(p) == Min(p.rows)
Hi(p) == Max(p.rows)
Size(p) == Cardinality(p.rows)

Fits(p, level) == Of(Lo(p), level) = Of(Hi(p), level)

\* The newest bucket of a larger level admits only parts too wide for the level below.
CanCompact(p, i, newest) ==
    /\ Fits(p, Ladder[i])
    /\ \/ i = 1
       \/ Of(Lo(p), Ladder[i]) # Of(newest, Ladder[i])
       \/ ~Fits(p, Ladder[i - 1])

Levels(p) == { i \in DOMAIN Ladder : Fits(p, Ladder[i]) }

Straddles(p) == Levels(p) = {}

-----------------------------------------------------------------------------
(* Selections are sequences of positions in parts *)

SizeOf(run) == FoldLeft(LAMBDA n, i : n + Size(parts[i]), 0, run)

InSrcOrder(run) == SetToSortSeq(ToSet(run), <)

TakeAll(idx, held) == idx

\* budget.take: the longest prefix within the cap and the part count, at least one overall.
Take(idx, held) ==
    LET fits(k) == LET n == Len(held) + k
                       total == SizeOf(held) + SizeOf(SubSeq(idx, 1, k))
                   IN n <= 1 \/ ((CapBytes = 0 \/ total <= CapBytes) /\ n <= MaxInputs)
    IN SubSeq(idx, 1, Max({ k \in 0 .. Len(idx) : \A j \in 1 .. k : fits(j) }))

ByLo(S) == SetToSortSeq(S, LAMBDA i, j : Lo(parts[i]) < Lo(parts[j])
                                         \/ (Lo(parts[i]) = Lo(parts[j]) /\ i < j))

BySize(S) == SetToSortSeq(S, LAMBDA i, j : Size(parts[i]) < Size(parts[j])
                                           \/ (Size(parts[i]) = Size(parts[j]) /\ i < j))

\* sealed: at least the cap over the multiplier.
Sealed(p) == CapBytes > 0 /\ Num * Size(p) >= Den * CapBytes

\* A part with rows before the cutoff.  Downsampling, recompression and precision are left out.
Expiring(p) == Lo(p) < retain

\* retentionForces: the maintenance loop's own merges leave a part alone for RewriteInterval after
\* its last rewrite for retention; any other merge does not wait.
Forced(p, background) == Expiring(p) /\ (background => ~p.rested)

\* timebucket.Forced: the oldest forced part picks the bucket, its neighbours among others fill up.
ForcedBucket(forced, others) ==
    IF forced = {} THEN <<>>
    ELSE LET old == ByLo(forced)[1]
         IN IF Straddles(parts[old]) THEN <<old>>
            ELSE LET level == Ladder[Min(Levels(parts[old]))]
                     near == { i \in DOMAIN parts :
                                 Fits(parts[i], level)
                                 /\ Of(Lo(parts[i]), level) = Of(Lo(parts[old]), level) }
                     due == Take(ByLo(near \intersect forced), <<>>)
                 IN InSrcOrder(due \o Take(BySize((near \intersect others) \ forced), due))

\* Unsealed neighbours fill up, except in a background rewrite for retention.
SelectForced(background) ==
    ForcedBucket({ i \in DOMAIN parts : Forced(parts[i], background) },
                 { i \in DOMAIN parts : ~background /\ ~Sealed(parts[i]) })

\* runQualifies: cheap in absolute terms, or balanced and reaching the multiplier.
RunQualifies(run) ==
    LET total == SizeOf(run)
        small == Size(parts[Head(run)])
        large == Size(parts[Last(run)])
    IN total <= SmallRun \/ (small * Len(run) >= large /\ Den * total >= Num * large)

\* The run with the largest output over largest input; the first in scan order (shorter
\* runs first, then smaller parts) among equals.
Best(runs) ==
    CHOOSE r \in runs : \A q \in runs :
        LET a == SizeOf(r) * Size(parts[Last(q)])
            b == SizeOf(q) * Size(parts[Last(r)])
        IN a > b \/ (a = b /\ (Len(r) < Len(q) \/ (Len(r) = Len(q) /\
             (SizeOf(r) < SizeOf(q) \/ (SizeOf(r) = SizeOf(q) /\ r[1] <= q[1])))))

\* scanRuns: adjacent runs in size order within the cap.
Runs(bySize) ==
    { r \in { SubSeq(bySize, i, j) : i \in DOMAIN bySize, j \in DOMAIN bySize } :
        /\ Len(r) >= MinParts /\ Len(r) <= MaxInputs
        /\ CapBytes = 0 \/ SizeOf(r) <= CapBytes }

-----------------------------------------------------------------------------
(* Series locality *)

Span(a, b) == b - a + 1

SpanSum(run) == FoldLeft(LAMBDA n, i : n + Span(parts[i].first, parts[i].last), 0, run)

Width(run) == Span(Min({ parts[i].first : i \in ToSet(run) }),
                   Max({ parts[i].last : i \in ToSet(run) }))

Largest(run) == Max({ Size(parts[i]) : i \in ToSet(run) })
Smallest(run) == Min({ Size(parts[i]) : i \in ToSet(run) })

ByRange(S) ==
    SetToSortSeq(S, LAMBDA i, j :
        \/ parts[i].first < parts[j].first
        \/ parts[i].first = parts[j].first /\ parts[i].last < parts[j].last
        \/ parts[i].first = parts[j].first /\ parts[i].last = parts[j].last
           /\ (Size(parts[i]) < Size(parts[j]) \/ (Size(parts[i]) = Size(parts[j]) /\ i < j)))

\* Balanced and at least nine tenths as efficient as the current run.
LocalEnough(run, cur) ==
    LET total == SizeOf(run)
        large == Largest(run)
    IN /\ 10 * total * Largest(cur) >= 9 * SizeOf(cur) * large
       /\ total <= SmallRun
          \/ (Smallest(run) > (large - 1) \div Len(run) /\ Den * total >= Num * large)

\* Strictly denser than both bounds, or equal to the best found and more efficient.
Denser(a, b) == SpanSum(a) * Width(b) > SpanSum(b) * Width(a)

\* preferSeriesLocalRun: a run of ranges at least twice as dense, if there is one.
PreferLocal(elig, cur) ==
    LET order == ByRange(ToSet(elig))
        twice(r) == /\ SpanSum(r) >= 2 * Width(r)
                    /\ SpanSum(r) * Width(cur) >= 2 * SpanSum(cur) * Width(r)
        cand == { r \in Runs(order) : LocalEnough(r, cur) /\ twice(r) }
        eff(a, b) == SizeOf(a) * Largest(b) > SizeOf(b) * Largest(a)
        at(r) == CHOOSE i \in DOMAIN order : order[i] = r[1]
        better(a, b) == \/ Denser(a, b)
                        \/ /\ ~Denser(b, a)
                           /\ \/ eff(a, b)
                              \/ ~eff(b, a) /\ (at(a) < at(b) \/ (at(a) = at(b) /\ Len(a) <= Len(b)))
    IN IF 2 * SpanSum(cur) > MaxInputs * Width(cur) \/ cand = {} THEN cur
       ELSE CHOOSE r \in cand : \A q \in cand : better(r, q)

PickMergeRunStrict(group) ==
    LET good == { r \in Runs(BySize({ i \in group : ~Sealed(parts[i]) })) : RunQualifies(r) }
    IN IF good = {} THEN <<>> ELSE InSrcOrder(Best(good))

\* pickMergeRun: the best qualifying run, or after enough idle rounds the best of all.
PickMergeRun(group) ==
    LET bySize == BySize({ i \in group : ~Sealed(parts[i]) })
        all == Runs(bySize)
        good == { r \in all : RunQualifies(r) }
        runs == IF good = {} /\ idle >= IdleRounds THEN all ELSE good
    IN IF runs = {} THEN <<>> ELSE InSrcOrder(PreferLocal(bySize, Best(runs)))

Newest == Max({ Hi(parts[i]) : i \in DOMAIN parts })

\* partitionGroups at one level.
Groups(l) ==
    LET in == { i \in DOMAIN parts : CanCompact(parts[i], l, Newest) }
    IN { { i \in in : Of(Lo(parts[i]), Ladder[l]) = b } : b \in { Of(Lo(parts[i]), Ladder[l]) : i \in in } }

\* ladderRun: narrowest level first, oldest bucket first.
FirstRun(found) ==
    LET start(x) == Of(Lo(parts[Min(x[2])]), Ladder[x[1]])
    IN IF found = {} THEN <<>>
       ELSE (CHOOSE x \in found : \A y \in found :
                x[1] < y[1] \/ (x[1] = y[1] /\ start(x) <= start(y)))[3]

LadderRun ==
    LET groups == UNION { { <<l, g>> : g \in Groups(l) } : l \in DOMAIN Ladder }
        picks == { <<x[1], x[2], PickMergeRun(x[2])>> :
                     x \in { x \in groups : Cardinality(x[2]) >= MinParts } }
    IN FirstRun({ x \in picks : x[3] # <<>> })

SelectStraddlers == InSrcOrder(Take(ByLo({ i \in DOMAIN parts : Straddles(parts[i]) }), <<>>))

\* Forced work, then the ladder, then straddlers.
OrElse(sel, other) == IF sel # <<>> THEN sel ELSE other

SelectMergeParts(background) ==
    OrElse(SelectForced(background), OrElse(LadderRun, SelectStraddlers))

-----------------------------------------------------------------------------
(* The engine around it *)

Part(rows, r, rested) == [rows |-> rows, first |-> r[1], last |-> r[2], rested |-> rested]

Init == parts = <<>> /\ retain = -100 /\ idle = 0 /\ flushed = 0

Flush(rows, r) ==
    /\ flushed < MaxFlush
    /\ flushed' = flushed + 1
    /\ parts' = Append(parts, Part(rows, r, FALSE))
    /\ UNCHANGED <<retain, idle>>

Retain(t) ==
    /\ t > retain
    /\ retain' = t
    /\ UNCHANGED <<parts, idle, flushed>>

\* compactStream routes rows to one writer per top-level bucket.
OutputRows(rows) == { { t \in rows : Of(t, Top) = b } : b \in { Of(t, Top) : t \in rows } }

SurvivorsAll(sel) == UNION { parts[i].rows : i \in ToSet(sel) }

\* Rows the retention cutoff leaves.
Survivors(sel) == { t \in UNION { parts[i].rows : i \in ToSet(sel) } : t >= retain }

\* stampRetention: rewritten for retention now, or a source was and still rests.
Rested(sel) == \E i \in ToSet(sel) : Expiring(parts[i]) \/ parts[i].rested

\* What a merge of sel writes.
Outputs(sel) ==
    LET rows == Survivors(sel)
        range == <<Min({ parts[i].first : i \in ToSet(sel) }), Max({ parts[i].last : i \in ToSet(sel) })>>
        sets == SetToSortSeq(OutputRows(rows), LAMBDA a, b : Min(a) < Min(b))
    IN [k \in DOMAIN sets |-> Part(sets[k], range, Rested(sel))]

Live == { i \in DOMAIN parts : Hi(parts[i]) >= retain }

Keep(S) == LET order == SetToSortSeq(S, <) IN [k \in DOMAIN order |-> parts[order[k]]]

\* A merge drops whole expired parts first; here that round is a step of its own.
DropExpired ==
    /\ Live # DOMAIN parts
    /\ parts' = Keep(Live)
    /\ UNCHANGED <<retain, idle, flushed>>

Merge(sel) ==
    IF sel = <<>>
    THEN /\ idle' = Min({idle + 1, IdleRounds})
         /\ UNCHANGED parts
    ELSE /\ parts' = Keep(DOMAIN parts \ ToSet(sel)) \o Outputs(sel)
         /\ idle' = 0

\* RewriteInterval has passed since the part was last rewritten for retention.
Ages(i) ==
    /\ parts[i].rested
    /\ parts' = [parts EXCEPT ![i].rested = FALSE]
    /\ UNCHANGED <<retain, idle, flushed>>

MergeStep(background) ==
    /\ parts # <<>> /\ Live = DOMAIN parts
    /\ Merge(SelectMergeParts(background))
    /\ UNCHANGED <<retain, flushed>>

Next ==
    \/ \E rows \in FlushRows, r \in SeriesRange : Flush(rows, r)
    \/ \E t \in Cutoffs : Retain(t)
    \/ DropExpired
    \/ \E i \in DOMAIN parts : Ages(i)
    \/ \E background \in BOOLEAN : MergeStep(background)

Spec == Init /\ [][Next]_vars

Bounded(sel) ==
    LET lo == Min({ Lo(parts[i]) : i \in ToSet(sel) })
        hi == Max({ Hi(parts[i]) : i \in ToSet(sel) })
    IN Len(sel) > 1 =>
        /\ Len(sel) <= MaxInputs
        /\ CapBytes > 0 => SizeOf(sel) <= CapBytes
        /\ \/ \E i \in DOMAIN Ladder : Of(lo, Ladder[i]) = Of(hi, Ladder[i])
           \/ \A i \in ToSet(sel) : Straddles(parts[i])

-----------------------------------------------------------------------------
\* A merge of several parts stays inside one ladder bucket unless it is splitting
\* straddlers, and within the cap and the input bound (selectMergeParts, budget.take).
SelectionBounded ==
    parts # <<>> /\ Live = DOMAIN parts => \A background \in BOOLEAN : Bounded(SelectMergeParts(background))

Count(P(_)) == Cardinality({ i \in DOMAIN parts : P(parts[i]) })

ForcedParts == Count(Expiring)
StraddlerParts == Count(Straddles)

\* Merging terminates: every merge that selects something shrinks the forced set, else
\* the straddlers, else the part count, so no part is rewritten for ever (the fixed
\* points of forcedRewrite, the idle waiver of pickMergeRun).
MergeProgresses ==
    /\ parts' # parts \/ (idle > 0 /\ idle' = 0)
    /\ flushed' = flushed
    /\ ~\E i \in DOMAIN parts : parts[i].rested /\ parts' = [parts EXCEPT ![i].rested = FALSE]
    => \/ ForcedParts' < ForcedParts
       \/ ForcedParts' = ForcedParts /\ StraddlerParts' < StraddlerParts
       \/ ForcedParts' = ForcedParts /\ StraddlerParts' = StraddlerParts
          /\ Len(parts') < Len(parts)

\* Once merging has gone idle nothing is stranded: no two unsealed parts that may meet in a
\* bucket fit the cap together, nothing straddles, and nothing is forced but what rests after its
\* last rewrite for retention (pickMergeRun's waiver, retention.Due).
NothingStranded ==
    \A background \in BOOLEAN :
    parts # <<>> /\ Live = DOMAIN parts /\ idle = IdleRounds /\ SelectMergeParts(background) = <<>> =>
        /\ \A i \in DOMAIN parts :
              (Expiring(parts[i]) => background /\ parts[i].rested) /\ ~Straddles(parts[i])
        /\ \A i, j \in DOMAIN parts : \A l \in DOMAIN Ladder :
              i # j /\ CanCompact(parts[i], l, Newest) /\ CanCompact(parts[j], l, Newest)
              /\ Of(Lo(parts[i]), Ladder[l]) = Of(Lo(parts[j]), Ladder[l])
              /\ ~Sealed(parts[i]) /\ ~Sealed(parts[j])
              => CapBytes > 0 /\ Size(parts[i]) + Size(parts[j]) > CapBytes

\* No merge output is wider than the top level, even of rows before the epoch, where a
\* bucket start must round down (Router, timebucket.Of).
OutputsFit ==
    flushed' = flushed => \A k \in DOMAIN parts' :
       Hi(parts'[k]) - Lo(parts'[k]) < Top \/ parts'[k] \in ToSet(parts)
=============================================================================
