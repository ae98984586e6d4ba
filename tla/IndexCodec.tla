----------------------------- MODULE IndexCodec -----------------------------
(* backend/bucketindex: the index of a shard's parts as an object of the store.*)
(* A writer adds, merges, removes and loses parts, records watermarks, and     *)
(* saves the index; what it saved, or what an earlier release of the program   *)
(* left, is loaded, whole, cut short or with a number changed.  A varint is one*)
(* number of the stream and a name is a sequence of numbers.                   *)
EXTENDS Integers, SequencesExt, FiniteSetsExt

CONSTANTS MaxN,        \* the largest number of a term (2^64 - 1)
          MaxLevel,    \* the largest merge level (2^32 - 1)
          MaxAgg,      \* the largest aggregation id (255)
          MaxRemovals, \* tombstones an index carries
          MaxWriters,  \* watermarks an index carries
          Fresh,       \* the parts a flush writes: [prefix, term, nums, min, max, rollup]
          Writer,      \* the writers: names, the empty one is the anonymous writer
          Self,        \* the one whose index this is
          Changes,     \* the numbers a changed object may hold
          MaxStep      \* a bound on the writer's steps

CONSTANTS None, Err

VARIABLES ix,     \* the index in memory
          made,   \* the blocks that went into each live part
          mark,   \* the watermark Self last recorded
          steps, stream, ver,
          harm,   \* what happened to the object: "none", "cut", "changed"
          got     \* what a load returned

vars == <<ix, made, mark, steps, stream, ver, harm, got>>

-----------------------------------------------------------------------------
(* block.go: the set of blocks a part covers, kept as two bounds and the runs *)
(* between them that the part does not hold.  A block is a term and a number; *)
(* numbers start at 1 in every term and end at MaxN.                          *)

Block(term, n) == [term |-> term, n |-> n]

Less(a, b) == a.term < b.term \/ (a.term = b.term /\ a.n < b.n)

Later(a, b) == IF Less(a, b) THEN b ELSE a

\* Block.next and Block.prev step over the end of a term.
Following(b) == IF b.n = MaxN THEN Block(b.term + 1, 0) ELSE Block(b.term, b.n + 1)

Preceding(b) == IF b.n = 0 THEN Block(b.term - 1, MaxN) ELSE Block(b.term, b.n - 1)

Span(lo, hi) == [min |-> lo, max |-> hi]

Interval(lo, hi, gaps) == [min |-> lo, max |-> hi, gaps |-> gaps]

\* The zero value: no set at all.
Unset == Interval(Block(0, 0), Block(0, 0), <<>>)

\* run(i).Min: the first block held after the i-1st gap.
Opening(iv, i) == IF i = 1 THEN iv.min ELSE Following(iv.gaps[i - 1].max)

Run(iv, i) == Span(Opening(iv, i), IF i > Len(iv.gaps) THEN iv.max ELSE Preceding(iv.gaps[i].min))

ValidRun(lo, hi) == lo.n >= 1 /\ lo.term = hi.term /\ ~Less(hi, lo)

\* Interval.Valid: gaps lie strictly inside the bounds, apart from each other, and what is held
\* between them stays within a term.
Valid(iv) ==
    /\ ~Less(iv.max, iv.min)
    /\ \A i \in DOMAIN iv.gaps :
          /\ ~Less(iv.gaps[i].max, iv.gaps[i].min)
          /\ Less(Opening(iv, i), iv.gaps[i].min)
          /\ Less(iv.gaps[i].max, iv.max)
          /\ ValidRun(Opening(iv, i), Preceding(iv.gaps[i].min))
    /\ ValidRun(Opening(iv, Len(iv.gaps) + 1), iv.max)

Runs(iv) == [i \in 1 .. Len(iv.gaps) + 1 |-> Run(iv, i)]

\* A run that touches or overlaps the one before it extends it.
Coalesce(merged, r) ==
    IF merged # <<>> /\ ~Less(Last(merged).max, Preceding(r.min))
    THEN [merged EXCEPT ![Len(merged)].max = Later(@, r.max)]
    ELSE Append(merged, r)

RunBefore(a, b) == Less(a.min, b.min) \/ (a.min = b.min /\ Less(a.max, b.max))

\* fromRuns: sort, coalesce, and keep the space between runs as gaps.
FromRuns(runs) ==
    LET merged == FoldLeft(Coalesce, <<>>, SortSeq(runs, RunBefore))
    IN IF runs = <<>> \/ \E i \in DOMAIN runs : runs[i].min.n = 0 THEN Unset
       ELSE Interval(merged[1].min, Last(merged).max,
                     [i \in 1 .. Len(merged) - 1 |->
                         Span(Following(merged[i].max), Preceding(merged[i + 1].min))])

TermBlocks(term, nums) == FromRuns([i \in DOMAIN nums |-> Span(Block(term, nums[i]), Block(term, nums[i]))])

Union(a, b) == IF ~Valid(b) THEN a ELSE IF ~Valid(a) THEN b ELSE FromRuns(Runs(a) \o Runs(b))

\* Interval.Contains: each run of b lies in the first run of a that does not end before it.
Covers(a, b) ==
    /\ Valid(a) /\ Valid(b)
    /\ \A j \in 1 .. Len(b.gaps) + 1 :
          LET r == Run(b, j)
              open == { i \in 1 .. Len(a.gaps) + 1 : ~Less(Run(a, i).max, r.min) }
          IN /\ open # {}
             /\ LET h == Run(a, CHOOSE i \in open : \A k \in open : i <= k)
                IN ~Less(r.min, h.min) /\ ~Less(h.max, r.max)

\* Interval.Each: the blocks an interval stands for.
Each(iv) ==
    IF ~Valid(iv) THEN {}
    ELSE UNION { { Block(Run(iv, i).min.term, n) : n \in Run(iv, i).min.n .. Run(iv, i).max.n } :
                   i \in 1 .. Len(iv.gaps) + 1 }

-----------------------------------------------------------------------------

Version == 8
MagicB == 66
MagicI == 73

NoClaim == [blocks |-> Unset, group |-> Unset]

ValidClaim(c) == Valid(c.blocks) /\ Valid(c.group)

Gen(term, counter) == [term |-> term, counter |-> counter]

EmptyIndex ==
    [entries |-> <<>>, flushed |-> 0, generation |-> Gen(0, 0), removed |-> <<>>, epochs |-> <<>>,
     wanted |-> <<>>, lost |-> 0, allocated |-> Block(0, 0), catalog |-> <<>>]

GenLess(g, h) == g.term < h.term \/ (g.term = h.term /\ g.counter < h.counter)

-----------------------------------------------------------------------------
(* The index in memory                                                         *)

\* strings.Compare
NameLess(a, b) ==
    \E i \in 1 .. Len(b) :
        /\ i - 1 <= Len(a) /\ SubSeq(a, 1, i - 1) = SubSeq(b, 1, i - 1)
        /\ i > Len(a) \/ a[i] < b[i]

\* A sorted list, e in the place of the one of its name.
Put(list, e, Name(_)) ==
    SelectSeq(list, LAMBDA x : NameLess(Name(x), Name(e))) \o <<e>>
    \o SelectSeq(list, LAMBDA x : NameLess(Name(e), Name(x)))

Prefix(e) == e.prefix

Holder(w) == w.writer

Add(es, e) == Put(es, e, Prefix)

RemoveEntry(es, prefix) == SelectSeq(es, LAMBDA e : e.prefix # prefix)

Tombstone(rs, r) == Put(rs, r, Prefix)

SetWriterEpoch(x, w, epoch) ==
    IF w = <<>> THEN [x EXCEPT !.flushed = epoch]
    ELSE [x EXCEPT !.epochs = Put(@, [writer |-> w, epoch |-> epoch, generation |-> x.generation], Holder)]

Newest(list, keep, Before(_, _)) ==
    LET kept == SubSeq(SortSeq(list, Before), 1, keep)
    IN IF Len(list) <= keep THEN list ELSE SelectSeq(list, LAMBDA x : \E i \in DOMAIN kept : kept[i] = x)

TrimWriters(epochs, self, keep) ==
    Newest(epochs, keep, LAMBDA a, b : a.writer = self \/ (b.writer # self /\ GenLess(b.generation, a.generation)))

\* The newest tombstones, none of a part that is live again.
TrimRemovals(removed, live, keep) ==
    Newest(SelectSeq(removed, LAMBDA r : r.prefix \notin live), keep,
           LAMBDA a, b : GenLess(b.generation, a.generation))

ClaimLess(a, b) ==
    LET key(c) == <<c.group.min, c.group.max, c.blocks.min, c.blocks.max>>
    IN \E i \in 1 .. 4 : Less(key(a)[i], key(b)[i]) /\ \A j \in 1 .. i - 1 : key(a)[j] = key(b)[j]

\* MergeLineage: one claim for each group and ancestry, told apart by their bounds, in order.
MergeLineage(claims) ==
    FoldLeft(LAMBDA kept, c : IF kept # <<>> /\ ~ClaimLess(Last(kept), c) THEN kept ELSE Append(kept, c),
             <<>>, SortSeq(SelectSeq(claims, ValidClaim), ClaimLess))

\* RecordLineage, without the aging out of claims nothing reaches.
RecordLineage(x) ==
    [x EXCEPT !.catalog = MergeLineage(@ \o [i \in DOMAIN x.entries |-> x.entries[i].claim]
                                         \o [i \in DOMAIN x.wanted |-> x.wanted[i].claim])]

WantOf(e, g) ==
    [prefix |-> e.prefix, blocks |-> e.blocks, level |-> e.level, min |-> e.min, max |-> e.max,
     generation |-> g, claim |-> e.claim, term |-> e.term]

Live(x) == { x.entries[i].prefix : i \in DOMAIN x.entries }

-----------------------------------------------------------------------------
(* Writing                                                                     *)

\* Varint: the sign in the lowest bit.
ZigZag(n) == IF n < 0 THEN -2 * n - 1 ELSE 2 * n

AppendName(s) == <<Len(s)>> \o s

AppendGen(g) == <<g.term, g.counter>>

AppendList(list, Item(_)) == <<Len(list)>> \o FlattenSeq([i \in DOMAIN list |-> Item(list[i])])

\* appendInterval.  Before version 7 there were no terms, before 6 no gaps.
AppendInterval(iv, v) ==
    IF v < 6 THEN IF Valid(iv) THEN <<iv.min.n, iv.max.n>> ELSE <<0, 0>>
    ELSE IF ~Valid(iv) THEN <<0>>
    ELSE <<iv.min.n>> \o (IF v >= 7 THEN <<iv.min.term, iv.max.term - iv.min.term>> ELSE <<>>) \o <<iv.max.n>>
         \o AppendList(iv.gaps, LAMBDA g : IF v >= 7 THEN <<g.min.term, g.min.n, g.max.term, g.max.n>>
                                           ELSE <<g.min.n, g.max.n>>)

AppendClaim(c, v) ==
    IF ValidClaim(c) THEN <<1>> \o AppendInterval(c.blocks, v) \o AppendInterval(c.group, v) ELSE <<0>>

AppendRollup(r) ==
    IF r = None THEN <<>>
    ELSE AppendList(r.tiers, LAMBDA t : <<ZigZag(t.before), ZigZag(t.interval), t.agg>>)

Since(v, first, tokens) == IF v >= first THEN tokens ELSE <<>>

EntryFlags(e, v) ==
    (IF e.hole THEN 1 ELSE 0) + (IF e.rollup # None /\ v >= 8 THEN 2 ELSE 0)

AppendEntry(e, v) ==
    AppendName(e.prefix) \o <<ZigZag(e.min), ZigZag(e.max)>>
    \o Since(v, 5, AppendInterval(e.blocks, v) \o <<e.level, EntryFlags(e, v)>>)
    \o Since(v, 6, AppendClaim(e.claim, v)) \o Since(v, 7, <<e.term>>) \o Since(v, 8, AppendRollup(e.rollup))

AppendWant(w, v) ==
    AppendName(w.prefix) \o AppendInterval(w.blocks, v) \o <<w.level, ZigZag(w.min), ZigZag(w.max)>>
    \o AppendGen(w.generation) \o Since(v, 6, AppendClaim(w.claim, v)) \o Since(v, 7, <<w.term>>)

\* AppendBinary writes version 8; v < 8 is what an earlier release wrote of the same index.
AppendBinary(x, v) ==
    <<MagicB, MagicI, v>> \o AppendList(x.entries, LAMBDA e : AppendEntry(e, v))
    \o Since(v, 2, <<x.flushed>>)
    \o Since(v, 3, AppendGen(x.generation)
                   \o AppendList(x.removed, LAMBDA r : AppendName(r.prefix) \o AppendGen(r.generation)))
    \o Since(v, 4, AppendList(x.epochs, LAMBDA w : AppendName(w.writer) \o <<w.epoch>> \o AppendGen(w.generation)))
    \o Since(v, 5, AppendList(x.wanted, LAMBDA w : AppendWant(w, v)) \o <<x.lost>>)
    \o Since(v, 6, (IF v >= 7 THEN <<x.allocated.term>> ELSE <<>>) \o <<x.allocated.n>>)
    \o Since(v, 8, AppendList(x.catalog, LAMBDA c : AppendInterval(c.blocks, v) \o AppendInterval(c.group, v)))

-----------------------------------------------------------------------------
(* Reading: [ok, v, rest]                                                      *)

Fail == [ok |-> FALSE, v |-> 0, rest |-> <<>>]

Got(v, rest) == [ok |-> TRUE, v |-> v, rest |-> rest]

\* The next n numbers of the stream.
Take(buf, n) == IF Len(buf) < n THEN Fail ELSE Got(SubSeq(buf, 1, n), SubSeq(buf, n + 1, Len(buf)))

Then(r, Use(_, _)) == IF r.ok THEN Use(r.v, r.rest) ELSE Fail

UnZigZag(n) == IF n % 2 = 1 THEN -((n + 1) \div 2) ELSE n \div 2

ReadName(buf) == Then(Take(buf, 1), LAMBDA v, rest : Take(rest, v[1]))

\* A hull that names no set is unset.
ReadHull(buf) ==
    Then(Take(buf, 2), LAMBDA v, rest :
        LET iv == Interval(Block(0, v[1]), Block(0, v[2]), <<>>) IN Got(IF Valid(iv) THEN iv ELSE Unset, rest))

\* The gaps that follow the bounds; a set that is not in its canonical form is refused.
ReadGaps(lo, hi, n, buf, v) ==
    LET width == IF v >= 7 THEN 4 ELSE 2
        gap(g, i) == IF v >= 7 THEN Span(Block(g[4 * i - 3], g[4 * i - 2]), Block(g[4 * i - 1], g[4 * i]))
                     ELSE Span(Block(0, g[2 * i - 1]), Block(0, g[2 * i]))
    IN Then(Take(buf, width * n), LAMBDA g, rest :
           LET iv == Interval(lo, hi, [i \in 1 .. n |-> gap(g, i)]) IN IF Valid(iv) THEN Got(iv, rest) ELSE Fail)

ReadInterval(buf, v) ==
    IF v < 6 THEN ReadHull(buf)
    ELSE IF buf # <<>> /\ Head(buf) = 0 THEN Got(Unset, Tail(buf))
    ELSE IF v = 6
    THEN Then(Take(buf, 3), LAMBDA h, rest : ReadGaps(Block(0, h[1]), Block(0, h[2]), h[3], rest, v))
    ELSE Then(Take(buf, 5), LAMBDA h, rest :
             IF h[3] > MaxN - h[2] THEN Fail
             ELSE ReadGaps(Block(h[2], h[1]), Block(h[2] + h[3], h[4]), h[5], rest, v))

ReadPair(buf, v) ==
    Then(ReadInterval(buf, v), LAMBDA b, rest : Then(ReadInterval(rest, v), LAMBDA g, after :
        LET c == [blocks |-> b, group |-> g] IN IF ValidClaim(c) THEN Got(c, after) ELSE Fail))

ReadClaim(buf, v) ==
    Then(Take(buf, 1), LAMBDA p, rest :
        IF p[1] > 1 THEN Fail ELSE IF p[1] = 0 THEN Got(NoClaim, rest) ELSE ReadPair(rest, v))

\* n items, one after the other; more than the stream has numbers is refused at once.
ReadItems(n, buf, Item(_)) ==
    LET read[i \in 0 .. n] ==
            IF i = 0 THEN Got(<<>>, buf)
            ELSE Then(read[i - 1], LAMBDA done, rest : Then(Item(rest), LAMBDA x, after : Got(Append(done, x), after)))
    IN IF n > Len(buf) THEN Fail ELSE read[n]

ReadList(buf, Item(_)) == Then(Take(buf, 1), LAMBDA n, rest : ReadItems(n[1], rest, Item))

ReadTier(buf) ==
    Then(Take(buf, 3), LAMBDA t, rest :
        IF t[3] > MaxAgg THEN Fail
        ELSE Got([before |-> UnZigZag(t[1]), interval |-> UnZigZag(t[2]), agg |-> t[3]], rest))

\* A bit this release does not know must not be read as a part with data.
KnownFlags(v) == IF v >= 8 THEN 0 .. 3 ELSE 0 .. 1

ReadTail(e, flags, buf, v) ==
    Then(IF v >= 6 THEN ReadClaim(buf, v) ELSE Got(NoClaim, buf), LAMBDA c, r1 :
    Then(IF v >= 7 THEN Take(r1, 1) ELSE Got(<<0>>, r1), LAMBDA t, r2 :
    Then(IF flags \div 2 % 2 = 1 THEN ReadList(r2, ReadTier) ELSE Got(None, r2), LAMBDA tiers, r3 :
        Got([e EXCEPT !.claim = c, !.term = t[1],
                      !.rollup = IF flags \div 2 % 2 = 1 THEN [tiers |-> tiers] ELSE None], r3))))

DecodeBlockIdentity(e, buf, v) ==
    Then(ReadInterval(buf, v), LAMBDA iv, r1 :
    Then(Take(r1, 2), LAMBDA h, r2 :
        IF h[1] > MaxLevel \/ h[2] \notin KnownFlags(v) THEN Fail
        ELSE ReadTail([e EXCEPT !.blocks = iv, !.level = h[1], !.hole = h[2] % 2 = 1], h[2], r2, v)))

BareEntry(prefix, lo, hi) ==
    [prefix |-> prefix, min |-> lo, max |-> hi, blocks |-> Unset, level |-> 0, hole |-> FALSE,
     claim |-> NoClaim, term |-> 0, rollup |-> None]

DecodeEntry(buf, v) ==
    Then(ReadName(buf), LAMBDA p, r1 : Then(Take(r1, 2), LAMBDA t, r2 :
        LET e == BareEntry(p, UnZigZag(t[1]), UnZigZag(t[2]))
        IN IF v >= 5 THEN DecodeBlockIdentity(e, r2, v) ELSE Got(e, r2)))

DecodeWant(buf, v) ==
    Then(ReadName(buf), LAMBDA p, r1 : Then(ReadInterval(r1, v), LAMBDA iv, r2 : Then(Take(r2, 5), LAMBDA h, r3 :
    Then(IF v >= 6 THEN ReadClaim(r3, v) ELSE Got(NoClaim, r3), LAMBDA c, r4 :
    Then(IF v >= 7 THEN Take(r4, 1) ELSE Got(<<0>>, r4), LAMBDA t, r5 :
        IF h[1] > MaxLevel THEN Fail
        ELSE Got([prefix |-> p, blocks |-> iv, level |-> h[1], min |-> UnZigZag(h[2]), max |-> UnZigZag(h[3]),
                  generation |-> Gen(h[4], h[5]), claim |-> c, term |-> t[1]], r5))))))

DecodeRemoval(buf) ==
    Then(ReadName(buf), LAMBDA p, r1 : Then(Take(r1, 2), LAMBDA g, r2 :
        Got([prefix |-> p, generation |-> Gen(g[1], g[2])], r2)))

DecodeWriterEpoch(buf) ==
    Then(ReadName(buf), LAMBDA w, r1 : Then(Take(r1, 3), LAMBDA h, r2 :
        Got([writer |-> w, epoch |-> h[1], generation |-> Gen(h[2], h[3])], r2)))

\* A catalog is in the one order MergeLineage gives it.
ReadCatalog(buf, v) ==
    Then(ReadList(buf, LAMBDA b : ReadPair(b, v)), LAMBDA cs, rest :
        IF \E i \in 2 .. Len(cs) : ~ClaimLess(cs[i - 1], cs[i]) THEN Fail ELSE Got(cs, rest))

\* One more section of the index, read only from a version that has it.
Section(r, v, since, Read(_), Store(_, _)) ==
    IF ~r.ok \/ v < since THEN r ELSE Then(Read(r.rest), LAMBDA s, rest : Got(Store(r.v, s), rest))

DecodeHead(buf, v) ==
    LET s1 == Section(Got(EmptyIndex, buf), v, 1, LAMBDA b : ReadList(b, LAMBDA c : DecodeEntry(c, v)),
                      LAMBDA x, s : [x EXCEPT !.entries = s])
        s2 == Section(s1, v, 2, LAMBDA b : Take(b, 1), LAMBDA x, s : [x EXCEPT !.flushed = s[1]])
        s3 == Section(s2, v, 3, LAMBDA b : Take(b, 2), LAMBDA x, s : [x EXCEPT !.generation = Gen(s[1], s[2])])
        s4 == Section(s3, v, 3, LAMBDA b : ReadList(b, DecodeRemoval), LAMBDA x, s : [x EXCEPT !.removed = s])
    IN Section(s4, v, 4, LAMBDA b : ReadList(b, DecodeWriterEpoch), LAMBDA x, s : [x EXCEPT !.epochs = s])

DecodeTail(r, v) ==
    LET s1 == Section(r, v, 5, LAMBDA b : ReadList(b, LAMBDA c : DecodeWant(c, v)),
                      LAMBDA x, s : [x EXCEPT !.wanted = s])
        s2 == Section(s1, v, 5, LAMBDA b : Take(b, 1), LAMBDA x, s : [x EXCEPT !.lost = s[1]])
        s3 == Section(s2, v, 7, LAMBDA b : Take(b, 1), LAMBDA x, s : [x EXCEPT !.allocated.term = s[1]])
        s4 == Section(s3, v, 6, LAMBDA b : Take(b, 1), LAMBDA x, s : [x EXCEPT !.allocated.n = s[1]])
    IN Section(s4, v, 8, LAMBDA b : ReadCatalog(b, v), LAMBDA x, s : [x EXCEPT !.catalog = s])

\* Decode: what is left of the stream after the last section is not looked at.
Decode(data) ==
    IF Len(data) < 3 \/ SubSeq(data, 1, 2) # <<MagicB, MagicI>> \/ data[3] \notin 1 .. Version THEN Err
    ELSE LET r == DecodeTail(DecodeHead(SubSeq(data, 4, Len(data)), data[3]), data[3])
         IN IF r.ok THEN r.v ELSE Err

-----------------------------------------------------------------------------
(* The writer's steps                                                          *)

Writing == stream = None /\ steps < MaxStep /\ steps' = steps + 1 /\ UNCHANGED <<stream, ver, harm, got>>

\* Generation.Next
NextGen(g, term) == IF term > g.term THEN Gen(term, 1) ELSE Gen(g.term, g.counter + 1)

Without(f, names) == [p \in DOMAIN f \ names |-> f[p]]

Entry(prefix, blocks, level, term, src) ==
    [BareEntry(prefix, src.min, src.max) EXCEPT
        !.blocks = blocks, !.level = level, !.term = term, !.rollup = src.rollup]

\* A flush, or a part that comes back by its name and discharges its want or revokes its hole.
Flush(f) ==
    LET e == Entry(f.prefix, TermBlocks(f.term, f.nums), 0, f.term, f)
    IN /\ Writing
       /\ \A i \in DOMAIN ix.entries : ix.entries[i].prefix = f.prefix => ix.entries[i].hole
       /\ ix' = [ix EXCEPT !.entries = Add(@, e), !.generation = NextGen(@, f.term),
                           !.wanted = RemoveEntry(@, f.prefix), !.allocated = Later(@, e.blocks.max)]
       /\ made' = (f.prefix :> { Block(f.term, f.nums[i]) : i \in DOMAIN f.nums }) @@ made
       /\ UNCHANGED mark

\* The index without two parts and with their tombstones.
Retired(x, ps) ==
    LET g == NextGen(x.generation, 0)
    IN [x EXCEPT !.generation = g,
                 !.entries = SelectSeq(@, LAMBDA e : e.prefix \notin ps),
                 !.removed = FoldSet(LAMBDA p, rs : Tombstone(rs, [prefix |-> p, generation |-> g]), @, ps)]

Merge(i, j) ==
    LET a == ix.entries[i]
        b == ix.entries[j]
        out == Entry(<<9, steps>>, Union(a.blocks, b.blocks), 1 + Max({a.level, b.level}), ix.generation.term, a)
    IN /\ Writing /\ i # j /\ ~a.hole /\ ~b.hole
       /\ ix' = [Retired(ix, {a.prefix, b.prefix}) EXCEPT !.entries = Add(@, out)]
       /\ made' = (out.prefix :> (made[a.prefix] \cup made[b.prefix])) @@ Without(made, {a.prefix, b.prefix})
       /\ UNCHANGED mark

\* A merge that writes two parts: fresh blocks for each, and one claim on what the input covered.
Split(i) ==
    LET a == ix.entries[i]
        term == Max({ix.generation.term, ix.allocated.term})
        n == IF ix.allocated.term = term THEN ix.allocated.n ELSE 0
        claim == [blocks |-> a.blocks, group |-> TermBlocks(term, <<n + 1, n + 2>>)]
        part(k) == [Entry(<<8, steps, k>>, TermBlocks(term, <<n + k>>), a.level + 1, term, a) EXCEPT !.claim = claim]
    IN /\ Writing /\ ~a.hole /\ n + 2 <= MaxN
       /\ ix' = [Retired(ix, {a.prefix}) EXCEPT !.entries = Add(Add(@, part(1)), part(2)),
                                                !.allocated = Block(term, n + 2)]
       /\ made' = [p \in {<<8, steps, 1>>, <<8, steps, 2>>} |-> {Block(term, n + p[3])}] @@ Without(made, {a.prefix})
       /\ UNCHANGED mark

\* A part that cannot be read leaves the list for the wants.
Lose(i) ==
    LET e == ix.entries[i]
        g == NextGen(ix.generation, 0)
    IN /\ Writing /\ ~e.hole
       /\ ix' = [ix EXCEPT !.entries = RemoveEntry(@, e.prefix), !.generation = g,
                           !.wanted = Put(@, WantOf(e, g), Prefix)]
       /\ made' = Without(made, {e.prefix})
       /\ UNCHANGED mark

\* RecordHole: an entry that holds nothing takes the want's identity.
RecordHole(i) ==
    LET w == ix.wanted[i]
        hole == [BareEntry(w.prefix, w.min, w.max) EXCEPT !.blocks = w.blocks, !.level = w.level, !.hole = TRUE,
                                                          !.claim = w.claim, !.term = w.term]
    IN /\ Writing /\ w.prefix \notin Live(ix)
       /\ ix' = [ix EXCEPT !.entries = Add(@, hole), !.wanted = RemoveEntry(@, w.prefix), !.lost = @ + 1]
       /\ made' = (w.prefix :> Each(w.blocks)) @@ made
       /\ UNCHANGED mark

Watermark(w) ==
    /\ Writing
    /\ ix' = SetWriterEpoch([ix EXCEPT !.generation = NextGen(@, 0)], w, steps + 1)
    /\ mark' = IF w = Self THEN steps + 1 ELSE mark
    /\ UNCHANGED made

Committed(x) ==
    RecordLineage([x EXCEPT !.removed = TrimRemovals(@, Live(x), MaxRemovals),
                            !.epochs = TrimWriters(@, Self, MaxWriters)])

Save ==
    /\ stream = None
    /\ ix' = Committed(ix)
    /\ stream' = AppendBinary(Committed(ix), Version) /\ ver' = Version
    /\ UNCHANGED <<made, mark, steps, harm, got>>

\* What an earlier release left; terms came with version 7.
Earlier(v) ==
    /\ stream = None /\ (v < 7 => ix.allocated.term = 0)
    /\ stream' = AppendBinary(Committed(ix), v) /\ ver' = v
    /\ ix' = Committed(ix)
    /\ UNCHANGED <<made, mark, steps, harm, got>>

\* Load and LoadVersioned: an object is decoded or the load fails.
Read(what, s) ==
    /\ stream # None /\ got = None
    /\ stream' = s /\ harm' = what /\ got' = Decode(s)
    /\ UNCHANGED <<ix, made, mark, steps, ver>>

Load == Read("none", stream)

LoadCut(n) == Read("cut", SubSeq(stream, 1, n))

LoadChanged(i, t) == t # stream[i] /\ Read("changed", [stream EXCEPT ![i] = t])

Init ==
    /\ ix = EmptyIndex /\ made = [p \in {} |-> {}] /\ mark = 0 /\ steps = 0
    /\ stream = None /\ ver = 0 /\ harm = "none" /\ got = None

Next ==
    \/ \E f \in Fresh : Flush(f)
    \/ \E i, j \in DOMAIN ix.entries : Merge(i, j)
    \/ \E i \in DOMAIN ix.entries : Split(i) \/ Lose(i)
    \/ \E i \in DOMAIN ix.wanted : RecordHole(i)
    \/ \E w \in Writer : Watermark(w)
    \/ Save
    \/ \E v \in 1 .. Version - 1 : Earlier(v)
    \/ stream # None /\ \E n \in 0 .. Len(stream) - 1 : LoadCut(n)
    \/ stream # None /\ \E i \in DOMAIN stream, t \in Changes : LoadChanged(i, t)
    \/ Load

Spec == Init /\ [][Next]_vars

-----------------------------------------------------------------------------
(* What version v can say of an index.                                         *)

Hull(iv) == IF Valid(iv) THEN [iv EXCEPT !.gaps = <<>>] ELSE Unset

BlocksAsOf(iv, v) == IF v < 6 THEN Hull(iv) ELSE iv

EntryAsOf(e, v) ==
    [BareEntry(e.prefix, e.min, e.max) EXCEPT
        !.blocks = IF v >= 5 THEN BlocksAsOf(e.blocks, v) ELSE @, !.level = IF v >= 5 THEN e.level ELSE @,
        !.hole = v >= 5 /\ e.hole, !.claim = IF v >= 6 THEN e.claim ELSE @,
        !.term = IF v >= 7 THEN e.term ELSE @, !.rollup = IF v >= 8 THEN e.rollup ELSE @]

WantAsOf(w, v) ==
    [w EXCEPT !.blocks = BlocksAsOf(@, v), !.claim = IF v >= 6 THEN @ ELSE NoClaim, !.term = IF v >= 7 THEN @ ELSE 0]

AsOf(x, v) ==
    [entries |-> [i \in DOMAIN x.entries |-> EntryAsOf(x.entries[i], v)],
     flushed |-> IF v >= 2 THEN x.flushed ELSE 0,
     generation |-> IF v >= 3 THEN x.generation ELSE Gen(0, 0),
     removed |-> IF v >= 3 THEN x.removed ELSE <<>>,
     epochs |-> IF v >= 4 THEN x.epochs ELSE <<>>,
     wanted |-> IF v >= 5 THEN [i \in DOMAIN x.wanted |-> WantAsOf(x.wanted[i], v)] ELSE <<>>,
     lost |-> IF v >= 5 THEN x.lost ELSE 0,
     allocated |-> IF v >= 6 THEN x.allocated ELSE Block(0, 0),
     catalog |-> IF v >= 8 THEN x.catalog ELSE <<>>]

\* An index reads back as it was saved, and one of an earlier version (Decode) as much of it as that
\* version could say, every other field at its zero; an object that lost its end is refused.
IndexReadsBack ==
    got # None => (harm = "none" => got = AsOf(ix, ver)) /\ (harm = "cut" => got = Err)

\* Whatever Decode accepts, an object with a changed number included, is in the one form this
\* release writes: it reads back the same once saved, and at the current version saving it gives
\* the object again (readInterval, readClaim and readCatalog refuse every other form).
OneForm ==
    got \notin {None, Err} =>
        LET again == AppendBinary(got, Version)
        IN Decode(again) = got /\ (stream[3] = Version => IsPrefix(again, stream))

\* Bounds and gaps stand for the set of blocks: whatever flushes, merges and splits built a part's
\* interval, it holds just the blocks that went into the part, one set has one interval, and
\* Contains is inclusion.
IntervalsAreSets ==
    \A i, j \in DOMAIN ix.entries :
        LET a == ix.entries[i]
            b == ix.entries[j]
        IN /\ Each(a.blocks) = made[a.prefix]
           /\ made[a.prefix] = made[b.prefix] => a.blocks = b.blocks
           /\ Covers(a.blocks, b.blocks) = (made[b.prefix] \subseteq made[a.prefix])

\* A saved index names each part once, in order, and none of them as removed, however often a name
\* came and went; and it keeps the watermark of the writer that saves it, whatever it trimmed.
SavedSound ==
    stream # None =>
        /\ \A i, j \in DOMAIN ix.entries : i < j => NameLess(ix.entries[i].prefix, ix.entries[j].prefix)
        /\ \A i \in DOMAIN ix.removed : ix.removed[i].prefix \notin Live(ix)
        /\ mark > 0 /\ Self # <<>> =>
              \E i \in DOMAIN ix.epochs : ix.epochs[i].writer = Self /\ ix.epochs[i].epoch = mark
=============================================================================
