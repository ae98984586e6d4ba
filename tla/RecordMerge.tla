---------------------------- MODULE RecordMerge ----------------------------
(* One merge of a record engine (recordengine/merge.go), from the selection of *)
(* its sources to the commit that replaces them: the memory it is granted, the *)
(* cursors and the heap that interleave its sources, the router that opens one *)
(* writer per day bucket and seals the largest when memory runs short, the     *)
(* retry when a source turns out not to be in timestamp order, and the outputs *)
(* an attempt that fails leaves behind.  A row is one byte, its value is left  *)
(* out, and a part is its rows with the stream ranges that index them.         *)
EXTENDS Integers, Sequences, FiniteSets, FiniteSetsExt, SequencesExt, TLC

CONSTANTS Layout,       \* the parts a flush, or an older release, may have written
          Ladder,       \* bucket widths, narrowest first
          Granule,      \* rows a cursor decodes ahead, and rows of a writer's granule
          RunBytes,     \* bytes one append may take
          PartCap,      \* bytes of a merged part
          MaxInputs, IdleRounds, SmallRun,
          MaxOpen,      \* writers open at once
          Share,        \* a merge's share of the memory budget
          Total,        \* the memory budget, shared with other merges
          Cutoffs, MaxFlush, MaxFault, MaxReload, None

VARIABLES parts,      \* e.parts: the parts, in commit order
          retain,     \* the retention cutoff
          idle,       \* e.idleMerges
          feedback,   \* e.mergeFeedback
          stored,     \* prefixes with objects in the backend
          next,       \* the next part prefix
          faults, reloads,
          pc, wait, sel, trash,   \* the merge: step, foreground, sources, abandoned outputs
          mine, other,            \* bytes granted to it and to others
          a,          \* the attempt: sources, streams left, runs, writers, outputs
          futile,     \* the runs a merge was rejected for
          unknown     \* outputs of commits whose result is not known

vars == <<parts, retain, idle, feedback, stored, next, faults, reloads, pc, wait, sel, trash,
          mine, other, a, futile, unknown>>

Num == 17   \* minMergeMultiplier 1.7
Den == 10

Times(rows) == { r.t : r \in ToSet(rows) }
Lo(p) == Min(Times(p.rows))
Hi(p) == Max(Times(p.rows))
Size(p) == Len(p.rows)
SizeOf(ps) == FoldLeft(LAMBDA n, p : n + Size(p), 0, ps)
Pick(s, idx) == [k \in DOMAIN idx |-> s[idx[k]]]
Key(ps) == { <<p.n, p.obj>> : p \in ToSet(ps) }
Names(ps) == { p.n : p \in ToSet(ps) }

\* Indices of s, in the order lt gives and then in their own.
Order(s, lt(_, _)) ==
    SortSeq([i \in DOMAIN s |-> i],
            LAMBDA i, j : lt(s[i], s[j]) \/ (~lt(s[j], s[i]) /\ i < j))

Where(idx, P(_)) == SelectSeq(idx, P)

-----------------------------------------------------------------------------
(* Selection *)

Top == Last(Ladder)

Of(t, level) == t - (t % level)

End(t, level) == Of(t, level) + level - 1

Fits(p, level) == Of(Lo(p), level) = Of(Hi(p), level)

\* Finest: the narrowest level the part fits, if any.
FitLevels(p) == { l \in DOMAIN Ladder : Fits(p, Ladder[l]) }

\* CanCompact: the newest bucket of a wider level waits until its parts outgrow the finer one.
CanCompact(p, l, newest) ==
    /\ Fits(p, Ladder[l])
    /\ \/ l = 1
       \/ Of(Lo(p), Ladder[l]) # Of(newest, Ladder[l])
       \/ ~Fits(p, Ladder[l - 1])

Sealed(p) == PartCap > 0 /\ Num * Size(p) >= Den * PartCap

\* retentionForces
Due(p) == retain > 0 /\ Lo(p) < retain

\* budget.take: the longest prefix of idx that fits beside what is held.
Take(src, idx, held) ==
    LET ok(k) == LET got == held \o SubSeq(idx, 1, k)
                 IN Len(got) <= 1 \/ (SizeOf(Pick(src, got)) <= PartCap /\ Len(got) <= MaxInputs)
    IN SubSeq(idx, 1, Max({ k \in 0 .. Len(idx) : \A j \in 1 .. k : ok(j) }))

InSrcOrder(idx) == SortSeq(idx, <)

ByLo(src) == Order(src, LAMBDA p, q : Lo(p) < Lo(q))

\* eligibleBySize orders what is not sealed by size, then position.
BySize(src) == Order(src, LAMBDA p, q : Size(p) < Size(q))

\* timebucket.Forced: the oldest due part names the bucket, unsealed neighbours fill up.
SelectForced(src) ==
    LET due == Where(ByLo(src), LAMBDA i : Due(src[i]))
    IN IF due = <<>> THEN <<>>
       ELSE LET old == src[Head(due)]
            IN IF FitLevels(old) = {} THEN <<Head(due)>>
               ELSE LET level == Ladder[Min(FitLevels(old))]
                        near(i) == Fits(src[i], level) /\ Of(Lo(src[i]), level) = Of(Lo(old), level)
                        must == Take(src, Where(due, near), <<>>)
                        rest == Where(BySize(src), LAMBDA i : near(i) /\ ~Due(src[i]) /\ ~Sealed(src[i]))
                    IN InSrcOrder(must \o Take(src, rest, must))

\* mergeFeedback.expected: what the same run wrote last time, unless the cap has since grown.
Expected(ps) ==
    LET seen == { o \in feedback : o.run = Key(ps) }
    IN IF seen = {} THEN 1 ELSE (CHOOSE o \in seen : TRUE).outputs

RunQualifies(ps) ==
    \/ SizeOf(ps) <= SmallRun
    \/ /\ Size(ps[1]) * Len(ps) >= Size(Last(ps))
       /\ Den * SizeOf(ps) >= Num * Size(Last(ps))

\* scanRunsExpected: runs adjacent in size order that fit the cap and remove a part.
Runs(src, idx) ==
    { r \in { SubSeq(idx, i, j) : i \in DOMAIN idx, j \in DOMAIN idx } :
        /\ Len(r) >= 2 /\ Len(r) <= MaxInputs
        /\ SizeOf(Pick(src, r)) <= PartCap
        /\ Len(r) > Expected(Pick(src, r)) }

\* The least bytes written for each part removed, then the longest run, then the smallest parts.
Cheapest(src, rs) ==
    LET total(r) == SizeOf(Pick(src, r))
        gone(r) == Len(r) - Expected(Pick(src, r))
        at(r) == CHOOSE i \in DOMAIN BySize(src) : BySize(src)[i] = r[1]
    IN CHOOSE r \in rs : \A q \in rs :
          LET x == total(r) * gone(q)
              y == total(q) * gone(r)
          IN x < y \/ (x = y /\ (Len(r) > Len(q) \/ (Len(r) = Len(q) /\ at(r) <= at(q))))

RunOf(src, all, good) ==
    IF good # {} THEN InSrcOrder(Cheapest(src, good))
    ELSE IF idle >= IdleRounds /\ all # {} THEN InSrcOrder(Cheapest(src, all))
    ELSE <<>>

Preferred(src, all) == RunOf(src, all, { r \in all : RunQualifies(Pick(src, r)) })

\* pickMergeRunExpected: the cheapest qualifying run, or after enough idle rounds any run.
PickMergeRun(src, group) ==
    Preferred(src, Runs(src, Where(BySize(src), LAMBDA i : i \in group /\ ~Sealed(src[i]))))

\* partitionGroups
Groups(src, l) ==
    LET newest == Max({ Hi(p) : p \in ToSet(src) })
        in == { i \in DOMAIN src : CanCompact(src[i], l, newest) }
        at(i) == Of(Lo(src[i]), Ladder[l])
    IN { [level |-> l, start |-> b, in |-> { i \in in : at(i) = b }] : b \in { at(i) : i \in in } }

\* selectLadderGroupExpected: narrowest level, oldest bucket.
FirstGroup(found) ==
    IF found = {} THEN <<>>
    ELSE (CHOOSE g \in found : \A h \in found :
             g.level < h.level \/ (g.level = h.level /\ g.start <= h.start)).run

LadderGroup(src) ==
    FirstGroup({ g \in { [level |-> h.level, start |-> h.start, run |-> PickMergeRun(src, h.in)] :
                           h \in { x \in UNION { Groups(src, l) : l \in DOMAIN Ladder } :
                                     Cardinality(x.in) >= 2 } } :
                   g.run # <<>> })

\* timebucket.Straddlers
Straddlers(src) ==
    InSrcOrder(Take(src, Where(ByLo(src), LAMBDA i : FitLevels(src[i]) = {}), <<>>))

OrElse(run, other_) == IF run # <<>> THEN run ELSE other_

\* selectMergePartsProfile
Select(src) ==
    IF src = <<>> THEN <<>>
    ELSE Pick(src, OrElse(SelectForced(src), OrElse(LadderGroup(src), Straddlers(src))))

-----------------------------------------------------------------------------
(* Sources *)

Sorted(rows) == \A i \in 1 .. Len(rows) - 1 : rows[i].t <= rows[i + 1].t

\* sortByTs is stable.
SortByTs(rows) == Pick(rows, Order(rows, LAMBDA r, q : r.t < q.t))

RangeRows(p, r) == SubSeq(p.rows, r.lo, r.hi)

\* forwardReadable: streams ascend and their ranges never step back.
ForwardReadable(p) ==
    \A i \in DOMAIN p.ranges :
        /\ i > 1 => p.ranges[i].s > p.ranges[i - 1].s /\ p.ranges[i].lo > p.ranges[i - 1].hi
        /\ p.ranges[i].hi >= p.ranges[i].lo - 1

Streamed(p) == ForwardReadable(p) /\ ~p.dis

\* openMergeSources: a cursor over the part, or the part decoded whole.
OpenSource(p) == [streamed |-> Streamed(p), next |-> 1, last |-> None]

\* residentBytes of a source: a window, or the decoded part and the rows gathered from it.
Resident(p) == IF Streamed(p) THEN 1 ELSE Size(p)

\* wholeSource.run: the stream's rows from the cutoff on, sorted.
WholeRun(p, s, start) ==
    LET mine_ == SelectSeq(p.ranges, LAMBDA r : r.s = s)
        rows == FoldLeft(LAMBDA acc, r : acc \o RangeRows(p, r), <<>>, mine_)
    IN SortByTs(SelectSeq(rows, LAMBDA r : r.t >= start))

\* partCursor.run: only the next stream; rows before the cutoff are stepped over in order.
CursorRun(p, c, s, start) ==
    IF c.next > Len(p.ranges) \/ p.ranges[c.next].s # s THEN [rows |-> <<>>, c |-> c, bad |-> FALSE]
    ELSE LET rows == RangeRows(p, p.ranges[c.next])
             kept == { i \in DOMAIN rows : rows[i].t >= start }
             cut == IF kept = {} THEN Len(rows) ELSE Min(kept) - 1
         IN [rows |-> SubSeq(rows, cut + 1, Len(rows)),
             c |-> [c EXCEPT !.next = @ + 1, !.last = IF cut = 0 THEN None ELSE rows[cut].t],
             bad |-> ~Sorted(SubSeq(rows, 1, cut))]

SourceRun(p, c, s, start) ==
    IF c.streamed THEN CursorRun(p, c, s, start)
    ELSE [rows |-> WholeRun(p, s, start), c |-> c, bad |-> FALSE]

\* Keys: the union of the sources' streams, ascending.
Keys(ps) == SetToSortSeq(UNION { { r.s : r \in ToSet(p.ranges) } : p \in ToSet(ps) }, <)

-----------------------------------------------------------------------------
(* The heap *)

\* heapRun.less: the earlier row, then the earlier source.
Less(runs, i, j) == runs[i][1].t < runs[j][1].t \/ (runs[i][1].t = runs[j][1].t /\ i < j)

Heap(runs) == { i \in DOMAIN runs : runs[i] # <<>> }

TopRun(runs) == CHOOSE i \in Heap(runs) : \A j \in Heap(runs) \ {i} : Less(runs, i, j)

\* upTo: a binary search, whatever the order of ts.
UpTo(ts, bound, inclusive) ==
    LET below(t) == t < bound \/ (inclusive /\ t = bound)
        at[i \in 0 .. Len(ts), j \in 0 .. Len(ts)] ==
            IF i >= j THEN i
            ELSE LET h == (i + j) \div 2 IN IF below(ts[h + 1]) THEN at[h + 1, j] ELSE at[i, h]
    IN at[0, Len(ts)]

\* A mutant of Before: rows that tie with the next source's always go first.
BeforeTies(runs, i, ts) ==
    LET rest == Heap(runs) \ {i}
        n == CHOOSE k \in rest : \A j \in rest \ {k} : Less(runs, k, j)
    IN IF rest = {} THEN Len(ts) ELSE UpTo(ts, runs[n][1].t, TRUE)

\* before: how many of the top run's rows come before the next run's first.
Before(runs, i, ts) ==
    LET rest == Heap(runs) \ {i}
        n == CHOOSE k \in rest : \A j \in rest \ {k} : Less(runs, k, j)
    IN IF rest = {} THEN Len(ts) ELSE UpTo(ts, runs[n][1].t, i < n)

\* partCursor.emit: a streamed run is trusted only row by row.
InOrder(c, ts) ==
    ~c.streamed \/ \A k \in DOMAIN ts : IF k = 1 THEN c.last = None \/ c.last <= ts[1] ELSE ts[k - 1] <= ts[k]

\* One turn of fill, on the rows ts a cursor has decoded of the top run.
Emit(f, i, ts, m) ==
    IF InOrder(f.srcs[i], SubSeq(ts, 1, m))
    THEN [f EXCEPT !.out = @ \o SubSeq(f.runs[i], 1, m),
                   !.runs[i] = SubSeq(@, m + 1, Len(@)),
                   !.srcs[i].last = ts[m]]
    ELSE [f EXCEPT !.bad = i]

FillTop(f, i, room, dayEnd, ts) ==
    Emit(f, i, ts, Min({ Len(ts), room - Len(f.out), UpTo(ts, dayEnd, TRUE), Before(f.runs, i, ts),
                         RunBytes - Len(f.out) }))

FillStep(f, i, room, dayEnd) ==
    FillTop(f, i, room, dayEnd, [k \in 1 .. Min({Len(f.runs[i]), Granule}) |-> f.runs[i][k].t])

\* fill: append runs until the writer's granule, the day or the byte budget ends.
Fill(srcs, runs, room, dayEnd) ==
    LET over(f) == \/ f.bad # None \/ Len(f.out) >= room \/ Len(f.out) >= RunBytes
                   \/ Heap(f.runs) = {} \/ f.runs[TopRun(f.runs)][1].t > dayEnd
        go[n \in 0 .. RunBytes] ==
            IF n = 0 THEN [srcs |-> srcs, runs |-> runs, out |-> <<>>, bad |-> None]
            ELSE IF over(go[n - 1]) THEN go[n - 1]
            ELSE FillStep(go[n - 1], TopRun(go[n - 1].runs), room, dayEnd)
    IN go[RunBytes]

-----------------------------------------------------------------------------
(* Writers *)

WriterBytes(open) == FoldSet(LAMBDA b, n : n + Len(open[b].rows), 0, DOMAIN open)

\* finishLargest: the largest writer, the oldest bucket among equals.
Largest(open) ==
    CHOOSE b \in DOMAIN open : \A c \in DOMAIN open :
        Len(open[b].rows) > Len(open[c].rows) \/ (Len(open[b].rows) = Len(open[c].rows) /\ b <= c)

Without(open, b) == [c \in DOMAIN open \ {b} |-> open[c]]

\* A mutant of Reserve: the router sheds only once the limit is reached.
ReserveNothing == 0

\* reserve: room for the append that comes next.
Reserve == RunBytes

\* Shed: seal the largest writer until the next append fits.
Shed(open, todo, limit) ==
    LET go[n \in 0 .. Cardinality(DOMAIN open)] ==
            IF n = 0 THEN [open |-> open, todo |-> todo]
            ELSE LET f == go[n - 1] IN
                 IF DOMAIN f.open = {} \/ limit <= 0 \/ WriterBytes(f.open) + Reserve < limit THEN f
                 ELSE LET b == Largest(f.open)
                      IN [open |-> Without(f.open, b), todo |-> Append(f.todo, f.open[b])]
    IN go[Cardinality(DOMAIN open)]

\* Writer: the bucket's writer, after sealing the largest when too many are open.
WriterFor(open, b, n) ==
    IF b \in DOMAIN open THEN [open |-> open, todo |-> <<>>]
    ELSE LET full == Cardinality(DOMAIN open) >= MaxOpen
             l == Largest(open)
             left == IF full THEN Without(open, l) ELSE open
         IN [open |-> (b :> [n |-> n, rows |-> <<>>, wm |-> <<>>, disk |-> FALSE]) @@ left,
             todo |-> IF full THEN <<open[l]>> ELSE <<>>]

\* A mutant of AppendRows: a stream's mark is taken from its first run.
AppendRowsFirst(w, s, rows) ==
    [w EXCEPT !.rows = @ \o rows, !.wm = @ @@ (s :> Max(Times(rows)))]

\* appendRows: the writer's rows and the newest time of each of its streams.
AppendRows(w, s, rows) ==
    LET seen == Times(rows) \cup (IF s \in DOMAIN w.wm THEN {w.wm[s]} ELSE {})
    IN [w EXCEPT !.rows = @ \o rows, !.wm = (s :> Max(seen)) @@ @]

\* What a finished writer leaves: one range for each stream, since streams come in order.
RangesOf(rows) ==
    LET ss == SetToSortSeq({ r.s : r \in ToSet(rows) }, <)
        at(s) == { i \in DOMAIN rows : rows[i].s = s }
    IN [k \in DOMAIN ss |-> [s |-> ss[k], lo |-> Min(at(ss[k])), hi |-> Max(at(ss[k]))]]

Finished(w) == [n |-> w.n, obj |-> 0, rows |-> w.rows, ranges |-> RangesOf(w.rows), dis |-> FALSE,
                sized |-> TRUE, wm |-> w.wm, disk |-> w.disk]

\* Router.Append of one run of the current stream: a writer that reaches the cap is sealed, then
\* the router sheds.
Sealing(at, f, opened, b, w) ==
    LET grown == [opened.open EXCEPT ![b] = w]
        shed == IF PartCap > 0 /\ Len(w.rows) >= PartCap
                THEN Shed(Without(grown, b), Append(opened.todo, [w EXCEPT !.disk = TRUE]), at.limit)
                ELSE Shed(grown, opened.todo, at.limit)
    IN [bad |-> f.bad,
        at |-> [at EXCEPT !.srcs = f.srcs, !.runs = f.runs, !.open = shed.open, !.todo = shed.todo,
                          !.peak = Max({at.peak, WriterBytes(grown)})]]

Appending(at, opened, b, f) ==
    Sealing(at, f, opened, b,
            IF f.out = <<>> THEN opened.open[b] ELSE AppendRows(opened.open[b], at.cur, f.out))

Filling(at, t, opened) ==
    Appending(at, opened, Of(t, Top),
              Fill(at.srcs, at.runs, Granule - (Len(opened.open[Of(t, Top)].rows) % Granule), End(t, Top)))

RouterAppend(at, t, n) == Filling(at, t, WriterFor(at.open, Of(t, Top), n))

-----------------------------------------------------------------------------
(* Memory *)

Fitting(n) == mine + other = 0 \/ mine + other + n <= Total

Held(ps) == FoldLeft(LAMBDA n, p : n + Resident(p), 0, ps)

\* mergeWriterBudget and mergeNeed: the sources, two appends and the finish of a writer.
Need(ps) == Held(ps) + 2 * RunBytes + 1

\* mergeGrantBytes: the share, or more where the parts' sizing says so.
Ask(ps) == IF \A p \in ToSet(ps) : p.sized THEN Max({Share, Need(ps)}) ELSE Share

NoAttempt == [srcs |-> <<>>, keys |-> <<>>, cur |-> None, runs |-> <<>>, open |-> <<>>, todo |-> <<>>,
              done |-> <<>>, limit |-> 0, peak |-> 0]

-----------------------------------------------------------------------------
Init ==
    /\ parts = <<>> /\ retain = 0 /\ idle = 0 /\ feedback = {} /\ stored = {} /\ next = 1
    /\ faults = 0 /\ reloads = 0 /\ pc = "idle" /\ wait = FALSE /\ sel = <<>> /\ trash = {}
    /\ mine = 0 /\ other = 0 /\ a = NoAttempt /\ futile = {} /\ unknown = {}

engine == <<parts, retain, idle, feedback, stored, next, faults, reloads, futile, unknown>>
merge == <<pc, wait, sel, trash, a>>

Flush(l) ==
    /\ next <= MaxFlush /\ pc = "idle"
    /\ LET rows == [i \in DOMAIN l.rows |-> [s |-> l.rows[i][1], t |-> l.rows[i][2], id |-> <<next, i>>]]
       IN parts' = Append(parts, [n |-> next, obj |-> 0, rows |-> rows, ranges |-> l.ranges, dis |-> FALSE,
                                  sized |-> l.sized, wm |-> <<>>, disk |-> FALSE])
    /\ stored' = stored \cup {next} /\ next' = next + 1
    /\ UNCHANGED <<retain, idle, feedback, faults, reloads, futile, unknown, mine, other>> /\ UNCHANGED merge

Retain(t) ==
    /\ t > retain /\ pc = "idle" /\ retain' = t
    /\ UNCHANGED <<parts, idle, feedback, stored, next, faults, reloads, futile, unknown, mine, other>>
    /\ UNCHANGED merge

\* Other merges take and return memory of the same pool; it is read at these steps only.
Elsewhere ==
    /\ pc \in {"admit", "open", "regrant"}
    /\ \/ other = 0 /\ other' = Total - mine /\ other' > 0
       \/ other > 0 /\ other' = 0
    /\ UNCHANGED mine /\ UNCHANGED engine /\ UNCHANGED merge

\* A reload replaces every part object, forgetting what the old one knew.  A merge looks at the
\* engine's parts when it begins and when it publishes.
Reload ==
    /\ pc \in {"idle", "close"}
    /\ reloads < MaxReload /\ reloads' = reloads + 1 /\ parts # <<>>
    /\ parts' = [i \in DOMAIN parts |-> [parts[i] EXCEPT !.obj = @ + 1, !.dis = FALSE]]
    /\ UNCHANGED <<retain, idle, feedback, stored, next, faults, futile, unknown, mine, other>>
    /\ UNCHANGED merge

\* mergeFeedback.prune: only runs whose parts are still the engine's.
Prune(fb, ps) == { o \in fb : o.run \subseteq Key(ps) }

\* mergeHeld up to the selection: expired parts go first, then the run is chosen.
Chosen(run, gone) ==
    /\ sel' = run
    /\ IF run = <<>>
       THEN pc' = "idle" /\ idle' = IF gone = {} THEN Min({idle + 1, IdleRounds}) ELSE idle
       ELSE pc' = "admit" /\ UNCHANGED idle

Begin(background) ==
    /\ pc = "idle" /\ parts # <<>>
    /\ LET live == SelectSeq(parts, LAMBDA p : ~(retain > 0 /\ Hi(p) < retain))
           gone == Names(parts) \ Names(live)
       IN /\ parts' = live /\ stored' = stored \ gone
          /\ feedback' = Prune(feedback, live)
          /\ Chosen(Select(live), gone)
    /\ wait' = ~background
    /\ UNCHANGED <<retain, next, faults, reloads, futile, unknown, mine, other, trash, a>>

\* A mutant of Done: the grant outlives the merge.
DoneLeaking == mine' = mine

\* mergeGrant.done
Done == mine' = 0

\* merge: what the merge abandoned is deleted once its lock is released.
Return(dead) ==
    /\ pc' = "idle" /\ sel' = <<>> /\ a' = NoAttempt /\ wait' = FALSE
    /\ trash' = {} /\ stored' = stored \ (trash \cup dead)
    /\ Done /\ UNCHANGED other

\* admitMerge: a background merge takes what is free or is deferred.
Admit ==
    /\ pc = "admit"
    /\ \/ /\ Fitting(Ask(sel)) /\ mine' = Ask(sel) /\ pc' = "open"
          /\ UNCHANGED <<wait, sel, trash, a, other, stored>>
       \/ /\ ~wait /\ ~Fitting(Ask(sel)) /\ Return({})
    /\ UNCHANGED <<parts, retain, idle, feedback, next, faults, reloads, futile, unknown>>

Started(limit) ==
    [NoAttempt EXCEPT !.srcs = [i \in DOMAIN sel |-> OpenSource(sel[i])], !.keys = Keys(sel),
                      !.runs = [i \in DOMAIN sel |-> <<>>], !.limit = limit]

\* A mutant of GiveUp: the merge keeps what it holds while it waits for more.
GiveUpHolding == UNCHANGED mine

\* regrant returns the whole grant before asking for a larger one.
GiveUp == mine' = 0

\* openGranted: run with what is granted, add to it, decline, or give it up and wait for more.
OpenGranted ==
    /\ pc = "open"
    /\ LET need == Need(sel) IN
       \/ /\ need <= mine /\ a' = Started(mine - Held(sel)) /\ pc' = "run"
          /\ UNCHANGED <<mine, other, sel, wait, trash, stored>>
       \/ /\ need > mine /\ Fitting(need - mine)
          /\ mine' = need /\ a' = Started(need - Held(sel)) /\ pc' = "run"
          /\ UNCHANGED <<other, sel, wait, trash, stored>>
       \/ need > mine /\ ~Fitting(need - mine) /\ ~wait /\ Return({})
       \/ /\ need > mine /\ ~Fitting(need - mine) /\ wait
          /\ GiveUp /\ pc' = "regrant" /\ UNCHANGED <<other, sel, wait, trash, a, stored>>
    /\ UNCHANGED <<parts, retain, idle, feedback, next, faults, reloads, futile, unknown>>

Regrant ==
    /\ pc = "regrant" /\ Fitting(Need(sel))
    /\ mine' = Need(sel) /\ pc' = "open"
    /\ UNCHANGED <<other, sel, wait, trash, a>> /\ UNCHANGED engine

\* tsDisorder is a mark on the part object.
Marked(p) == [k \in DOMAIN parts |-> IF Key(<<parts[k]>>) = Key(<<p>>) THEN [parts[k] EXCEPT !.dis = TRUE] ELSE parts[k]]

\* A mutant of Retry: the outputs of the abandoned attempt are forgotten.
RetryForgetting(i) ==
    /\ sel' = [sel EXCEPT ![i].dis = TRUE] /\ parts' = Marked(sel[i])
    /\ UNCHANGED trash
    /\ a' = NoAttempt /\ pc' = "open"

\* compact: a disordered source is read whole on the next attempt.
Retry(i) ==
    /\ sel' = [sel EXCEPT ![i].dis = TRUE] /\ parts' = Marked(sel[i])
    /\ trash' = trash \cup Names(a.done)
    /\ a' = NoAttempt /\ pc' = "open"

\* heap.reset for the next stream; the last one drains into the open writers.
NextKey ==
    /\ pc = "run" /\ a.todo = <<>> /\ Heap(a.runs) = {} /\ a.keys # <<>>
    /\ LET s == Head(a.keys)
           got == [i \in DOMAIN sel |-> SourceRun(sel[i], a.srcs[i], s, retain)]
           bad == { i \in DOMAIN sel : got[i].bad }
       IN IF bad # {} THEN Retry(Min(bad)) /\ UNCHANGED <<wait, stored>>
          ELSE /\ a' = [a EXCEPT !.keys = Tail(@), !.cur = s,
                                 !.runs = [i \in DOMAIN sel |-> got[i].rows],
                                 !.srcs = [i \in DOMAIN sel |-> got[i].c]]
               /\ UNCHANGED <<pc, wait, sel, trash, stored, parts>>
    /\ UNCHANGED <<retain, idle, feedback, next, faults, reloads, futile, unknown, mine, other>>

\* One Router.Append; a new writer takes a new prefix.
Appended(r) == IF r.bad # None THEN Retry(r.bad) ELSE a' = r.at /\ UNCHANGED <<pc, sel, trash, parts>>

AppendAt(t) ==
    /\ next' = IF Of(t, Top) \in DOMAIN a.open THEN next ELSE next + 1
    /\ Appended(RouterAppend(a, t, next))

AppendRun ==
    /\ pc = "run" /\ a.todo = <<>> /\ Heap(a.runs) # {}
    /\ AppendAt(a.runs[TopRun(a.runs)][1].t)
    /\ UNCHANGED <<wait, retain, idle, feedback, stored, faults, reloads, futile, unknown, mine, other>>

\* checkDrained and Router.Close: every cursor is at its end, every writer is finished.
CloseWriters ==
    /\ pc = "run" /\ a.todo = <<>> /\ Heap(a.runs) = {} /\ a.keys = <<>>
    /\ \A i \in DOMAIN sel : a.srcs[i].streamed => a.srcs[i].next > Len(sel[i].ranges)
    /\ LET bs == SetToSortSeq(DOMAIN a.open, <)
       IN a' = [a EXCEPT !.open = <<>>, !.todo = [k \in DOMAIN bs |-> a.open[bs[k]]]]
    /\ pc' = "close"
    /\ UNCHANGED <<wait, sel, trash, mine, other>> /\ UNCHANGED engine

\* A writer's finish writes its objects; one that fails may have written some of them.
Finish(ok) ==
    /\ pc \in {"run", "close"} /\ a.todo # <<>>
    /\ LET w == Head(a.todo) IN
       /\ ok \/ faults < MaxFault
       /\ faults' = IF ok THEN faults ELSE faults + 1
       /\ IF ok THEN /\ a' = [a EXCEPT !.todo = Tail(@), !.done = Append(@, Finished(w))]
                     /\ stored' = stored \cup {w.n}
                     /\ UNCHANGED <<pc, wait, sel, trash, mine, other>>
          ELSE /\ pc' = "idle" /\ sel' = <<>> /\ a' = NoAttempt /\ wait' = FALSE /\ trash' = {}
               /\ stored' = (stored \cup {w.n}) \ (trash \cup Names(a.done) \cup {w.n})
               /\ Done /\ UNCHANGED other
    /\ UNCHANGED <<parts, retain, idle, feedback, next, reloads, futile, unknown>>

\* usefulMerge: fewer parts, fewer rows, a straddler split, or sizing gained.
Useful(src, out) ==
    LET lo == Min({ Lo(p) : p \in ToSet(src) })
        hi == Max({ Hi(p) : p \in ToSet(src) })
        sized(ps) == \A p \in ToSet(ps) : p.sized
    IN \/ Len(out) < Len(src)
       \/ SizeOf(out) < SizeOf(src)
       \/ Of(lo, Top) # Of(hi, Top)
       \/ Len(out) <= Len(src) /\ ~sized(src) /\ sized(out)

\* A mutant of Observe: a rejected merge leaves no trace.
ObserveNothing(out) == feedback

\* mergeFeedback.record
Observe(out) == { o \in feedback : o.run # Key(sel) } \cup { [run |-> Key(sel), outputs |-> Len(out)] }

\* mergeSourcesLive: the sources are still the engine's own part objects.
SourcesLive == Key(sel) \subseteq Key(parts)

\* mergeHeld after compact: reject, abandon or commit.  The commit lands, fails or is unknown.
Publish(outcome) ==
    /\ pc = "close" /\ a.todo = <<>>
    /\ LET out == a.done
           next_ == SelectSeq(parts, LAMBDA p : p.n \notin Names(sel)) \o out
       IN IF ~Useful(sel, out)
          THEN /\ outcome = "lands"
               /\ feedback' = Prune(Observe(out), parts)
               /\ futile' = futile \cup {Key(sel)}
               /\ Return(Names(out))
               /\ UNCHANGED <<parts, idle, unknown, faults>>
          ELSE /\ idle' = 0
               /\ UNCHANGED futile
               /\ IF ~SourcesLive
                  THEN outcome = "lands" /\ Return(Names(out)) /\ UNCHANGED <<parts, feedback, unknown, faults>>
                  ELSE CASE outcome = "lands" ->
                              /\ parts' = next_ /\ feedback' = Prune(feedback, next_)
                              /\ Return(Names(sel)) /\ UNCHANGED <<unknown, faults>>
                         [] outcome = "fails" ->
                              /\ faults < MaxFault /\ faults' = faults + 1
                              /\ Return(Names(out)) /\ UNCHANGED <<parts, feedback, unknown>>
                         [] OTHER ->
                              /\ faults < MaxFault /\ faults' = faults + 1
                              /\ unknown' = unknown \cup Names(out)
                              /\ Return({}) /\ UNCHANGED <<parts, feedback>>
    /\ UNCHANGED <<retain, next, reloads>>

Next ==
    \/ \E l \in Layout : Flush(l)
    \/ \E t \in Cutoffs : Retain(t)
    \/ Elsewhere
    \/ Reload
    \/ \E b \in BOOLEAN : Begin(b)
    \/ Admit
    \/ OpenGranted
    \/ Regrant
    \/ NextKey
    \/ AppendRun
    \/ CloseWriters
    \/ \E ok \in BOOLEAN : Finish(ok)
    \/ \E o \in {"lands", "fails", "unknown"} : Publish(o)

Spec == Init /\ [][Next]_vars
-----------------------------------------------------------------------------
TypeOK ==
    /\ pc \in {"idle", "admit", "open", "regrant", "run", "close"}
    /\ mine \in Nat /\ other \in Nat /\ idle \in 0 .. IdleRounds
    /\ \A p \in ToSet(parts) \cup ToSet(sel) : p.n \in 1 .. next - 1

\* The rows of stream s in bucket b, in the order the parts ps hold them.
Of2(ps, s, b) ==
    LET at(p) == SelectSeq(p.rows, LAMBDA r : r.s = s /\ Of(r.t, Top) = b)
    IN FoldLeft(LAMBDA acc, p : acc \o at(p), <<>>, ps)

\* A merge writes every row of its sources at or after the cutoff once: within a day each
\* stream's rows come out by time and, at equal times, in source order, however the sources were
\* read, and no output spans two days (recordengine/mergeheap.go, compactStreamed).
MergedExact ==
    pc = "close" /\ a.todo = <<>> =>
        /\ \A o \in ToSet(a.done) : Of(Lo(o), Top) = Of(Hi(o), Top) /\ ForwardReadable(o)
        /\ LET rows == UNION { ToSet(p.rows) : p \in ToSet(sel) }
           IN \A s \in { r.s : r \in rows } : \A b \in { Of(r.t, Top) : r \in rows } :
                 Of2(a.done, s, b) = SortByTs(SelectSeq(Of2(sel, s, b), LAMBDA r : r.t >= retain))

\* The watermark an output records for a stream is the time of the stream's newest row in it
\* (recordPartStreamWriter.appendRows).
MarksExact ==
    \A o \in ToSet(a.done) : \A r \in ToSet(o.ranges) :
        o.wm[r.s] = Max({ x.t : x \in { x \in ToSet(o.rows) : x.s = r.s } })

\* Once a merge has returned the backend holds the engine's parts and the outputs of commits that
\* may have landed: what a failed, retried, rejected or overtaken attempt wrote has been deleted
\* (discardOutputs).
NothingLeft == pc = "idle" => stored = Names(parts) \cup unknown

\* A merge returns every byte it was granted, whichever way it ends (mergeGrant.done).
GrantReturned == pc \in {"idle", "admit"} => mine = 0

\* A foreground merge that waits for a larger grant can get it once the other merges are done:
\* it holds nothing of its own while it waits (mergeGrant.regrant).
NeverSelfBlocked == pc = "regrant" /\ other = 0 => Fitting(Need(sel))

\* The open writers never hold more than the attempt's limit, appends included (Router.Shed).
PeakBounded == a.peak <= a.limit

\* A run whose merge was rejected because it removed nothing is not chosen again while its parts
\* are the same, unless retention or a straddling part forces it (mergeFeedback.expected).
NoFutileRepeat ==
    pc = "admit" /\ Key(sel) \in futile => (\E p \in ToSet(sel) : Due(p) \/ FitLevels(p) = {})
=============================================================================
