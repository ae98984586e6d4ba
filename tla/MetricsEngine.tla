--------------------------- MODULE MetricsEngine ---------------------------
(***************************************************************************)
(* The metrics engine of engine/: one series' samples in the head, the     *)
(* detached buffers of the flush in flight, the flushed parts in the order *)
(* reads merge them, the recent tier and the resident identity; a flush    *)
(* and a merge that build off the lock, an identity prune, crash and       *)
(* recovery from the index and the log.  A sample's value is the number of *)
(* the write that produced it, so "freshest" is "largest".                 *)
(*                                                                         *)
(* Index commits are atomic here with three outcomes (RecordEngine and     *)
(* SharedIndex model them step by step), and the log loses nothing (Wal).  *)
(***************************************************************************)
EXTENDS Integers, Sequences, FiniteSets, SequencesExt

CONSTANTS
    Time,           \* sample timestamps, positive
    MaxWrite,       \* appends explored
    MaxPart,        \* part ids minted
    MaxFault,       \* failed steps explored
    MaxCrash,       \* crashes explored
    OOOWindow,      \* Config.OOOWindow, 0 = unlimited
    RecentWindow,   \* Config.RecentWindow
    RetainTo,       \* highest retention cutoff the operator sets
    Concurrent      \* Config.FlushAdmission is set: flush and merge overlap

VARIABLES
    mem,        \* the engine struct
    disk,       \* part objects, bucket index, log
    flush,      \* the flush in flight
    merge,      \* the merge in flight
    prune,      \* the identity prune in flight
    retain,     \* the retention cutoff in force
    written,    \* writes acknowledged so far
    last,       \* per timestamp, the last write acknowledged (0 = none)
    up,
    lived,      \* timestamps of the samples appended or replayed since the process started
    jumped,     \* merge outputs that may rank above a fresher part
    faults, crashes

vars == <<mem, disk, flush, merge, prune, retain, written, last, up, lived,
          jumped, faults, crashes>>

Never == 99             \* maxInt64
Idle  == [pc |-> "idle"]

Upper(a, b) == IF a > b THEN a ELSE b

Before(a, b) == a.t < b.t

\* slices.SortFunc of the short buffers modelled here keeps equal timestamps in order.
Sorted(s) == SortSeq(s, Before)

Times(s) == { s[i].t : i \in DOMAIN s }

\* rollSeries: sources oldest to newest, one row per timestamp, the last row of the last source.
Merge(s) == { x \in ToSet(s) : \E i \in DOMAIN s : /\ s[i] = x
                                   /\ \A j \in DOMAIN s : s[j].t = x.t => j <= i }

Fresh == [head |-> <<>>, flushing |-> <<>>, parts |-> <<>>, pending |-> {},
          epoch |-> 0, recent |-> <<>>, recentMin |-> Never, newest |-> 0,
          known |-> FALSE, seen |-> 0]

Init ==
    /\ mem = Fresh
    /\ disk = [rows |-> <<>>, live |-> {}, index |-> {}, epoch |-> 0,
               log |-> <<>>, gen |-> 1]
    /\ flush = Idle /\ merge = Idle /\ prune = Idle
    /\ retain = 0 /\ written = 0 /\ last = [t \in Time |-> 0]
    /\ up = TRUE /\ lived = {} /\ jumped = {}
    /\ faults = 0 /\ crashes = 0

-----------------------------------------------------------------------------
(* Writes *)

\* seriesState: a sample more than OOOWindow behind the series' newest is refused.
TooLate(t) == OOOWindow > 0 /\ mem.seen > 0 /\ t < mem.seen - OOOWindow

\* The log carries a series record whenever the series starts a buffer.
SeriesRecord == IF mem.head = <<>> THEN <<[e |-> disk.gen, t |-> 0, v |-> 0]>> ELSE <<>>

BufferedLatest(m, t, v) ==
    [m EXCEPT !.known = TRUE, !.head = Append(@, [t |-> t, v |-> v]),
              !.newest = Upper(@, t), !.seen = t]

\* walBatch.apply and head.appendByID: register, buffer, advance the watermarks.
Buffered(m, t, v) ==
    [m EXCEPT !.known = TRUE, !.head = Append(@, [t |-> t, v |-> v]),
              !.newest = Upper(@, t), !.seen = Upper(@, t)]

Append1(t) ==
    /\ up /\ written < MaxWrite
    /\ t >= retain /\ ~TooLate(t)
    /\ written' = written + 1
    /\ last' = [last EXCEPT ![t] = written']
    /\ disk' = [disk EXCEPT !.log = @ \o SeriesRecord
                                      \o <<[e |-> disk.gen, t |-> t, v |-> written']>>]
    /\ mem' = Buffered(mem, t, written')
    /\ lived' = lived \union {t}
    /\ UNCHANGED <<flush, merge, prune, retain, up, jumped, faults, crashes>>

-----------------------------------------------------------------------------
(* Commits: "ok", refused, or an error although the index landed *)

Outcome == IF faults < MaxFault THEN {"ok", "refused", "landed"} ELSE {"ok"}

Cost(out) == IF out = "ok" THEN faults ELSE faults + 1

\* The index after a commit of these parts and watermark.
Committed(d, parts, epoch, out) ==
    IF out = "refused" THEN d
    ELSE [d EXCEPT !.index = ToSet(parts), !.epoch = epoch]

-----------------------------------------------------------------------------
(* Flush *)

FlushBegin ==
    /\ up /\ flush = Idle /\ prune = Idle
    /\ Concurrent \/ merge = Idle
    /\ mem.head # <<>>
    /\ mem' = [mem EXCEPT !.flushing = mem.head, !.head = <<>>]
    /\ LET e == Upper(mem.epoch + 1, disk.gen)
       IN \/ /\ flush' = [pc |-> "build", e |-> e, p |-> 0]
             /\ disk' = [disk EXCEPT !.gen = e + 1]
             /\ UNCHANGED faults
          \/ /\ faults < MaxFault
             /\ faults' = faults + 1
             /\ flush' = [pc |-> "abort", e |-> e, p |-> 0]
             /\ UNCHANGED disk
    /\ UNCHANGED <<merge, prune, retain, written, last, up, lived, jumped, crashes>>

\* streamHead: the part's rows are the detached samples in timestamp order.
FlushBuild ==
    /\ up /\ flush.pc = "build"
    /\ \/ /\ Len(disk.rows) < MaxPart
          /\ disk' = [disk EXCEPT !.rows = Append(@, Sorted(mem.flushing)),
                                  !.live = @ \union {Len(disk.rows) + 1}]
          /\ flush' = [flush EXCEPT !.pc = "publish", !.p = Len(disk.rows) + 1]
          /\ UNCHANGED faults
       \/ /\ faults < MaxFault
          /\ faults' = faults + 1
          /\ flush' = [flush EXCEPT !.pc = "abort"]
          /\ UNCHANGED disk
    /\ UNCHANGED <<mem, merge, prune, retain, written, last, up, lived, jumped, crashes>>

ReattachedAfter(m) == [m EXCEPT !.head = m.head \o m.flushing, !.flushing = <<>>]

Reattached(m) == [m EXCEPT !.head = m.flushing \o m.head, !.flushing = <<>>]

FlushAbort ==
    /\ up /\ flush.pc = "abort"
    /\ mem' = Reattached(mem)
    /\ flush' = Idle
    /\ UNCHANGED <<disk, merge, prune, retain, written, last, up, lived, jumped,
                   faults, crashes>>

TieredLow(m) ==
    LET cut == m.newest - RecentWindow
        kept == SelectSeq(m.recent \o m.flushing, LAMBDA x : x.t > cut)
    IN [m EXCEPT !.recent = kept,
                 !.recentMin = IF kept = <<>> THEN Never ELSE cut]

\* populateRecent and trimRecentBelow: the tier keeps what is within the window of the newest.
Tiered(m) ==
    LET cut == m.newest - RecentWindow
        kept == SelectSeq(m.recent \o m.flushing, LAMBDA x : x.t >= cut)
    IN [m EXCEPT !.recent = kept,
                 !.recentMin = IF kept = <<>> THEN Never ELSE kept[1].t]

\* Parts and watermark are kept even when the commit is not confirmed; the log is
\* trimmed only when it is.
FlushPublish(out) ==
    /\ up /\ flush.pc = "publish"
    /\ LET next == Append(mem.parts, flush.p)
           e == Upper(flush.e, mem.epoch)
           d == Committed(disk, next, e, out)
       IN /\ mem' = [Tiered(mem) EXCEPT !.parts = next, !.epoch = e, !.flushing = <<>>,
                        !.pending = IF out = "ok" THEN {} ELSE @ \union {flush.p}]
          /\ disk' = IF out = "ok"
                     THEN [d EXCEPT !.log = SelectSeq(@, LAMBDA r : r.e > flush.e)]
                     ELSE d
    /\ flush' = Idle
    /\ faults' = Cost(out)
    /\ UNCHANGED <<merge, prune, retain, written, last, up, lived, jumped, crashes>>

-----------------------------------------------------------------------------
(* Merge *)

SetRetention(t) ==
    /\ retain < t /\ t <= RetainTo
    /\ retain' = t
    /\ UNCHANGED <<mem, disk, flush, merge, prune, written, last, up, lived, jumped,
                   faults, crashes>>

Retired(d, ps) == [d EXCEPT !.live = @ \ ps]

\* A part wholly older than the cutoff is dropped without being decoded.
Expired(p) == \A t \in Times(disk.rows[p]) : t < retain

\* pinMergeSourcesLocked commits pending parts first, dropExpired commits the part list
\* without the expired ones; either failing ends the merge.
MergeBegin(out) ==
    /\ up /\ merge = Idle /\ prune = Idle
    /\ Concurrent \/ flush = Idle
    /\ mem.parts # <<>>
    /\ LET gone == { p \in ToSet(mem.parts) : Expired(p) }
           kept == SelectSeq(mem.parts, LAMBDA p : p \notin gone)
           write == mem.pending # {} \/ gone # {}
           next == IF out = "ok" THEN kept ELSE mem.parts
       IN /\ ~write => out = "ok" /\ kept # <<>>
          /\ disk' = IF ~write THEN disk
                     ELSE IF out = "ok" THEN Retired(Committed(disk, kept, mem.epoch, out), gone)
                     ELSE Committed(disk, mem.parts, mem.epoch, out)
          /\ mem' = [mem EXCEPT !.parts = next,
                                !.pending = IF out = "ok" THEN {} ELSE @]
          /\ \/ /\ out # "ok" \/ (write /\ gone # {})
                /\ UNCHANGED merge
             \/ /\ out = "ok"
                /\ \E sel \in SUBSET ToSet(kept) :
                      /\ Cardinality(sel) > 1 \/ \E p \in sel : \E t \in Times(disk.rows[p]) : t < retain
                      /\ merge' = [pc |-> "build", p |-> 0, cut |-> retain,
                                   src |-> SelectSeq(kept, LAMBDA p : p \in sel)]
    /\ faults' = Cost(out)
    /\ UNCHANGED <<flush, prune, retain, written, last, up, lived, jumped, crashes>>

SourceRows == FlattenSeq([i \in DOMAIN merge.src |-> disk.rows[merge.src[i]]])

\* compactParts and compactStream: freshest row per timestamp, from the cutoff on.
MergedRows ==
    SetToSortSeq({ x \in Merge(SourceRows) : x.t >= merge.cut }, Before)

MergeBuild ==
    /\ up /\ merge.pc = "build"
    /\ \/ /\ Len(disk.rows) < MaxPart
          /\ disk' = [disk EXCEPT !.rows = Append(@, MergedRows),
                                  !.live = IF MergedRows = <<>> THEN @
                                           ELSE @ \union {Len(disk.rows) + 1}]
          /\ merge' = [merge EXCEPT !.pc = "publish", !.p = Len(disk.rows) + 1]
          /\ UNCHANGED faults
       \/ /\ faults < MaxFault
          /\ faults' = faults + 1
          /\ merge' = Idle
          /\ UNCHANGED disk
    /\ UNCHANGED <<mem, flush, prune, retain, written, last, up, lived, jumped, crashes>>

ReplacedNone(parts, gone, add) == parts \o add

\* replaceParts: the survivors in order, then the output.
Replaced(parts, gone, add) == SelectSeq(parts, LAMBDA p : p \notin gone) \o add

\* The output goes behind a part that came after one of its sources, in the list or, by the prefix
\* a flush in flight has minted, in the order a reload gives; or a source did.
Jumps(parts, gone) ==
    \/ \E i, j \in DOMAIN parts : i < j /\ parts[i] \in gone /\ parts[j] \notin gone
    \/ flush.pc = "publish" /\ flush.p < merge.p
    \/ gone \intersect jumped # {}

MergePublish(out) ==
    /\ up /\ merge.pc = "publish"
    /\ out # "landed"
    /\ LET gone == ToSet(merge.src)
           add == IF disk.rows[merge.p] = <<>> THEN <<>> ELSE <<merge.p>>
           next == Replaced(mem.parts, gone, add)
       IN IF out = "ok"
          THEN /\ mem' = [mem EXCEPT !.parts = next, !.pending = {}]
               /\ disk' = Retired(Committed(disk, next, mem.epoch, out), gone)
               /\ jumped' = IF Jumps(mem.parts, gone) THEN jumped \union {merge.p} ELSE jumped
          ELSE UNCHANGED <<mem, disk, jumped>>
    /\ merge' = Idle
    /\ faults' = Cost(out)
    /\ UNCHANGED <<flush, prune, retain, written, last, up, lived, crashes>>

-----------------------------------------------------------------------------
(* Identity prune *)

Backed == mem.parts # <<>> \/ mem.head # <<>> \/ mem.flushing # <<>> \/ mem.recent # <<>>

\* The live set is computed and the index rebuilt off the engine lock.
PruneBegin ==
    /\ up /\ prune = Idle /\ flush = Idle /\ merge = Idle
    /\ mem.known /\ ~Backed
    /\ prune' = [pc |-> "swap"]
    /\ UNCHANGED <<mem, disk, flush, merge, retain, written, last, up, lived, jumped,
                   faults, crashes>>

SwappedBlind(m) == [m EXCEPT !.known = FALSE, !.seen = 0]

\* swapIdentity: a series that holds samples again survives, with its watermark.
Swapped(m) == IF m.head # <<>> THEN m ELSE [m EXCEPT !.known = FALSE, !.seen = 0]

PruneSwap ==
    /\ up /\ prune.pc = "swap"
    /\ mem' = Swapped(mem)
    /\ prune' = Idle
    /\ UNCHANGED <<disk, flush, merge, retain, written, last, up, lived, jumped,
                   faults, crashes>>

-----------------------------------------------------------------------------
(* Crash and recovery *)

Crash ==
    /\ up /\ crashes < MaxCrash
    /\ crashes' = crashes + 1
    /\ up' = FALSE
    /\ mem' = Fresh
    /\ flush' = Idle /\ merge' = Idle /\ prune' = Idle
    /\ lived' = {}
    /\ UNCHANGED <<disk, retain, written, last, jumped, faults>>

\* The index names its parts in prefix order, which is the order they were minted.
Loaded == SetToSortSeq(disk.index, LAMBDA p, q : p < q)

ReplayPast(m) ==
    FoldLeft(LAMBDA acc, r : IF r.e <= m.epoch + 1 THEN acc
                             ELSE IF r.t = 0 THEN [acc EXCEPT !.known = TRUE]
                             ELSE IF acc.known THEN Buffered(acc, r.t, r.v) ELSE acc,
             m, disk.log)

\* Records above the watermark; samples of a series no earlier record or part names are skipped.
Replay(m) ==
    FoldLeft(LAMBDA acc, r : IF r.e <= m.epoch THEN acc
                             ELSE IF r.t = 0 THEN [acc EXCEPT !.known = TRUE]
                             ELSE IF acc.known THEN Buffered(acc, r.t, r.v) ELSE acc,
             m, disk.log)

\* LoadParts, the orphan sweep and SetEpoch, then Replay.
Restored ==
    Replay([Fresh EXCEPT !.parts = Loaded, !.epoch = disk.epoch, !.known = disk.index # {}])

Restart ==
    /\ ~up
    /\ up' = TRUE
    /\ mem' = Restored
    /\ lived' = Times(Restored.head)
    /\ disk' = [disk EXCEPT !.live = disk.index, !.gen = Upper(@, disk.epoch + 1)]
    /\ UNCHANGED <<flush, merge, prune, retain, written, last, jumped, faults, crashes>>

Next ==
    \/ \E t \in Time : Append1(t)
    \/ FlushBegin \/ FlushBuild \/ FlushAbort
    \/ \E out \in Outcome : FlushPublish(out) \/ MergeBegin(out) \/ MergePublish(out)
    \/ MergeBuild \/ \E t \in Time : SetRetention(t)
    \/ PruneBegin \/ PruneSwap
    \/ Crash \/ Restart

Spec == Init /\ [][Next]_vars

-----------------------------------------------------------------------------
(* Reads *)

PartRuns(m) == [i \in DOMAIN m.parts |-> disk.rows[m.parts[i]]]

MemRuns(m) == <<Sorted(m.recent), Sorted(m.flushing), Sorted(m.head)>>

\* mergeSeries: parts in list order, the tier, the flush in flight, the head.
Runs(m) == PartRuns(m) \o MemRuns(m)

\* planFetch skips every part when the window starts inside the tier.
RunsFrom(m, start) == IF start >= m.recentMin THEN MemRuns(m) ELSE Runs(m)

RowsAt(run, t) == SelectSeq(run, LAMBDA x : x.t = t)

\* collectOne keeps the last of a lone run's rows at t.  collectMany takes one row from each
\* run that still has one at t, keeps the newest run's, and goes round again.
Collect(runs, t) ==
    LET live == SelectSeq(runs, LAMBDA r : r # <<>>)
        rows == [i \in DOMAIN live |-> RowsAt(live[i], t)]
        held(k) == { i \in DOMAIN rows : Len(rows[i]) >= k }
        rounds == { k \in 1 .. MaxWrite : held(k) # {} }
    IN IF Len(live) = 1
       THEN IF rows[1] = <<>> THEN <<>> ELSE <<Last(rows[1])>>
       ELSE [k \in rounds |->
                rows[CHOOSE i \in held(k) : \A j \in held(k) : j <= i][k]]

\* What a read of [start, ..) returns at t.
Answer(m, start, t) == IF t < start THEN <<>> ELSE Collect(RunsFrom(m, start), t)

Stored(m) == Times(FlattenSeq(Runs(m)))

\* What the engine holds now, or would hold after recovering.
Engine == IF up THEN mem ELSE Restored

Row == [t : Time, v : 1 .. MaxWrite]

\* Shapes of the engine struct, the disk and the workers.
TypeOK ==
    /\ mem.head \in Seq(Row) /\ mem.flushing \in Seq(Row) /\ mem.recent \in Seq(Row)
    /\ ToSet(mem.parts) \subseteq 1 .. Len(disk.rows) /\ mem.pending \subseteq ToSet(mem.parts)
    /\ mem.epoch \in Nat /\ mem.newest \in Time \union {0} /\ mem.seen \in Time \union {0}
    /\ mem.known \in BOOLEAN /\ mem.recentMin \in Int
    /\ disk.index \subseteq disk.live /\ disk.live \subseteq 1 .. Len(disk.rows)
    /\ up => ToSet(mem.parts) \subseteq disk.live
    /\ \A p \in DOMAIN disk.rows : disk.rows[p] \in Seq(Row)
    /\ last \in [Time -> 0 .. MaxWrite]

\* Every acknowledged sample the retention cutoff has not reached is served at its
\* timestamp, now or after recovery, through failed flushes, unconfirmed commits, merges,
\* identity prunes and crashes (flushAdmitted, publishMerge, Replay).
Kept == \A t \in Time : last[t] > 0 /\ t >= retain => Answer(Engine, 0, t) # <<>>

\* Data never outlives the identity that names it: a prune that decided from a stale
\* snapshot keeps the series that gained samples meanwhile (swapIdentity), and the
\* log names every series whose samples it replays (needsSeriesRecord).
Resolvable == (Engine.head # <<>> \/ Engine.flushing # <<>> \/ Engine.parts # <<>>) => Engine.known

Returned(m, start, t) == { x.v : x \in ToSet(Answer(m, start, t)) }

\* "On a duplicate timestamp the freshest value wins" (mergeSeries), across aborted flushes, merges,
\* reloads and replay, and it is served "each timestamp once" (collectMany).  Two exceptions: a
\* merge puts its output behind every other part, so one that passed a later part may serve an older
\* value; and a buffer or part that holds a timestamp twice gives both rows, the freshest among them.
FreshestWins ==
    \A t \in Time : last[t] > 0 /\ t >= retain =>
        LET runs == Runs(Engine)
            once == \A i \in DOMAIN runs : Len(RowsAt(runs[i], t)) <= 1
        IN \/ \E p \in jumped \intersect ToSet(Engine.parts) : t \in Times(disk.rows[p])
           \/ /\ last[t] \in Returned(Engine, 0, t)
              /\ once => Answer(Engine, 0, t) = <<[t |-> t, v |-> last[t]]>>

\* "A query with Start >= recentMin is served wholly by the tier, the mid-flush buffers and the
\* head" (recentTier): a read that skips every part returns the timestamps the parts would have
\* given.  The exception: a part loaded by a restart may hold times the tier knows nothing of, so
\* timestamps are judged that were appended or replayed in this life.
RecentCovers ==
    up => \A start \in Time, t \in lived :
        t >= start /\ t >= retain /\ t \in Stored(mem) => Answer(mem, start, t) # <<>>

\* The out-of-order bound survives as long as the identity: no step admits a sample further behind
\* the newest the series holds of this life (noteTS, swapIdentity keep the watermark; a restart
\* begins it anew from the log).
NoLateAdmit ==
    \A t \in Time : last'[t] # last[t] /\ OOOWindow > 0 =>
         \A u \in Stored(mem) \intersect lived : t >= u - OOOWindow
=============================================================================
