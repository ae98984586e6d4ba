---------------------------- MODULE RecordFetch ----------------------------
(* The read side of a record engine (recordengine): a fetch plans under the    *)
(* engine's lock, then decodes the parts it pinned with no lock held, while    *)
(* appends, flushes, merges and the reclaim of retired parts go on.  The model *)
(* keeps the pruning (time, bloom, granule), the scan limit, the conditions    *)
(* and the byte budget, and takes rows as records [id, s, t, c]: the stream,   *)
(* the timestamp and one cell, which a condition may read as a column with a   *)
(* whole-value filter, as a full-text column or as a record attribute.         *)
EXTENDS Integers, Sequences, FiniteSets, FiniteSetsExt, SequencesExt

CONSTANTS
    Record,     \* the rows that may be appended, in order: a sequence
    Request,    \* the requests a reader may make
    Granule,    \* rows per granule of a part
    MaxPart,    \* bound: parts written
    Budget,     \* the read budget, in rows
    Words,      \* the words of each value
    Absent,     \* the cell of a row without the attribute
    Junk,       \* what a cell of an undecoded granule holds
    None

VARIABLES
    appended,   \* rows appended so far
    head,       \* buffered rows
    flushing,   \* rows detached by the flush in progress
    parts,      \* the readable parts
    retiring,   \* parts replaced and not yet deleted
    written,    \* parts written so far
    reserved,   \* bytes of the read budget in use
    rd          \* the reader

vars == <<appended, head, flushing, parts, retiring, written, reserved, rd>>

Streams == { Record[i].s : i \in DOMAIN Record }

Idle == [pc |-> "idle"]

Init ==
    /\ appended = 0
    /\ head = {}
    /\ flushing = {}
    /\ parts = {}
    /\ retiring = {}
    /\ written = 0
    /\ reserved = 0
    /\ rd = Idle

---------------------------------------------------------------------------
(* Parts.  Rows sorted by stream, then time; a missing filter prunes nothing. *)

Before(a, b) ==
    \/ a.s < b.s
    \/ a.s = b.s /\ a.t < b.t
    \/ a.s = b.s /\ a.t = b.t /\ a.id < b.id

WritePart(id, rows, bloom) ==
    [id |-> id, rows |-> SetToSortSeq(rows, Before), bloom |-> bloom,
     min |-> Min({ r.t : r \in rows }), max |-> Max({ r.t : r \in rows })]

RowsOf(p) == { p.rows[i] : i \in DOMAIN p.rows }

\* granuleInWindow: the marks carry each granule's time bounds.
GranuleInWindow(p, g, start, end) ==
    LET ts == { p.rows[i].t : i \in { j \in DOMAIN p.rows : (j - 1) \div Granule = g } }
    IN Max(ts) >= start /\ Min(ts) <= end

\* The granules of the streams' row ranges that overlap the window; the rest stay undecoded.
WindowGranules(p, q) ==
    { g \in 0 .. (Len(p.rows) - 1) \div Granule :
        /\ \E i \in DOMAIN p.rows : p.rows[i].s \in q.streams /\ (i - 1) \div Granule = g
        /\ GranuleInWindow(p, g, q.start, q.end) }

\* A row as the projected columns of the selected granules give it back.
Decoded(p, i, blocks) ==
    IF (i - 1) \div Granule \in blocks \/ blocks = {} THEN p.rows[i]
    ELSE [p.rows[i] EXCEPT !.c = Junk]

---------------------------------------------------------------------------
(* Conditions.  A hint (equal, or a set of members) bounds what match accepts. *)

\* matchEntry: a member of the set is still verified by the predicate.
EntryMatches(c, v) == (c.any # {} => v \in c.any) /\ v \in c.match

RowMatches(conds, v) == \A c \in conds : v \in c.match

EvalMatches(conds, v) == \A c \in conds : EntryMatches(c, v)

\* What a part's filter for the column holds: whole values, the words of values, or both, under
\* the attribute's key; an absent attribute leaves nothing, an empty value of a column neither.
Filter(p, mode) ==
    LET cells == { r.c : r \in RowsOf(p) }
        words == UNION { Words[v] : v \in cells }
    IN CASE mode = "equality" -> cells \ {"", Absent}
         [] mode = "fulltext" -> words
         [] mode = "attrs" -> (cells \ {Absent}) \cup words

AnyTokenPresent(filter, set) == set = {} \/ "" \in set \/ set \cap filter # {}

\* A fixed column: words first, then whole values where the filter has them.  An attribute: all.
ConditionMayMatch(p, c) ==
    LET filter == Filter(p, c.mode)
    IN \/ ~p.bloom
       \/ /\ c.tokens \subseteq filter
          /\ c.mode = "equality" => (c.equal \notin {None, ""} => c.equal \in filter)
          /\ c.mode = "attrs" => (c.equal # None => c.equal \in filter)
          /\ c.mode # "fulltext" => AnyTokenPresent(filter, c.any)

MayContain(p, conds) == \A c \in conds : ConditionMayMatch(p, c)

---------------------------------------------------------------------------
(* The ordered limit. *)

\* How good a timestamp is in the limit's direction: smaller is kept first.
Key(q, t) == IF q.reverse THEN -t ELSE t

LeadKey(q, p) == IF q.reverse THEN -p.max ELSE p.min

TailKey(q, p) == IF q.reverse THEN -p.min ELSE p.max

OrderPartsForLimit(q, ps) ==
    SetToSortSeq(ps, LAMBDA a, b : \/ LeadKey(q, a) < LeadKey(q, b)
                                   \/ LeadKey(q, a) = LeadKey(q, b) /\ TailKey(q, a) < TailKey(q, b)
                                   \/ LeadKey(q, a) = LeadKey(q, b) /\ TailKey(q, a) = TailKey(q, b) /\ a.id < b.id)

\* The limit-th best key gathered so far, once there are that many.
Watermark(q, acc) ==
    LET ks == SetToSortSeq({ <<Key(q, x.row.t), x.row.id>> : x \in acc },
                           LAMBDA a, b : a[1] < b[1] \/ (a[1] = b[1] /\ a[2] < b[2]))
    IN IF q.limit = 0 \/ Len(ks) < q.limit THEN None ELSE ks[q.limit][1]

\* A mutant of BeyondWatermark: a part that could only tie is skipped.
BeyondWatermarkTies(q, p, mark) == LeadKey(q, p) >= mark

\* No row of the part can beat the mark, or tie with it.
BeyondWatermark(q, p, mark) == LeadKey(q, p) > mark

\* limitTrim: the limit best rows and whatever ties with the last of them.
LimitTrim(q, acc) ==
    IF q.limit = 0 \/ Cardinality(acc) <= q.limit THEN acc
    ELSE { x \in acc : Key(q, x.row.t) <= Watermark(q, acc) }

---------------------------------------------------------------------------
(* The engine's writers, each step one critical section. *)

AppendRow ==
    /\ appended < Len(Record)
    /\ appended' = appended + 1
    /\ head' = head \cup {Record[appended + 1]}
    /\ UNCHANGED <<flushing, parts, retiring, written, reserved, rd>>

FlushDetach ==
    /\ flushing = {} /\ head # {} /\ written < MaxPart
    /\ flushing' = head
    /\ head' = {}
    /\ UNCHANGED <<appended, parts, retiring, written, reserved, rd>>

FlushAbort ==
    /\ flushing # {}
    /\ head' = head \cup flushing
    /\ flushing' = {}
    /\ UNCHANGED <<appended, parts, retiring, written, reserved, rd>>

FlushPublish ==
    /\ flushing # {} /\ written < MaxPart
    /\ \E bloom \in BOOLEAN :
          parts' = parts \cup {WritePart(written + 1, flushing, bloom)}
    /\ written' = written + 1
    /\ flushing' = {}
    /\ UNCHANGED <<appended, head, retiring, reserved, rd>>

MergePublish ==
    /\ Cardinality(parts) > 1 /\ written < MaxPart
    /\ parts' = {WritePart(written + 1, UNION { RowsOf(p) : p \in parts }, TRUE)}
    /\ retiring' = retiring \cup parts
    /\ written' = written + 1
    /\ UNCHANGED <<appended, head, flushing, reserved, rd>>

Pinned == IF rd.pc = "read" THEN { p \in parts \cup retiring : p.id \in rd.pins } ELSE {}

\* A mutant of Deletable: the readers' references are not consulted.
DeletableAll == retiring

\* reclaimRetired: a part some fetch still holds waits for a later pass.
Deletable == retiring \ Pinned

ReclaimRetired ==
    /\ Deletable # {}
    /\ retiring' = retiring \ Deletable
    /\ UNCHANGED <<appended, head, flushing, parts, written, reserved, rd>>

---------------------------------------------------------------------------
(* The reader. *)

InWindow(q, r) == r.s \in q.streams /\ q.start <= r.t /\ r.t <= q.end

\* A mutant of Buffered: the rows a flush has detached are not looked at.
BufferedHead(q) == { [src |-> 0, row |-> r] : r \in { x \in head : InWindow(q, x) } }

\* The head's rows and the detached ones, copied out under the lock.
Buffered(q) == { [src |-> 0, row |-> r] : r \in { x \in head \cup flushing : InWindow(q, x) } }

LiveParts(q) ==
    { p \in parts :
        /\ p.max >= q.start /\ p.min <= q.end
        /\ MayContain(p, q.conds)
        /\ \E r \in RowsOf(p) : r.s \in q.streams }

\* What the plan sets aside for the rows it gathers, and whether the budget has it.
Fits(n) == reserved + n <= Budget

Matching(q) == { r \in head \cup flushing \cup UNION { RowsOf(p) : p \in parts } :
                   InWindow(q, r) /\ RowMatches(q.conds, r.c) }

\* planFetch: pin the parts that may hold rows, copy the buffered rows, note what was asked.
PlanFetch(q) ==
    /\ rd.pc = "idle"
    /\ LET live == LiveParts(q)
           bySize == OrderPartsForLimit([q EXCEPT !.reverse = FALSE], live)
           acc == Buffered(q)
       IN IF ~Fits(Cardinality(acc))
          THEN rd' = [pc |-> "failed"] /\ UNCHANGED reserved
          ELSE /\ reserved' = reserved + Cardinality(acc)
               /\ rd' = [pc |-> "read", q |-> q, acc |-> acc, held |-> Cardinality(acc),
                         pins |-> { p.id : p \in live },
                         todo |-> IF q.conds = {} /\ q.limit > 0 THEN OrderPartsForLimit(q, live)
                                  ELSE bySize,
                         want |-> Matching(q)]
    /\ UNCHANGED <<appended, head, flushing, parts, retiring, written>>

\* The rows of a part's matched streams in the window that pass the conditions.
Hits(q, p) ==
    LET blocks == WindowGranules(p, q)
    IN { [src |-> p.id, row |-> Decoded(p, i, blocks)] :
           i \in { j \in DOMAIN p.rows : /\ InWindow(q, p.rows[j])
                                         /\ EvalMatches(q.conds, Decoded(p, j, blocks).c) } }

\* A mutant of Release: a failed fetch keeps what it reserved.
ReleaseNothing(n) == reserved' = reserved

Release(n) == reserved' = reserved - n

FetchFails ==
    /\ rd.pc = "read" /\ rd.todo # <<>>
    /\ ~Fits(Cardinality(Hits(rd.q, rd.todo[1])))
    /\ Release(rd.held)
    /\ rd' = [pc |-> "failed"]
    /\ UNCHANGED <<appended, head, flushing, parts, retiring, written>>

\* readParts, one part: decode, filter, append; then ask whether the rest can be skipped.
ReadPart ==
    /\ rd.pc = "read" /\ rd.todo # <<>>
    /\ LET q == rd.q
           hits == Hits(q, rd.todo[1])
           acc == rd.acc \cup hits
           rest == SubSeq(rd.todo, 2, Len(rd.todo))
           mark == IF q.conds = {} THEN Watermark(q, acc) ELSE None
       IN /\ Fits(Cardinality(hits))
          /\ reserved' = reserved + Cardinality(hits)
          /\ rd' = [rd EXCEPT !.acc = acc, !.held = @ + Cardinality(hits),
                              !.todo = IF mark # None /\ rest # <<>>
                                       THEN IF BeyondWatermark(q, rest[1], mark) THEN <<>> ELSE rest
                                       ELSE rest]
    /\ UNCHANGED <<appended, head, flushing, parts, retiring, written>>

\* filterPrefix: the rows of parts were filtered as they were read, the buffered ones were not.
FilterPrefix(q, acc) == { x \in acc : x.src = 0 => RowMatches(q.conds, x.row.c) }

\* The second pass judges a stream's batch as a whole, after the limit has been applied.
SecondPass(q, acc) == { x \in acc : x.row.s \in q.second }

Answer(q, acc) == SecondPass(q, LimitTrim(q, FilterPrefix(q, acc)))

\* The iterator is handed out: pins are released, the budget stays charged until it is closed.
FetchDone ==
    /\ rd.pc = "read" /\ rd.todo = <<>>
    /\ rd' = [pc |-> "open", q |-> rd.q, held |-> rd.held, want |-> rd.want,
              out |-> Answer(rd.q, rd.acc)]
    /\ UNCHANGED <<appended, head, flushing, parts, retiring, written, reserved>>

CloseIterator ==
    /\ rd.pc = "open"
    /\ Release(rd.held)
    /\ rd' = Idle
    /\ UNCHANGED <<appended, head, flushing, parts, retiring, written>>

GiveUp ==
    /\ rd.pc = "failed"
    /\ rd' = Idle
    /\ UNCHANGED <<appended, head, flushing, parts, retiring, written, reserved>>

Next ==
    \/ AppendRow
    \/ FlushDetach
    \/ FlushAbort
    \/ FlushPublish
    \/ MergePublish
    \/ ReclaimRetired
    \/ \E q \in Request : PlanFetch(q)
    \/ ReadPart
    \/ FetchFails
    \/ FetchDone
    \/ CloseIterator
    \/ GiveUp

Spec == Init /\ [][Next]_vars

---------------------------------------------------------------------------
(* Listings, each taken in one critical section over the same state. *)

\* A zero window asks for everything.
Everything(start, end) == start = 0 /\ end = 0

PartInWindow(p, start, end) == Everything(start, end) \/ (p.max >= start /\ p.min <= end)

BufferedRows(start, end) ==
    { r \in head \cup flushing : Everything(start, end) \/ (start <= r.t /\ r.t <= end) }

\* ColumnValues: the whole dictionary of every overlapping part, sorted and cut at the limit.
ColumnValues(start, end) ==
    ({ r.c : r \in BufferedRows(start, end) }
       \cup UNION { { r.c : r \in RowsOf(p) } : p \in { x \in parts : PartInWindow(x, start, end) } })
    \ {"", Absent}

\* A mutant of StreamInRange: only the head and the parts are asked.
StreamInRangeSettled(s, start, end) ==
    \/ Everything(start, end)
    \/ \E r \in head : r.s = s /\ start <= r.t /\ r.t <= end
    \/ \E p \in parts : PartInWindow(p, start, end) /\ \E r \in RowsOf(p) : r.s = s

StreamInRange(s, start, end) ==
    \/ Everything(start, end)
    \/ \E r \in head \cup flushing : r.s = s /\ start <= r.t /\ r.t <= end
    \/ \E p \in parts : PartInWindow(p, start, end) /\ \E r \in RowsOf(p) : r.s = s

Series(start, end) == { s \in Streams : appended > 0 /\ StreamInRange(s, start, end) }

---------------------------------------------------------------------------
(* Properties. *)

\* The engine's state is well formed: a row is in one place, a part is never both live and retired.
TypeOK ==
    /\ appended \in 0 .. Len(Record) /\ written \in 0 .. MaxPart
    /\ head \cap flushing = {} /\ parts \cap retiring = {}
    /\ rd.pc \in {"idle", "read", "open", "failed"}

\* Engine.Fetch: an answer with no limit holds exactly the rows the engine held when the fetch
\* planned that match the request, each once and as it was written, whatever flushes, merges and
\* deletions ran while the parts were being read.
SnapshotExact ==
    rd.pc = "open" /\ rd.q.limit = 0 =>
        /\ { x.row : x \in rd.out } = { r \in rd.want : r.s \in rd.q.second }
        /\ Cardinality(rd.out) = Cardinality({ x.row.id : x \in rd.out })

\* Engine.Fetch with a limit: the answer is a part of the matching rows that pass the second pass,
\* and each such row it leaves out has at least limit better rows that match, so with no second
\* pass the caller's own cut loses nothing.  The exception: the limit is applied before the second
\* pass (fetch.go says it "selects over survivors"), so the better rows may be ones that the
\* second pass then rejects, and an answer may hold fewer than limit rows while survivors remain.
LimitSuperset ==
    rd.pc = "open" /\ rd.q.limit > 0 =>
        LET got == { x.row : x \in rd.out }
            pass == { r \in rd.want : r.s \in rd.q.second }
            better(r) == { o \in rd.want : Key(rd.q, o.t) < Key(rd.q, r.t) }
        IN /\ got \subseteq pass
           /\ \A r \in pass \ got : Cardinality(better(r)) >= rd.q.limit

\* reclaimRetired against planFetch's pins: a part a fetch has still to read is never deleted.
PinnedKept ==
    rd.pc = "read" =>
        \A i \in DOMAIN rd.todo : rd.todo[i] \in parts \cup retiring

\* fetchMemory: what a fetch reserved is given back on every path, so an idle engine owes nothing.
BudgetReturned == rd.pc \in {"idle", "failed"} => reserved = 0

\* Series and ColumnValues: a listing over a window misses no stream and no value that a row of
\* the window carries, wherever the row is: head, detached buffer or part.
ListingsComplete ==
    \A q \in Request :
        LET rows == { r \in head \cup flushing \cup UNION { RowsOf(p) : p \in parts } :
                        q.start <= r.t /\ r.t <= q.end }
        IN /\ { r.s : r \in rows } \subseteq Series(q.start, q.end)
           /\ { r.c : r \in rows } \ {"", Absent} \subseteq ColumnValues(q.start, q.end)
=============================================================================
