---------------------------- MODULE RecordEngine ----------------------------
(***************************************************************************)
(* The durable record engine of one tenant and signal: recordengine/       *)
(* (append, flush, merge, bucket-index commit, recovery) over the segment  *)
(* writer of wal/ and a backend that offers compare-and-swap on the bucket *)
(* index object.                                                           *)
(*                                                                         *)
(* One process owns the prefix.  Writers, one flush and one merge run      *)
(* concurrently (Config.FlushAdmission is always set by the facade); the   *)
(* process may die between any two steps and is then reopened.             *)
(***************************************************************************)
EXTENDS Naturals

CONSTANTS
    Rec,        \* batches of accepted rows; each is appended at most once
    Stream,     \* stream identities
    StreamOf,   \* the stream a batch belongs to
    Part,       \* part prefixes, each minted at most once
    Expirable,  \* the batches old enough to reach the retention cutoff
    Unsyncable, \* the batches whose fsync may fail (WALSync)
    Rejecting,  \* the streams that may send a batch rejected in full
    MaxEpoch,   \* bound on the WAL generations minted
    MaxSeq      \* bound on the WAL segments opened

ASSUME StreamOfType == StreamOf \in [Rec -> Stream]
ASSUME InputsType == Expirable \subseteq Rec /\ Unsyncable \subseteq Rec /\ Rejecting \subseteq Stream
ASSUME BoundsType == MaxEpoch \in Nat /\ MaxSeq \in Nat

VARIABLES
    \* ---- durable: what a restart finds
    log,        \* record frames in the WAL segments: [rec, seq, epoch]
    ids,        \* stream-identity frames in the segments: [stream, seq, epoch]
    index,      \* the bucket index object: [parts, epoch, removed]
    limbo,      \* unconfirmed index writes that may still land on the stored version
    rows,       \* the rows each part was written with; {} for an unminted prefix
    objects,    \* the parts whose objects exist in the backend
    \* ---- history
    sent,       \* batches handed to AppendBatch
    acked,      \* batches whose append returned success
    expired,    \* batches older than the retention cutoff
    \* ---- memory of the process
    up,
    head,       \* Engine.head: batches buffered
    buf,        \* streams with a (possibly empty) record buffer in the head
    flushing,   \* Engine.flushing: batches detached by the flush in flight
    parts,      \* Engine.parts
    pending,    \* parts whose block identity no landed commit has assigned
    indexed,    \* Engine.indexed: what the last built index named
    removals,   \* Engine.removals
    foreign,    \* Engine.foreign: entries attributed to a rival writer
    synced,     \* Engine.indexVersion is the stored version
    flushedEpoch,
    walSeq,     \* SegmentWriter.seq
    walEpoch,   \* SegmentWriter.epoch
    segEpoch,   \* generation in the open segment's name; 0 when none is open
    retiring,   \* Engine.retiring
    flush,      \* the flush in flight: [pc, epoch, seq, left, outs]
    merge       \* the merge in flight: [pc, cut, pins, src, left, outs]

history == <<sent, acked, expired>>
logVars == <<log, ids, walSeq, walEpoch, segEpoch>>
headVars == <<head, buf, flushing>>
store == <<rows, objects>>
commitVars == <<index, limbo, indexed, removals, foreign, synced>>
vars == <<history, logVars, headVars, store, commitVars, parts, pending,
          flushedEpoch, retiring, flush, merge, up>>

FlushPC == {"idle", "abort", "build", "checkpoint", "reclaim"}
MergePC == {"idle", "drop", "select", "build", "reclaim"}

Max2(a, b) == IF a >= b THEN a ELSE b
StreamsOf(S) == {StreamOf[r] : r \in S}
RowsIn(P) == UNION {rows[p] : p \in P}
Minted == {p \in Part : rows[p] # {}}

NoFlush == [pc |-> "idle", epoch |-> 0, seq |-> 0, left |-> {}, outs |-> {}]
NoMerge == [pc |-> "idle", cut |-> {}, pins |-> {}, src |-> {}, left |-> {}, outs |-> {}]

(* engineguard.Mutex: the catalog lock is held across a whole commit, and  *)
(* by a flush from its commit to the end of its checkpoint.  The writer    *)
(* and state locks are dropped for the compare-and-swap, so appends        *)
(* interleave with a commit; they touch nothing a commit reads or writes,  *)
(* which is why a commit is one step here.                                 *)
CatalogFree == flush.pc # "checkpoint"

Init ==
    /\ log = {} /\ ids = {}
    /\ index = [parts |-> {}, epoch |-> 0, removed |-> {}]
    /\ limbo = {}
    /\ rows = [p \in Part |-> {}] /\ objects = {}
    /\ sent = {} /\ acked = {} /\ expired = {}
    /\ up = TRUE
    /\ head = {} /\ buf = {} /\ flushing = {}
    /\ parts = {} /\ pending = {}
    /\ indexed = {} /\ removals = {} /\ foreign = {} /\ synced = TRUE
    /\ flushedEpoch = 0
    /\ walSeq = 0 /\ walEpoch = 1 /\ segEpoch = 0
    /\ retiring = {}
    /\ flush = NoFlush /\ merge = NoMerge
-----------------------------------------------------------------------------
(* The segment writer, as far as the engine can see it: frames go to the   *)
(* open segment, whose generation is the one it was opened with.           *)

\* prepare, openNext, rotate: the segment the next frame lands in.
Prepare(rotate) ==
    IF segEpoch = 0 \/ rotate
    THEN walSeq < MaxSeq /\ walSeq' = walSeq + 1 /\ segEpoch' = walEpoch
    ELSE UNCHANGED <<walSeq, segEpoch>>

\* Seal: close the open segment and stamp the following ones with epoch.
Seal(epoch) ==
    /\ segEpoch' = 0
    /\ walEpoch' = epoch
    /\ UNCHANGED <<log, ids, walSeq>>

\* A Seal that fails to sync the segment has closed it and changed no epoch.
SealFailed ==
    /\ segEpoch' = 0
    /\ UNCHANGED <<log, ids, walSeq, walEpoch>>

\* CheckpointThrough: remove the sealed segments in name order; a removal
\* that fails leaves the segments from that one on.
CheckpointThrough(obsolete) ==
    /\ \E stop \in 0 .. obsolete + 1 :
          /\ stop = obsolete + 1 \/ \E f \in log \cup ids : f.seq = stop
          /\ log' = {f \in log : f.seq >= stop}
          /\ ids' = {g \in ids : g.seq >= stop}
    /\ UNCHANGED <<walSeq, walEpoch, segEpoch>>

\* createFS: resume after the last segment on disk; LoadParts then calls
\* SetEpoch with the generation past the recovered watermark.
CreateWAL(epoch) ==
    /\ walSeq' \in {0} \cup {f.seq : f \in log \cup ids}
    /\ \A f \in log \cup ids : f.seq <= walSeq'
    /\ walEpoch' = epoch
    /\ segEpoch' = 0
    /\ UNCHANGED <<log, ids>>
-----------------------------------------------------------------------------
(* Ingest.                                                                 *)

\* Mutant: the frame is stamped before the segment it lands in is opened.
WriteSeriesBeforePrepare(s) ==
    ids' = IF s \in buf THEN ids
           ELSE ids \cup {[stream |-> s, seq |-> walSeq, epoch |-> segEpoch]}

\* WriteSeries: the identity is logged on first sight and whenever the
\* stream starts a fresh buffer (head.needsStreamRecord).
WriteSeries(s) ==
    ids' = IF s \in buf THEN ids
           ELSE ids \cup {[stream |-> s, seq |-> walSeq', epoch |-> segEpoch']}

\* AppendBatch, appendLogged: identity, then records, then the head.
LogBatch(r, rotate) ==
    /\ up /\ r \notin sent
    /\ Prepare(rotate)
    /\ WriteSeries(StreamOf[r])
    /\ log' = log \cup {[rec |-> r, seq |-> walSeq', epoch |-> segEpoch']}
    /\ buf' = buf \cup {StreamOf[r]}
    /\ sent' = sent \cup {r}

AppendBatch(r, rotate) ==
    /\ LogBatch(r, rotate)
    /\ head' = head \cup {r}
    /\ acked' = acked \cup {r}
    /\ UNCHANGED <<expired, flushing, walEpoch, store, commitVars, parts, pending,
                   flushedEpoch, retiring, flush, merge, up>>

\* afterWrite: with WALSync a failed fsync fails an append whose frame is
\* already in the segment; the head is left as it was.
AppendUnsynced(r) ==
    /\ LogBatch(r, FALSE)
    /\ UNCHANGED <<acked, expired, head, flushing, walEpoch, store, commitVars, parts,
                   pending, flushedEpoch, retiring, flush, merge, up>>

\* Mutant: a rejected batch leaves a buffer whose identity was never logged.
RejectBatchUnlogged(s) ==
    /\ up /\ s \notin buf
    /\ Prepare(FALSE)
    /\ buf' = buf \cup {s}
    /\ UNCHANGED <<history, log, ids, head, flushing, walEpoch, store, commitVars, parts,
                   pending, flushedEpoch, retiring, flush, merge, up>>

\* A batch rejected row by row (out-of-order window, in-flight bytes) or one
\* whose record write fails: the identity is logged and the buffer exists.
RejectBatch(s) ==
    /\ up /\ s \notin buf
    /\ Prepare(FALSE)
    /\ WriteSeries(s)
    /\ buf' = buf \cup {s}
    /\ UNCHANGED <<history, log, head, flushing, walEpoch, store, commitVars, parts,
                   pending, flushedEpoch, retiring, flush, merge, up>>

\* The clock moves a batch past the retention cutoff.
Expire(r) ==
    /\ r \in acked \ expired
    /\ expired' = expired \cup {r}
    /\ UNCHANGED <<sent, acked, logVars, headVars, store, commitVars, parts, pending,
                   flushedEpoch, retiring, flush, merge, up>>
-----------------------------------------------------------------------------
(* The bucket-index commit: a conditional write on the version last seen.  *)
(* limbo holds the unconfirmed writes that expect the stored version, so   *)
(* it empties whenever that version moves.                                 *)

\* Mutant: what this index stops naming is not stated.
NextRemovalsUnstated(next) == removals \ next

\* nextIndexLocked: a part the last index named and this one does not is
\* stated as removed; a part that is live again is not.
NextRemovals(next) == (removals \cup (indexed \ next)) \ next

\* foreignEntries, against the bookkeeping the losing attempt left behind.
ForeignEntries(next) == index.parts \ (next \cup NextRemovals(next))

\* adoptIndexLocked: a stale version makes the first write lose, and the
\* retry carries the stored entries this engine does not account for.
AdoptIndex(next) == IF synced THEN foreign ELSE ForeignEntries(next)

NextIndex(next, epoch) ==
    [parts |-> next \cup AdoptIndex(next), epoch |-> epoch, removed |-> NextRemovals(next)]

\* Mutant: an unconditional put, so an older write may land over a newer one.
SaveUnconditional(ix, out) ==
    \/ out = "landed" /\ index' = ix /\ synced' = TRUE /\ UNCHANGED limbo
    \/ out = "unknown" /\ limbo' = limbo \cup {ix} /\ synced' = TRUE /\ UNCHANGED index

\* indexcommit.Save: the write lands and is confirmed, lands unseen, or is
\* neither confirmed nor refused and may land later.
Save(ix, out) ==
    \/ out = "landed" /\ index' = ix /\ limbo' = {} /\ synced' = TRUE
    \/ out = "unknown" /\ index' = ix /\ limbo' = {} /\ synced' = FALSE
    \/ out = "unknown" /\ limbo' = limbo \cup {ix} /\ synced' = TRUE /\ UNCHANGED index

\* commitIndexLocked.  Engine.indexed and Engine.removals advance whatever
\* becomes of the write.  An engine on a stale version may also fail before
\* it has rebased: its losing write times out ("unknown") or the load of the
\* winning index fails ("failed", a commit that definitely did not land).
CommitIndex(next, epoch, out) ==
    /\ indexed' = next
    /\ removals' = NextRemovals(next)
    /\ \/ Save(NextIndex(next, epoch), out) /\ foreign' = AdoptIndex(next)
       \/ ~synced /\ out \in {"unknown", "failed"} /\ UNCHANGED <<index, limbo, synced, foreign>>

Outcome == {"landed", "unknown", "failed"}

\* An index write whose response was lost takes effect late.
LandLate(ix) ==
    /\ ix \in limbo
    /\ index' = ix /\ limbo' = {} /\ synced' = FALSE
    /\ UNCHANGED <<history, logVars, headVars, store, indexed, removals, foreign, parts,
                   pending, flushedEpoch, retiring, flush, merge, up>>
-----------------------------------------------------------------------------
(* Flush.                                                                  *)

\* deletePart: backend deletes are best effort, so any of P may survive.
DeleteParts(P) ==
    /\ \E gone \in SUBSET P : objects' = objects \ gone
    /\ UNCHANGED rows

\* writePart under a fresh prefix.
WritePart(p, S) ==
    /\ p \notin Minted
    /\ rows' = [rows EXCEPT ![p] = S]
    /\ objects' = objects \cup {p}

FlushStep == UNCHANGED <<history, merge, up>>

\* flush, plan: detach the head and seal the WAL at that instant.  An aborted
\* flush may have left the writer at a generation above flushedEpoch + 1.
FlushBegin ==
    /\ up /\ flush.pc = "idle"
    /\ head # {}
    /\ LET epoch == Max2(flushedEpoch + 1, walEpoch)
           plan(pc) == [pc |-> pc, epoch |-> epoch, seq |-> walSeq, left |-> head, outs |-> {}]
       IN /\ epoch < MaxEpoch
          /\ \/ Seal(epoch + 1) /\ flush' = plan("build")
             \/ SealFailed /\ flush' = plan("abort")
    /\ flushing' = head /\ head' = {} /\ buf' = {}
    /\ FlushStep
    /\ UNCHANGED <<store, commitVars, parts, pending, flushedEpoch, retiring>>

\* An empty head flushes nothing and still sweeps pending deletions.
FlushNothing ==
    /\ up /\ flush.pc = "idle"
    /\ head = {} /\ retiring # {}
    /\ flush' = [NoFlush EXCEPT !.pc = "reclaim"]
    /\ FlushStep
    /\ UNCHANGED <<logVars, headVars, store, commitVars, parts, pending, flushedEpoch, retiring>>

\* flush, build: one part per byte range, off the lock.
FlushPart(p, S) ==
    /\ up /\ flush.pc = "build"
    /\ S # {} /\ S \subseteq flush.left
    /\ WritePart(p, S)
    /\ flush' = [flush EXCEPT !.left = @ \ S, !.outs = @ \cup {p}]
    /\ FlushStep
    /\ UNCHANGED <<logVars, headVars, commitVars, parts, pending, flushedEpoch, retiring>>

\* Mutant: the detached buffers are dropped.
AbortFlushDropping ==
    /\ up
    /\ flush.pc = "abort" \/ (flush.pc = "build" /\ flush.left # {})
    /\ flushing' = {}
    /\ flush' = NoFlush
    /\ FlushStep
    /\ UNCHANGED <<head, buf, logVars, store, commitVars, parts, pending, flushedEpoch, retiring>>

\* abortFlush: the detached buffers go back to the head.
AbortFlush ==
    /\ up
    /\ flush.pc = "abort" \/ (flush.pc = "build" /\ flush.left # {})
    /\ head' = head \cup flushing
    /\ buf' = buf \cup StreamsOf(flushing)
    /\ flushing' = {}
    /\ flush' = NoFlush
    /\ FlushStep
    /\ UNCHANGED <<logVars, store, commitVars, parts, pending, flushedEpoch, retiring>>

FlushNext == parts \cup flush.outs

\* Mutant: the watermark is read when the flush publishes, after the seal.
FlushEpochLate == walEpoch

FlushEpoch == Max2(flush.epoch, flushedEpoch)

\* Mutant: a part of an unconfirmed commit is not marked as unassigned.
PublishFlushUnmarked(out) ==
    /\ up /\ flush.pc = "build" /\ flush.left = {}
    /\ CommitIndex(FlushNext, FlushEpoch, out)
    /\ parts' = FlushNext
    /\ flushedEpoch' = FlushEpoch
    /\ flushing' = {}
    /\ flush' = IF out = "landed" THEN [flush EXCEPT !.pc = "checkpoint"] ELSE NoFlush
    /\ FlushStep
    /\ UNCHANGED <<logVars, head, buf, store, pending, retiring>>

\* publishFlushLocked: the outputs are installed whatever the commit says;
\* only a confirmed commit goes on to the checkpoint.
PublishFlush(out) ==
    /\ up /\ flush.pc = "build" /\ flush.left = {}
    /\ CommitIndex(FlushNext, FlushEpoch, out)
    /\ parts' = FlushNext
    /\ flushedEpoch' = FlushEpoch
    /\ flushing' = {}
    /\ pending' = IF out = "landed" THEN {} ELSE pending \cup flush.outs
    /\ flush' = IF out = "landed" THEN [flush EXCEPT !.pc = "checkpoint"] ELSE NoFlush
    /\ FlushStep
    /\ UNCHANGED <<logVars, head, buf, store, retiring>>

\* checkpointLocked, then unlock.
FlushCheckpoint ==
    /\ up /\ flush.pc = "checkpoint"
    /\ CheckpointThrough(flush.seq)
    /\ flush' = [NoFlush EXCEPT !.pc = "reclaim"]
    /\ FlushStep
    /\ UNCHANGED <<headVars, store, commitVars, parts, pending, flushedEpoch, retiring>>

\* reclaimRetired: retired parts nobody has acquired leave the list and their
\* objects are deleted; one whose delete failed is queued again.
ReclaimRetired(pins, abandoned) ==
    LET deletable == retiring \ pins
    IN /\ DeleteParts(deletable \cup abandoned)
       /\ retiring' = {p \in retiring : p \in pins \/ p \in objects'}

FlushReclaim ==
    /\ up /\ flush.pc = "reclaim"
    /\ ReclaimRetired(merge.pins, {})
    /\ flush' = NoFlush
    /\ FlushStep
    /\ UNCHANGED <<logVars, headVars, commitVars, parts, pending, flushedEpoch>>
-----------------------------------------------------------------------------
(* Merge.                                                                  *)

MergeStep == UNCHANGED <<history, logVars, headVars, flushedEpoch, flush, up>>

\* The merge is over but for reclaimRetired and discardOutputs.
EndMerge(abandoned) == [NoMerge EXCEPT !.pc = "reclaim", !.pins = merge.pins, !.outs = abandoned]

\* Mutant: every error is taken for a commit that did not land.
MayHaveLandedNever(out) == out = "landed"

\* commitMayHaveLanded: only a commit that definitely did not land leaves
\* behind parts that no index can name.
MayHaveLanded(out) == out # "failed"

\* A merge's commit of next; success swaps the parts and retires gone.
MergeCommit(next, gone, out) ==
    /\ CommitIndex(next, flushedEpoch, out)
    /\ parts' = IF out = "landed" THEN next ELSE parts
    /\ pending' = IF out = "landed" THEN {} ELSE pending
    /\ retiring' = IF out = "landed" THEN retiring \cup gone ELSE retiring

\* Mutant: one expired row is enough.
EmptiedEager(P, cut) == {p \in P : rows[p] \cap cut # {}}

\* The parts retention has emptied: their newest row is past the cutoff.
Emptied(P, cut) == {p \in P : rows[p] \subseteq cut}

\* mergeHeld, plan: the sources are pinned; a part without a committed
\* identity forces a commit of the current set first (pinMergeSourcesLocked),
\* whose failure ends the merge.
MergeBegin ==
    /\ up /\ merge.pc = "idle" /\ CatalogFree
    /\ parts # {}
    /\ LET plan == [NoMerge EXCEPT !.pc = IF Emptied(parts, expired) = {} THEN "select" ELSE "drop",
                                   !.cut = expired, !.pins = parts]
       IN IF pending = {}
          THEN merge' = plan /\ UNCHANGED <<commitVars, parts, pending, retiring>>
          ELSE \E out \in Outcome : /\ MergeCommit(parts, {}, out)
                                    /\ merge' = IF out = "landed" THEN plan ELSE NoMerge
    /\ MergeStep /\ UNCHANGED store

\* dropExpired: a part retention has emptied is dropped without a rewrite.
DropExpired ==
    /\ up /\ merge.pc = "drop" /\ CatalogFree
    /\ LET gone == Emptied(merge.pins, merge.cut)
       IN \E out \in Outcome :
             /\ MergeCommit(parts \ gone, gone, out)
             /\ merge' = IF out = "landed" THEN [merge EXCEPT !.pc = "select"] ELSE EndMerge({})
    /\ MergeStep /\ UNCHANGED store

\* selectMergeParts: any run of the remaining sources, or none.
MergeSelect(src) ==
    /\ up /\ merge.pc = "select"
    /\ src \subseteq merge.pins \ Emptied(merge.pins, merge.cut)
    /\ merge' = IF src = {}
                THEN EndMerge({})
                ELSE [merge EXCEPT !.pc = "build", !.src = src, !.left = RowsIn(src) \ merge.cut]
    /\ MergeStep
    /\ UNCHANGED <<store, commitVars, parts, pending, retiring>>

\* compact: the surviving rows stream into one or more output parts.
MergePart(p, S) ==
    /\ up /\ merge.pc = "build"
    /\ S # {} /\ S \subseteq merge.left
    /\ WritePart(p, S)
    /\ merge' = [merge EXCEPT !.left = @ \ S, !.outs = @ \cup {p}]
    /\ MergeStep
    /\ UNCHANGED <<commitVars, parts, pending, retiring>>

\* A failed, declined or non-reducing merge abandons its outputs.
MergeAbandon ==
    /\ up /\ merge.pc = "build"
    /\ merge' = EndMerge(merge.outs)
    /\ MergeStep
    /\ UNCHANGED <<store, commitVars, parts, pending, retiring>>

\* Mutant: the outputs are added and the sources stay.
MergePublishKeeping ==
    /\ up /\ merge.pc = "build" /\ merge.left = {} /\ CatalogFree
    /\ \E out \in Outcome :
          /\ MergeCommit(parts \cup merge.outs, {}, out)
          /\ merge' = EndMerge(IF MayHaveLanded(out) THEN {} ELSE merge.outs)
    /\ MergeStep /\ UNCHANGED store

MergePublish ==
    /\ up /\ merge.pc = "build" /\ merge.left = {} /\ CatalogFree
    /\ \E out \in Outcome :
          /\ MergeCommit((parts \ merge.src) \cup merge.outs, merge.src, out)
          /\ merge' = EndMerge(IF MayHaveLanded(out) THEN {} ELSE merge.outs)
    /\ MergeStep /\ UNCHANGED store

\* releaseSources, reclaimRetired and discardOutputs.
MergeReclaim ==
    /\ up /\ merge.pc = "reclaim" /\ CatalogFree
    /\ ReclaimRetired({}, merge.outs)
    /\ merge' = NoMerge
    /\ MergeStep
    /\ UNCHANGED <<commitVars, parts, pending>>
-----------------------------------------------------------------------------
(* Process death and recovery.                                             *)

\* Everything in memory is lost; an index write in flight may still land.
Crash ==
    /\ up
    /\ up' = FALSE
    /\ head' = {} /\ buf' = {} /\ flushing' = {}
    /\ parts' = {} /\ pending' = {} /\ indexed' = {} /\ removals' = {}
    /\ foreign' = {} /\ synced' = FALSE /\ flushedEpoch' = 0
    /\ walSeq' = 0 /\ walEpoch' = 1 /\ segEpoch' = 0
    /\ retiring' = {}
    /\ flush' = NoFlush /\ merge' = NoMerge
    /\ UNCHANGED <<history, log, ids, store, index, limbo>>

\* The streams whose identity a replay of the generations above epoch knows
\* when it reaches segment seq: from the loaded parts or an earlier frame.
KnownStreams(P, epoch, seq) ==
    StreamsOf(RowsIn(P)) \cup {g.stream : g \in {h \in ids : h.epoch > epoch /\ h.seq <= seq}}

\* ReplayDirFrom with replayHandlers: the segments above the watermark; a
\* record of an unknown stream is ignored.
Replayed(P, epoch) ==
    {f.rec : f \in {g \in log : /\ g.epoch > epoch
                                /\ StreamOf[g.rec] \in KnownStreams(P, epoch, g.seq)}}

\* sweepOrphansLocked: unnamed parts go, unless still inside OrphanGrace or
\* their delete fails.
SweepOrphans ==
    /\ \E gone \in SUBSET (objects \ index.parts) : objects' = objects \ gone
    /\ UNCHANGED rows

\* readIndexLocked: the entries whose objects are there.
ReadIndex == index.parts \cap objects

\* Open, recover: LoadParts as the owner, then Replay.
Recover ==
    /\ ~up
    /\ up' = TRUE
    /\ parts' = ReadIndex /\ indexed' = ReadIndex
    /\ removals' = index.removed
    /\ foreign' = {} /\ synced' = TRUE /\ limbo' = {} /\ pending' = {}
    /\ flushedEpoch' = index.epoch
    /\ SweepOrphans
    /\ CreateWAL(index.epoch + 1)
    /\ head' = Replayed(ReadIndex, index.epoch)
    /\ buf' = StreamsOf(head')
    /\ flushing' = {}
    /\ UNCHANGED <<history, index, retiring, flush, merge>>
-----------------------------------------------------------------------------
Ingest ==
    \/ \E r \in Rec, rotate \in BOOLEAN : AppendBatch(r, rotate)
    \/ \E r \in Unsyncable : AppendUnsynced(r)
    \/ \E s \in Rejecting : RejectBatch(s)

Flush ==
    \/ FlushBegin \/ FlushNothing \/ AbortFlush
    \/ \E p \in Part, S \in SUBSET Rec : FlushPart(p, S)
    \/ \E out \in Outcome : PublishFlush(out)
    \/ FlushCheckpoint \/ FlushReclaim

Merge ==
    \/ MergeBegin \/ DropExpired
    \/ \E src \in SUBSET Part : MergeSelect(src)
    \/ \E p \in Part, S \in SUBSET Rec : MergePart(p, S)
    \/ MergeAbandon \/ MergePublish \/ MergeReclaim

Next ==
    \/ Ingest \/ Flush \/ Merge
    \/ \E r \in Expirable : Expire(r)
    \/ \E ix \in limbo : LandLate(ix)
    \/ Crash \/ Recover

Spec == Init /\ [][Next]_vars
-----------------------------------------------------------------------------
Frame == [rec : Rec, seq : Nat, epoch : Nat \ {0}]
IdFrame == [stream : Stream, seq : Nat, epoch : Nat \ {0}]
Index == [parts : SUBSET Part, epoch : Nat, removed : SUBSET Part]

\* The state of one record engine, its write-ahead log and its bucket index;
\* a frame always carries the generation of the segment it was written to.
TypeOK ==
    /\ log \subseteq Frame /\ ids \subseteq IdFrame
    /\ index \in Index /\ limbo \subseteq Index
    /\ rows \in [Part -> SUBSET Rec] /\ objects \subseteq Part
    /\ sent \subseteq Rec /\ acked \subseteq Rec /\ expired \subseteq Rec
    /\ up \in BOOLEAN
    /\ head \subseteq Rec /\ buf \subseteq Stream /\ flushing \subseteq Rec
    /\ parts \subseteq Part /\ pending \subseteq Part /\ indexed \subseteq Part
    /\ removals \subseteq Part /\ foreign \subseteq Part /\ synced \in BOOLEAN
    /\ flushedEpoch \in Nat
    /\ walSeq \in Nat /\ walEpoch \in Nat \ {0} /\ segEpoch \in Nat
    /\ retiring \subseteq Part
    /\ flush \in [pc : FlushPC, epoch : Nat, seq : Nat, left : SUBSET Rec, outs : SUBSET Part]
    /\ merge \in [pc : MergePC, cut : SUBSET Rec, pins : SUBSET Part, src : SUBSET Part,
                  left : SUBSET Rec, outs : SUBSET Part]

\* Recovery loses nothing: whatever the process was doing, a restart now
\* finds every acknowledged, unexpired batch in a part the index names or in
\* a segment above the watermark, from which replay can attribute it to its
\* stream (needsStreamRecord keeps the log self-contained).
NoLoss ==
    acked \ expired \subseteq RowsIn(ReadIndex) \cup Replayed(ReadIndex, index.epoch)

\* A fetch (planFetch: head, flushing and the readable parts) sees every
\* acknowledged, unexpired batch, whichever phase flush and merge are in.
Served == head \cup flushing \cup RowsIn((parts \cup foreign) \cap objects)
Readable == up => acked \ expired \subseteq Served

\* While the process lives, a batch once readable stays readable until
\* retention expires it, also one that was never acknowledged and came back
\* by replay; and an acknowledged one is readable at once.
StaysReadable ==
    [][up /\ up' => Served \cup (acked' \ acked) \subseteq Served' \cup expired']_vars

\* The stored index, and any write of it still in flight, never names a part
\* whose objects a reclaim, a discard or a sweep has deleted.
NamedPresent == \A ix \in limbo \cup {index} : ix.parts \subseteq objects

\* A lone writer that lost the answer to its own commit never takes one of
\* its own parts for a rival writer's (foreignEntries).
NoForeign == foreign = {}

\* The batches a fetch would return more than once.
Twice ==
    {r \in Rec :
        \/ r \in head /\ r \in flushing
        \/ (r \in head \/ r \in flushing) /\ r \in RowsIn(parts)
        \/ \E p, q \in parts : p # q /\ r \in rows[p] /\ r \in rows[q]}

\* While the process lives, no step of flush, abort, merge or an unconfirmed
\* commit makes a fetch return a batch twice.
NoNewDuplicates == [][up /\ up' => Twice' \subseteq Twice]_vars

\* engine.go, Replay: "records already in a flushed part are not re-applied
\* - exactly-once recovery".
ExactlyOnce == Twice = {}

\* The replay watermark in the stored index never falls back.
WatermarkMonotone == [][index'.epoch >= index.epoch]_vars
=============================================================================
