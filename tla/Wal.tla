--------------------------------- MODULE Wal ---------------------------------
(***************************************************************************)
(* The segmented write-ahead log (wal/) over a disk that fails writes part *)
(* way, fails to sync, and loses power.  The unit of a segment's contents  *)
(* is a frame: a record, or a region that reads as an incomplete frame     *)
(* (Torn: cut short or zero-filled) or as one that fails its CRC (Bad).    *)
(*                                                                         *)
(* The writer runs under one lock, so an operation is one action; it may   *)
(* stop at any of its file operations with a fault, and a process that     *)
(* dies inside an operation leaves the disk as one whose next file         *)
(* operation failed and that died then.  Generations (epochs) are modelled *)
(* in RecordEngine; here every segment is of the same one, as the metrics  *)
(* engine writes them.                                                     *)
(***************************************************************************)
EXTENDS Integers, Sequences, FiniteSets

CONSTANTS
    Rec,        \* the records, each logged at most once
    Torn, Bad,  \* what a damaged region reads as
    None, Same, \* no file; the durable directory entry is the current one
    MaxSeq,     \* bound on the segments opened
    MaxBytes,   \* DefaultMaxSegmentBytes, in frames
    MaxFault,   \* bound on failing file operations
    MaxLoss     \* bound on power losses

VARIABLES
    st,         \* [seq, cur, sync, torn, good, rot, disk, faults]: the writer and the disk
    up,         \* whether the process runs with the log open
    tried,      \* the records handed to the writer
    acked,      \* those whose write returned nil
    since,      \* those acknowledged since the last Sync, Seal or Close
    promised,   \* those that must survive a power loss
    sealed,     \* the segment the last Seal closed through, 0 once checkpointed
    flushed,    \* the records a committed part holds
    gone,       \* those whose checkpoint returned nil
    losses,     \* power losses so far
    unsynced    \* whether a segment was ever closed, or left by a crash, unsynced

vars == <<st, up, tried, acked, since, promised, sealed, flushed, gone, losses, unsynced>>

Segs == 1 .. MaxSeq
Unit == Rec \cup {Torn, Bad}
NoSeg == [cur |-> None, old |-> Same]

Init ==
    /\ \E sync \in BOOLEAN :
        st = [seq |-> 0, cur |-> 0, sync |-> sync, torn |-> 0, good |-> 0, rot |-> FALSE,
              disk |-> [n \in Segs |-> NoSeg], faults |-> 0]
    /\ up = TRUE
    /\ tried = {} /\ acked = {} /\ since = {} /\ promised = {}
    /\ sealed = 0 /\ flushed = {} /\ gone = {}
    /\ losses = 0 /\ unsynced = FALSE
-----------------------------------------------------------------------------
(* File operations.  Each maps the state to the set of its outcomes.       *)

Ok(s) == {[st |-> s, ok |-> TRUE]}
Fail(s) == IF s.faults < MaxFault THEN {[st |-> [s EXCEPT !.faults = @ + 1], ok |-> FALSE]} ELSE {}
Then(R, Op(_)) == {r \in R : ~r.ok} \cup UNION {Op(r.st) : r \in {q \in R : q.ok}}

File(s, n) == s.disk[n].cur
Exists(s, n) == File(s, n) # None
Present(s) == {n \in Segs : Exists(s, n)}

\* A synced directory makes every creation, rename and removal durable.
SyncDir(s) == Ok([s EXCEPT !.disk = [n \in Segs |-> [@[n] EXCEPT !.old = Same]]]) \cup Fail(s)

SyncFile(s, n) == Ok([s EXCEPT !.disk[n].cur.synced = Len(File(s, n).data)]) \cup Fail(s)

\* What the directory on the platter holds for a name whose entry changes.
OnPlatter(s, n) == IF s.disk[n].old = Same THEN File(s, n) ELSE s.disk[n].old

Remove(s, n) == [s EXCEPT !.disk[n] = [cur |-> None, old |-> OnPlatter(s, n)]]

\* replaceSegment: a synced temporary file renamed over the segment.
ReplaceSegment(s, n, data) ==
    [s EXCEPT !.disk[n] = [cur |-> [data |-> data, synced |-> Len(data)], old |-> OnPlatter(s, n)]]
-----------------------------------------------------------------------------
(* Reading a segment.                                                      *)

IsFrame(d, j) == d[j] \in Rec

\* walk and resync, salvaging: a run of frames is read when the segment begins
\* with it, or when it can be trusted after damage: two frames in a row, or one
\* that ends the segment.
RunStart(d, j) == CHOOSE k \in 1 .. j :
    (\A i \in k .. j : IsFrame(d, i)) /\ (k = 1 \/ ~IsFrame(d, k - 1))

Trusted(d, k) == k = 1 \/ k = Len(d) \/ IsFrame(d, k + 1)

Salvaged(d) == {j \in 1 .. Len(d) : IsFrame(d, j) /\ Trusted(d, RunStart(d, j))}

\* Where the readable log ends: a tail that no trusted frame follows is cut
\* when it starts as a torn frame, and kept as evidence when it starts as a
\* corrupt one.
LastRead(d) == CHOOSE j \in {0} \cup Salvaged(d) : \A i \in Salvaged(d) : i <= j

ReadEnd(d) ==
    LET j == LastRead(d)
    IN  IF j < Len(d) /\ d[j + 1] = Torn THEN j ELSE Len(d)

\* replayDirFrom without OnDamage: only the last segment may stop short, and
\* only when nothing whole follows (frameAfter).
StrictOk(s) ==
    \A n \in Present(s) :
        LET d == File(s, n).data
            bad == {j \in 1 .. Len(d) : ~IsFrame(d, j)}
        IN  \/ bad = {}
            \/ /\ \A m \in Present(s) : m <= n
               /\ \A j \in 1 .. Len(d) : (\E i \in bad : i <= j) => ~IsFrame(d, j)
               /\ \A i \in bad : (\A j \in bad : i <= j) => d[i] = Torn

\* replayDirFrom with OnDamage (salvageSegment).
Replayed(s) == UNION {{File(s, n).data[j] : j \in Salvaged(File(s, n).data)} : n \in Present(s)}
-----------------------------------------------------------------------------
(* The writer.                                                             *)

HealNot(s) == Ok([s EXCEPT !.torn = 0, !.good = 0])

\* heal: until the torn segment is back at its last whole frame and the rename
\* is durable, nothing is written.
Heal(s) ==
    IF s.torn = 0 THEN Ok(s)
    ELSE LET over == Exists(s, s.torn) /\ Len(File(s, s.torn).data) > s.good
             cut == [ReplaceSegment(s, s.torn, SubSeq(File(s, s.torn).data, 1, s.good)) EXCEPT !.cur = 0]
             Done(t) == Ok([t EXCEPT !.torn = 0, !.good = 0])
         IN  Fail(s) \cup (IF over THEN Fail([s EXCEPT !.cur = 0]) ELSE {})
                     \cup Then(SyncDir(IF over THEN cut ELSE s), Done)

CloseSegmentUnsynced(s) == Ok([s EXCEPT !.cur = 0])

\* closeSegment: the handle is gone whatever the sync says.
CloseSegment(s) ==
    IF s.cur = 0 THEN Ok(s)
    ELSE {[r EXCEPT !.st.cur = 0] : r \in SyncFile(s, s.cur)}

\* openNext: created, named on the platter, and only then current.
OpenNext(s) ==
    LET n == s.seq + 1
        numbered == [s EXCEPT !.seq = n]
        created == [numbered EXCEPT !.disk[n] = [cur |-> [data |-> <<>>, synced |-> 0], old |-> None]]
        Opened(t) == Ok([t EXCEPT !.cur = n])
    IN  IF n \notin Segs THEN {} ELSE Fail(numbered) \cup Then(SyncDir(created), Opened)

RotateForgetting(s) == Then(CloseSegment(s), OpenNext)

\* rotate: a segment that failed to sync is remembered for the next Sync.
Rotate(s) ==
    LET closed == CloseSegment(s)
    IN  {[r EXCEPT !.st.rot = TRUE] : r \in {q \in closed : ~q.ok}}
        \cup Then({q \in closed : q.ok}, OpenNext)

Prepare(s) ==
    LET Open(t) == IF t.cur = 0 THEN OpenNext(t)
                   ELSE IF Len(File(t, t.cur).data) >= MaxBytes THEN Rotate(t)
                   ELSE Ok(t)
    IN  Then(Heal(s), Open)

\* Write: a failed one may leave a partial frame, and is healed at once if the
\* disk allows it.
Write(s, r) ==
    LET n == s.cur
        good == Len(File(s, n).data)
        Failed(t) == {[q EXCEPT !.ok = FALSE] : q \in Heal([t EXCEPT !.torn = n, !.good = good])}
        short == [s EXCEPT !.disk[n].cur.data = Append(@, Torn)]
    IN  Ok([s EXCEPT !.disk[n].cur.data = Append(@, r)])
        \cup UNION {Failed(q.st) : q \in Fail(s) \cup Fail(short)}

AfterWrite(s) == IF s.sync THEN SyncFile(s, s.cur) ELSE Ok(s)

\* takeRotateSyncErr.
TakeRotateErr(s) == {[st |-> [s EXCEPT !.rot = FALSE], ok |-> ~s.rot]}

\* WriteSeries, WriteSamples, WriteSamplesSF, WriteRecords, WriteFrames, WriteSide.
LogRecord(r) ==
    LET WriteIt(s) == Write(s, r)
    IN  /\ up /\ r \notin tried
        /\ tried' = tried \cup {r}
        /\ \E q \in Then(Then(Prepare(st), WriteIt), AfterWrite) :
            /\ st' = q.st
            /\ acked' = IF q.ok THEN acked \cup {r} ELSE acked
            /\ since' = IF q.ok THEN since \cup {r} ELSE since
            /\ promised' = IF q.ok /\ st.sync THEN promised \cup {r} ELSE promised
            /\ unsynced' = (unsynced \/ q.st.rot)
        /\ UNCHANGED <<up, sealed, flushed, gone, losses>>

Promise(ok) == since' = {} /\ promised' = IF ok THEN promised \cup since ELSE promised

\* SegmentWriter.Sync.
SyncLog ==
    LET Current(s) == IF s.cur = 0 THEN Ok(s) ELSE SyncFile(s, s.cur)
    IN  /\ up
        /\ \E q \in Then(Then(Heal(st), TakeRotateErr), Current) : st' = q.st /\ Promise(q.ok)
        /\ UNCHANGED <<up, tried, acked, sealed, flushed, gone, losses, unsynced>>

\* Seal: the boundary of a flush.
Seal ==
    /\ up /\ sealed = 0
    /\ \E q \in Then(Then(Heal(st), CloseSegment), TakeRotateErr) :
        /\ st' = q.st /\ Promise(q.ok)
        /\ sealed' = IF q.ok THEN q.st.seq ELSE 0
        /\ unsynced' = (unsynced \/ ~q.ok)
    /\ UNCHANGED <<up, tried, acked, flushed, gone, losses>>

Logged(s, through) == UNION {{File(s, n).data[j] : j \in DOMAIN File(s, n).data} : n \in {k \in Present(s) : k <= through}} \cap Rec

CheckpointUnsynced(s, through, k) ==
    Ok([s EXCEPT !.disk = [n \in Segs |-> IF n <= k THEN Remove(s, n).disk[n] ELSE @[n]]])

\* CheckpointThrough: the segments up to through are removed one by one; the
\* removal may stop at any of them, and is durable with the directory.
CheckpointThrough(s, through, k) ==
    LET removed == [s EXCEPT !.disk = [n \in Segs |-> IF n <= k THEN Remove(s, n).disk[n] ELSE @[n]]]
    IN  IF k = through THEN SyncDir(removed) ELSE Fail(removed)

\* The flush of what was sealed has committed its part: checkpoint.
Checkpoint ==
    LET Close(s) == IF sealed >= s.seq THEN CloseSegment(s) ELSE Ok(s)
        Discard(s) == UNION {CheckpointThrough(s, sealed, k) : k \in 0 .. sealed}
    IN  /\ up /\ sealed # 0
        /\ flushed' = flushed \cup Logged(st, sealed)
        /\ \E q \in Then(Close(st), Discard) :
            /\ st' = q.st
            /\ gone' = IF q.ok THEN gone \cup Logged(st, sealed) ELSE gone
        /\ sealed' = 0
        /\ UNCHANGED <<up, tried, acked, since, promised, losses, unsynced>>

Down(s) == [s EXCEPT !.cur = 0, !.torn = 0, !.good = 0, !.rot = FALSE]

\* SegmentWriter.Close, which goes on after each failure.
Close ==
    LET Ended(R) == {[r EXCEPT !.st = Down(@)] : r \in R}
        CloseToo(r) == {[q EXCEPT !.ok = @ /\ r.ok /\ ~q.st.rot] : q \in CloseSegment(r.st)}
    IN  /\ up /\ up' = FALSE /\ sealed' = 0
        /\ \E q \in UNION {CloseToo(r) : r \in Heal(st)} :
            /\ st' = Down(q.st) /\ Promise(q.ok)
            /\ unsynced' = (unsynced \/ ~q.ok)
        /\ UNCHANGED <<tried, acked, flushed, gone, losses>>

\* The process dies: what was written stays with the kernel.
Crash ==
    /\ up /\ up' = FALSE /\ sealed' = 0
    /\ st' = Down(st) /\ since' = {}
    /\ unsynced' = (unsynced \/ \E n \in Present(st) : File(st, n).synced < Len(File(st, n).data))
    /\ UNCHANGED <<tried, acked, promised, flushed, gone, losses>>

\* Power is lost: each changed directory entry is the old or the new one, and
\* the frames past the synced prefix of a file may be cut, zero-filled or mixed.
Decayed(f) ==
    IF f = None THEN {None}
    ELSE {[data |-> SubSeq(f.data, 1, f.synced) \o tail, synced |-> f.synced + Len(tail)] :
            tail \in UNION {{t \in [1 .. k -> Unit] : \A i \in 1 .. k : t[i] \in {f.data[f.synced + i], Torn, Bad}} :
                                k \in 0 .. (Len(f.data) - f.synced)}}

AfterLoss[n \in 0 .. MaxSeq] ==
    IF n = 0 THEN {<<>>}
    ELSE {Append(d, f) : d \in AfterLoss[n - 1], f \in Decayed(File(st, n)) \cup Decayed(OnPlatter(st, n))}

PowerLoss ==
    /\ losses < MaxLoss /\ losses' = losses + 1
    /\ up' = FALSE /\ sealed' = 0 /\ since' = {}
    /\ \E d \in AfterLoss[MaxSeq] :
        st' = [Down(st) EXCEPT !.disk = [n \in Segs |-> [cur |-> d[n], old |-> Same]]]
    /\ UNCHANGED <<tried, acked, promised, flushed, gone, unsynced>>

\* repair: only the torn tail of the last segment is cut.
Repair(s) ==
    IF s.seq = 0 THEN Ok(s)
    ELSE LET d == File(s, s.seq).data
             n == ReadEnd(d)
         IN  IF n = Len(d) THEN Ok(s)
             ELSE Fail(s) \cup SyncDir(ReplaceSegment(s, s.seq, SubSeq(d, 1, n)))

\* createFS: numbering resumes after the last segment found; no segment is
\* opened before the first write.
Create ==
    LET last == CHOOSE n \in {0} \cup Present(st) : \A m \in Present(st) : m <= n
    IN  /\ ~up
        /\ \E q \in Repair([st EXCEPT !.seq = last]) : st' = q.st /\ up' = q.ok
        /\ UNCHANGED <<tried, acked, since, promised, sealed, flushed, gone, losses, unsynced>>

Next ==
    \/ \E r \in Rec : LogRecord(r)
    \/ SyncLog \/ Seal \/ Checkpoint \/ Close
    \/ Crash \/ PowerLoss \/ Create

Spec == Init /\ [][Next]_vars
-----------------------------------------------------------------------------
\* The type of the state.
TypeOK ==
    /\ st.seq \in 0 .. MaxSeq /\ st.cur \in 0 .. st.seq /\ st.torn \in 0 .. st.seq
    /\ \A n \in Segs : Exists(st, n) => File(st, n).synced \in 0 .. Len(File(st, n).data)
    /\ since \subseteq acked /\ acked \subseteq tried /\ promised \subseteq acked

\* Without a power loss the log stays strictly replayable whatever writes,
\* heals, rotations and restarts failed, and holds every acknowledged record
\* that no part holds.
AckedKept ==
    losses = 0 => StrictOk(st) /\ acked \subseteq Replayed(st) \cup flushed

\* A record acknowledged under SetSync(true), or before a Sync, Seal or Close that
\* returned nil, survives any power loss.
PromisedKept == promised \subseteq Replayed(st) \cup flushed

Damaged(s, n) == Exists(s, n) /\ \E j \in DOMAIN File(s, n).data : ~IsFrame(File(s, n).data, j)

\* A power loss damages only the segment being appended to, unless an earlier one
\* was left unsynced by a failed sync or a crash: a tear that was healed, or cut
\* at a restart, is never found again in the middle of the log.
TailOnly ==
    losses' # losses /\ ~unsynced =>
     \A m, n \in Present(st') : m < n /\ Damaged(st', m) => Damaged(st, m) \/ File(st', n).data = <<>>

\* Segments whose checkpoint returned nil never come back.
NoResurrection == gone \cap Replayed(st) = {}
=============================================================================
