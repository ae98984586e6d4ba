------------------------------- MODULE MCNode -------------------------------
(* The components of one node, each explored on its own: which says which   *)
(* component this behaviour runs, and the slots hold its variables.         *)
EXTENDS Integers, Sequences, FiniteSets, TLC

CONSTANTS None, Same, Torn, Bad, k1, k2, w1, w2

VARIABLES which, v1, v2, v3, v4, v5, v6, v7, v8, v9, v10, v11, v12, v13, v14, v15   \* the component's variables, in its order

vars == <<which, v1, v2, v3, v4, v5, v6, v7, v8, v9, v10, v11, v12, v13, v14, v15>>

W == INSTANCE Wal WITH Rec <- 1 .. 3, Torn <- Torn, Bad <- Bad, None <- None, Same <- Same,
        MaxSeq <- 4, MaxBytes <- 2, MaxFault <- 1, MaxLoss <- 1, st <- v1, up <- v2,
        tried <- v3, acked <- v4, since <- v5, promised <- v6, sealed <- v7, flushed <- v8,
        gone <- v9, losses <- v10, unsynced <- v11

P == INSTANCE MemPool WITH Caller <- 1 .. 4, Total <- 3, Ask <- {0, 2, 5}, free <- v1,
        waiters <- v2, need <- v3, state <- v4

D == INSTANCE DecodeBudget WITH Reads <- 1 .. 4, ScopeOf <- <<"q", "q", None, None>>,
        Nil <- None, MaxBytes <- 3, Sizes <- {1, 2, 4}, used <- v1, waiters <- v2,
        admitted <- v3, moved <- v4, held <- v5, lock <- v6, need <- v7, pc <- v8

M == INSTANCE MetricsEngine WITH Time <- 1 .. 3, MaxWrite <- 3, MaxPart <- 3, MaxFault <- 1,
        MaxCrash <- 1, OOOWindow <- 1, RecentWindow <- 1, RetainTo <- 2, Concurrent <- TRUE,
        mem <- v1, disk <- v2, flush <- v3, merge <- v4, prune <- v5, retain <- v6,
        written <- v7, last <- v8, up <- v9, lived <- v10, jumped <- v11, faults <- v12,
        crashes <- v13

L == INSTANCE MergeLadder WITH Ladder <- <<2, 4, 8>>,
        FlushRows <- { {0}, {1, 2}, {6, 7}, {-1, 0}, {7, 8, 9} },
        SeriesRange <- { <<0, 1>>, <<0, 9>> }, MaxFlush <- 3, CapBytes <- 6, MaxInputs <- 3,
        SmallRun <- 1, Cutoffs <- {1, 2}, parts <- v1, retain <- v2, idle <- v3, flushed <- v4

F == INSTANCE FileBackend WITH Dir <- {"a", "b"}, Root <- "root",
        Parent <- [a |-> "root", b |-> "a"], Path <- [a |-> {"a"}, b |-> {"a", "b"}],
        Key <- {k1, k2}, Home <- [k \in {k1, k2} |-> "b"], None <- None, Unknown <- Same,
        MaxGen <- 2, MaxTrouble <- 1, Proc <- {w1, w2}, MaxOp <- 3, node <- v1, made <- v2,
        file <- v3, temp <- v4, litter <- v5, sub <- v6, obj <- v7, known <- v8, epoch <- v9,
        proc <- v10, lock <- v11, said <- v12, owed <- v13, ops <- v14, troubles <- v15

E == INSTANCE FileBackend WITH Dir <- {"a", "b"}, Root <- "root",
        Parent <- [a |-> "root", b |-> "a"], Path <- [a |-> {"a"}, b |-> {"a", "b"}],
        Key <- {k1, k2}, Home <- [k \in {k1, k2} |-> "b"], None <- None, Unknown <- Same,
        MaxGen <- 2, MaxTrouble <- 1, Proc <- {"p"}, MaxOp <- 5, node <- v1, made <- v2,
        file <- v3, temp <- v4, litter <- v5, sub <- v6, obj <- v7, known <- v8, epoch <- v9,
        proc <- v10, lock <- v11, said <- v12, owed <- v13, ops <- v14, troubles <- v15

Init ==
    \/ /\ which = "wal" /\ W!Init /\ v12 = 0 /\ v13 = 0 /\ v14 = 0 /\ v15 = 0
    \/ /\ which = "pool" /\ P!Init /\ v5 = 0 /\ v6 = 0 /\ v7 = 0 /\ v8 = 0 /\ v9 = 0 /\ v10 = 0
       /\ v11 = 0 /\ v12 = 0 /\ v13 = 0 /\ v14 = 0 /\ v15 = 0
    \/ /\ which = "budget" /\ D!Init /\ v9 = 0 /\ v10 = 0 /\ v11 = 0 /\ v12 = 0 /\ v13 = 0
       /\ v14 = 0 /\ v15 = 0
    \/ /\ which = "metrics" /\ M!Init /\ v14 = 0 /\ v15 = 0
    \/ /\ which = "ladder" /\ L!Init /\ v5 = 0 /\ v6 = 0 /\ v7 = 0 /\ v8 = 0 /\ v9 = 0
       /\ v10 = 0 /\ v11 = 0 /\ v12 = 0 /\ v13 = 0 /\ v14 = 0 /\ v15 = 0
    \/ /\ which = "files" /\ F!Init
    \/ /\ which = "file" /\ E!Init

Next ==
    \/ /\ which = "wal" /\ W!Next /\ UNCHANGED <<which, v12, v13, v14, v15>>
    \/ /\ which = "pool" /\ P!Next
       /\ UNCHANGED <<which, v5, v6, v7, v8, v9, v10, v11, v12, v13, v14, v15>>
    \/ /\ which = "budget" /\ D!Next /\ UNCHANGED <<which, v9, v10, v11, v12, v13, v14, v15>>
    \/ /\ which = "metrics" /\ M!Next /\ UNCHANGED <<which, v14, v15>>
    \/ /\ which = "ladder" /\ L!Next
       /\ UNCHANGED <<which, v5, v6, v7, v8, v9, v10, v11, v12, v13, v14, v15>>
    \/ /\ which = "files" /\ F!Next /\ UNCHANGED <<which>>
    \/ /\ which = "file" /\ E!Next /\ UNCHANGED <<which>>

Spec == Init /\ [][Next]_vars

\* Nothing tells the two callers of the file backend, or the two keys of its one directory, apart.
Alike == Permutations({k1, k2}) \cup Permutations({w1, w2})
-----------------------------------------------------------------------------
\* The write-ahead log keeps its promise (wal.SegmentWriter): a replay returns every frame whose
\* Sync succeeded, and every frame written when no power was lost, however writes tore, syncs
\* failed and segments rotated; a checkpointed segment never comes back behind a gap; only the last
\* segment of a replay may end in damage.
LogDurable ==
    /\ [](which = "wal" => W!AckedKept /\ W!PromisedKept /\ W!NoResurrection)
    /\ [][which = "wal" => W!TailOnly]_vars

\* The memory pool of the merges (memlimit.Pool) neither loses nor invents bytes when a grant races
\* a cancelled wait, never leaves enough bytes idle for the caller at the head of the queue, and
\* serves callers in the order in which they came.  The decode budget of the reads
\* (engine.DecodeBudget) counts exactly what is reserved, and no read is left waiting when nothing
\* is reserved, or for bytes that its own query holds.
PoolServes ==
    /\ [](which = "pool" => P!Conserved /\ P!NoIdleBytes)
    /\ [](which = "budget" => D!BytesAccounted /\ D!NoneStranded)
    /\ [][which = "pool" => P!InOrder]_vars

\* The metrics engine keeps what it accepted: after flushes, aborts, merges, drops, prunes and a
\* crash with replay every acknowledged sample that retention has not reached is served and its
\* series resolves; the freshest value of a duplicate timestamp is the one served, except where a
\* merge's output was put behind a later part, or where one buffer or part holds the timestamp
\* twice and gives both rows; a read that the recent tier answers misses no timestamp appended or
\* replayed since the process started, while those of parts a restart loaded are not judged; no
\* sample further behind the newest of this life than the out-of-order window is admitted.
SamplesKept ==
    /\ [](which = "metrics" => M!Kept /\ M!Resolvable /\ M!FreshestWins /\ M!RecentCovers)
    /\ [][which = "metrics" => M!NoLateAdmit]_vars

\* Merge selection (pickMergeRun and the bucket ladder), forced or background, takes no more than
\* its bounds allow, leaves no group of mergeable parts unselected for ever and no forced part but
\* one that rests after its last rewrite, makes progress with every merge it performs, and files
\* every output in one bucket of its level.
MergesConverge ==
    /\ [](which = "ladder" => L!SelectionBounded /\ L!NothingStranded)
    /\ [][which = "ladder" => L!MergeProgresses /\ L!OutputsFit]_vars

\* The file backend: what Write, PutIfAbsent, CompareAndSwap, Delete and SyncPrefix reported as
\* done is so after a power cut at any later step, whatever writes, a delete and its prune
\* interleave; and a directory the cache calls durable is on the disk with every directory above
\* it.  Both hold as long as no delete overlaps another delete or an operation on its own key; and
\* of a key whose writes overlap each other only what a later one of its own reports is claimed.
FilesDurable ==
    /\ which = "files" => F!Stored /\ F!KnownDurable
    /\ which = "file" => E!Stored /\ E!KnownDurable
=============================================================================
