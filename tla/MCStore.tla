------------------------------ MODULE MCStore -------------------------------
(* The components of the record store, each explored on its own: which says *)
(* which component this behaviour runs, and the slots hold its variables.   *)
EXTENDS Integers, Sequences, FiniteSets, TLC

CONSTANTS None, Junk, Absent

VARIABLES which, v1, v2, v3, v4, v5, v6, v7, v8, v9, v10, v11, v12, v13, v14, v15, v16, v17,
          v18, v19   \* the component's variables, in its order

vars == <<which, v1, v2, v3, v4, v5, v6, v7, v8, v9, v10, v11, v12, v13, v14, v15, v16, v17,
          v18, v19>>

Opt(k, w, v, s) == [kind |-> k, writer |-> w, variable |-> v, sizing |-> s]

PartOptions ==
    { Opt("int", "stream", FALSE, FALSE), Opt("int", "stream", TRUE, TRUE), Opt("int", "legacy", FALSE, FALSE),
      Opt("auto", "stream", FALSE, TRUE), Opt("auto", "kept", TRUE, TRUE), Opt("raw", "whole", FALSE, FALSE),
      Opt("dict", "stream", FALSE, TRUE), Opt("dict", "kept", FALSE, FALSE), Opt("dict", "whole", FALSE, TRUE) }

B == INSTANCE BlockPart WITH Granule <- 2, FrameBytes <- 6, DictCap <- 4, MaxEntries <- 2,
        Narrow <- 1, Probe <- 6, Nan <- 5, Value <- {1, 5}, MaxRows <- 5, MaxChunk <- 2,
        Window <- 7, Option <- PartOptions, opt <- v1, vals <- v2, col <- v3, pc <- v4,
        built <- v5, store <- v6, fault <- v7, dec <- v8, out <- v9

DictSources ==
    { [shared |-> TRUE, entries |-> <<1, 2>>, ids |-> <<1, 1>>],
      [shared |-> TRUE, entries |-> <<1, 2>>, ids |-> <<2, 1>>],
      [shared |-> FALSE, entries |-> <<2>>, ids |-> <<1, 1>>] }

D == INSTANCE DictColumn WITH Granule <- 2, FrameBytes <- 6, DictCap <- 4, MaxEntries <- 2,
        Narrow <- 1, Probe <- 6, Nan <- 5, Value <- {1, 2}, Source <- DictSources,
        MaxAppend <- 6, MaxDecode <- 3, GenWrap <- 3, rows <- v1, sealed <- v2, d <- v3,
        g <- v4, gen <- v5, epoch <- v6, gOfD <- v7, bnd <- v8, src <- v9, held <- v10,
        self <- v11, out <- v12

InRows(s, l, h) == [s |-> s, lo |-> l, hi |-> h]

MergeLayouts ==
    { [rows |-> << <<1, 1>>, <<1, 3>>, <<2, 1>> >>, ranges |-> <<InRows(1, 1, 2), InRows(2, 3, 3)>>, sized |-> TRUE],
      [rows |-> << <<1, 1>>, <<1, 2>>, <<2, 3>>, <<2, 1>> >>, ranges |-> <<InRows(1, 1, 2), InRows(2, 3, 4)>>,
       sized |-> FALSE],
      [rows |-> << <<2, 2>>, <<1, 3>>, <<2, 1>> >>,
       ranges |-> <<InRows(1, 2, 2), InRows(2, 1, 1), InRows(2, 3, 3)>>, sized |-> FALSE],
      [rows |-> << <<1, 1>>, <<1, 0>>, <<1, 5>>, <<2, 4>> >>, ranges |-> <<InRows(1, 1, 3), InRows(2, 4, 4)>>, sized |-> TRUE] }

M == INSTANCE RecordMerge WITH Layout <- MergeLayouts, Ladder <- <<2, 4>>, Granule <- 2,
        RunBytes <- 2, PartCap <- 8, MaxInputs <- 3, IdleRounds <- 1, SmallRun <- 1,
        MaxOpen <- 2, Share <- 3, Total <- 7, Cutoffs <- {2}, MaxFlush <- 2, MaxFault <- 1,
        MaxReload <- 1, parts <- v1, retain <- v2, idle <- v3, feedback <- v4, stored <- v5,
        next <- v6, faults <- v7, reloads <- v8, pc <- v9, wait <- v10, sel <- v11,
        trash <- v12, mine <- v13, other <- v14, a <- v15, futile <- v16, unknown <- v17

FetchRows ==
    << [id |-> 1, s |-> 1, t |-> 2, c |-> "x"], [id |-> 2, s |-> 2, t |-> 2, c |-> "x y"],
       [id |-> 3, s |-> 1, t |-> 1, c |-> Absent], [id |-> 4, s |-> 2, t |-> 3, c |-> "x"] >>

FetchWords ==
    [v \in {"x", "x y", "", "y", Absent, Junk} |->
        CASE v = "x" -> {"x"} [] v = "y" -> {"y"} [] v = "x y" -> {"x", "y"} [] OTHER -> {}]

Condition(mode, equal, any, tokens, match) ==
    [mode |-> mode, equal |-> equal, any |-> any, tokens |-> tokens, match |-> match]

FetchOf(streams, start, conds, limit, reverse, second) ==
    [streams |-> streams, start |-> start, end |-> IF streams = {1} THEN 1 ELSE 3, conds |-> conds,
     limit |-> limit, reverse |-> reverse, second |-> second]

FetchRequests ==
    { FetchOf({1, 2}, 1, {}, 0, FALSE, {1, 2}), FetchOf({1}, 1, {}, 0, FALSE, {1, 2}),
      FetchOf({2}, 2, {Condition("equality", "x", {}, {}, {"x"})}, 0, FALSE, {1}),
      FetchOf({1, 2}, 2, {Condition("equality", None, {"x", "z"}, {}, {"x"})}, 0, FALSE, {1, 2}),
      FetchOf({1, 2}, 1, {Condition("fulltext", "x y", {}, {"x", "y"}, {"x y"})}, 0, FALSE, {1, 2}),
      FetchOf({1, 2}, 1, {Condition("attrs", None, {}, {}, {Absent, "x y"})}, 1, TRUE, {1, 2}),
      FetchOf({1, 2}, 1, {Condition("attrs", None, {}, {"y"}, {"x y"})}, 0, TRUE, {1, 2}),
      FetchOf({1, 2}, 1, {}, 1, TRUE, {1, 2}), FetchOf({1, 2}, 1, {}, 2, FALSE, {1, 2}),
      FetchOf({1, 2}, 1, {}, 1, TRUE, {1}) }

F == INSTANCE RecordFetch WITH Record <- FetchRows, Request <- FetchRequests,
        Words <- FetchWords, Granule <- 2, MaxPart <- 3, Budget <- 3, appended <- v1,
        head <- v2, flushing <- v3, parts <- v4, retiring <- v5, written <- v6, reserved <- v7,
        rd <- v8

SymbolsA ==
    [strings |-> <<"", "f", "g", "a.go">>, mappings |-> <<[start |-> 0, file |-> 0]>>,
     functions |-> <<[name |-> 1, sys |-> 1, file |-> 3], [name |-> 2, sys |-> 2, file |-> 3]>>,
     locations |-> <<[mapping |-> 0, lines |-> <<[fn |-> 0, line |-> 1]>>],
                     [mapping |-> 0, lines |-> <<[fn |-> 1, line |-> 2], [fn |-> 0, line |-> 3]>>]>>,
     stacks |-> <<<<0>>, <<1, 7, 0>>>>]

SymbolsB ==
    [strings |-> <<"", "g", "h">>, mappings |-> <<[start |-> 0, file |-> 0], [start |-> 7, file |-> 2]>>,
     functions |-> <<[name |-> 1, sys |-> 1, file |-> 9]>>,
     locations |-> <<[mapping |-> 1, lines |-> <<[fn |-> 0, line |-> 2], [fn |-> 5, line |-> 4]>>]>>,
     stacks |-> <<<<0, 3>>>>]

SideSources ==
    << [dict |-> SymbolsA, stack |-> 0], [dict |-> SymbolsA, stack |-> 1], [dict |-> SymbolsB, stack |-> 0] >>

SideSetups ==
    { [mode |-> "plain", rows |-> {2, 3}], [mode |-> "logged", rows |-> {1, 2}],
      [mode |-> "clustered", rows |-> {1, 2}] }

S == INSTANCE SideStore WITH Row <- 1 .. 3, Source <- SideSources,
        Window <- {<<0, 0>>, <<2, 2>>}, Setup <- SideSetups, MaxPart <- 3, MaxFault <- 1,
        MaxRead <- 1, None <- None, head <- v1, acc <- v2, absorbed <- v3, stray <- v4,
        flushing <- v5, fside <- v6, sealed <- v7, part <- v8, stored <- v9, live <- v10,
        view <- v11, retiring <- v12, log <- v13, skip <- v14, todo <- v15, rd <- v16,
        mode <- v17, faults <- v18, reads <- v19

Init ==
    \/ /\ which = "block" /\ B!Init /\ v10 = 0 /\ v11 = 0 /\ v12 = 0 /\ v13 = 0 /\ v14 = 0
       /\ v15 = 0 /\ v16 = 0 /\ v17 = 0 /\ v18 = 0 /\ v19 = 0
    \/ /\ which = "dict" /\ D!Init /\ v13 = 0 /\ v14 = 0 /\ v15 = 0 /\ v16 = 0 /\ v17 = 0
       /\ v18 = 0 /\ v19 = 0
    \/ /\ which = "merge" /\ M!Init /\ v18 = 0 /\ v19 = 0
    \/ /\ which = "fetch" /\ F!Init /\ v9 = 0 /\ v10 = 0 /\ v11 = 0 /\ v12 = 0 /\ v13 = 0
       /\ v14 = 0 /\ v15 = 0 /\ v16 = 0 /\ v17 = 0 /\ v18 = 0 /\ v19 = 0
    \/ /\ which = "side" /\ S!Init

Next ==
    \/ /\ which = "block" /\ B!Next
       /\ UNCHANGED <<which, v10, v11, v12, v13, v14, v15, v16, v17, v18, v19>>
    \/ /\ which = "dict" /\ D!Next /\ UNCHANGED <<which, v13, v14, v15, v16, v17, v18, v19>>
    \/ /\ which = "merge" /\ M!Next /\ UNCHANGED <<which, v18, v19>>
    \/ /\ which = "fetch" /\ F!Next
       /\ UNCHANGED <<which, v9, v10, v11, v12, v13, v14, v15, v16, v17, v18, v19>>
    \/ /\ which = "side" /\ S!Next /\ UNCHANGED <<which>>

Spec == Init /\ [][Next]_vars
-----------------------------------------------------------------------------
\* A part is whole or absent in the face of crashes and failed writes, its manifest is always one
\* the reader accepts, reads and scans of any range return exactly the rows written whichever
\* writer wrote them, and marks never hide a granule that holds a row in range.
PartsExact ==
    which = "block" => B!PartWhole /\ B!ManifestAccepted /\ B!ReadsExact /\ B!ScanExact /\ B!PruningSafe

\* A bytes column rewritten from decoded granules holds exactly the values appended, though
\* granules are overwritten and generations wrap between the decode and the append, and its sizing
\* observer sees each value once.
DictExact ==
    which = "dict" => D!RowsKept /\ D!ObservedOnce

\* A record merge publishes its sources' live rows, each once and in order, with marks that cover
\* them, and leaves no object behind whether it ends well, retries after disorder, fails, or cannot
\* tell whether its commit landed.
MergeExact ==
    which = "merge" => M!MergedExact /\ M!MarksExact /\ M!NothingLeft

\* A record merge never waits for memory that it holds itself, stays within what it reserved, gives
\* everything back on every way out, and does not repeat a merge that reduced nothing.
MergeWithinMemory ==
    which = "merge" => M!GrantReturned /\ M!NeverSelfBlocked /\ M!PeakBounded /\ M!NoFutileRepeat

\* A record fetch without a limit returns the matching rows of one moment, though flushes, aborts,
\* merges and reclaims run beside it; one with a limit leaves out no row that is among the first of
\* those that match, which is before the second pass rejects any, so with a second pass it may
\* return fewer rows than the limit although more survive; parts it reads outlive it; its memory
\* goes back; listings made during a flush miss nothing.
FetchExact ==
    which = "fetch" => F!SnapshotExact /\ F!LimitSuperset /\ F!PinnedKept /\ F!BudgetReturned /\ F!ListingsComplete

\* Profile symbols: a read of the symbols over a window resolves every row a fetch over that window
\* returned, at the owner or a replica, to exactly the frames its client sent, whatever flush,
\* abort, merge, retention or reclaim came between its snapshot and its last load; except that the
\* rows of a part the owner deletes under a replica's read, which its pins do not hold, may resolve
\* to nothing.  Every part resolves alone, and a flush writes no symbols of rows that were refused.
SymbolsResolve ==
    which = "side" => S!ReadResolves /\ S!SelfContained /\ S!NoStrays
=============================================================================
