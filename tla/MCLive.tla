------------------------------- MODULE MCLive -------------------------------
(* The components whose progress matters, each explored on its own under the*)
(* fairness its scheduling gives it: which says which component this        *)
(* behaviour runs, and the slots hold its variables.                        *)
EXTENDS Integers

CONSTANTS None, r1, r2, s1, n1, n2, p1, p2, p3, p4, p5, p6

VARIABLES which, v1, v2, v3, v4, v5, v6, v7, v8, v9, v10, v11, v12, v13, v14, v15, v16, v17,
          v18, v19, v20, v21, v22, v23, v24, v25, v26, v27   \* the component's variables, in its order

vars == <<which, v1, v2, v3, v4, v5, v6, v7, v8, v9, v10, v11, v12, v13, v14, v15, v16, v17,
          v18, v19, v20, v21, v22, v23, v24, v25, v26, v27>>

R == INSTANCE MCRecordEngineLive WITH Rec <- {r1, r2}, Stream <- {s1},
        StreamOf <- [r \in {r1, r2} |-> s1], Part <- {p1, p2, p3, p4, p5, p6}, Expirable <- {},
        Unsyncable <- {}, Rejecting <- {}, MaxEpoch <- 8, MaxSeq <- 6, MaxFaults <- 2,
        log <- v1, ids <- v2, index <- v3, limbo <- v4, rows <- v5, objects <- v6, sent <- v7,
        acked <- v8, expired <- v9, up <- v10, head <- v11, buf <- v12, flushing <- v13,
        parts <- v14, pending <- v15, indexed <- v16, removals <- v17, foreign <- v18,
        synced <- v19, flushedEpoch <- v20, walSeq <- v21, walEpoch <- v22, segEpoch <- v23,
        retiring <- v24, flush <- v25, merge <- v26, faults <- v27

S == INSTANCE SharedIndex WITH Node <- {n1, n2}, Part <- {p1}, MaxTerm <- 2, MaxLost <- 1,
        MaxRestart <- 0, Late <- TRUE, Clustered <- TRUE, Attempts <- 2, owner <- v1,
        lastTerm <- v2, term <- v3, index <- v4, limbo <- v5, objects <- v6, covers <- v7,
        ver <- v8, gen <- v9, view <- v10, established <- v11, flush <- v12, merge <- v13,
        com <- v14, retired <- v15, lastStamp <- v16, lost <- v17, restarts <- v18

P == INSTANCE MemPool WITH Caller <- 1 .. 3, Total <- 3, Ask <- {0, 2, 5}, free <- v1,
        waiters <- v2, need <- v3, state <- v4

D == INSTANCE DecodeBudget WITH Reads <- 1 .. 3, ScopeOf <- <<"q", "q", None>>, Nil <- None,
        MaxBytes <- 3, Sizes <- {2, 4}, used <- v1, waiters <- v2, admitted <- v3, moved <- v4,
        held <- v5, lock <- v6, need <- v7, pc <- v8

Init ==
    \/ /\ which = "record" /\ R!LiveInit
    \/ /\ which = "shared" /\ S!Init /\ v19 = 0 /\ v20 = 0 /\ v21 = 0 /\ v22 = 0 /\ v23 = 0
       /\ v24 = 0 /\ v25 = 0 /\ v26 = 0 /\ v27 = 0
    \/ /\ which = "pool" /\ P!Init /\ v5 = 0 /\ v6 = 0 /\ v7 = 0 /\ v8 = 0 /\ v9 = 0 /\ v10 = 0
       /\ v11 = 0 /\ v12 = 0 /\ v13 = 0 /\ v14 = 0 /\ v15 = 0 /\ v16 = 0 /\ v17 = 0 /\ v18 = 0
       /\ v19 = 0 /\ v20 = 0 /\ v21 = 0 /\ v22 = 0 /\ v23 = 0 /\ v24 = 0 /\ v25 = 0 /\ v26 = 0
       /\ v27 = 0
    \/ /\ which = "budget" /\ D!Init /\ v9 = 0 /\ v10 = 0 /\ v11 = 0 /\ v12 = 0 /\ v13 = 0
       /\ v14 = 0 /\ v15 = 0 /\ v16 = 0 /\ v17 = 0 /\ v18 = 0 /\ v19 = 0 /\ v20 = 0 /\ v21 = 0
       /\ v22 = 0 /\ v23 = 0 /\ v24 = 0 /\ v25 = 0 /\ v26 = 0 /\ v27 = 0

Next ==
    \/ /\ which = "record" /\ R!LiveNext /\ UNCHANGED <<which>>
    \/ /\ which = "shared" /\ S!Next
       /\ UNCHANGED <<which, v19, v20, v21, v22, v23, v24, v25, v26, v27>>
    \/ /\ which = "pool" /\ P!Next
       /\ UNCHANGED <<which, v5, v6, v7, v8, v9, v10, v11, v12, v13, v14, v15, v16, v17,
              v18, v19, v20, v21, v22, v23, v24, v25, v26, v27>>
    \/ /\ which = "budget" /\ D!Next
       /\ UNCHANGED <<which, v9, v10, v11, v12, v13, v14, v15, v16, v17, v18, v19, v20,
              v21, v22, v23, v24, v25, v26, v27>>

Spec ==
    /\ Init /\ [][Next]_vars
    /\ WF_vars(which = "record" /\ R!FlushProgress /\ UNCHANGED v27 /\
        UNCHANGED <<which>>)
    /\ WF_vars(which = "record" /\ R!MergeProgress /\ UNCHANGED v27 /\
        UNCHANGED <<which>>)
    /\ WF_vars(which = "record" /\ R!Recover /\ UNCHANGED v27 /\
        UNCHANGED <<which>>)
    /\ \A n \in {n1, n2} : WF_vars(which = "shared" /\ S!Progress(n) /\
        UNCHANGED <<which, v19, v20, v21, v22, v23, v24, v25, v26, v27>>)
    /\ \A c \in 1 .. 3 : WF_vars(which = "pool" /\ P!Wake(c) /\
        UNCHANGED <<which, v5, v6, v7, v8, v9, v10, v11, v12, v13, v14, v15, v16, v17,
              v18, v19, v20, v21, v22, v23, v24, v25, v26, v27>>)
    /\ \A c \in 1 .. 3 : WF_vars(which = "pool" /\ P!Put(c) /\
        UNCHANGED <<which, v5, v6, v7, v8, v9, v10, v11, v12, v13, v14, v15, v16, v17,
              v18, v19, v20, v21, v22, v23, v24, v25, v26, v27>>)
    /\ \A r \in 1 .. 3 : WF_vars(which = "budget" /\ D!Driven(r) /\
        UNCHANGED <<which, v9, v10, v11, v12, v13, v14, v15, v16, v17, v18, v19, v20,
              v21, v22, v23, v24, v25, v26, v27>>)
-----------------------------------------------------------------------------
\* Every acknowledged batch reaches a part the stored index names: a flush
\* whose commit was not confirmed is carried by a later commit, if need be by
\* the one a merge makes for parts without a committed identity.
EventuallyCommitted == \A r \in {r1, r2} : (which = "record" /\ r \in v8) ~> (which = "record" /\ r \in R!RowsIn(v3.parts))

\* One attempt per operation is enough: a node that keeps its claim ends up
\* with an established tenure, whatever conflicts, lost responses and fenced
\* reads of the claim its establishing commits met.
EventuallyEstablished ==
    \A n \in {n1, n2} : <>[](which = "shared" /\ v3[n] # 0) => <>[](which = "shared" /\ v11[n] = v3[n])

\* Every caller that waits for memory is served or gives up: of the merges' pool, however large its
\* request, once what others hold is given back; of the reads' budget even when nothing ever is, for
\* the head of that queue is never told to wait again (Pool.Acquire, DecodeBudget.forceAdmit).
Answered ==
    /\ \A c \in 1 .. 3 : (which = "pool" /\ P!Waiting(c)) ~> (which = "pool" /\ ~P!Waiting(c))
    /\ \A r \in 1 .. 3 : (which = "budget" /\ v8[r] = "waiting") ~> (which = "budget" /\ v8[r] # "waiting")
=============================================================================
