------------------------- MODULE MCRecordEngineLive -------------------------
(***************************************************************************)
(* Progress of RecordEngine under a bounded number of faults.              *)
(*                                                                         *)
(* The maintenance loop of storage.go runs flush and merge of every engine *)
(* at each tick, so the steps of both are weakly fair; ingest, the clock   *)
(* and faults are not.  A fault is a crash, an aborted or unsealed flush,  *)
(* or a commit that is not confirmed.                                      *)
(***************************************************************************)
EXTENDS RecordEngine
CONSTANTS MaxFaults, r1, r2, s1, p1, p2, p3, p4, p5, p6
VARIABLE faults

OneStream == [r \in Rec |-> s1]

\* Prefixes are interchangeable, so they are minted in one fixed order.
NextPart == CHOOSE p \in Part : p \notin Minted

FlushProgress ==
    \/ FlushBegin /\ flush'.pc = "build"
    \/ flush.pc = "abort" /\ AbortFlush
    \/ FlushNothing \/ FlushCheckpoint \/ FlushReclaim
    \/ Part # Minted /\ \E S \in SUBSET flush.left : FlushPart(NextPart, S)
    \/ PublishFlush("landed")

\* The merge as far as commits go: rewriting parts mints prefixes without
\* end and is left to the safety runs.
MergeProgress ==
    \/ MergeBegin /\ merge'.pc # "idle"
    \/ MergeSelect({}) \/ MergeReclaim

Fault ==
    \/ Crash
    \/ flush.pc = "build" /\ AbortFlush
    \/ FlushBegin /\ flush'.pc = "abort"
    \/ PublishFlush("unknown") \/ PublishFlush("failed")
    \/ MergeBegin /\ merge'.pc = "idle"

LiveInit == Init /\ faults = 0

LiveNext ==
    \/ /\ \/ \E r \in Rec : AppendBatch(r, FALSE)
          \/ FlushProgress \/ MergeProgress \/ Recover
          \/ \E ix \in limbo : LandLate(ix)
       /\ UNCHANGED faults
    \/ faults < MaxFaults /\ Fault /\ faults' = faults + 1

LiveSpec ==
    /\ LiveInit /\ [][LiveNext]_<<vars, faults>>
    /\ WF_<<vars, faults>>(FlushProgress /\ UNCHANGED faults)
    /\ WF_<<vars, faults>>(MergeProgress /\ UNCHANGED faults)
    /\ WF_<<vars, faults>>(Recover /\ UNCHANGED faults)

\* Every acknowledged batch reaches a part the stored index names: a flush
\* whose commit was not confirmed is carried by a later commit, if need be by
\* the one a merge makes for parts without a committed identity.
EventuallyCommitted == \A r \in Rec : r \in acked ~> r \in RowsIn(index.parts)
=============================================================================
