------------------------- MODULE RecordEngineProofs -------------------------
(***************************************************************************)
(* Proofs about RecordEngine, for any sets of batches, streams and parts   *)
(* and any bounds.                                                         *)
(***************************************************************************)
EXTENDS RecordEngine, TLAPS

\* The index that is stored and every unconfirmed write that may replace it.
Candidates == limbo \cup {index}

\* A process that is down remembers nothing, and a merge has outputs only
\* from its build on.
PhaseInv ==
    /\ ~up => /\ head = {} /\ buf = {} /\ flushing = {}
              /\ parts = {} /\ pending = {} /\ retiring = {}
              /\ flush = NoFlush /\ merge = NoMerge
    /\ merge.pc \in {"idle", "drop", "select"} => merge.outs = {}

\* Every entry a candidate index names is accounted for by the bookkeeping
\* the next commit is diffed against, so none reads as a rival's.
AccountInv ==
    /\ foreign = {}
    /\ up => \A ix \in Candidates : ix.parts \subseteq indexed \cup removals

\* A prefix is used only once it is minted, which keeps new ones fresh.
MintedInv ==
    /\ parts \subseteq Minted /\ retiring \subseteq Minted
    /\ flush.outs \subseteq Minted /\ merge.outs \subseteq Minted
    /\ merge.pins \subseteq Minted /\ merge.src \subseteq merge.pins
    /\ \A ix \in Candidates : ix.parts \subseteq Minted

\* What may be deleted is apart from what is named, served or being built.
ApartInv ==
    /\ retiring \cap parts = {} /\ merge.outs \cap parts = {}
    /\ merge.outs \cap retiring = {} /\ merge.outs \cap merge.pins = {}
    /\ \A ix \in Candidates : ix.parts \cap (retiring \cup merge.outs) = {}
    /\ flush.pc = "build" =>
          /\ flush.outs \cap (parts \cup retiring \cup merge.outs \cup merge.pins) = {}
          /\ \A ix \in Candidates : ix.parts \cap flush.outs = {}

\* The objects of what is named, served or about to be are there.
PresentInv ==
    /\ parts \subseteq objects
    /\ \A ix \in Candidates : ix.parts \subseteq objects
    /\ flush.pc = "build" => flush.outs \subseteq objects
    /\ merge.pc = "build" => merge.outs \subseteq objects

\* The generations: new frames are above every watermark that could be found
\* after a crash, and watermarks only move forward.
EpochInv ==
    /\ \A ix \in limbo : index.epoch <= ix.epoch
    /\ up => /\ \A ix \in Candidates : ix.epoch <= flushedEpoch
             /\ flushedEpoch < walEpoch
             /\ segEpoch # 0 => flushedEpoch < segEpoch
    /\ flush.pc = "build" => /\ flushedEpoch < flush.epoch
                             /\ flush.epoch < walEpoch
                             /\ segEpoch # 0 => flush.epoch < segEpoch

SafeInv == TypeOK /\ PhaseInv /\ AccountInv /\ MintedInv /\ ApartInv /\ PresentInv /\ EpochInv
-----------------------------------------------------------------------------
LEMMA TypeInit == Init => TypeOK
BY BoundsType DEF Init, TypeOK, Index, NoFlush, NoMerge, FlushPC, MergePC

\* The index a commit builds, and the bookkeeping it leaves, are well typed.
LEMMA CommitType ==
    ASSUME TypeOK, NEW next \in SUBSET Part, NEW epoch \in Nat, NEW out \in Outcome,
           CommitIndex(next, epoch, out)
    PROVE  /\ index' \in Index /\ limbo' \subseteq Index
           /\ indexed' \subseteq Part /\ removals' \subseteq Part
           /\ foreign' \subseteq Part /\ synced' \in BOOLEAN
<1>1. NextRemovals(next) \subseteq Part
  BY Zenon DEF NextRemovals, TypeOK
<1>2. AdoptIndex(next) \subseteq Part
  BY Zenon DEF AdoptIndex, ForeignEntries, TypeOK, Index
<1>3. NextIndex(next, epoch) \in Index
  BY <1>1, <1>2, Zenon DEF NextIndex, Index
<1> QED BY <1>1, <1>2, <1>3, Zenon DEF CommitIndex, Save, TypeOK

LEMMA TypeStep == TypeOK /\ [Next]_vars => TypeOK'
<1> SUFFICES ASSUME TypeOK, [Next]_vars PROVE TypeOK'
  BY Zenon
<1> USE StreamOfType, InputsType, BoundsType
<1>1. ASSUME NEW r \in Rec, NEW rotate \in BOOLEAN, AppendBatch(r, rotate) PROVE TypeOK'
  BY <1>1 DEF AppendBatch, LogBatch, WriteSeries, Prepare, store, commitVars, TypeOK, Frame, IdFrame
<1>2. ASSUME NEW r \in Unsyncable, AppendUnsynced(r) PROVE TypeOK'
  BY <1>2 DEF AppendUnsynced, LogBatch, WriteSeries, Prepare, store, commitVars, TypeOK, Frame, IdFrame
<1>3. ASSUME NEW s \in Rejecting, RejectBatch(s) PROVE TypeOK'
  BY <1>3 DEF RejectBatch, WriteSeries, Prepare, history, store, commitVars, TypeOK, Frame, IdFrame
<1>4. CASE FlushBegin
  BY <1>4 DEF FlushBegin, FlushStep, Seal, SealFailed, Max2, history, store, commitVars, TypeOK, FlushPC
<1>5. CASE FlushNothing
  BY <1>5, Zenon DEF FlushNothing, FlushStep, NoFlush, history, logVars, headVars, store, commitVars, TypeOK, FlushPC
<1>6. CASE AbortFlush
  BY <1>6 DEF AbortFlush, FlushStep, NoFlush, StreamsOf, history, logVars, store, commitVars, TypeOK, FlushPC
<1>7. ASSUME NEW p \in Part, NEW S \in SUBSET Rec, FlushPart(p, S) PROVE TypeOK'
  BY <1>7, Zenon DEF FlushPart, FlushStep, WritePart, history, logVars, headVars, commitVars, TypeOK
<1>8. ASSUME NEW out \in Outcome, PublishFlush(out) PROVE TypeOK'
  <2>1. FlushNext \subseteq Part /\ FlushEpoch \in Nat
    BY Zenon DEF FlushNext, FlushEpoch, Max2, TypeOK
  <2>2. CommitIndex(FlushNext, FlushEpoch, out)
    BY <1>8, Zenon DEF PublishFlush
  <2> QED BY <1>8, <2>1, <2>2, CommitType, Zenon
          DEF PublishFlush, FlushStep, NoFlush, history, logVars, store, TypeOK, FlushPC
<1>9. CASE FlushCheckpoint
  BY <1>9, Zenon DEF FlushCheckpoint, CheckpointThrough, FlushStep, NoFlush, history, headVars, store, commitVars, TypeOK, FlushPC
<1>10. CASE FlushReclaim
  BY <1>10, Zenon DEF FlushReclaim, ReclaimRetired, DeleteParts, FlushStep, NoFlush, history, logVars, headVars, commitVars, TypeOK, FlushPC
<1>11. CASE MergeBegin
  <2> DEFINE plan == [NoMerge EXCEPT !.pc = IF Emptied(parts, expired) = {} THEN "select" ELSE "drop",
                                   !.cut = expired, !.pins = parts]
  <2>1. /\ MergeStep /\ UNCHANGED store
        /\ \/ merge' = plan /\ UNCHANGED <<commitVars, parts, pending, retiring>>
           \/ \E out \in Outcome : /\ MergeCommit(parts, {}, out)
                                   /\ merge' = IF out = "landed" THEN plan ELSE NoMerge
    BY <1>11, Zenon DEF MergeBegin
  <2>2. /\ plan \in [pc : MergePC, cut : SUBSET Rec, pins : SUBSET Part, src : SUBSET Part,
                     left : SUBSET Rec, outs : SUBSET Part]
        /\ NoMerge \in [pc : MergePC, cut : SUBSET Rec, pins : SUBSET Part, src : SUBSET Part,
                        left : SUBSET Rec, outs : SUBSET Part]
    BY Zenon DEF NoMerge, MergePC, TypeOK
  <2> HIDE DEF plan
  <2>3. CASE merge' = plan /\ UNCHANGED <<commitVars, parts, pending, retiring>>
    BY <2>1, <2>2, <2>3, Zenon DEF MergeStep, history, logVars, headVars, store, commitVars, TypeOK
  <2>4. ASSUME NEW out \in Outcome, MergeCommit(parts, {}, out),
               merge' = IF out = "landed" THEN plan ELSE NoMerge
        PROVE  TypeOK'
    <3>1. CommitIndex(parts, flushedEpoch, out) /\ parts \subseteq Part /\ flushedEpoch \in Nat
      BY <2>4, Zenon DEF MergeCommit, TypeOK
    <3> QED BY <2>1, <2>2, <2>4, <3>1, CommitType, Zenon DEF MergeCommit, MergeStep, history, logVars, headVars, store, TypeOK
  <2> QED BY <2>1, <2>3, <2>4, Zenon
<1>12. CASE DropExpired
  <2> DEFINE gone == Emptied(merge.pins, merge.cut)
  <2>1. PICK out \in Outcome :
            /\ MergeCommit(parts \ gone, gone, out)
            /\ merge' = IF out = "landed" THEN [merge EXCEPT !.pc = "select"] ELSE EndMerge({})
    BY <1>12, Zenon DEF DropExpired
  <2>2. MergeStep /\ UNCHANGED store
    BY <1>12, Zenon DEF DropExpired
  <2>3. gone \subseteq Part
    BY Zenon DEF Emptied, TypeOK
  <2>4. CommitIndex(parts \ gone, flushedEpoch, out) /\ parts \ gone \subseteq Part /\ flushedEpoch \in Nat
    BY <2>1, Zenon DEF MergeCommit, TypeOK
  <2> HIDE DEF gone
  <2> QED BY <2>1, <2>2, <2>3, <2>4, CommitType, Zenon
          DEF MergeCommit, MergeStep, EndMerge, NoMerge, MergePC, history, logVars, headVars, store, TypeOK
<1>13. ASSUME NEW src \in SUBSET Part, MergeSelect(src) PROVE TypeOK'
  <2>1. RowsIn(src) \subseteq Rec
    BY DEF RowsIn, TypeOK
  <2> QED BY <1>13, <2>1, Zenon DEF MergeSelect, MergeStep, EndMerge, NoMerge, MergePC, history, logVars, headVars, store, commitVars, TypeOK
<1>14. ASSUME NEW p \in Part, NEW S \in SUBSET Rec, MergePart(p, S) PROVE TypeOK'
  BY <1>14, Zenon DEF MergePart, MergeStep, WritePart, history, logVars, headVars, commitVars, TypeOK
<1>15. CASE MergeAbandon
  BY <1>15, Zenon DEF MergeAbandon, MergeStep, EndMerge, NoMerge, MergePC, history, logVars, headVars, store, commitVars, TypeOK
<1>16. CASE MergePublish
  <2> DEFINE next == (parts \ merge.src) \cup merge.outs
  <2>1. PICK out \in Outcome :
            /\ MergeCommit(next, merge.src, out)
            /\ merge' = EndMerge(IF MayHaveLanded(out) THEN {} ELSE merge.outs)
    BY <1>16, Zenon DEF MergePublish
  <2>2. MergeStep /\ UNCHANGED store
    BY <1>16, Zenon DEF MergePublish
  <2>3. CommitIndex(next, flushedEpoch, out) /\ next \subseteq Part /\ flushedEpoch \in Nat
    BY <2>1, Zenon DEF MergeCommit, TypeOK
  <2> HIDE DEF next
  <2> QED BY <2>1, <2>2, <2>3, CommitType, Zenon
          DEF MergeCommit, MergeStep, EndMerge, NoMerge, MergePC, history, logVars, headVars, store, TypeOK
<1>17. CASE MergeReclaim
  BY <1>17, Zenon DEF MergeReclaim, ReclaimRetired, DeleteParts, MergeStep, NoMerge, MergePC, history, logVars, headVars, commitVars, TypeOK
<1>18. ASSUME NEW r \in Expirable, Expire(r) PROVE TypeOK'
  BY <1>18, Zenon DEF Expire, logVars, headVars, store, commitVars, TypeOK
<1>19. ASSUME NEW ix \in limbo, LandLate(ix) PROVE TypeOK'
  BY <1>19, Zenon DEF LandLate, history, logVars, headVars, store, TypeOK
<1>20. CASE Crash
  <2>1. /\ NoFlush \in [pc : FlushPC, epoch : Nat, seq : Nat, left : SUBSET Rec, outs : SUBSET Part]
        /\ NoMerge \in [pc : MergePC, cut : SUBSET Rec, pins : SUBSET Part, src : SUBSET Part,
                        left : SUBSET Rec, outs : SUBSET Part]
    BY Zenon DEF NoFlush, NoMerge, FlushPC, MergePC
  <2>2. UNCHANGED <<sent, acked, expired, log, ids, rows, objects, index, limbo>>
    BY <1>20, Zenon DEF Crash, history, store
  <2>3. synced' \in BOOLEAN
    BY <1>20, Zenon DEF Crash
  <2>4. up' \in BOOLEAN
    BY <1>20, Zenon DEF Crash
  <2>5. walSeq' \in Nat /\ walEpoch' \in Nat \ {0} /\ segEpoch' \in Nat /\ flushedEpoch' \in Nat
    BY <1>20 DEF Crash
  <2>6. flush' = NoFlush /\ merge' = NoMerge
    BY <1>20, Zenon DEF Crash
  <2>7. head' \subseteq Rec /\ buf' \subseteq Stream /\ flushing' \subseteq Rec
    /\ parts' \subseteq Part /\ pending' \subseteq Part /\ indexed' \subseteq Part
    /\ removals' \subseteq Part /\ foreign' \subseteq Part /\ retiring' \subseteq Part
    BY <1>20, Zenon DEF Crash
  <2> QED BY <2>1, <2>2, <2>3, <2>4, <2>5, <2>6, <2>7, Zenon DEF TypeOK
<1>21. CASE Recover
  <2>1. ReadIndex \subseteq Part /\ Replayed(ReadIndex, index.epoch) \subseteq Rec
    BY DEF ReadIndex, Replayed, Frame, Index, TypeOK
  <2>2. walSeq' \in Nat
    BY <1>21 DEF Recover, CreateWAL, Frame, IdFrame, TypeOK
  <2>3. buf' \subseteq Stream
    BY <1>21, <2>1, Zenon DEF Recover, StreamsOf
  <2> QED BY <1>21, <2>1, <2>2, <2>3 DEF Recover, CreateWAL, SweepOrphans, history, Index, TypeOK
<1>22. CASE UNCHANGED vars
  BY <1>22, Zenon DEF vars, history, logVars, headVars, store, commitVars, TypeOK
<1> QED BY Zenon, <1>1, <1>2, <1>3, <1>4, <1>5, <1>6, <1>7, <1>8, <1>9, <1>10, <1>11, <1>12, <1>13, <1>14,
          <1>15, <1>16, <1>17, <1>18, <1>19, <1>20, <1>21, <1>22 DEF Next, Ingest, Flush, Merge

\* Type correctness of the engine's state (recordengine.Engine and the WAL
\* writer it drives) for every choice of the constants.
THEOREM TypeCorrect == Spec => []TypeOK
BY TypeInit, TypeStep, PTL DEF Spec
-----------------------------------------------------------------------------
LEMMA SafeInit == Init => SafeInv
<1> SUFFICES ASSUME Init PROVE SafeInv
  BY Zenon
<1>1. TypeOK
  BY TypeInit, Zenon
<1>2. PhaseInv
  BY Zenon DEF Init, PhaseInv, NoMerge
<1>3. AccountInv /\ PresentInv
  BY DEF Init, AccountInv, PresentInv, Candidates, NoFlush, NoMerge
<1>4. MintedInv /\ ApartInv
  BY DEF Init, MintedInv, ApartInv, Candidates, Minted, NoFlush, NoMerge
<1>5. EpochInv
  BY DEF Init, EpochInv, Candidates, NoFlush
<1> QED BY <1>1, <1>2, <1>3, <1>4, <1>5, Zenon DEF SafeInv

\* A commit by a lone writer adopts nothing, and what may be stored after it
\* is what might have been before or exactly what it wrote.
LEMMA CommitEffect ==
    ASSUME TypeOK, AccountInv, up,
           NEW next, NEW epoch, NEW out \in Outcome, CommitIndex(next, epoch, out)
    PROVE  LET ix == [parts |-> next, epoch |-> epoch, removed |-> NextRemovals(next)]
           IN /\ foreign' = {}
              /\ indexed' = next
              /\ removals' = NextRemovals(next)
              /\ \A c \in Candidates \cup {ix} : c.parts \subseteq indexed' \cup removals'
              /\ \/ index' = index /\ limbo' = limbo /\ out # "landed"
                 \/ index' = ix /\ limbo' = {} /\ out # "failed"
                 \/ index' = index /\ limbo' = limbo \cup {ix} /\ out = "unknown"
<1> DEFINE ix == [parts |-> next, epoch |-> epoch, removed |-> NextRemovals(next)]
<1>1. \A c \in Candidates : c.parts \subseteq next \cup NextRemovals(next)
  BY Zenon DEF AccountInv, NextRemovals
<1>2. AdoptIndex(next) = {}
  BY <1>1, Zenon DEF AdoptIndex, ForeignEntries, AccountInv, Candidates
<1>3. NextIndex(next, epoch) = ix
  BY <1>2, Zenon DEF NextIndex
<1>4. foreign' = {} /\ indexed' = next /\ removals' = NextRemovals(next)
  BY <1>2, Zenon DEF CommitIndex, AccountInv
<1>5. \A c \in Candidates \cup {ix} : c.parts \subseteq indexed' \cup removals'
  BY <1>1, <1>4
<1>6. \/ Save(ix, out)
      \/ out # "landed" /\ index' = index /\ limbo' = limbo
  BY <1>3, Zenon DEF CommitIndex
<1>7. \/ index' = index /\ limbo' = limbo /\ out # "landed"
      \/ index' = ix /\ limbo' = {} /\ out # "failed"
      \/ index' = index /\ limbo' = limbo \cup {ix} /\ out = "unknown"
  BY <1>6, Zenon DEF Save
<1> QED BY <1>4, <1>5, <1>7, Zenon

\* Steps that leave parts, objects and commits alone: ingest and the clock.
LEMMA Aside ==
    ASSUME SafeInv,
           UNCHANGED <<index, limbo, indexed, removals, foreign, rows, objects, parts,
                       retiring, flush, merge, up>>
    PROVE  AccountInv' /\ MintedInv' /\ ApartInv' /\ PresentInv'
BY Zenon DEF SafeInv, AccountInv, MintedInv, ApartInv, PresentInv, Candidates, Minted

LEMMA IngestSafe == ASSUME SafeInv, Ingest, TypeOK' PROVE SafeInv'
<1> DEFINE Rest == UNCHANGED <<index, limbo, indexed, removals, foreign, rows, objects, parts,
                               retiring, flush, merge, up, flushing, pending, flushedEpoch, walEpoch>>
<1>1. Rest /\ up /\ \E rotate \in BOOLEAN : Prepare(rotate)
  BY Zenon DEF Ingest, AppendBatch, AppendUnsynced, RejectBatch, LogBatch, store, commitVars, history
<1>2. PhaseInv'
  BY <1>1, Zenon DEF PhaseInv, SafeInv
<1>3. EpochInv'
  BY <1>1, Zenon DEF EpochInv, Candidates, Prepare, SafeInv, TypeOK
<1> QED BY <1>1, <1>2, <1>3, Aside, Zenon DEF SafeInv

\* Steps of a flush that touch neither the index nor the parts.
LEMMA FlushAside ==
    ASSUME SafeInv, up, up', flush'.outs = {},
           UNCHANGED <<index, limbo, indexed, removals, foreign, rows, objects, parts,
                       retiring, merge>>
    PROVE  PhaseInv' /\ AccountInv' /\ MintedInv' /\ ApartInv' /\ PresentInv'
BY Zenon DEF SafeInv, PhaseInv, AccountInv, MintedInv, ApartInv, PresentInv, Candidates, Minted

\* Generations and segment numbers are naturals.
LEMMA EpochTypes ==
    ASSUME TypeOK
    PROVE  /\ flushedEpoch \in Nat /\ walEpoch \in Nat /\ segEpoch \in Nat /\ walSeq \in Nat
           /\ flush.epoch \in Nat /\ flush.seq \in Nat
           /\ index.epoch \in Nat
           /\ \A c \in Candidates : c.epoch \in Nat
<1>1. /\ flushedEpoch \in Nat /\ walEpoch \in Nat /\ segEpoch \in Nat /\ walSeq \in Nat
      /\ index.epoch \in Nat
  BY Zenon DEF TypeOK, Index
<1>2. flush.epoch \in Nat /\ flush.seq \in Nat
  BY Zenon DEF TypeOK
<1>3. \A c \in Candidates : c.epoch \in Nat
  BY Zenon DEF TypeOK, Index, Candidates
<1> QED BY <1>1, <1>2, <1>3, Zenon

LEMMA FlushSafe == ASSUME SafeInv, Flush, TypeOK' PROVE SafeInv'
<1> USE DEF SafeInv
<1>1. CASE FlushBegin
  <2>1. /\ up /\ up' /\ flush'.outs = {}
        /\ UNCHANGED <<index, limbo, indexed, removals, foreign, rows, objects, parts, retiring, merge, flushedEpoch>>
        /\ segEpoch' = 0
        /\ flush'.pc = "build" => /\ flush'.epoch = Max2(flushedEpoch + 1, walEpoch)
                                  /\ walEpoch' = flush'.epoch + 1
        /\ walEpoch' = walEpoch \/ flush'.pc = "build"
    <3>1. PICK e, pc : /\ e = Max2(flushedEpoch + 1, walEpoch)
                       /\ flush' = [pc |-> pc, epoch |-> e, seq |-> walSeq, left |-> head, outs |-> {}]
                       /\ (Seal(e + 1) /\ pc = "build") \/ (SealFailed /\ pc = "abort")
      BY <1>1, Zenon DEF FlushBegin
    <3>2. flush'.outs = {} /\ flush'.pc = pc /\ flush'.epoch = e
      BY <3>1, Zenon
    <3>3. /\ segEpoch' = 0
          /\ pc = "build" => walEpoch' = e + 1
          /\ walEpoch' = walEpoch \/ pc = "build"
      BY <3>1, Zenon DEF Seal, SealFailed
    <3>4. /\ up /\ up'
          /\ UNCHANGED <<index, limbo, indexed, removals, foreign, rows, objects, parts, retiring, merge, flushedEpoch>>
      BY <1>1, Zenon DEF FlushBegin, FlushStep, store, commitVars
    <3> QED BY <3>1, <3>2, <3>3, <3>4, Zenon
  <2>2. Candidates' = Candidates
    BY <2>1, Zenon DEF Candidates
  <2>3. flush'.pc = "build" => flushedEpoch < flush'.epoch /\ walEpoch <= flush'.epoch /\ flush'.epoch \in Nat
    BY <2>1, EpochTypes DEF Max2
  <2>4. EpochInv'
    BY <2>1, <2>2, <2>3, EpochTypes DEF EpochInv
  <2> QED BY <2>1, <2>4, FlushAside, Zenon
<1>2. CASE FlushNothing \/ AbortFlush \/ FlushCheckpoint
  <2>1. /\ up /\ up' /\ flush'.outs = {} /\ flush'.pc # "build"
        /\ UNCHANGED <<index, limbo, indexed, removals, foreign, rows, objects, parts, retiring, merge,
                       flushedEpoch, walEpoch, segEpoch>>
    BY <1>2 DEF FlushNothing, AbortFlush, FlushCheckpoint, CheckpointThrough, FlushStep, NoFlush,
                logVars, store, commitVars
  <2>2. EpochInv'
    BY <2>1, Zenon DEF EpochInv, Candidates
  <2> QED BY <2>1, <2>2, FlushAside, Zenon
<1>3. ASSUME NEW q \in Part, NEW S \in SUBSET Rec, FlushPart(q, S) PROVE SafeInv'
  <2>1. /\ up /\ up' /\ flush.pc = "build" /\ flush'.pc = "build" /\ flush'.epoch = flush.epoch
        /\ flush'.outs = flush.outs \cup {q} /\ S # {}
        /\ q \notin Minted /\ rows' = [rows EXCEPT ![q] = S] /\ objects' = objects \cup {q}
        /\ UNCHANGED <<index, limbo, indexed, removals, foreign, parts, retiring, merge, flushedEpoch, walEpoch, segEpoch>>
    BY <1>3, Zenon DEF FlushPart, WritePart, FlushStep, logVars, commitVars, TypeOK
  <2>2. Minted' = Minted \cup {q}
    BY <2>1, ZenonT(30) DEF Minted, TypeOK
  <2>3. PhaseInv' /\ AccountInv'
    BY <2>1, Zenon DEF PhaseInv, AccountInv, Candidates
  <2>4. MintedInv'
    BY <2>1, <2>2, Zenon DEF MintedInv, Candidates
  <2>5. ApartInv'
    <3>1. /\ q \notin parts \cup retiring \cup merge.pins \cup merge.outs \cup flush.outs
          /\ \A c \in Candidates : q \notin c.parts
      BY <2>1, Zenon DEF MintedInv
    <3>2. Candidates' = Candidates
      BY <2>1, Zenon DEF Candidates
    <3>3. UNCHANGED <<parts, retiring, merge>> /\ flush.pc = "build" /\ flush'.outs = flush.outs \cup {q}
      BY <2>1, Zenon
    <3>4. /\ flush'.outs \cap (parts' \cup retiring' \cup merge'.outs \cup merge'.pins) = {}
          /\ \A c \in Candidates' : c.parts \cap flush'.outs = {}
      BY <3>1, <3>2, <3>3 DEF ApartInv
    <3> QED BY <3>2, <3>3, <3>4, Zenon DEF ApartInv
  <2>6. PresentInv' /\ EpochInv'
    BY <2>1, Zenon DEF PresentInv, EpochInv, Candidates
  <2> QED BY <2>3, <2>4, <2>5, <2>6, Zenon
<1>4. ASSUME NEW out \in Outcome, PublishFlush(out) PROVE SafeInv'
  <2> DEFINE ix == [parts |-> FlushNext, epoch |-> FlushEpoch, removed |-> NextRemovals(FlushNext)]
  <2>1. /\ up /\ up' /\ flush.pc = "build" /\ flush'.pc # "build" /\ flush'.outs \subseteq flush.outs
        /\ parts' = parts \cup flush.outs /\ flushedEpoch' = FlushEpoch
        /\ UNCHANGED <<rows, objects, retiring, merge, walEpoch, segEpoch>>
        /\ CommitIndex(FlushNext, FlushEpoch, out)
    BY <1>4, Zenon DEF PublishFlush, FlushNext, FlushStep, NoFlush, logVars, store, TypeOK
  <2>2. /\ foreign' = {}
        /\ \A c \in Candidates \cup {ix} : c.parts \subseteq indexed' \cup removals'
        /\ Candidates' \subseteq Candidates \cup {ix}
        /\ limbo' = {} \/ (index' = index /\ limbo' \subseteq limbo \cup {ix})
    BY <2>1, CommitEffect, Zenon DEF Candidates
  <2>3. ix.parts = parts \cup flush.outs /\ ix.epoch = FlushEpoch
    BY Zenon DEF FlushNext
  <2>4. flushedEpoch < FlushEpoch /\ FlushEpoch = flush.epoch
    BY <2>1, EpochTypes DEF FlushEpoch, Max2, EpochInv
  <2> HIDE DEF ix
  <2>5. PhaseInv' /\ AccountInv'
    BY <2>1, <2>2, Zenon DEF PhaseInv, AccountInv
  <2>6. MintedInv' /\ PresentInv'
    BY <2>1, <2>2, <2>3, Zenon DEF MintedInv, PresentInv, Minted
  <2>7. ApartInv'
    BY <2>1, <2>2, <2>3, Zenon DEF ApartInv
  <2>8. EpochInv'
    <3>1. \A c \in Candidates : c.epoch <= flushedEpoch /\ c.epoch \in Nat
      BY <2>1, EpochTypes, Zenon DEF EpochInv
    <3>2. flushedEpoch < FlushEpoch /\ flushedEpoch \in Nat /\ FlushEpoch \in Nat
      BY <2>4, EpochTypes, Zenon
    <3>3. index \in Candidates /\ limbo \subseteq Candidates
      BY Zenon DEF Candidates
    <3>4. \A c \in limbo : index.epoch <= c.epoch
      BY Zenon DEF EpochInv
    <3>5. \A c \in limbo' : index'.epoch <= c.epoch
      BY <2>2, <2>3, <3>1, <3>2, <3>3, <3>4
    <3>6. \A c \in Candidates \cup {ix} : c.epoch <= FlushEpoch
      BY <2>3, <3>1, <3>2
    <3>7. \A c \in Candidates' : c.epoch <= flushedEpoch'
      BY <2>1, <2>2, <3>6, Zenon
    <3>8. FlushEpoch < walEpoch /\ (segEpoch # 0 => FlushEpoch < segEpoch)
      BY <2>1, <2>4, Zenon DEF EpochInv
    <3> QED BY <2>1, <3>5, <3>7, <3>8, Zenon DEF EpochInv
  <2> QED BY <2>5, <2>6, <2>7, <2>8, Zenon
<1>5. CASE FlushReclaim
  <2>1. /\ up /\ up' /\ flush' = NoFlush
        /\ retiring' \subseteq retiring /\ objects \ retiring \subseteq objects'
        /\ UNCHANGED <<index, limbo, indexed, removals, foreign, rows, parts, merge, flushedEpoch, walEpoch, segEpoch>>
    BY <1>5, Zenon DEF FlushReclaim, ReclaimRetired, DeleteParts, FlushStep, logVars, commitVars
  <2>2. PhaseInv' /\ AccountInv' /\ EpochInv'
    BY <2>1, Zenon DEF PhaseInv, AccountInv, EpochInv, Candidates, NoFlush
  <2>3. MintedInv' /\ ApartInv'
    BY <2>1, Zenon DEF MintedInv, ApartInv, Candidates, Minted, NoFlush
  <2>4. PresentInv'
    BY <2>1, Zenon DEF PresentInv, ApartInv, Candidates, NoFlush
  <2> QED BY <2>2, <2>3, <2>4, Zenon
<1> QED BY <1>1, <1>2, <1>3, <1>4, <1>5, Zenon DEF Flush

\* A merge's commit keeps the invariant when what it names is written and
\* served or its own output, and it retires only what it stops naming.
LEMMA MergeCommitSafe ==
    ASSUME SafeInv, up, MergeStep, UNCHANGED store,
           NEW next, NEW gone, NEW out \in Outcome, MergeCommit(next, gone, out),
           next \subseteq parts \cup merge.outs, merge.outs \subseteq objects,
           gone \subseteq merge.pins, gone \cap next = {},
           merge'.pins = {} \/ merge'.pins = merge.pins \/ merge'.pins = parts,
           merge'.src \subseteq merge'.pins,
           merge'.pins # merge.pins => merge.outs = {},
           merge'.outs = {} \/ (out = "failed" /\ merge'.outs = merge.outs /\ merge'.pc = "reclaim")
    PROVE  PhaseInv' /\ AccountInv' /\ MintedInv' /\ ApartInv' /\ PresentInv' /\ EpochInv'
<1> USE DEF SafeInv
<1> DEFINE ix == [parts |-> next, epoch |-> flushedEpoch, removed |-> NextRemovals(next)]
<1>1. /\ UNCHANGED <<rows, objects, flush, up, flushedEpoch, walEpoch, segEpoch>>
      /\ CommitIndex(next, flushedEpoch, out)
      /\ parts' = parts \/ parts' = next
      /\ retiring' = retiring \/ (retiring' = retiring \cup gone /\ parts' = next /\ out = "landed")
  BY Zenon DEF MergeStep, MergeCommit, logVars, store
<1>2. /\ foreign' = {}
      /\ \A c \in Candidates \cup {ix} : c.parts \subseteq indexed' \cup removals'
      /\ \/ index' = index /\ limbo' = limbo /\ out # "landed"
         \/ index' = ix /\ limbo' = {} /\ out # "failed"
         \/ index' = index /\ limbo' = limbo \cup {ix} /\ out = "unknown"
  BY <1>1, CommitEffect, Zenon
<1>3. ix.parts = next /\ ix.epoch = flushedEpoch
  BY Zenon
<1> HIDE DEF ix
<1>4. /\ Candidates' \subseteq Candidates \cup {ix}
      /\ out = "landed" => Candidates' = {ix}
      /\ out = "failed" => Candidates' = Candidates
  BY <1>2, Zenon DEF Candidates
<1>5. PhaseInv' /\ AccountInv'
  BY <1>1, <1>2, <1>4, Zenon DEF PhaseInv, AccountInv
<1>6. MintedInv'
  BY <1>1, <1>3, <1>4, Zenon DEF MintedInv, Minted
<1>7. PresentInv'
  BY <1>1, <1>3, <1>4, Zenon DEF PresentInv
<1>8. ApartInv'
  <2>1. retiring' \cap parts' = {}
    BY <1>1, Zenon DEF ApartInv
  <2>2. /\ merge'.outs \cap parts' = {} /\ merge'.outs \cap retiring' = {}
        /\ merge'.outs \cap merge'.pins = {}
    BY <1>1, Zenon DEF ApartInv, MergeCommit
  <2>3. \A c \in Candidates' : c.parts \cap (retiring' \cup merge'.outs) = {}
    BY <1>1, <1>3, <1>4, Zenon DEF ApartInv
  <2>4. flush.pc = "build" =>
          /\ flush.outs \cap (parts' \cup retiring' \cup merge'.outs \cup merge'.pins) = {}
          /\ \A c \in Candidates' : c.parts \cap flush.outs = {}
    BY <1>1, <1>3, <1>4, ZenonT(30) DEF ApartInv
  <2> QED BY <1>1, <2>1, <2>2, <2>3, <2>4, Zenon DEF ApartInv
<1>9. EpochInv'
  <2>1. flushedEpoch \in Nat /\ \A c \in Candidates \cup {ix} : c.epoch <= flushedEpoch
    <3>1. flushedEpoch \in Nat /\ \A c \in Candidates : c.epoch <= flushedEpoch
      BY EpochTypes, Zenon DEF EpochInv
    <3> QED BY <1>3, <3>1
  <2>2. \A c \in limbo' : index'.epoch <= c.epoch
    BY <1>2, <1>3, <2>1, EpochTypes, Zenon DEF EpochInv, Candidates
  <2>3. \A c \in Candidates' : c.epoch <= flushedEpoch'
    BY <1>1, <1>4, <2>1, Zenon
  <2> QED BY <1>1, <2>2, <2>3, Zenon DEF EpochInv
<1> QED BY <1>5, <1>6, <1>7, <1>8, <1>9, Zenon

\* Steps of a merge that neither commit nor write nor delete.
LEMMA MergeAside ==
    ASSUME SafeInv, up, MergeStep, UNCHANGED <<store, commitVars, parts, pending, retiring>>,
           merge'.src \subseteq merge'.pins, merge'.pins \subseteq merge.pins \cup parts,
           merge'.outs = {} \/ (merge'.outs = merge.outs /\ merge'.pins = merge.pins /\ merge'.pc = "reclaim")
    PROVE  PhaseInv' /\ AccountInv' /\ MintedInv' /\ ApartInv' /\ PresentInv' /\ EpochInv'
<1>1. UNCHANGED <<index, limbo, indexed, removals, foreign, rows, objects, flush, up, flushedEpoch, walEpoch, segEpoch>>
  BY Zenon DEF MergeStep, logVars, store, commitVars
<1>2. PhaseInv' /\ AccountInv' /\ EpochInv'
  BY <1>1, Zenon DEF SafeInv, PhaseInv, AccountInv, EpochInv, Candidates
<1>3. MintedInv' /\ PresentInv'
  BY <1>1, Zenon DEF SafeInv, MintedInv, PresentInv, Candidates, Minted
<1>4. ApartInv'
  BY <1>1, Zenon DEF SafeInv, ApartInv, Candidates
<1> QED BY <1>2, <1>3, <1>4, Zenon

LEMMA MergeSafe == ASSUME SafeInv, Merge, TypeOK' PROVE SafeInv'
<1> USE DEF SafeInv
<1>1. CASE MergeBegin
  <2> DEFINE plan == [NoMerge EXCEPT !.pc = IF Emptied(parts, expired) = {} THEN "select" ELSE "drop",
                                   !.cut = expired, !.pins = parts]
  <2>1. /\ up /\ merge.pc = "idle" /\ MergeStep /\ UNCHANGED store
        /\ merge' \in {plan, NoMerge}
        /\ \/ UNCHANGED <<commitVars, parts, pending, retiring>>
           \/ \E out \in Outcome : MergeCommit(parts, {}, out)
    BY <1>1, Zenon DEF MergeBegin
  <2>2. /\ plan.src = {} /\ plan.outs = {} /\ plan.pins = parts
        /\ NoMerge.src = {} /\ NoMerge.outs = {} /\ NoMerge.pins = {}
    BY Zenon DEF NoMerge
  <2> HIDE DEF plan
  <2>3. /\ merge.outs = {} /\ merge'.src = {} /\ merge'.outs = {}
        /\ merge'.pins = {} \/ merge'.pins = parts
    BY <2>1, <2>2, Zenon DEF PhaseInv
  <2>4. CASE UNCHANGED <<commitVars, parts, pending, retiring>>
    BY <2>1, <2>3, <2>4, MergeAside, Zenon
  <2>5. CASE \E out \in Outcome : MergeCommit(parts, {}, out)
    BY <2>1, <2>3, <2>5, MergeCommitSafe, Zenon
  <2> QED BY <2>1, <2>4, <2>5, Zenon
<1>2. CASE DropExpired
  <2> DEFINE gone == Emptied(merge.pins, merge.cut)
  <2>1. /\ up /\ merge.pc = "drop" /\ merge.outs = {} /\ MergeStep /\ UNCHANGED store
        /\ merge'.pins = merge.pins /\ merge'.src \subseteq merge.src /\ merge'.outs = {}
        /\ \E out \in Outcome : MergeCommit(parts \ gone, gone, out)
    BY <1>2 DEF DropExpired, EndMerge, NoMerge, PhaseInv, TypeOK
  <2>2. gone \subseteq merge.pins /\ merge'.src \subseteq merge'.pins
    BY <2>1, Zenon DEF Emptied, MintedInv
  <2> HIDE DEF gone
  <2>3. PICK out \in Outcome : MergeCommit(parts \ gone, gone, out)
    BY <2>1, Zenon
  <2>4. (parts \ gone) \subseteq parts \cup merge.outs /\ gone \cap (parts \ gone) = {}
    BY Zenon
  <2> QED BY <2>1, <2>2, <2>3, <2>4, MergeCommitSafe, Zenon
<1>3. ASSUME NEW src \in SUBSET Part, MergeSelect(src) PROVE SafeInv'
  <2>1. /\ up /\ merge.outs = {} /\ MergeStep /\ UNCHANGED <<store, commitVars, parts, pending, retiring>>
        /\ merge'.pins = merge.pins /\ merge'.outs = {} /\ merge'.src \subseteq merge.pins
    BY <1>3, Zenon DEF MergeSelect, EndMerge, NoMerge, PhaseInv, TypeOK
  <2> QED BY <2>1, MergeAside, Zenon
<1>4. ASSUME NEW q \in Part, NEW S \in SUBSET Rec, MergePart(q, S) PROVE SafeInv'
  <2>1. /\ up /\ merge.pc = "build" /\ merge'.pc = "build" /\ merge'.pins = merge.pins
        /\ merge'.outs = merge.outs \cup {q} /\ merge'.src = merge.src /\ S # {}
        /\ q \notin Minted /\ rows' = [rows EXCEPT ![q] = S] /\ objects' = objects \cup {q}
        /\ UNCHANGED <<index, limbo, indexed, removals, foreign, parts, retiring, flush, up,
                       flushedEpoch, walEpoch, segEpoch>>
    BY <1>4, Zenon DEF MergePart, WritePart, MergeStep, logVars, commitVars, TypeOK
  <2>2. Minted' = Minted \cup {q}
    BY <2>1, ZenonT(30) DEF Minted, TypeOK
  <2>3. PhaseInv' /\ AccountInv'
    BY <2>1, Zenon DEF PhaseInv, AccountInv, Candidates
  <2>4. MintedInv'
    BY <2>1, <2>2, Zenon DEF MintedInv, Candidates
  <2>5. ApartInv'
    <3>1. /\ q \notin parts \cup retiring \cup merge.pins \cup merge.outs \cup flush.outs
          /\ \A c \in Candidates : q \notin c.parts
      BY <2>1, Zenon DEF MintedInv
    <3>2. Candidates' = Candidates
      BY <2>1, Zenon DEF Candidates
    <3>3. UNCHANGED <<parts, retiring, flush>> /\ merge'.outs = merge.outs \cup {q} /\ merge'.pins = merge.pins
      BY <2>1, Zenon
    <3>4. /\ merge'.outs \cap (parts' \cup retiring' \cup merge'.pins) = {}
          /\ flush.pc = "build" => flush.outs \cap merge'.outs = {}
          /\ \A c \in Candidates' : c.parts \cap (retiring' \cup merge'.outs) = {}
      BY <3>1, <3>2, <3>3 DEF ApartInv
    <3> QED BY <3>2, <3>3, <3>4, Zenon DEF ApartInv
  <2>6. PresentInv' /\ EpochInv'
    BY <2>1, Zenon DEF PresentInv, EpochInv, Candidates
  <2> QED BY <2>3, <2>4, <2>5, <2>6, Zenon
<1>5. CASE MergeAbandon
  <2>1. /\ up /\ MergeStep /\ UNCHANGED <<store, commitVars, parts, pending, retiring>>
        /\ merge'.pins = merge.pins /\ merge'.outs = merge.outs /\ merge'.src = {} /\ merge'.pc = "reclaim"
    BY <1>5, Zenon DEF MergeAbandon, EndMerge, NoMerge
  <2> QED BY <2>1, MergeAside, Zenon
<1>6. CASE MergePublish
  <2> DEFINE next == (parts \ merge.src) \cup merge.outs
  <2>1. PICK out \in Outcome :
            /\ MergeCommit(next, merge.src, out)
            /\ merge' = EndMerge(IF MayHaveLanded(out) THEN {} ELSE merge.outs)
    BY <1>6, Zenon DEF MergePublish
  <2>2. up /\ merge.pc = "build" /\ MergeStep /\ UNCHANGED store
    BY <1>6, Zenon DEF MergePublish
  <2>3. /\ merge'.pins = merge.pins /\ merge'.src = {} /\ merge'.pc = "reclaim"
        /\ merge'.outs = {} \/ (out = "failed" /\ merge'.outs = merge.outs)
    BY <2>1, Zenon DEF EndMerge, NoMerge, MayHaveLanded
  <2>4. merge.src \cap next = {} /\ merge.src \subseteq merge.pins /\ merge.outs \subseteq objects
    BY <2>2, Zenon DEF MintedInv, ApartInv, PresentInv
  <2> QED BY <2>1, <2>2, <2>3, <2>4, MergeCommitSafe, Zenon
<1>7. CASE MergeReclaim
  <2>1. /\ up /\ up' /\ merge' = NoMerge
        /\ retiring' \subseteq retiring /\ objects \ (retiring \cup merge.outs) \subseteq objects'
        /\ UNCHANGED <<index, limbo, indexed, removals, foreign, rows, parts, flush, flushedEpoch, walEpoch, segEpoch>>
    BY <1>7, Zenon DEF MergeReclaim, ReclaimRetired, DeleteParts, MergeStep, logVars, commitVars
  <2>2. PhaseInv' /\ AccountInv' /\ EpochInv'
    BY <2>1, Zenon DEF PhaseInv, AccountInv, EpochInv, Candidates, NoMerge
  <2>3. MintedInv' /\ ApartInv'
    BY <2>1, Zenon DEF MintedInv, ApartInv, Candidates, Minted, NoMerge
  <2>4. PresentInv'
    BY <2>1, Zenon DEF PresentInv, ApartInv, Candidates, NoMerge
  <2> QED BY <2>2, <2>3, <2>4, Zenon
<1> QED BY <1>1, <1>2, <1>3, <1>4, <1>5, <1>6, <1>7, Zenon DEF Merge

LEMMA SafeStep == SafeInv /\ [Next]_vars => SafeInv'
<1> SUFFICES ASSUME SafeInv, [Next]_vars PROVE SafeInv'
  BY Zenon
<1>1. TypeOK'
  BY TypeStep, Zenon DEF SafeInv
<1>2. ASSUME NEW r \in Expirable, Expire(r) PROVE SafeInv'
  <2>1. PhaseInv' /\ EpochInv'
    BY <1>2, Zenon DEF Expire, headVars, logVars, commitVars, SafeInv, PhaseInv, EpochInv, Candidates
  <2> QED BY <1>1, <1>2, <2>1, Aside, Zenon DEF Expire, store, commitVars, SafeInv
<1>3. ASSUME NEW ix \in limbo, LandLate(ix) PROVE SafeInv'
  <2>1. /\ index' = ix /\ limbo' = {} /\ Candidates' \subseteq Candidates
        /\ UNCHANGED <<rows, objects, indexed, removals, foreign, parts, retiring, flush, merge, up,
                       head, buf, flushing, pending, flushedEpoch, walEpoch, segEpoch>>
    BY <1>3, Zenon DEF LandLate, Candidates, headVars, logVars, store
  <2>2. PhaseInv' /\ AccountInv' /\ PresentInv' /\ EpochInv'
    BY <2>1, Zenon DEF SafeInv, PhaseInv, AccountInv, PresentInv, EpochInv
  <2>3. MintedInv' /\ ApartInv'
    BY <2>1, Zenon DEF SafeInv, MintedInv, ApartInv, Minted
  <2> QED BY <1>1, <2>2, <2>3, Zenon DEF SafeInv
<1>4. CASE Crash
  <2>1. /\ head' = {} /\ buf' = {} /\ flushing' = {} /\ parts' = {} /\ pending' = {} /\ retiring' = {}
        /\ foreign' = {} /\ flush' = NoFlush /\ merge' = NoMerge /\ ~up'
        /\ UNCHANGED <<index, limbo, rows, objects>>
    BY <1>4, Zenon DEF Crash, store
  <2>2. PhaseInv' /\ AccountInv' /\ PresentInv' /\ EpochInv'
    BY <2>1, Zenon DEF SafeInv, PhaseInv, AccountInv, PresentInv, EpochInv, Candidates, NoFlush, NoMerge
  <2>3. MintedInv' /\ ApartInv'
    BY <2>1, Zenon DEF SafeInv, MintedInv, ApartInv, Candidates, Minted, NoFlush, NoMerge
  <2> QED BY <1>1, <2>2, <2>3, Zenon DEF SafeInv
<1>5. CASE Recover
  <2>1. /\ up' /\ parts' = index.parts \cap objects /\ indexed' = index.parts \cap objects
        /\ foreign' = {} /\ limbo' = {} /\ flushedEpoch' = index.epoch
        /\ walEpoch' = index.epoch + 1 /\ segEpoch' = 0
        /\ objects' \subseteq objects /\ index.parts \cap objects \subseteq objects'
        /\ retiring = {} /\ flush = NoFlush /\ merge = NoMerge
        /\ UNCHANGED <<index, rows, retiring, flush, merge>>
    BY <1>5, Zenon DEF Recover, ReadIndex, SweepOrphans, CreateWAL, SafeInv, PhaseInv
  <2>2. index.parts \subseteq objects /\ index.epoch \in Nat
    BY Zenon DEF SafeInv, PresentInv, Candidates, TypeOK, Index
  <2>3. PhaseInv' /\ AccountInv' /\ PresentInv'
    BY <2>1, <2>2, Zenon DEF PhaseInv, AccountInv, PresentInv, Candidates, NoFlush, NoMerge
  <2>4. EpochInv'
    <3>1. Candidates' = {index} /\ flush'.pc # "build"
      BY <2>1, Zenon DEF Candidates, NoFlush
    <3>2. /\ index' = index /\ limbo' = {} /\ flushedEpoch' = index.epoch
          /\ walEpoch' = index.epoch + 1 /\ segEpoch' = 0
      BY <2>1, Zenon
    <3>3. \A c \in Candidates' : c.epoch <= flushedEpoch'
      BY <2>2, <3>1, <3>2
    <3>4. flushedEpoch' < walEpoch'
      BY <2>2, <3>2
    <3> QED BY <3>1, <3>2, <3>3, <3>4, Zenon DEF EpochInv
  <2>5. MintedInv' /\ ApartInv'
    BY <2>1, <2>2, ZenonT(30) DEF SafeInv, MintedInv, ApartInv, Candidates, Minted, NoFlush, NoMerge
  <2> QED BY <1>1, <2>3, <2>4, <2>5, Zenon DEF SafeInv
<1>6. CASE UNCHANGED vars
  <2>1. PhaseInv' /\ EpochInv'
    BY <1>6, Zenon DEF vars, headVars, logVars, commitVars, SafeInv, PhaseInv, EpochInv, Candidates
  <2> QED BY <1>1, <1>6, <2>1, Aside, Zenon DEF vars, store, commitVars, SafeInv
<1> QED BY <1>1, <1>2, <1>3, <1>4, <1>5, <1>6, IngestSafe, FlushSafe, MergeSafe, Zenon DEF Next

\* The bucket index, and every unconfirmed write of it that may still land,
\* only ever names parts whose objects exist: no reclaim of retired parts,
\* discard of abandoned merge outputs or orphan sweep deletes a named part.
THEOREM NamedPresentHolds == Spec => []NamedPresent
<1>1. SafeInv => NamedPresent
  BY Zenon DEF SafeInv, PresentInv, NamedPresent, Candidates
<1> QED BY <1>1, SafeInit, SafeStep, PTL DEF Spec

\* A lone writer that lost the answer to a commit of its own never adopts one
\* of its own parts as a rival's (foreignEntries): the removals it records
\* account for every entry any of its unconfirmed writes may have stored.
THEOREM NoForeignHolds == Spec => []NoForeign
<1>1. SafeInv => NoForeign
  BY Zenon DEF SafeInv, AccountInv, NoForeign
<1> QED BY <1>1, SafeInit, SafeStep, PTL DEF Spec

\* The replay watermark of the stored index never moves back, whichever of
\* the commits of flushes and merges land, late or not, across restarts.
THEOREM WatermarkNeverFallsBack == Spec => WatermarkMonotone
<1>1. SafeInv /\ [Next]_vars => [index'.epoch >= index.epoch]_vars
  <2> SUFFICES ASSUME SafeInv, Next PROVE index'.epoch >= index.epoch
    BY Zenon DEF vars
  <2> USE DEF SafeInv
  <2>1. index.epoch \in Nat /\ flushedEpoch \in Nat
    BY Zenon DEF TypeOK, Index
  <2>2. CASE UNCHANGED index
    BY <2>1, <2>2
  <2>3. ASSUME NEW ix \in limbo, LandLate(ix) PROVE index'.epoch >= index.epoch
    BY <2>1, <2>3, Zenon DEF LandLate, EpochInv, TypeOK, Index
  <2>4. ASSUME up, NEW next, NEW epoch \in Nat, NEW out \in Outcome, CommitIndex(next, epoch, out),
               flushedEpoch <= epoch
        PROVE  index'.epoch >= index.epoch
    <3>1. index' = index \/ index'.epoch = epoch
      BY <2>4, CommitEffect
    <3>2. index.epoch <= flushedEpoch
      BY <2>4, Zenon DEF EpochInv, Candidates
    <3> QED BY <2>1, <2>4, <3>1, <3>2
  <2>5. ASSUME NEW out \in Outcome, PublishFlush(out) PROVE index'.epoch >= index.epoch
    <3>1. FlushEpoch \in Nat /\ flushedEpoch <= FlushEpoch
      BY <2>1 DEF FlushEpoch, Max2, TypeOK
    <3> QED BY <2>4, <2>5, <3>1, Zenon DEF PublishFlush
  <2>6. ASSUME up, NEW next, NEW gone, NEW out \in Outcome, MergeCommit(next, gone, out)
        PROVE  index'.epoch >= index.epoch
    BY <2>1, <2>4, <2>6 DEF MergeCommit
  <2>7. CASE MergeBegin
    BY <2>2, <2>6, <2>7, Zenon DEF MergeBegin, commitVars
  <2>8. CASE DropExpired
    BY <2>6, <2>8, Zenon DEF DropExpired
  <2>9. CASE MergePublish
    BY <2>6, <2>9, Zenon DEF MergePublish
  <2>10. UNCHANGED index \/ (\E ix \in limbo : LandLate(ix)) \/ (\E out \in Outcome : PublishFlush(out))
         \/ MergeBegin \/ DropExpired \/ MergePublish
    BY Zenon DEF Next, Ingest, AppendBatch, AppendUnsynced, RejectBatch, Expire, Flush, FlushBegin, FlushNothing,
           AbortFlush, FlushPart, FlushCheckpoint, FlushReclaim, Merge, MergeSelect, MergePart,
           MergeAbandon, MergeReclaim, Crash, Recover, commitVars
  <2> QED BY <2>2, <2>3, <2>5, <2>7, <2>8, <2>9, <2>10, Zenon
<1> QED BY <1>1, SafeInit, SafeStep, PTL DEF Spec, WatermarkMonotone
-----------------------------------------------------------------------------
(* What a fetch returns while the process lives.                            *)

\* Batch r is in one of the parts P.
In(r, P, c) == \E p \in P : r \in c[p]

\* Parts written from a plan share no batch with each other or with what is
\* still to be written.
Dealt(outs, left, c) ==
    \A p \in outs : c[p] \cap left = {} /\ \A q \in outs : p # q => c[p] \cap c[q] = {}

\* Everything held was sent, so a new batch is nowhere yet.
SentInv ==
    /\ head \subseteq sent /\ flushing \subseteq sent
    /\ \A p \in Part : rows[p] \subseteq sent
    /\ \A f \in log : f.rec \in sent

\* A flush detaches batches only while it may still abort, and has dealt each
\* of them to one output or has it left.
FlushWork ==
    /\ flushing # {} => flush.pc \in {"abort", "build"}
    /\ flush.pc = "build" =>
        /\ Dealt(flush.outs, flush.left, rows)
        /\ \A r \in Rec : r \in flushing <=> r \in flush.left \/ In(r, flush.outs, rows)

\* The parts a merge reads are served until it publishes, and it has dealt each
\* of their batches to one output, has it left, or cut it off as expired.
MergeWork ==
    /\ merge.cut \subseteq expired
    /\ merge.pc = "drop" => merge.pins \subseteq parts
    /\ merge.pc = "select" => merge.pins \ Emptied(merge.pins, merge.cut) \subseteq parts
    /\ merge.pc = "build" =>
        /\ merge.src \subseteq parts
        /\ Dealt(merge.outs, merge.left, rows)
        /\ \A r \in Rec : In(r, merge.src, rows) => r \in merge.cut \/ r \in merge.left \/ In(r, merge.outs, rows)
        /\ \A r \in Rec : r \in merge.left \/ In(r, merge.outs, rows) => In(r, merge.src, rows)

WorkInv == SentInv /\ FlushWork /\ MergeWork
-----------------------------------------------------------------------------
\* A flush in progress is not disturbed by steps that leave it and what it has
\* written alone.
LEMMA FlushKept ==
    ASSUME FlushWork, UNCHANGED <<flush, flushing>>, \A p \in flush.outs : rows'[p] = rows[p]
    PROVE  FlushWork'
<1>1. \A r : In(r, flush.outs, rows) <=> \E p \in flush.outs : r \in rows'[p]
  BY Zenon DEF In
<1>2. Dealt(flush.outs, flush.left, rows) => Dealt(flush.outs, flush.left, rows)'
  BY Zenon DEF Dealt
<1> QED BY <1>1, <1>2, Zenon DEF FlushWork, In

LEMMA MergeKept ==
    ASSUME MergeWork, MintedInv, merge' = merge, \A p \in Minted : rows'[p] = rows[p],
           parts \subseteq parts', expired \subseteq expired'
    PROVE  MergeWork'
<1>1. \A p \in merge.pins \cup merge.src \cup merge.outs : rows'[p] = rows[p]
  BY Zenon DEF MintedInv
<1>2. Emptied(merge.pins, merge.cut)' = Emptied(merge.pins, merge.cut)
  BY <1>1, Zenon DEF Emptied
<1>3. Dealt(merge.outs, merge.left, rows) => Dealt(merge.outs, merge.left, rows)'
  <2>1. merge'.outs = merge.outs /\ merge'.left = merge.left
    BY Zenon
  <2>2. \A p \in merge.outs : rows'[p] = rows[p]
    BY <1>1, Zenon
  <2>3. SUFFICES ASSUME Dealt(merge.outs, merge.left, rows), NEW p \in merge.outs
                 PROVE  /\ rows'[p] \cap merge.left = {}
                        /\ \A q \in merge.outs : p # q => rows'[p] \cap rows'[q] = {}
    BY <2>1, Zenon DEF Dealt
  <2> QED BY <2>2, <2>3, Zenon DEF Dealt
<1>4. \A r : /\ In(r, merge.src, rows) <=> In(r, merge.src, rows)'
             /\ In(r, merge.outs, rows) <=> In(r, merge.outs, rows)'
  BY <1>1, Zenon DEF In
<1>5. /\ merge'.cut \subseteq expired'
      /\ merge'.pc = "drop" => merge'.pins \subseteq parts'
      /\ merge'.pc = "select" => merge'.pins \ Emptied(merge.pins, merge.cut)' \subseteq parts'
  BY <1>2, Zenon DEF MergeWork
<1>6. ASSUME merge'.pc = "build"
      PROVE  merge'.src \subseteq parts' /\ Dealt(merge.outs, merge.left, rows)'
  BY <1>3, <1>6, Zenon DEF MergeWork
<1>7. ASSUME merge'.pc = "build", NEW r \in Rec
      PROVE  /\ In(r, merge.src, rows)' => r \in merge'.cut \/ r \in merge'.left \/ In(r, merge.outs, rows)'
             /\ r \in merge'.left \/ In(r, merge.outs, rows)' => In(r, merge.src, rows)'
  BY <1>4, <1>7, Zenon DEF MergeWork
<1> QED BY <1>5, <1>6, <1>7, Zenon DEF MergeWork

\* A merge that is over, or not yet building.
LEMMA MergeOver ==
    ASSUME merge'.pc \in {"idle", "reclaim"}, merge'.cut = {} PROVE MergeWork'
BY Zenon DEF MergeWork

LEMMA WorkInit == Init => WorkInv
<1> SUFFICES ASSUME Init PROVE WorkInv
  BY Zenon
<1>1. SentInv
  BY Zenon DEF Init, SentInv
<1>2. FlushWork /\ MergeWork
  BY Zenon DEF Init, FlushWork, MergeWork, NoFlush, NoMerge
<1> QED BY <1>1, <1>2, Zenon DEF WorkInv

LEMMA IngestWork == ASSUME SafeInv, WorkInv, Ingest PROVE WorkInv'
<1>1. UNCHANGED <<rows, flush, flushing, merge, parts, expired>>
  BY Zenon DEF Ingest, AppendBatch, AppendUnsynced, RejectBatch, LogBatch, store, history
<1>2. sent \subseteq sent' /\ head' \subseteq head \cup (sent' \ sent)
  BY Zenon DEF Ingest, AppendBatch, AppendUnsynced, RejectBatch, LogBatch, history
<1>3. \A f \in log' : f.rec \in sent'
  <2>1. CASE log' = log
    BY <1>2, <2>1, Zenon DEF WorkInv, SentInv
  <2>2. ASSUME NEW r \in Rec, NEW rotate \in BOOLEAN, LogBatch(r, rotate) PROVE \A f \in log' : f.rec \in sent'
    BY <2>2 DEF LogBatch, WorkInv, SentInv
  <2> QED BY <2>1, <2>2, InputsType, Zenon DEF Ingest, AppendBatch, AppendUnsynced, RejectBatch
<1>4. SentInv'
  BY <1>1, <1>2, <1>3, Zenon DEF WorkInv, SentInv
<1>5. FlushWork'
  BY <1>1, FlushKept, Zenon DEF WorkInv
<1>6. MergeWork'
  BY <1>1, MergeKept, Zenon DEF WorkInv, SafeInv
<1> QED BY <1>4, <1>5, <1>6, Zenon DEF WorkInv

\* Writing a part under a fresh prefix.
LEMMA PartWritten ==
    ASSUME TypeOK, NEW p \in Part, NEW S \in SUBSET Rec, WritePart(p, S)
    PROVE  /\ rows'[p] = S /\ p \notin Minted /\ p \in objects' /\ objects \subseteq objects'
           /\ \A q \in Part \ {p} : rows'[q] = rows[q]
           /\ \A q \in Minted : rows'[q] = rows[q]
BY Zenon DEF TypeOK, WritePart, Minted

\* Dealing a share of what is left to one more part.
LEMMA Deal ==
    ASSUME TypeOK, NEW outs, outs \subseteq Minted, NEW left, left \subseteq Rec, Dealt(outs, left, rows),
           NEW p \in Part, NEW S, S \subseteq left, WritePart(p, S)
    PROVE  /\ Dealt(outs \cup {p}, left \ S, rows')
           /\ \A r : In(r, outs \cup {p}, rows') <=> r \in S \/ In(r, outs, rows)
<1>1. rows'[p] = S /\ \A q \in outs : rows'[q] = rows[q] /\ q # p
  <2>1. S \in SUBSET Rec
    BY Zenon
  <2> QED BY <2>1, PartWritten, Zenon
<1>2. \A q \in outs : rows[q] \cap left = {} /\ \A k \in outs : q # k => rows[q] \cap rows[k] = {}
  BY Zenon DEF Dealt
<1>3. \A a \in outs \cup {p} : rows'[a] \cap (left \ S) = {}
  BY <1>1, <1>2, Zenon
<1>4. ASSUME NEW a \in outs \cup {p}, NEW b \in outs \cup {p}, a # b PROVE rows'[a] \cap rows'[b] = {}
  BY <1>1, <1>2, <1>4, Zenon
<1>5. \A r : In(r, outs \cup {p}, rows') <=> r \in S \/ In(r, outs, rows)
  BY <1>1, Zenon DEF In
<1> QED BY <1>3, <1>4, <1>5, Zenon DEF Dealt

LEMMA FlushWorks == ASSUME SafeInv, WorkInv, Flush PROVE WorkInv'
<1> USE DEF SafeInv
<1>0. FlushStep /\ UNCHANGED <<sent, expired, merge>>
  BY Zenon DEF Flush, FlushBegin, FlushNothing, AbortFlush, FlushPart, PublishFlush, FlushCheckpoint, FlushReclaim,
     FlushStep, history
<1>1. ASSUME UNCHANGED rows, parts \subseteq parts', head' \subseteq head \cup flushing, flushing' \subseteq head \cup flushing,
             log' \subseteq log, FlushWork'
      PROVE  WorkInv'
  <2>1. SentInv'
    BY <1>0, <1>1, Zenon DEF WorkInv, SentInv
  <2>2. MergeWork'
    BY <1>0, <1>1, MergeKept, Zenon DEF WorkInv
  <2> QED BY <1>1, <2>1, <2>2, Zenon DEF WorkInv
<1>2. CASE FlushBegin
  <2>1. /\ head' = {} /\ flushing' = head /\ UNCHANGED <<rows, parts, log>>
        /\ flush'.pc \in {"abort", "build"} /\ flush'.left = head /\ flush'.outs = {}
    BY <1>2 DEF FlushBegin, Seal, SealFailed, store
  <2>2. FlushWork'
    BY <2>1, Zenon DEF FlushWork, Dealt, In
  <2> QED BY <1>1, <2>1, <2>2, Zenon
<1>3. CASE FlushNothing \/ AbortFlush \/ FlushCheckpoint \/ FlushReclaim \/ \E out \in Outcome : PublishFlush(out)
  <2>1. /\ UNCHANGED rows /\ parts \subseteq parts' /\ log' \subseteq log
        /\ flush'.pc \in {"idle", "reclaim", "checkpoint"}
    BY SMTT(30), <1>3 DEF FlushNothing, AbortFlush, FlushCheckpoint, FlushReclaim, PublishFlush, CheckpointThrough,
       ReclaimRetired, DeleteParts, FlushNext, NoFlush, logVars, store, TypeOK
  <2>2. head' \subseteq head \cup flushing
    BY <1>3, Zenon DEF FlushNothing, AbortFlush, FlushCheckpoint, FlushReclaim, PublishFlush, headVars
  <2>3. flushing' = {}
    BY <1>3, Zenon DEF FlushNothing, AbortFlush, FlushCheckpoint, FlushReclaim, PublishFlush, headVars, WorkInv, FlushWork
  <2>4. FlushWork'
    BY <2>1, <2>3, Zenon DEF FlushWork
  <2> QED BY <1>1, <2>1, <2>2, <2>3, <2>4, Zenon
<1>4. ASSUME NEW p \in Part, NEW S \in SUBSET Rec, FlushPart(p, S) PROVE WorkInv'
  <2>1. /\ flush.pc = "build" /\ S \subseteq flush.left /\ WritePart(p, S)
        /\ flush' = [flush EXCEPT !.left = @ \ S, !.outs = @ \cup {p}]
        /\ UNCHANGED <<head, flushing, log, parts>>
    BY <1>4, Zenon DEF FlushPart, headVars, logVars
  <2>2. /\ flush'.pc = "build" /\ flush'.left = flush.left \ S /\ flush'.outs = flush.outs \cup {p}
        /\ flush.left \in SUBSET Rec /\ flush.outs \in SUBSET Minted
    BY <2>1, Zenon DEF TypeOK, MintedInv
  <2>3. rows'[p] = S /\ (\A q \in Part \ {p} : rows'[q] = rows[q]) /\ \A q \in Minted : rows'[q] = rows[q]
    BY <2>1, PartWritten, Zenon
  <2>4. Dealt(flush.outs, flush.left, rows) /\ \A r \in Rec : r \in flushing <=> r \in flush.left \/ In(r, flush.outs, rows)
    BY <2>1, Zenon DEF WorkInv, FlushWork
  <2>5. /\ Dealt(flush.outs \cup {p}, flush.left \ S, rows')
        /\ \A r : In(r, flush.outs \cup {p}, rows') <=> r \in S \/ In(r, flush.outs, rows)
    BY <2>1, <2>2, <2>4, Deal, Zenon
  <2>6. FlushWork'
    BY <2>1, <2>2, <2>4, <2>5, Zenon DEF FlushWork
  <2>7. SentInv'
    <3>1. S \subseteq sent
      BY <2>1, <2>2, <2>4, Zenon DEF WorkInv, SentInv
    <3> QED BY <1>0, <2>1, <2>3, <3>1, Zenon DEF WorkInv, SentInv
  <2>8. MergeWork'
    BY <1>0, <2>1, <2>3, MergeKept, Zenon DEF WorkInv
  <2> QED BY <2>6, <2>7, <2>8, Zenon DEF WorkInv
<1> QED BY <1>2, <1>3, <1>4, Zenon DEF Flush

LEMMA MergeWorks == ASSUME SafeInv, WorkInv, Merge PROVE WorkInv'
<1> USE DEF SafeInv
<1>0. UNCHANGED <<sent, expired, log, head, flushing, flush>>
  BY Zenon DEF Merge, MergeBegin, DropExpired, MergeSelect, MergePart, MergeAbandon, MergePublish, MergeReclaim,
     MergeStep, history, logVars, headVars
<1>1. ASSUME UNCHANGED rows, MergeWork' PROVE WorkInv'
  <2>1. SentInv'
    BY <1>0, <1>1, Zenon DEF WorkInv, SentInv
  <2>2. FlushWork'
    BY <1>0, <1>1, FlushKept, Zenon DEF WorkInv
  <2> QED BY <1>1, <2>1, <2>2, Zenon DEF WorkInv
<1>2. CASE MergeBegin
  <2>1. UNCHANGED rows
    BY <1>2, Zenon DEF MergeBegin, store
  <2>2. /\ parts' = parts
        /\ \/ merge'.pc = "idle" /\ merge'.cut = {}
           \/ merge'.pc \in {"drop", "select"} /\ merge'.cut = expired /\ merge'.pins = parts
    <3> DEFINE plan == [NoMerge EXCEPT !.pc = IF Emptied(parts, expired) = {} THEN "select" ELSE "drop",
                                       !.cut = expired, !.pins = parts]
    <3>1. plan.pc \in {"drop", "select"} /\ plan.cut = expired /\ plan.pins = parts
      BY Zenon DEF NoMerge
    <3>2. NoMerge.pc = "idle" /\ NoMerge.cut = {}
      BY Zenon DEF NoMerge
    <3>3. \/ merge' = plan /\ UNCHANGED <<commitVars, parts, pending, retiring>>
          \/ \E out \in Outcome : /\ MergeCommit(parts, {}, out)
                                  /\ merge' = IF out = "landed" THEN plan ELSE NoMerge
      BY <1>2, Zenon DEF MergeBegin
    <3> HIDE DEF plan
    <3> QED BY <3>1, <3>2, <3>3, Zenon DEF MergeCommit
  <2>3. MergeWork'
    BY <1>0, <2>2, Zenon DEF MergeWork
  <2> QED BY <1>1, <2>1, <2>3, Zenon
<1>3. CASE DropExpired
  <2> DEFINE gone == Emptied(merge.pins, merge.cut)
  <2>1. UNCHANGED rows /\ merge.pc = "drop"
    BY <1>3, Zenon DEF DropExpired, store
  <2>2. \/ merge'.pc = "reclaim" /\ merge'.cut = {}
        \/ /\ merge'.pc = "select" /\ merge'.cut = merge.cut /\ merge'.pins = merge.pins
           /\ parts' = parts \ gone
    BY <1>3, Zenon DEF DropExpired, MergeCommit, EndMerge, NoMerge, TypeOK
  <2>3. merge.pins \subseteq parts /\ merge.cut \subseteq expired
    BY <2>1, Zenon DEF WorkInv, MergeWork
  <2>4. ASSUME merge'.pc = "select", merge'.cut = merge.cut, merge'.pins = merge.pins, parts' = parts \ gone
        PROVE  MergeWork'
    <3>1. Emptied(merge.pins, merge.cut)' = gone
      BY <2>1, <2>4, Zenon DEF Emptied
    <3> QED BY <1>0, <2>3, <2>4, <3>1, Zenon DEF MergeWork
  <2> HIDE DEF gone
  <2>5. MergeWork'
    BY <2>2, <2>4, MergeOver, Zenon
  <2> QED BY <1>1, <2>1, <2>5, Zenon
<1>4. ASSUME NEW src \in SUBSET Part, MergeSelect(src) PROVE WorkInv'
  <2>1. /\ UNCHANGED <<rows, parts>> /\ merge.pc = "select"
        /\ src \subseteq merge.pins \ Emptied(merge.pins, merge.cut)
    BY <1>4, Zenon DEF MergeSelect, store
  <2>2. \/ merge'.pc = "reclaim" /\ merge'.cut = {}
        \/ /\ merge'.pc = "build" /\ merge'.cut = merge.cut /\ merge'.outs = merge.outs /\ merge'.src = src
           /\ merge'.left = RowsIn(src) \ merge.cut
    BY <1>4, Zenon DEF MergeSelect, EndMerge, NoMerge, TypeOK
  <2>3. src \subseteq parts /\ merge.cut \subseteq expired /\ merge.outs = {}
    BY <2>1, Zenon DEF WorkInv, MergeWork, PhaseInv
  <2>4. \A r : r \in RowsIn(src) <=> In(r, src, rows)
    BY Zenon DEF RowsIn, In
  <2>5. ASSUME merge'.pc = "build", merge'.cut = merge.cut, merge'.outs = {}, merge'.src = src,
               \A r : r \in merge'.left <=> In(r, src, rows) /\ r \notin merge.cut
        PROVE  MergeWork'
    BY <1>0, <2>1, <2>3, <2>5, Zenon DEF MergeWork, Dealt, In
  <2>6. MergeWork'
    BY <2>2, <2>3, <2>4, <2>5, MergeOver, Zenon
  <2> QED BY <1>1, <2>1, <2>6, Zenon
<1>5. ASSUME NEW p \in Part, NEW S \in SUBSET Rec, MergePart(p, S) PROVE WorkInv'
  <2>1. /\ merge.pc = "build" /\ S \in SUBSET merge.left /\ WritePart(p, S)
        /\ merge' = [merge EXCEPT !.left = @ \ S, !.outs = @ \cup {p}]
        /\ UNCHANGED parts
    BY <1>5, Zenon DEF MergePart
  <2>2. /\ merge'.pc = "build" /\ merge'.left = merge.left \ S /\ merge'.outs = merge.outs \cup {p}
        /\ merge'.cut = merge.cut /\ merge'.src = merge.src
        /\ merge.left \in SUBSET Rec /\ merge.outs \in SUBSET Minted
    BY <2>1, Zenon DEF TypeOK, MintedInv
  <2>3. rows'[p] = S /\ (\A q \in Part \ {p} : rows'[q] = rows[q]) /\ \A q \in Minted : rows'[q] = rows[q]
    BY <2>1, PartWritten, Zenon
  <2>4. /\ merge.src \subseteq parts /\ Dealt(merge.outs, merge.left, rows) /\ merge.cut \subseteq expired
        /\ \A r \in Rec : In(r, merge.src, rows) => r \in merge.cut \/ r \in merge.left \/ In(r, merge.outs, rows)
        /\ \A r \in Rec : r \in merge.left \/ In(r, merge.outs, rows) => In(r, merge.src, rows)
    BY <2>1, Zenon DEF WorkInv, MergeWork
  <2>5. /\ Dealt(merge.outs \cup {p}, merge.left \ S, rows')
        /\ \A r : In(r, merge.outs \cup {p}, rows') <=> r \in S \/ In(r, merge.outs, rows)
    BY <2>1, <2>2, <2>4, Deal, Zenon
  <2>6. \A r : In(r, merge.src, rows') <=> In(r, merge.src, rows)
    BY <2>3, Zenon DEF In, MintedInv
  <2>7. /\ Dealt(merge.outs, merge.left, rows)'
        /\ \A r \in Rec : /\ In(r, merge.src, rows)' <=> In(r, merge.src, rows)
                          /\ In(r, merge.outs, rows)' <=> r \in S \/ In(r, merge.outs, rows)
    BY <2>2, <2>5, <2>6, Zenon
  <2>8. MergeWork'
    BY <1>0, <2>1, <2>2, <2>4, <2>7, Zenon DEF MergeWork
  <2>9. SentInv'
    <3>1. \A r \in S : In(r, merge.src, rows)
      BY <2>1, <2>2, <2>4, Zenon
    <3>2. S \subseteq sent
      BY <3>1, Zenon DEF WorkInv, SentInv, In, TypeOK
    <3> QED BY <1>0, <2>3, <3>2, Zenon DEF WorkInv, SentInv
  <2>10. FlushWork'
    BY <1>0, <2>3, FlushKept, Zenon DEF WorkInv, MintedInv
  <2> QED BY <2>8, <2>9, <2>10, Zenon DEF WorkInv
<1>6. CASE MergeAbandon \/ MergePublish \/ MergeReclaim
  <2>1. UNCHANGED rows
    BY <1>6, Zenon DEF MergeAbandon, MergePublish, MergeReclaim, ReclaimRetired, DeleteParts, store
  <2>2. merge'.pc \in {"idle", "reclaim"} /\ merge'.cut = {}
    <3>1. NoMerge.pc = "idle" /\ NoMerge.cut = {}
      BY Zenon DEF NoMerge
    <3>2. \A outs : EndMerge(outs).pc = "reclaim" /\ EndMerge(outs).cut = {}
      BY Zenon DEF EndMerge, NoMerge
    <3> QED BY <1>6, <3>1, <3>2, Zenon DEF MergeAbandon, MergePublish, MergeReclaim
  <2> QED BY <1>1, <2>1, <2>2, MergeOver, Zenon
<1> QED BY <1>2, <1>3, <1>4, <1>5, <1>6, Zenon DEF Merge

LEMMA WorkStep == SafeInv /\ WorkInv /\ [Next]_vars => WorkInv'
<1> SUFFICES ASSUME SafeInv, WorkInv, [Next]_vars PROVE WorkInv'
  BY Zenon
<1>1. ASSUME UNCHANGED <<rows, flush, flushing, merge, parts>>, expired \subseteq expired',
             head' \subseteq sent', sent \subseteq sent', log' \subseteq log
      PROVE  WorkInv'
  <2>1. SentInv'
    BY <1>1, Zenon DEF WorkInv, SentInv
  <2>2. FlushWork'
    BY <1>1, FlushKept, Zenon DEF WorkInv
  <2>3. MergeWork'
    BY <1>1, MergeKept, Zenon DEF WorkInv, SafeInv
  <2> QED BY <2>1, <2>2, <2>3, Zenon DEF WorkInv
<1>2. CASE \E r \in Expirable : Expire(r)
  BY <1>1, <1>2, Zenon DEF Expire, store, logVars, headVars, WorkInv, SentInv
<1>3. CASE \E ix \in limbo : LandLate(ix)
  BY <1>1, <1>3, Zenon DEF LandLate, store, logVars, headVars, history, WorkInv, SentInv
<1>4. CASE UNCHANGED vars
  BY <1>1, <1>4, Zenon DEF vars, store, logVars, headVars, history, WorkInv, SentInv
<1>5. CASE Crash
  <2>1. /\ head' = {} /\ flushing' = {} /\ flush' = NoFlush /\ merge' = NoMerge
        /\ UNCHANGED <<rows, log, sent, expired>>
    BY <1>5, Zenon DEF Crash, history, store
  <2>2. SentInv'
    BY <2>1, Zenon DEF WorkInv, SentInv
  <2>3. FlushWork' /\ MergeWork'
    BY <2>1, Zenon DEF FlushWork, MergeWork, NoFlush, NoMerge
  <2> QED BY <2>2, <2>3, Zenon DEF WorkInv
<1>6. CASE Recover
  <2>1. /\ flushing' = {} /\ flush' = flush /\ merge' = merge
        /\ UNCHANGED <<rows, log, sent, expired>>
        /\ head' \subseteq {f.rec : f \in log}
    BY <1>6, Zenon DEF Recover, SweepOrphans, CreateWAL, Replayed, history
  <2>2. SentInv'
    BY <2>1, Zenon DEF WorkInv, SentInv
  <2>3. flush = NoFlush /\ merge = NoMerge
    BY <1>6, Zenon DEF Recover, SafeInv, PhaseInv
  <2>4. FlushWork' /\ MergeWork'
    BY <2>1, <2>3, Zenon DEF FlushWork, MergeWork, NoFlush, NoMerge
  <2> QED BY <2>2, <2>4, Zenon DEF WorkInv
<1> QED BY <1>2, <1>3, <1>4, <1>5, <1>6, IngestWork, FlushWorks, MergeWorks, Zenon DEF Next
-----------------------------------------------------------------------------
\* What a fetch returns, when no part is a rival's and every part is there.
LEMMA Serves ==
    ASSUME SafeInv, SafeInv'
    PROVE  /\ \A r : r \in Served <=> r \in head \/ r \in flushing \/ In(r, parts, rows)
           /\ \A r : r \in Served' <=> r \in head' \/ r \in flushing' \/ In(r, parts', rows')
           /\ \A r : r \in RowsIn(parts) <=> In(r, parts, rows)
           /\ \A r : r \in RowsIn(parts)' <=> In(r, parts', rows')
<1>1. foreign = {} /\ foreign' = {} /\ parts \subseteq objects /\ parts' \subseteq objects'
  BY Zenon DEF SafeInv, AccountInv, PresentInv
<1>2. (parts \cup foreign) \cap objects = parts /\ ((parts \cup foreign) \cap objects)' = parts'
  BY <1>1, Zenon
<1>3. /\ \A r : r \in RowsIn(parts) <=> In(r, parts, rows)
      /\ \A r : r \in RowsIn(parts)' <=> In(r, parts', rows')
  BY Zenon DEF RowsIn, In
<1>4. Served = head \cup flushing \cup RowsIn(parts) /\ Served' = head' \cup flushing' \cup RowsIn(parts)'
  BY <1>2, Zenon DEF Served, RowsIn
<1> QED BY <1>3, <1>4, Zenon

\* Batch r is returned twice from head h, detached buffers f and parts P.
Doubled(r, h, f, P, c) ==
    \/ r \in h /\ r \in f
    \/ (r \in h \/ r \in f) /\ In(r, P, c)
    \/ \E p, q \in P : p # q /\ r \in c[p] /\ r \in c[q]

LEMMA TwiceIs ==
    ASSUME SafeInv, SafeInv'
    PROVE  /\ Twice = {r \in Rec : Doubled(r, head, flushing, parts, rows)}
           /\ Twice' = {r \in Rec : Doubled(r, head', flushing', parts', rows')}
<1>1. /\ \A r : r \in RowsIn(parts) <=> In(r, parts, rows)
      /\ \A r : r \in RowsIn(parts)' <=> In(r, parts', rows')
  BY Serves, Zenon
<1>2. \A r \in Rec : r \in Twice <=> Doubled(r, head, flushing, parts, rows)
  BY <1>1, Zenon DEF Twice, Doubled
<1>3. \A r \in Rec : r \in Twice' <=> Doubled(r, head', flushing', parts', rows')
  BY <1>1, Zenon DEF Twice, Doubled
<1> QED BY <1>2, <1>3, Zenon DEF Twice

\* What one step must keep, batch by batch.
ServesOn ==
    /\ \A r \in Rec : Doubled(r, head', flushing', parts', rows') => Doubled(r, head, flushing, parts, rows)
    /\ \A r \in Rec : r \in head \/ r \in flushing \/ In(r, parts, rows)
                        => r \in head' \/ r \in flushing' \/ In(r, parts', rows') \/ r \in expired'
    /\ acked' \ acked \subseteq head'

LEMMA SteadyServes ==
    ASSUME SafeInv, SafeInv', ServesOn
    PROVE  Twice' \subseteq Twice /\ Served \cup (acked' \ acked) \subseteq Served' \cup expired'
<1>1. Twice' \subseteq Twice
  BY TwiceIs, Zenon DEF ServesOn
<1>2. ASSUME NEW r, In(r, parts, rows) PROVE r \in Rec
  BY <1>2, Zenon DEF In, SafeInv, TypeOK
<1>3. \A r \in Served : r \in Rec
  BY <1>2, Serves, Zenon DEF SafeInv, TypeOK
<1>4. Served \cup (acked' \ acked) \subseteq Served' \cup expired'
  BY <1>3, Serves, Zenon DEF ServesOn
<1> QED BY <1>1, <1>4, Zenon

\* The steps that leave memory as it is and write at most a new part.
LEMMA StillSteady ==
    ASSUME UNCHANGED <<head, flushing, parts, acked>>, \A p \in parts : rows'[p] = rows[p]
    PROVE  ServesOn
<1>1. \A r : In(r, parts', rows') <=> In(r, parts, rows)
  BY Zenon DEF In
<1>2. \A r : Doubled(r, head', flushing', parts', rows') <=> Doubled(r, head, flushing, parts, rows)
  BY <1>1, Zenon DEF Doubled
<1> QED BY <1>1, <1>2, Zenon DEF ServesOn

LEMMA IngestSteady == ASSUME SafeInv, WorkInv, Ingest PROVE ServesOn
<1>1. UNCHANGED <<rows, flushing, parts>>
  BY Zenon DEF Ingest, AppendBatch, AppendUnsynced, RejectBatch, store
<1>2. ASSUME NEW r \in Rec, NEW rotate \in BOOLEAN, AppendBatch(r, rotate) PROVE ServesOn
  <2>1. head' = head \cup {r} /\ acked' = acked \cup {r} /\ r \notin sent
    BY <1>2, Zenon DEF AppendBatch, LogBatch
  <2>2. r \notin flushing /\ ~ In(r, parts, rows)
    BY <2>1, Zenon DEF SafeInv, TypeOK, WorkInv, SentInv, In
  <2>3. \A p \in parts : r \notin rows[p]
    BY <2>2, Zenon DEF In
  <2>4. \A k \in Rec : Doubled(k, head', flushing, parts, rows) => Doubled(k, head, flushing, parts, rows)
    BY <2>1, <2>2, <2>3, Zenon DEF Doubled
  <2> QED BY <1>1, <2>1, <2>4, Zenon DEF ServesOn
<1>3. CASE (\E r \in Unsyncable : AppendUnsynced(r)) \/ \E s \in Rejecting : RejectBatch(s)
  BY <1>1, <1>3, StillSteady, Zenon DEF AppendUnsynced, RejectBatch, history
<1> QED BY <1>2, <1>3, Zenon DEF Ingest

LEMMA FlushSteady == ASSUME SafeInv, WorkInv, Flush PROVE ServesOn
<1>0. acked' = acked
  BY Zenon DEF Flush, FlushBegin, FlushNothing, AbortFlush, FlushPart, PublishFlush, FlushCheckpoint, FlushReclaim,
     FlushStep, history
<1>1. CASE FlushBegin
  <2>1. head' = {} /\ flushing' = head /\ UNCHANGED <<rows, parts>> /\ flush.pc = "idle"
    BY <1>1, Zenon DEF FlushBegin, store
  <2>2. flushing = {}
    BY <2>1, Zenon DEF WorkInv, FlushWork
  <2>3. \A r \in Rec : Doubled(r, {}, head, parts, rows) => Doubled(r, head, flushing, parts, rows)
    BY Zenon DEF Doubled
  <2> QED BY <1>0, <2>1, <2>2, <2>3, Zenon DEF ServesOn
<1>2. CASE AbortFlush
  <2>1. head' = head \cup flushing /\ flushing' = {} /\ UNCHANGED <<rows, parts>>
    BY <1>2, Zenon DEF AbortFlush, store
  <2>2. \A r \in Rec : Doubled(r, head \cup flushing, {}, parts, rows) => Doubled(r, head, flushing, parts, rows)
    BY Zenon DEF Doubled
  <2> QED BY <1>0, <2>1, <2>2, Zenon DEF ServesOn
<1>3. ASSUME NEW out \in Outcome, PublishFlush(out) PROVE ServesOn
  <2>1. /\ head' = head /\ flushing' = {} /\ UNCHANGED rows /\ parts' = parts \cup flush.outs
        /\ flush.pc = "build" /\ flush.left = {}
    BY <1>3, Zenon DEF PublishFlush, store, FlushNext
  <2>2. Dealt(flush.outs, flush.left, rows) /\ \A r \in Rec : r \in flushing <=> In(r, flush.outs, rows)
    BY <2>1, Zenon DEF WorkInv, FlushWork
  <2>3. \A r : In(r, parts', rows') <=> In(r, parts, rows) \/ In(r, flush.outs, rows)
    BY <2>1, Zenon DEF In
  <2>4. ASSUME NEW r \in Rec, Doubled(r, head', flushing', parts', rows') PROVE Doubled(r, head, flushing, parts, rows)
    <3>1. CASE r \in head /\ In(r, parts', rows')
      BY <2>2, <2>3, <3>1, Zenon DEF Doubled
    <3>2. ASSUME NEW p \in parts', NEW q \in parts', p # q, r \in rows[p], r \in rows[q]
          PROVE  Doubled(r, head, flushing, parts, rows)
      <4>1. ~(p \in flush.outs /\ q \in flush.outs)
        BY <2>2, <3>2, Zenon DEF Dealt
      <4>2. CASE p \in parts /\ q \in parts
        BY <3>2, <4>2, Zenon DEF Doubled
      <4>3. CASE p \in flush.outs /\ q \in parts
        <5>1. In(r, flush.outs, rows) /\ In(r, parts, rows)
          BY <3>2, <4>3, Zenon DEF In
        <5> QED BY <2>2, <5>1, Zenon DEF Doubled
      <4>4. CASE q \in flush.outs /\ p \in parts
        <5>1. In(r, flush.outs, rows) /\ In(r, parts, rows)
          BY <3>2, <4>4, Zenon DEF In
        <5> QED BY <2>2, <5>1, Zenon DEF Doubled
      <4> QED BY <2>1, <4>1, <4>2, <4>3, <4>4, Zenon
    <3>3. \/ r \in head /\ In(r, parts', rows')
          \/ \E p, q \in parts' : p # q /\ r \in rows[p] /\ r \in rows[q]
      BY <2>1, <2>4, Zenon DEF Doubled
    <3> QED BY <3>1, <3>2, <3>3, Zenon
  <2> QED BY <1>0, <2>1, <2>2, <2>3, <2>4, Zenon DEF ServesOn
<1>4. CASE FlushNothing \/ FlushCheckpoint \/ FlushReclaim
  <2>1. UNCHANGED <<head, flushing, parts, rows>>
    BY <1>4, Zenon DEF FlushNothing, FlushCheckpoint, FlushReclaim, ReclaimRetired, DeleteParts, headVars, store
  <2> QED BY <1>0, <2>1, StillSteady, Zenon
<1>5. ASSUME NEW p \in Part, NEW S \in SUBSET Rec, FlushPart(p, S) PROVE ServesOn
  <2>1. UNCHANGED <<head, flushing, parts>> /\ WritePart(p, S)
    BY <1>5, Zenon DEF FlushPart, headVars
  <2>2. \A q \in parts : rows'[q] = rows[q]
    BY <2>1, PartWritten, Zenon DEF SafeInv, MintedInv
  <2> QED BY <1>0, <2>1, <2>2, StillSteady, Zenon
<1> QED BY <1>1, <1>2, <1>3, <1>4, <1>5, Zenon DEF Flush

LEMMA MergeSteady == ASSUME SafeInv, WorkInv, Merge PROVE ServesOn
<1>0. UNCHANGED <<acked, expired, head, flushing>>
  BY Zenon DEF Merge, MergeBegin, DropExpired, MergeSelect, MergePart, MergeAbandon, MergePublish, MergeReclaim,
     MergeStep, history, headVars
<1>1. CASE DropExpired
  <2> DEFINE gone == Emptied(merge.pins, merge.cut)
  <2>1. UNCHANGED rows /\ (parts' = parts \/ parts' = parts \ gone)
    BY <1>1, Zenon DEF DropExpired, MergeCommit, store
  <2>2. \A p \in gone : rows[p] \subseteq expired
    BY Zenon DEF WorkInv, MergeWork, Emptied
  <2> HIDE DEF gone
  <2>3. \A r : In(r, parts', rows') => In(r, parts, rows)
    BY <2>1, Zenon DEF In
  <2>4. \A r : In(r, parts, rows) => In(r, parts', rows') \/ r \in expired
    BY <2>1, <2>2, Zenon DEF In
  <2>5. \A r \in Rec : Doubled(r, head', flushing', parts', rows') => Doubled(r, head, flushing, parts, rows)
    BY <1>0, <2>1, <2>3, Zenon DEF Doubled
  <2> QED BY <1>0, <2>4, <2>5, Zenon DEF ServesOn
<1>2. CASE MergePublish
  <2>1. UNCHANGED rows /\ merge.pc = "build" /\ merge.left = {}
    BY <1>2, Zenon DEF MergePublish, store
  <2>2. parts' = parts \/ parts' = (parts \ merge.src) \cup merge.outs
    BY <1>2, Zenon DEF MergePublish, MergeCommit
  <2>3. /\ merge.src \subseteq parts /\ Dealt(merge.outs, merge.left, rows) /\ merge.cut \subseteq expired
        /\ \A r \in Rec : In(r, merge.src, rows) => r \in merge.cut \/ In(r, merge.outs, rows)
        /\ \A r \in Rec : In(r, merge.outs, rows) => In(r, merge.src, rows)
    BY <2>1, Zenon DEF WorkInv, MergeWork
  <2>4. CASE parts' = parts
    BY <1>0, <2>1, <2>4, StillSteady, Zenon
  <2>5. CASE parts' = (parts \ merge.src) \cup merge.outs
    <3>1. \A r : In(r, merge.src, rows) => In(r, parts, rows)
      BY <2>3, Zenon DEF In
    <3>2. \A r : In(r, parts', rows') <=> In(r, parts \ merge.src, rows) \/ In(r, merge.outs, rows)
      BY <2>1, <2>5, Zenon DEF In
    <3>3. \A r : In(r, parts, rows) <=> In(r, parts \ merge.src, rows) \/ In(r, merge.src, rows)
      BY <2>3, Zenon DEF In
    <3>4. ASSUME NEW r \in Rec, Doubled(r, head', flushing', parts', rows') PROVE Doubled(r, head, flushing, parts, rows)
      <4>1. CASE r \in head /\ r \in flushing
        BY <4>1, Zenon DEF Doubled
      <4>2. CASE (r \in head \/ r \in flushing) /\ In(r, parts', rows')
        BY <2>3, <3>2, <3>3, <4>2, Zenon DEF Doubled
      <4>3. ASSUME NEW p \in parts', NEW q \in parts', p # q, r \in rows[p], r \in rows[q]
            PROVE  Doubled(r, head, flushing, parts, rows)
        <5>1. ~(p \in merge.outs /\ q \in merge.outs)
          BY <2>3, <4>3, Zenon DEF Dealt
        <5>2. CASE p \in parts \ merge.src /\ q \in parts \ merge.src
          BY <4>3, <5>2, Zenon DEF Doubled
        <5>3. ASSUME NEW a \in merge.outs, NEW b \in parts \ merge.src, r \in rows[a], r \in rows[b]
              PROVE  Doubled(r, head, flushing, parts, rows)
          <6>1. In(r, merge.src, rows)
            BY <2>3, <5>3, Zenon DEF In
          <6>2. PICK k \in merge.src : r \in rows[k]
            BY <6>1, Zenon DEF In
          <6>3. k \in parts /\ b \in parts /\ k # b
            BY <2>3, Zenon
          <6> QED BY <5>3, <6>2, <6>3, Zenon DEF Doubled
        <5> QED BY <2>5, <4>3, <5>1, <5>2, <5>3, Zenon
      <4>4. \/ r \in head /\ r \in flushing
            \/ (r \in head \/ r \in flushing) /\ In(r, parts', rows')
            \/ \E p, q \in parts' : p # q /\ r \in rows[p] /\ r \in rows[q]
        BY <1>0, <2>1, <3>4, Zenon DEF Doubled
      <4> QED BY <4>1, <4>2, <4>3, <4>4, Zenon
    <3>5. \A r \in Rec : In(r, parts, rows) => In(r, parts', rows') \/ r \in expired
      BY <2>3, <3>2, <3>3, Zenon
    <3> QED BY <1>0, <3>4, <3>5, Zenon DEF ServesOn
  <2> QED BY <2>2, <2>4, <2>5, Zenon
<1>3. ASSUME NEW p \in Part, NEW S \in SUBSET Rec, MergePart(p, S) PROVE ServesOn
  <2>1. UNCHANGED parts /\ WritePart(p, S)
    BY <1>3, Zenon DEF MergePart
  <2>2. \A q \in parts : rows'[q] = rows[q]
    BY <2>1, PartWritten, Zenon DEF SafeInv, MintedInv
  <2> QED BY <1>0, <2>1, <2>2, StillSteady, Zenon
<1>4. CASE MergeBegin \/ MergeAbandon \/ MergeReclaim \/ \E src \in SUBSET Part : MergeSelect(src)
  <2>1. UNCHANGED <<parts, rows>>
    BY <1>4, Zenon DEF MergeBegin, MergeCommit, MergeSelect, MergeAbandon, MergeReclaim, ReclaimRetired, DeleteParts, store
  <2> QED BY <1>0, <2>1, StillSteady, Zenon
<1> QED BY <1>1, <1>2, <1>3, <1>4, Zenon DEF Merge

LEMMA StepSteady == ASSUME SafeInv, WorkInv, [Next]_vars, up, up' PROVE ServesOn
<1>1. CASE (\E r \in Expirable : Expire(r)) \/ (\E ix \in limbo : LandLate(ix)) \/ UNCHANGED vars
  <2>1. UNCHANGED <<head, flushing, parts, acked, rows>>
    BY <1>1, Zenon DEF Expire, LandLate, vars, headVars, store, history
  <2> QED BY <2>1, StillSteady, Zenon
<1>2. ~ Crash /\ ~ Recover
  BY Zenon DEF Crash, Recover
<1> QED BY <1>1, <1>2, IngestSteady, FlushSteady, MergeSteady, Zenon DEF Next

\* While the process lives no append, flush, abort, merge or unconfirmed commit
\* makes a fetch return a batch twice: publishFlushLocked swaps the detached
\* buffers for outputs that share nothing, and a merge its sources for theirs.
THEOREM Unduplicated == Spec => NoNewDuplicates
<1>1. SafeInv /\ WorkInv /\ [Next]_vars => SafeInv' /\ WorkInv'
  BY SafeStep, WorkStep, Zenon
<1>2. SafeInv /\ WorkInv /\ SafeInv' /\ [Next]_vars => [up /\ up' => Twice' \subseteq Twice]_vars
  BY StepSteady, SteadyServes, Zenon
<1> QED BY SafeInit, WorkInit, <1>1, <1>2, PTL DEF Spec, NoNewDuplicates

\* While the process lives an acknowledged batch is readable at once, and one
\* that is readable, acknowledged or not, stays so until retention expires it,
\* whatever flushes, aborts, merges and reclaims are doing.
THEOREM ReadableStays == Spec => StaysReadable
<1>1. SafeInv /\ WorkInv /\ [Next]_vars => SafeInv' /\ WorkInv'
  BY SafeStep, WorkStep, Zenon
<1>2. SafeInv /\ WorkInv /\ SafeInv' /\ [Next]_vars
      => [up /\ up' => Served \cup (acked' \ acked) \subseteq Served' \cup expired']_vars
  BY StepSteady, SteadyServes, Zenon
<1> QED BY SafeInit, WorkInit, <1>1, <1>2, PTL DEF Spec, StaysReadable
=============================================================================
