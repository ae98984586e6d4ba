----------------------- MODULE RecordEngineDurability -----------------------
(***************************************************************************)
(* Proofs that RecordEngine, with retention off, loses no acknowledged     *)
(* batch across restarts and serves every one of them while it is up.      *)
(***************************************************************************)
EXTENDS RecordEngineProofs

\* Batch r, or a batch of stream s, is in one of the parts P.
Held(r, P) == \E p \in P : r \in rows[p]
HeldStream(s, P) == \E p \in P : \E x \in rows[p] : StreamOf[x] = s

\* Stream s has its identity logged above generation E, up to segment q.
Identified(s, E, q) == \E g \in ids : g.stream = s /\ g.epoch > E /\ g.seq <= q

\* A restart that finds an index naming P at watermark E recovers batch r.
Kept(r, P, E) ==
    \/ Held(r, P)
    \/ \E f \in log : /\ f.rec = r /\ f.epoch > E
                      /\ HeldStream(StreamOf[r], P) \/ Identified(StreamOf[r], E, f.seq)

\* Such a restart knows stream s by the time it reads what is logged next.
KnownTo(s, P, E) == HeldStream(s, P) \/ \E g \in ids : g.stream = s /\ g.epoch > E

\* Identity of s logged above generation E and after segment q.
LoggedAfter(s, E, q) == \E g \in ids : g.stream = s /\ g.epoch > E /\ g.seq > q

\* Batch r is logged with its identity above generation E and after segment q.
RelogAfter(r, E, q) ==
    \E f \in log, g \in ids :
        /\ f.rec = r /\ g.stream = StreamOf[r]
        /\ f.epoch > E /\ g.epoch > E
        /\ g.seq > q /\ g.seq <= f.seq

\* The streams whose identity an append does not log (again), or will not
\* once an abort has put the detached buffers back.
Buffered(s) == s \in buf \/ \E r \in flushing : StreamOf[r] = s

\* Retention has expired nothing, so a merge cuts nothing off.
ExpiryInv == expired = {} /\ merge.cut = {}

\* The buffers: every head batch has its stream's buffer, detached batches
\* exist only while their flush may still abort, and no identity frame is in
\* a segment numbered past the writer's.
BufferInv ==
    /\ \A r \in head : StreamOf[r] \in buf
    /\ flushing # {} => flush.pc \in {"abort", "build"}
    /\ up => \A g \in ids : g.seq <= walSeq

\* A merge carries every row of its sources.
CarryInv == merge.pc = "build" =>
    \A r \in Rec : Held(r, merge.src) => r \in merge.left \/ Held(r, merge.outs)

\* Every index a restart could find recovers every acknowledged batch, and
\* knows every stream whose identity the next append would not log again.
CandidateInv ==
    \A c \in Candidates :
        /\ \A r \in acked : Kept(r, c.parts, c.epoch)
        /\ \A s \in Stream : Buffered(s) => KnownTo(s, c.parts, c.epoch)

\* The same of the parts in memory, from which the next index is built.
LiveInv ==
    up => /\ \A r \in acked : Kept(r, parts, flushedEpoch)
          /\ \A s \in Stream : Buffered(s) => KnownTo(s, parts, flushedEpoch)

\* A fetch sees every acknowledged batch.
ServedInv == up => \A r \in acked : r \in head \/ r \in flushing \/ Held(r, parts)

\* Past generation E, the segments after the one the flush sealed hold what
\* neither the parts nor S do.
TailInv(S, E) ==
    /\ \A r \in acked : Held(r, parts) \/ r \in S \/ RelogAfter(r, E, flush.seq)
    /\ \A s \in buf : LoggedAfter(s, E, flush.seq)
    /\ flush.seq <= walSeq
    /\ segEpoch # 0 => flush.seq < walSeq

FlushInv ==
    /\ flush.pc = "build" => /\ TailInv(flushing, flush.epoch)
                             /\ \A r \in flushing : r \in flush.left \/ Held(r, flush.outs)
    /\ flush.pc = "checkpoint" => /\ TailInv({}, flushedEpoch)
                                  /\ limbo = {}
                                  /\ index.parts = parts /\ index.epoch = flushedEpoch

DurableInv == /\ SafeInv /\ ExpiryInv /\ BufferInv /\ CarryInv
              /\ CandidateInv /\ LiveInv /\ ServedInv /\ FlushInv
-----------------------------------------------------------------------------
LEMMA DurableInit == Init => DurableInv
<1> SUFFICES ASSUME Init PROVE DurableInv
  BY Zenon
<1>1. SafeInv
  BY SafeInit, Zenon
<1>2. ExpiryInv /\ BufferInv /\ CarryInv /\ ServedInv
  BY Zenon DEF Init, ExpiryInv, BufferInv, CarryInv, ServedInv, NoMerge
<1>3. CandidateInv /\ LiveInv
  BY Zenon DEF Init, CandidateInv, LiveInv, Buffered
<1>4. FlushInv
  BY Zenon DEF Init, FlushInv, NoFlush
<1> QED BY <1>1, <1>2, <1>3, <1>4, Zenon DEF DurableInv

\* Frames are numbered by naturals, before and after a step.
LEMMA FrameTypes ==
    ASSUME TypeOK
    PROVE  \A f \in log \cup ids : f.seq \in Nat /\ f.epoch \in Nat
BY Zenon DEF TypeOK, Frame, IdFrame

LEMMA NextTypes ==
    ASSUME TypeOK'
    PROVE  /\ walSeq' \in Nat /\ segEpoch' \in Nat /\ flushedEpoch' \in Nat
           /\ \A g \in ids' : g.seq \in Nat
<1>1. walSeq' \in Nat /\ segEpoch' \in Nat /\ flushedEpoch' \in Nat
  BY Zenon DEF TypeOK
<1>2. \A g \in ids' : g.seq \in Nat
  BY Zenon DEF TypeOK, IdFrame
<1> QED BY <1>1, <1>2, Zenon

\* What a restart recovers or knows only grows with the log and the parts.
LEMMA KeptGrows ==
    ASSUME NEW P \in SUBSET Part, NEW Q \in SUBSET Part, NEW E,
           log \subseteq log', ids \subseteq ids',
           \A p \in P : \A x \in rows[p] : \E q \in Q : x \in rows'[q]
    PROVE  /\ \A r : Held(r, P) => Held(r, Q)'
           /\ \A r : Kept(r, P, E) => Kept(r, Q, E)'
           /\ \A s : KnownTo(s, P, E) => KnownTo(s, Q, E)'
<1>1. \A r : Held(r, P) => Held(r, Q)'
  BY Zenon DEF Held
<1>2. \A s : HeldStream(s, P) => HeldStream(s, Q)'
  BY Zenon DEF HeldStream
<1>3. \A s, q : Identified(s, E, q) => Identified(s, E, q)'
  BY Zenon DEF Identified
<1>4. \A r : Kept(r, P, E) => Kept(r, Q, E)'
  BY <1>1, <1>2, <1>3, Zenon DEF Kept
<1>5. \A s : KnownTo(s, P, E) => KnownTo(s, Q, E)'
  BY <1>2, Zenon DEF KnownTo
<1> QED BY <1>1, <1>4, <1>5, Zenon

\* Steps that add to no buffer and leave the log alone.
LEMMA Steady ==
    ASSUME DurableInv, TypeOK', UNCHANGED <<log, ids, acked>>,
           \A p \in Part : rows[p] \subseteq rows'[p],
           Candidates' \subseteq Candidates,
           \A s \in Stream : Buffered(s)' => Buffered(s)
    PROVE  CandidateInv'
<1> SUFFICES ASSUME NEW c \in Candidates
             PROVE  /\ \A r \in acked : Kept(r, c.parts, c.epoch)'
                    /\ \A s \in Stream : Buffered(s)' => KnownTo(s, c.parts, c.epoch)'
  BY Zenon DEF CandidateInv
<1>1. c.parts \in SUBSET Part
  BY Zenon DEF DurableInv, SafeInv, TypeOK, Index, Candidates
<1>2. \A p \in c.parts : \A x \in rows[p] : \E q \in c.parts : x \in rows'[q]
  BY <1>1, Zenon
<1>3. /\ \A r : Kept(r, c.parts, c.epoch) => Kept(r, c.parts, c.epoch)'
      /\ \A s : KnownTo(s, c.parts, c.epoch) => KnownTo(s, c.parts, c.epoch)'
  BY <1>1, <1>2, KeptGrows, Zenon
<1> QED BY <1>3, Zenon DEF DurableInv, CandidateInv

LEMMA LiveGrows ==
    ASSUME log \subseteq log', ids \subseteq ids', flushedEpoch' = flushedEpoch,
           \A p \in parts : \A x \in rows[p] : \E q \in parts' : x \in rows'[q]
    PROVE  /\ \A r : Held(r, parts) => Held(r, parts)'
           /\ \A r : Kept(r, parts, flushedEpoch) => Kept(r, parts, flushedEpoch)'
           /\ \A s : KnownTo(s, parts, flushedEpoch) => KnownTo(s, parts, flushedEpoch)'
<1>1. \A r : Held(r, parts) => Held(r, parts)'
  BY Zenon DEF Held
<1>2. \A s : HeldStream(s, parts) => HeldStream(s, parts)'
  BY Zenon DEF HeldStream
<1>3. \A s, q : Identified(s, flushedEpoch, q) => Identified(s, flushedEpoch, q)'
  BY Zenon DEF Identified
<1>4. \A r : Kept(r, parts, flushedEpoch) => Kept(r, parts, flushedEpoch)'
  BY <1>1, <1>2, <1>3, Zenon DEF Kept
<1>5. \A s : KnownTo(s, parts, flushedEpoch) => KnownTo(s, parts, flushedEpoch)'
  BY <1>2, Zenon DEF KnownTo
<1> QED BY <1>1, <1>4, <1>5, Zenon
-----------------------------------------------------------------------------
\* An append to stream s, as every index that may be found sees it.
Appends(s) ==
    /\ up /\ up' /\ s \in Stream
    /\ ids' = IF s \in buf THEN ids
              ELSE ids \cup {[stream |-> s, seq |-> walSeq', epoch |-> segEpoch']}
    /\ buf' = buf \cup {s}
    /\ walSeq <= walSeq' /\ segEpoch' # 0 /\ (segEpoch = 0 => walSeq < walSeq')
    /\ UNCHANGED <<index, limbo, rows, parts, flushing, flush, merge, expired, flushedEpoch>>
    /\ \/ log \subseteq log' /\ acked' = acked /\ head' = head
       \/ \E r \in Rec : /\ StreamOf[r] = s
                         /\ log' = log \cup {[rec |-> r, seq |-> walSeq', epoch |-> segEpoch']}
                         /\ acked' = acked \cup {r} /\ head' = head \cup {r}

LEMMA AppendView ==
    ASSUME DurableInv, SafeInv', NEW s, Appends(s),
           NEW P \in SUBSET Part, NEW E \in Nat, E < segEpoch',
           \A r \in acked : Kept(r, P, E),
           \A z \in Stream : Buffered(z) => KnownTo(z, P, E)
    PROVE  /\ \A r \in acked' : Kept(r, P, E)'
           /\ \A z \in Stream : Buffered(z)' => KnownTo(z, P, E)'
<1>1. log \subseteq log' /\ ids \subseteq ids' /\ rows' = rows /\ s \in Stream
  BY Zenon DEF Appends
<1>2. /\ \A r : Kept(r, P, E) => Kept(r, P, E)'
      /\ \A z : KnownTo(z, P, E) => KnownTo(z, P, E)'
  BY <1>1, KeptGrows, Zenon
<1>3. \A z \in Stream : Buffered(z)' => Buffered(z) \/ z = s
  BY Zenon DEF Appends, Buffered
<1>4. PICK n, e : n = walSeq' /\ e = segEpoch'
  BY Zenon
<1>5. n \in Nat /\ e \in Nat /\ e > E
  BY <1>4, Zenon DEF SafeInv, TypeOK
<1>6. HeldStream(s, P)' \/ Identified(s, E, n)'
  <2>1. CASE s \in buf
    <3>1. HeldStream(s, P) \/ \E g \in ids : g.stream = s /\ g.epoch > E
      BY <1>1, <2>1, Zenon DEF KnownTo, Buffered
    <3>2. \A g \in ids : g.seq <= n
      <4>1. walSeq <= walSeq' /\ \A g \in ids : g.seq <= walSeq
        BY Zenon DEF DurableInv, BufferInv, Appends
      <4>2. walSeq \in Nat /\ \A g \in ids : g.seq \in Nat
        BY EpochTypes, FrameTypes, Zenon DEF DurableInv, SafeInv
      <4> QED BY <1>4, <1>5, <4>1, <4>2
    <3> QED BY <1>1, <3>1, <3>2, Zenon DEF HeldStream, Identified
  <2>2. CASE s \notin buf
    <3>1. [stream |-> s, seq |-> n, epoch |-> e] \in ids'
      BY <1>4, <2>2, Zenon DEF Appends
    <3> QED BY <1>5, <3>1 DEF Identified
  <2> QED BY <2>1, <2>2, Zenon
<1>7. KnownTo(s, P, E)'
  BY <1>6, Zenon DEF KnownTo, Identified
<1>8. ASSUME NEW r \in acked', r \notin acked PROVE Kept(r, P, E)'
  <2>1. StreamOf[r] = s /\ [rec |-> r, seq |-> n, epoch |-> e] \in log'
    BY <1>4, <1>8, Zenon DEF Appends
  <2>2. PICK f \in log' : f.rec = r /\ f.epoch = e /\ f.seq = n
    BY <2>1, Zenon
  <2>3. HeldStream(StreamOf[r], P)' \/ Identified(StreamOf[r], E, f.seq)'
    BY <1>6, <2>1, <2>2, Zenon
  <2> QED BY <1>5, <2>2, <2>3, Zenon DEF Kept
<1> QED BY <1>2, <1>3, <1>7, <1>8, Zenon

LEMMA IngestAppends == ASSUME TypeOK, Ingest PROVE \E s \in Stream : Appends(s)
<1> USE StreamOfType, InputsType
<1>1. ASSUME NEW rotate, Prepare(rotate)
      PROVE  walSeq <= walSeq' /\ segEpoch' # 0 /\ (segEpoch = 0 => walSeq < walSeq')
  BY <1>1 DEF Prepare, TypeOK
<1>2. ASSUME NEW r \in Rec, NEW rotate \in BOOLEAN, AppendBatch(r, rotate) PROVE Appends(StreamOf[r])
  BY <1>1, <1>2, Zenon DEF AppendBatch, LogBatch, WriteSeries, Appends, store, commitVars
<1>3. ASSUME NEW r \in Unsyncable, AppendUnsynced(r) PROVE Appends(StreamOf[r])
  BY <1>1, <1>3, Zenon DEF AppendUnsynced, LogBatch, WriteSeries, Appends, store, commitVars
<1>4. ASSUME NEW s \in Rejecting, RejectBatch(s) PROVE Appends(s)
  BY <1>1, <1>4, Zenon DEF RejectBatch, WriteSeries, Appends, history, store, commitVars
<1> QED BY <1>2, <1>3, <1>4, Zenon DEF Ingest

LEMMA AppendTail ==
    ASSUME DurableInv, SafeInv', NEW s, Appends(s), NEW S, NEW E \in Nat, E < segEpoch',
           flush.seq < walSeq', TailInv(S, E)
    PROVE  TailInv(S, E)'
<1>1. /\ log \subseteq log' /\ ids \subseteq ids' /\ s \in Stream
      /\ UNCHANGED <<rows, parts, flush>>
  BY Zenon DEF Appends
<1>2. PICK n, e, q : n = walSeq' /\ e = segEpoch' /\ q = flush.seq
  BY Zenon
<1>3. n \in Nat /\ e \in Nat /\ q \in Nat /\ e > E /\ n > q
  BY <1>2, Zenon DEF SafeInv, TypeOK, DurableInv
<1>4. /\ \A z : LoggedAfter(z, E, q) => LoggedAfter(z, E, q)'
      /\ \A r : RelogAfter(r, E, q) => RelogAfter(r, E, q)'
  BY <1>1, Zenon DEF LoggedAfter, RelogAfter
<1>5. PICK g \in ids' : g.stream = s /\ g.epoch > E /\ g.seq > q /\ g.seq <= n
  <2>1. CASE s \in buf
    <3>1. PICK g \in ids : g.stream = s /\ g.epoch > E /\ g.seq > q
      BY <1>2, <2>1, Zenon DEF TailInv, LoggedAfter
    <3>2. g.seq <= n
      <4>1. walSeq <= walSeq' /\ g.seq <= walSeq
        BY <3>1, Zenon DEF DurableInv, BufferInv, Appends
      <4>2. walSeq \in Nat /\ g.seq \in Nat
        BY <3>1, EpochTypes, FrameTypes, Zenon DEF DurableInv, SafeInv
      <4> QED BY <1>2, <1>3, <4>1, <4>2
    <3> QED BY <1>1, <3>1, <3>2, Zenon
  <2>2. CASE s \notin buf
    <3>1. [stream |-> s, seq |-> n, epoch |-> e] \in ids'
      BY <1>2, <2>2, Zenon DEF Appends
    <3> QED BY <1>3, <3>1
  <2> QED BY <2>1, <2>2, Zenon
<1>6. \A z \in buf' : LoggedAfter(z, E, q)'
  <2>1. LoggedAfter(s, E, q)'
    BY <1>5, Zenon DEF LoggedAfter
  <2> QED BY <1>2, <1>4, <2>1, Zenon DEF TailInv, Appends
<1>7. \A r \in acked' : Held(r, parts)' \/ r \in S \/ RelogAfter(r, E, q)'
  <2>1. ASSUME NEW r \in acked', r \notin acked PROVE RelogAfter(r, E, q)'
    <3>1. StreamOf[r] = s /\ [rec |-> r, seq |-> n, epoch |-> e] \in log'
      BY <1>2, <2>1, Zenon DEF Appends
    <3>2. PICK f \in log' : f.rec = r /\ f.epoch = e /\ f.seq = n
      BY <3>1, Zenon
    <3> QED BY <1>3, <1>5, <3>1, <3>2, Zenon DEF RelogAfter
  <2>2. \A r : Held(r, parts) => Held(r, parts)'
    BY <1>1, Zenon DEF Held
  <2> QED BY <1>2, <1>4, <2>1, <2>2, Zenon DEF TailInv
<1>8. flush'.seq = q /\ q < walSeq'
  BY <1>1, <1>2, <1>3, Zenon
<1>9. /\ \A r \in acked' : Held(r, parts)' \/ r \in S \/ RelogAfter(r, E, flush.seq)'
      /\ \A z \in buf' : LoggedAfter(z, E, flush.seq)'
  BY <1>6, <1>7, <1>8, Zenon DEF LoggedAfter, RelogAfter
<1>10. flush'.seq <= walSeq' /\ flush'.seq < walSeq'
  BY <1>3, <1>8 DEF SafeInv, TypeOK
<1> QED BY <1>9, <1>10, Zenon DEF TailInv

LEMMA IngestDurable == ASSUME DurableInv, Ingest, SafeInv' PROVE DurableInv'
<1> USE DEF DurableInv
<1>1. PICK s \in Stream : Appends(s)
  BY IngestAppends, Zenon DEF SafeInv
<1>2. ExpiryInv' /\ BufferInv' /\ CarryInv'
  <2>1. ExpiryInv' /\ CarryInv'
    BY <1>1, Zenon DEF Appends, ExpiryInv, CarryInv, Held
  <2>2. \A r \in head' : StreamOf[r] \in buf'
    BY <1>1, Zenon DEF Appends, BufferInv
  <2>3. \A g \in ids' : g.seq <= walSeq'
    <3>1. /\ walSeq \in Nat /\ walSeq' \in Nat
          /\ \A g \in ids : g.seq \in Nat /\ g.seq <= walSeq
      <4>1. up /\ TypeOK /\ TypeOK'
        BY <1>1, Zenon DEF Appends, SafeInv
      <4>2. \A g \in ids : g.seq <= walSeq
        BY <4>1, Zenon DEF BufferInv
      <4> QED BY <4>1, <4>2, EpochTypes, FrameTypes, NextTypes, Zenon
    <3>2. walSeq <= walSeq' /\ \A g \in ids' : g \in ids \/ g.seq = walSeq'
      <4>1. /\ walSeq <= walSeq'
            /\ ids' \subseteq ids \cup {[stream |-> s, seq |-> walSeq', epoch |-> segEpoch']}
        BY <1>1, Zenon DEF Appends
      <4> QED BY <4>1
    <3> QED BY <3>1, <3>2
  <2> QED BY <1>1, <2>1, <2>2, <2>3, Zenon DEF Appends, BufferInv
<1>3. ServedInv'
  BY <1>1, Zenon DEF Appends, ServedInv, Held
<1>4. /\ flushedEpoch < segEpoch' /\ up /\ Candidates' = Candidates
      /\ flush.pc = "build" => flush.epoch < segEpoch'
  BY <1>1, Zenon DEF Appends, SafeInv, EpochInv, Candidates
<1>5. CandidateInv'
  <2>1. SUFFICES ASSUME NEW c \in Candidates
                 PROVE  /\ \A r \in acked' : Kept(r, c.parts, c.epoch)'
                        /\ \A z \in Stream : Buffered(z)' => KnownTo(z, c.parts, c.epoch)'
    BY <1>4, Zenon DEF CandidateInv
  <2>2. c.parts \in SUBSET Part
    BY Zenon DEF SafeInv, TypeOK, Index, Candidates
  <2>3. c.epoch \in Nat /\ c.epoch <= flushedEpoch /\ flushedEpoch \in Nat /\ segEpoch' \in Nat
    BY <1>4, EpochTypes, NextTypes, Zenon DEF SafeInv, EpochInv
  <2>4. c.epoch < segEpoch'
    BY <1>4, <2>3
  <2> QED BY <1>1, <2>2, <2>3, <2>4, AppendView, Zenon DEF CandidateInv
<1>6. LiveInv'
  <2>1. PICK P, E : P = parts /\ E = flushedEpoch
    BY Zenon
  <2>2. P \in SUBSET Part /\ E \in Nat /\ E < segEpoch'
    BY <1>4, <2>1, Zenon DEF SafeInv, TypeOK
  <2>3. /\ \A r \in acked : Kept(r, P, E)
        /\ \A z \in Stream : Buffered(z) => KnownTo(z, P, E)
    BY <1>4, <2>1, Zenon DEF LiveInv
  <2>4. /\ \A r \in acked' : Kept(r, P, E)'
        /\ \A z \in Stream : Buffered(z)' => KnownTo(z, P, E)'
    BY <1>1, <2>2, <2>3, AppendView, Zenon
  <2>5. parts' = P /\ flushedEpoch' = E
    BY <1>1, <2>1, Zenon DEF Appends
  <2>6. /\ \A r \in acked' : Kept(r, parts, flushedEpoch)'
        /\ \A z \in Stream : Buffered(z)' => KnownTo(z, parts, flushedEpoch)'
    BY <2>4, <2>5, Zenon DEF Kept, KnownTo, Held, HeldStream, Identified
  <2> QED BY <2>6, Zenon DEF LiveInv
<1>7. FlushInv'
  <2>1. flush.pc \in {"build", "checkpoint"} => flush.seq < walSeq'
    <3>1. /\ walSeq \in Nat /\ walSeq' \in Nat /\ flush.seq \in Nat
          /\ walSeq <= walSeq' /\ (segEpoch = 0 => walSeq < walSeq')
      BY <1>1, EpochTypes, NextTypes, Zenon DEF SafeInv, Appends
    <3>2. flush.pc \in {"build", "checkpoint"} =>
             flush.seq <= walSeq /\ (segEpoch # 0 => flush.seq < walSeq)
      BY Zenon DEF FlushInv, TailInv
    <3> QED BY <3>1, <3>2
  <2>2. /\ UNCHANGED <<flush, flushing, flushedEpoch, limbo, index, parts, rows>>
        /\ flushedEpoch \in Nat /\ flush.epoch \in Nat
    BY <1>1, Zenon DEF Appends, SafeInv, TypeOK
  <2>3. PICK F, E : F = flushing /\ E = flush.epoch
    BY Zenon
  <2>4. CASE flush.pc = "build"
    <3>1. TailInv(F, E)'
      BY <1>1, <1>4, <2>1, <2>2, <2>3, <2>4, AppendTail, Zenon DEF FlushInv
    <3>2. TailInv(flushing, flush.epoch)'
      BY <2>2, <2>3, <3>1, Zenon DEF TailInv, LoggedAfter, RelogAfter
    <3> QED BY <2>2, <2>4, <3>2, Zenon DEF FlushInv, Held
  <2>5. CASE flush.pc = "checkpoint"
    <3>1. PICK D : D = flushedEpoch
      BY Zenon
    <3>2. TailInv({}, D)'
      BY <1>1, <1>4, <2>1, <2>2, <2>5, <3>1, AppendTail, Zenon DEF FlushInv
    <3>3. TailInv({}, flushedEpoch)'
      BY <2>2, <3>1, <3>2, Zenon DEF TailInv, LoggedAfter, RelogAfter
    <3> QED BY <2>2, <2>5, <3>3, Zenon DEF FlushInv
  <2> QED BY <2>2, <2>4, <2>5, Zenon DEF FlushInv
<1> QED BY <1>2, <1>3, <1>5, <1>6, <1>7, Zenon
-----------------------------------------------------------------------------
\* Steps that write parts at most, and add to no buffer.
LEMMA Quiet ==
    ASSUME DurableInv, SafeInv', up, up',
           UNCHANGED <<log, ids, acked, index, limbo, parts, flushedEpoch>>,
           \A p \in Part : rows[p] \subseteq rows'[p],
           \A s \in Stream : Buffered(s)' => Buffered(s)
    PROVE  CandidateInv' /\ LiveInv' /\ (\A r : Held(r, parts) => Held(r, parts)')
<1>1. CandidateInv'
  BY Steady, Zenon DEF SafeInv, Candidates
<1>2. \A p \in parts : \A x \in rows[p] : \E q \in parts' : x \in rows'[q]
  BY Zenon DEF DurableInv, SafeInv, TypeOK
<1>3. LiveInv' /\ (\A r : Held(r, parts) => Held(r, parts)')
  BY <1>2, LiveGrows, Zenon DEF DurableInv, LiveInv
<1> QED BY <1>1, <1>3, Zenon

\* The tail of the log is untouched as far as an ongoing flush is concerned.
LEMMA QuietTail ==
    ASSUME DurableInv, UNCHANGED <<log, ids, acked, buf, walSeq, segEpoch, flushedEpoch, flushing, index, limbo, parts>>,
           flush'.pc = flush.pc, flush'.seq = flush.seq, flush'.epoch = flush.epoch,
           \A r : Held(r, parts) => Held(r, parts)',
           flush.pc = "build" => \A r \in flushing : r \in flush'.left \/ Held(r, flush.outs)'
    PROVE  FlushInv'
<1>2. ASSUME flush.pc = "build" PROVE TailInv(flushing, flush.epoch)'
  <2>1. /\ \A r : RelogAfter(r, flush.epoch, flush.seq) => RelogAfter(r, flush.epoch, flush.seq)'
        /\ \A s : LoggedAfter(s, flush.epoch, flush.seq) => LoggedAfter(s, flush.epoch, flush.seq)'
    BY Zenon DEF RelogAfter, LoggedAfter
  <2> QED BY <1>2, <2>1, Zenon DEF DurableInv, FlushInv, TailInv
<1>3. ASSUME flush.pc = "checkpoint" PROVE TailInv({}, flushedEpoch)'
  <2>1. /\ \A r : RelogAfter(r, flushedEpoch, flush.seq) => RelogAfter(r, flushedEpoch, flush.seq)'
        /\ \A s : LoggedAfter(s, flushedEpoch, flush.seq) => LoggedAfter(s, flushedEpoch, flush.seq)'
    BY Zenon DEF RelogAfter, LoggedAfter
  <2> QED BY <1>3, <2>1, Zenon DEF DurableInv, FlushInv, TailInv
<1> QED BY <1>2, <1>3, Zenon DEF DurableInv, FlushInv

LEMMA FlushQuietDurable ==
    ASSUME DurableInv, SafeInv',
           \/ FlushBegin \/ FlushNothing \/ AbortFlush \/ FlushReclaim
           \/ \E q \in Part, S \in SUBSET Rec : FlushPart(q, S)
    PROVE  DurableInv'
<1> USE DEF DurableInv
<1>1. CASE FlushBegin
  <2>1. /\ up /\ up' /\ flush.pc = "idle"
        /\ flushing' = head /\ head' = {} /\ buf' = {}
        /\ UNCHANGED <<log, ids, walSeq, acked, expired, index, limbo, parts, flushedEpoch, rows, merge>>
        /\ flush'.pc \in {"abort", "build"} /\ flush'.seq = walSeq /\ flush'.left = head /\ segEpoch' = 0
    <3>1. /\ Seal(Max2(flushedEpoch + 1, walEpoch) + 1) \/ SealFailed
          /\ \E e, pc : pc \in {"abort", "build"} /\
                flush' = [pc |-> pc, epoch |-> e, seq |-> walSeq, left |-> head, outs |-> {}]
      BY <1>1, Zenon DEF FlushBegin
    <3>2. flush'.pc \in {"abort", "build"} /\ flush'.seq = walSeq /\ flush'.left = head
      BY <3>1
    <3>3. segEpoch' = 0 /\ UNCHANGED <<log, ids, walSeq>>
      BY <3>1, Zenon DEF Seal, SealFailed
    <3>4. /\ up /\ up' /\ flush.pc = "idle"
          /\ flushing' = head /\ head' = {} /\ buf' = {}
          /\ UNCHANGED <<acked, expired, index, limbo, parts, flushedEpoch, rows, merge>>
      BY <1>1, Zenon DEF FlushBegin, FlushStep, history, store, commitVars
    <3> QED BY <3>2, <3>3, <3>4, Zenon
  <2>2. \A s \in Stream : Buffered(s)' => Buffered(s)
    BY <2>1, Zenon DEF Buffered, BufferInv
  <2>3. CandidateInv' /\ LiveInv'
    BY <2>1, <2>2, Quiet, Zenon
  <2>4. ExpiryInv' /\ BufferInv' /\ CarryInv'
    BY <2>1, Zenon DEF ExpiryInv, BufferInv, CarryInv, Held
  <2>5. flushing = {}
    BY <2>1, Zenon DEF BufferInv
  <2>6. ServedInv'
    BY <2>1, <2>5, Zenon DEF ServedInv, Held
  <2>7. FlushInv'
    <3>1. \A r \in acked' : Held(r, parts)' \/ r \in flushing'
      BY <2>1, <2>6, Zenon DEF ServedInv
    <3>2. flush'.seq <= walSeq' /\ segEpoch' = 0 /\ buf' = {}
      BY <2>1, EpochTypes DEF SafeInv
    <3>3. flush'.pc # "checkpoint" /\ \A r \in flushing' : r \in flush'.left
      BY <2>1, Zenon
    <3>4. TailInv(flushing, flush.epoch)'
      BY <3>1, <3>2, Zenon DEF TailInv
    <3> QED BY <3>3, <3>4, Zenon DEF FlushInv
  <2> QED BY <2>3, <2>4, <2>6, <2>7, Zenon
<1>2. CASE FlushNothing \/ FlushReclaim
  <2>1. /\ up /\ up' /\ flush'.pc \in {"idle", "reclaim"} /\ flush.pc \in {"idle", "reclaim"}
        /\ UNCHANGED <<log, ids, walSeq, acked, expired, index, limbo, parts, flushedEpoch, rows, merge, head, buf, flushing>>
    BY SMTT(30), <1>2 DEF FlushNothing, FlushReclaim, ReclaimRetired, DeleteParts, NoFlush, FlushStep,
                history, store, commitVars, logVars, headVars
  <2>2. CandidateInv' /\ LiveInv'
    BY <2>1, Quiet, Zenon DEF Buffered
  <2>3. ExpiryInv' /\ BufferInv' /\ CarryInv' /\ ServedInv' /\ FlushInv'
    BY <2>1, Zenon DEF ExpiryInv, BufferInv, CarryInv, ServedInv, FlushInv, Held
  <2> QED BY <2>2, <2>3, Zenon
<1>3. CASE AbortFlush
  <2>1. /\ up /\ up' /\ flush' = NoFlush /\ flushing' = {}
        /\ head' = head \cup flushing /\ buf' = buf \cup StreamsOf(flushing)
        /\ UNCHANGED <<log, ids, walSeq, acked, expired, index, limbo, parts, flushedEpoch, rows, merge>>
    BY <1>3, Zenon DEF AbortFlush, FlushStep, history, store, commitVars, logVars
  <2>2. \A s \in Stream : Buffered(s)' => Buffered(s)
    BY <2>1, Zenon DEF Buffered, StreamsOf
  <2>3. CandidateInv' /\ LiveInv'
    BY <2>1, <2>2, Quiet, Zenon
  <2>4. BufferInv'
    BY <2>1, Zenon DEF BufferInv, StreamsOf
  <2>5. ExpiryInv' /\ CarryInv' /\ ServedInv' /\ FlushInv'
    BY <2>1, Zenon DEF ExpiryInv, CarryInv, ServedInv, FlushInv, Held, NoFlush
  <2> QED BY <2>3, <2>4, <2>5, Zenon
<1>4. ASSUME NEW q \in Part, NEW S \in SUBSET Rec, FlushPart(q, S) PROVE DurableInv'
  <2>1. /\ up /\ up' /\ flush'.pc = flush.pc /\ flush'.seq = flush.seq /\ flush'.epoch = flush.epoch
        /\ flush.pc = "build" /\ flush'.left = flush.left \ S /\ flush'.outs = flush.outs \cup {q}
        /\ q \notin Minted /\ rows' = [rows EXCEPT ![q] = S]
        /\ UNCHANGED <<log, ids, walSeq, segEpoch, acked, expired, index, limbo, parts, flushedEpoch, merge,
                       head, buf, flushing>>
    BY <1>4, Zenon DEF FlushPart, WritePart, FlushStep, history, commitVars, logVars, headVars, SafeInv, TypeOK
  <2>2. rows'[q] = S /\ \A p \in Part : rows[p] \subseteq rows'[p]
    BY <2>1, ZenonT(30) DEF Minted, SafeInv, TypeOK
  <2>3. CandidateInv' /\ LiveInv' /\ (\A r : Held(r, parts) => Held(r, parts)')
    BY <2>1, <2>2, Quiet, Zenon DEF Buffered
  <2>4. ExpiryInv' /\ BufferInv' /\ ServedInv'
    BY <2>1, <2>3, Zenon DEF ExpiryInv, BufferInv, ServedInv
  <2>5. CarryInv'
    <3>1. merge.src \subseteq Minted /\ merge.outs \subseteq Part
      BY Zenon DEF SafeInv, MintedInv, Minted
    <3>2. \A p \in merge.src : rows'[p] = rows[p]
      BY <2>1, <3>1, Zenon DEF Minted, SafeInv, TypeOK
    <3>3. merge' = merge
      BY <2>1, Zenon
    <3>4. \A r : (\E p \in merge.src : r \in rows'[p]) => Held(r, merge.src)
      BY <3>2, Zenon DEF Held
    <3>5. \A r : Held(r, merge.outs) => \E p \in merge.outs : r \in rows'[p]
      BY <2>2, <3>1, Zenon DEF Held
    <3> QED BY <2>1, <3>3, <3>4, <3>5, Zenon DEF CarryInv, Held
  <2>6. \A r \in flushing : r \in flush'.left \/ Held(r, flush.outs)'
    <3>1. flush.outs \subseteq Part
      BY Zenon DEF SafeInv, TypeOK
    <3> QED BY <2>1, <2>2, <3>1, Zenon DEF FlushInv, Held
  <2>7. FlushInv'
    BY <2>1, <2>3, <2>6, QuietTail, Zenon
  <2> QED BY <2>3, <2>4, <2>5, <2>7, Zenon
<1> QED BY <1>1, <1>2, <1>3, <1>4, Zenon
-----------------------------------------------------------------------------
\* A commit whose index would itself recover everything.
LEMMA CommitDurable ==
    ASSUME DurableInv, UNCHANGED <<log, ids, rows, acked>>,
           NEW P, NEW E, NEW R,
           Candidates' \subseteq Candidates \cup {[parts |-> P, epoch |-> E, removed |-> R]},
           \A s \in Stream : Buffered(s)' => Buffered(s),
           \A r \in acked : Kept(r, P, E),
           \A s \in Stream : Buffered(s)' => KnownTo(s, P, E)
    PROVE  CandidateInv'
<1>1. SUFFICES ASSUME NEW c \in Candidates'
               PROVE  /\ \A r \in acked : Kept(r, c.parts, c.epoch)'
                      /\ \A s \in Stream : Buffered(s)' => KnownTo(s, c.parts, c.epoch)'
  BY Zenon DEF CandidateInv
<1>2. \A D, F, r : Kept(r, D, F) => Kept(r, D, F)'
  BY ZenonT(30) DEF Kept, Held, HeldStream, Identified
<1>3. \A D, F, s : KnownTo(s, D, F) => KnownTo(s, D, F)'
  BY Zenon DEF KnownTo, HeldStream
<1>4. CASE c \in Candidates
  BY <1>2, <1>3, <1>4, Zenon DEF DurableInv, CandidateInv
<1>5. CASE c = [parts |-> P, epoch |-> E, removed |-> R]
  <2>1. c.parts = P /\ c.epoch = E
    BY <1>5, Zenon
  <2> QED BY <1>2, <1>3, <2>1, Zenon
<1> QED BY <1>4, <1>5, Zenon

LEMMA PublishDurable ==
    ASSUME DurableInv, SafeInv', NEW out \in Outcome, PublishFlush(out)
    PROVE  DurableInv'
<1> USE DEF DurableInv
<1>1. /\ up /\ up' /\ flush.pc = "build" /\ flush.left = {} /\ parts' = FlushNext /\ flushedEpoch' = FlushEpoch
      /\ FlushNext = parts \cup flush.outs
      /\ flushing' = {} /\ CommitIndex(FlushNext, FlushEpoch, out)
      /\ flush' = IF out = "landed" THEN [flush EXCEPT !.pc = "checkpoint"] ELSE NoFlush
      /\ UNCHANGED <<log, ids, walSeq, segEpoch, acked, expired, rows, merge, head, buf>>
  BY Zenon DEF PublishFlush, FlushNext, FlushStep, logVars, history, store
<1>2. PICK P, E, R : P = FlushNext /\ E = FlushEpoch /\ R = NextRemovals(FlushNext)
  BY Zenon
<1>3. E = flush.epoch
  <2>1. flushedEpoch < flush.epoch /\ flushedEpoch \in Nat /\ flush.epoch \in Nat
    BY <1>1, EpochTypes, Zenon DEF SafeInv, EpochInv
  <2> QED BY <1>2, <2>1 DEF FlushEpoch, Max2
<1>4. /\ Candidates' \subseteq Candidates \cup {[parts |-> P, epoch |-> E, removed |-> R]}
      /\ out = "landed" => index' = [parts |-> P, epoch |-> E, removed |-> R] /\ limbo' = {}
  BY <1>1, <1>2, CommitEffect DEF Candidates, SafeInv
<1>5. \A r : r \in flushing \/ Held(r, parts) => Held(r, P)
  BY <1>1, <1>2, Zenon DEF FlushInv, Held
<1>6. \A r \in acked : Held(r, P) \/ RelogAfter(r, E, flush.seq)
  BY <1>1, <1>3, <1>5, Zenon DEF FlushInv, TailInv
<1>7. \A r \in acked : Kept(r, P, E)
  BY <1>6, Zenon DEF Kept, RelogAfter, Identified
<1>8. \A s \in buf : LoggedAfter(s, E, flush.seq)
  BY <1>1, <1>3, Zenon DEF FlushInv, TailInv
<1>9. /\ \A s \in Stream : Buffered(s)' => Buffered(s)
      /\ \A s \in Stream : Buffered(s)' => KnownTo(s, P, E)
  BY <1>1, <1>8, Zenon DEF Buffered, KnownTo, LoggedAfter
<1>10. CandidateInv'
  BY <1>1, <1>4, <1>7, <1>9, CommitDurable, Zenon
<1>11. parts' = P /\ flushedEpoch' = E
  BY <1>1, <1>2, Zenon
<1>12. LiveInv'
  <2>1. \A r \in acked' : Kept(r, parts, flushedEpoch)'
    BY <1>1, <1>7, <1>11 DEF Kept, Held, HeldStream, Identified
  <2>2. \A s \in Stream : Buffered(s)' => KnownTo(s, parts, flushedEpoch)'
    BY <1>1, <1>9, <1>11, Zenon DEF KnownTo, HeldStream
  <2> QED BY <2>1, <2>2, Zenon DEF LiveInv
<1>13. ServedInv'
  BY <1>1, <1>5, <1>11, Zenon DEF ServedInv, Held
<1>14. ExpiryInv' /\ BufferInv' /\ CarryInv'
  BY <1>1, Zenon DEF ExpiryInv, BufferInv, CarryInv, Held
<1>15. FlushInv'
  <2>1. CASE out # "landed"
    BY <1>1, <2>1, Zenon DEF FlushInv, NoFlush
  <2>2. CASE out = "landed"
    <3>a. flush'.pc = "checkpoint" /\ flush'.seq = flush.seq
      BY <1>1, <2>2, Zenon DEF SafeInv, TypeOK
    <3>b. limbo' = {} /\ index'.parts = parts' /\ index'.epoch = flushedEpoch'
      BY <1>4, <1>11, <2>2
    <3>1. /\ flush'.pc = "checkpoint" /\ flush'.seq = flush.seq
          /\ limbo' = {} /\ index'.parts = parts' /\ index'.epoch = flushedEpoch'
      BY <3>a, <3>b, Zenon
    <3>2. /\ \A r \in acked' : Held(r, parts)' \/ RelogAfter(r, flushedEpoch, flush.seq)'
          /\ \A s \in buf' : LoggedAfter(s, flushedEpoch, flush.seq)'
      BY <1>1, <1>6, <1>8, <1>11, <3>1 DEF Held, RelogAfter, LoggedAfter
    <3>3. flush'.seq <= walSeq' /\ (segEpoch' # 0 => flush'.seq < walSeq')
      BY <1>1, <3>1, Zenon DEF FlushInv, TailInv
    <3> QED BY <3>1, <3>2, <3>3, Zenon DEF FlushInv, TailInv
  <2> QED BY <2>1, <2>2, Zenon
<1> QED BY <1>10, <1>12, <1>13, <1>14, <1>15, Zenon

LEMMA CheckpointDurable == ASSUME DurableInv, SafeInv', FlushCheckpoint PROVE DurableInv'
<1> USE DEF DurableInv
<1>1. PICK stop \in 0 .. flush.seq + 1 :
          log' = {f \in log : f.seq >= stop} /\ ids' = {g \in ids : g.seq >= stop}
  BY Zenon DEF FlushCheckpoint, CheckpointThrough
<1>2. /\ up /\ up' /\ flush.pc = "checkpoint" /\ flush' = [NoFlush EXCEPT !.pc = "reclaim"]
      /\ UNCHANGED <<walSeq, segEpoch, acked, expired, index, limbo, parts, flushedEpoch, rows, merge, head, buf, flushing>>
  BY Zenon DEF FlushCheckpoint, CheckpointThrough, FlushStep, history, headVars, store, commitVars
<1>3. flush'.pc = "reclaim" /\ flushing = {} /\ Candidates' = {index}
  BY <1>2, Zenon DEF NoFlush, BufferInv, FlushInv, Candidates
<1>4. flush.seq \in Nat /\ \A f \in log \cup ids : f.seq \in Nat /\ (f.seq > flush.seq => f.seq >= stop)
  <2>1. flush.seq \in Nat /\ \A f \in log \cup ids : f.seq \in Nat
    BY EpochTypes, FrameTypes, Zenon DEF SafeInv
  <2>2. stop \in Nat /\ stop <= flush.seq + 1
    BY <1>1, <2>1
  <2> QED BY <2>1, <2>2
<1>5. PICK P, E : P = parts /\ E = flushedEpoch
  BY Zenon
<1>6. index.parts = P /\ index.epoch = E /\ index' = index /\ parts' = P /\ flushedEpoch' = E
  BY <1>2, <1>5, Zenon DEF FlushInv
<1>7. /\ \A r \in acked : Held(r, P) \/ RelogAfter(r, E, flush.seq)
      /\ \A s \in buf : LoggedAfter(s, E, flush.seq)
  BY <1>2, <1>5, Zenon DEF FlushInv, TailInv
<1>8. \A r \in acked : Kept(r, P, E)'
  <2>1. SUFFICES ASSUME NEW r \in acked, RelogAfter(r, E, flush.seq) PROVE Kept(r, P, E)'
    BY <1>2, <1>7, Zenon DEF Kept, Held
  <2>2. PICK f \in log, g \in ids : /\ f.rec = r /\ g.stream = StreamOf[r] /\ f.epoch > E /\ g.epoch > E
                                    /\ g.seq > flush.seq /\ g.seq <= f.seq
    BY <2>1, Zenon DEF RelogAfter
  <2>3. f.seq > flush.seq
    BY <1>4, <2>2
  <2>4. f.seq >= stop /\ g.seq >= stop
    BY <1>4, <2>2, <2>3, Zenon
  <2>5. f \in log' /\ g \in ids'
    BY <1>1, <2>2, <2>4, Zenon
  <2> QED BY <2>2, <2>5, Zenon DEF Kept, Identified
<1>9. \A s \in Stream : Buffered(s)' => KnownTo(s, P, E)'
  BY <1>1, <1>2, <1>3, <1>4, <1>7, Zenon DEF Buffered, KnownTo, LoggedAfter
<1>10. CandidateInv'
  BY <1>2, <1>3, <1>6, <1>8, <1>9, Zenon DEF CandidateInv
<1>11. LiveInv'
  <2>1. \A r \in acked' : Kept(r, parts, flushedEpoch)'
    BY <1>2, <1>6, <1>8 DEF Kept, Held, HeldStream, Identified
  <2>2. \A s \in Stream : Buffered(s)' => KnownTo(s, parts, flushedEpoch)'
    BY <1>2, <1>6, <1>9, Zenon DEF KnownTo, HeldStream
  <2> QED BY <2>1, <2>2, Zenon DEF LiveInv
<1>12. ExpiryInv' /\ CarryInv' /\ ServedInv' /\ FlushInv'
  BY <1>2, <1>3, Zenon DEF ExpiryInv, CarryInv, ServedInv, FlushInv, Held
<1>13. BufferInv'
  BY <1>1, <1>2, <1>3, Zenon DEF BufferInv
<1> QED BY <1>10, <1>11, <1>12, <1>13, Zenon
-----------------------------------------------------------------------------
\* A merge's commit of parts that hold every row the live ones do.
LEMMA MergeCommitDurable ==
    ASSUME DurableInv, SafeInv', up, CatalogFree, MergeStep, UNCHANGED store,
           NEW next \in SUBSET Part, NEW gone, NEW out \in Outcome, MergeCommit(next, gone, out),
           \A r : Held(r, parts) => Held(r, next),
           \A s : HeldStream(s, parts) => HeldStream(s, next),
           merge'.cut = {}, merge'.pc # "build"
    PROVE  DurableInv'
<1> USE DEF DurableInv
<1>1. /\ UNCHANGED <<log, ids, walSeq, segEpoch, acked, expired, rows, flush, head, buf, flushing, flushedEpoch, up>>
      /\ CommitIndex(next, flushedEpoch, out) /\ parts' \in {parts, next} /\ flush.pc # "checkpoint"
  BY Zenon DEF MergeStep, MergeCommit, CatalogFree, history, logVars, headVars, store
<1>2. PICK E, R : E = flushedEpoch /\ R = NextRemovals(next)
  BY Zenon
<1>3. Candidates' \subseteq Candidates \cup {[parts |-> next, epoch |-> E, removed |-> R]}
  BY <1>1, <1>2, CommitEffect, Zenon DEF Candidates, SafeInv
<1>4. /\ \A r \in acked : Kept(r, next, E)
      /\ \A s \in Stream : Buffered(s) => KnownTo(s, next, E)
  BY <1>2, Zenon DEF LiveInv, Kept, KnownTo
<1>5. \A s \in Stream : Buffered(s)' => Buffered(s)
  BY <1>1, Zenon DEF Buffered
<1>6. CandidateInv'
  BY <1>1, <1>3, <1>4, <1>5, CommitDurable, Zenon
<1>7. \A r : Held(r, parts) => Held(r, parts)'
  BY <1>1, Zenon DEF Held
<1>8. \A s : HeldStream(s, parts) => HeldStream(s, parts)'
  BY <1>1, Zenon DEF HeldStream
<1>9. LiveInv'
  <2>1. \A s, q : Identified(s, flushedEpoch, q) => Identified(s, flushedEpoch, q)'
    BY <1>1, Zenon DEF Identified
  <2>2. \A r \in acked' : Kept(r, parts, flushedEpoch)'
    BY <1>1, <1>7, <1>8, <2>1, Zenon DEF LiveInv, Kept
  <2>3. \A s \in Stream : Buffered(s)' => KnownTo(s, parts, flushedEpoch)'
    BY <1>1, <1>5, <1>8, Zenon DEF LiveInv, KnownTo
  <2> QED BY <2>2, <2>3, Zenon DEF LiveInv
<1>10. ExpiryInv' /\ BufferInv' /\ CarryInv' /\ ServedInv'
  BY <1>1, <1>7, Zenon DEF ExpiryInv, BufferInv, CarryInv, ServedInv
<1>11. FlushInv'
  <2>1. /\ \A r : RelogAfter(r, flush.epoch, flush.seq) => RelogAfter(r, flush.epoch, flush.seq)'
        /\ \A s : LoggedAfter(s, flush.epoch, flush.seq) => LoggedAfter(s, flush.epoch, flush.seq)'
    BY <1>1, Zenon DEF RelogAfter, LoggedAfter
  <2>2. flush.pc = "build" => TailInv(flushing, flush.epoch)'
    BY <1>1, <1>7, <2>1, Zenon DEF FlushInv, TailInv
  <2> QED BY <1>1, <2>2, Zenon DEF FlushInv, Held
<1> QED BY <1>6, <1>9, <1>10, <1>11, Zenon

\* With nothing expired no part is emptied.
LEMMA NothingEmptied == ASSUME DurableInv, NEW P, P \subseteq Minted PROVE Emptied(P, {}) = {}
BY Zenon DEF Emptied, Minted

\* Merge steps without a commit.
LEMMA MergeQuietDurable ==
    ASSUME DurableInv, SafeInv', up, MergeStep, UNCHANGED <<commitVars, parts>>,
           \A p \in Part : rows[p] \subseteq rows'[p],
           \A p \in flush.outs : rows'[p] = rows[p],
           merge'.cut = {}, CarryInv'
    PROVE  DurableInv'
<1> USE DEF DurableInv
<1>1. UNCHANGED <<log, ids, walSeq, segEpoch, acked, expired, flush, head, buf, flushing, flushedEpoch, up, index, limbo, parts>>
  BY Zenon DEF MergeStep, history, logVars, headVars, commitVars
<1>2. CandidateInv' /\ LiveInv' /\ (\A r : Held(r, parts) => Held(r, parts)')
  BY <1>1, Quiet, Zenon DEF Buffered
<1>3. ExpiryInv' /\ BufferInv' /\ ServedInv'
  BY <1>1, <1>2, Zenon DEF ExpiryInv, BufferInv, ServedInv
<1>4. FlushInv'
  <2>1. flush.pc = "build" => \A r \in flushing : r \in flush'.left \/ Held(r, flush.outs)'
    BY <1>1, Zenon DEF FlushInv, Held
  <2> QED BY <1>1, <1>2, <2>1, QuietTail, Zenon
<1> QED BY <1>2, <1>3, <1>4, Zenon

LEMMA MergeDurable == ASSUME DurableInv, SafeInv', Merge PROVE DurableInv'
<1> USE DEF DurableInv
<1>0. /\ parts \subseteq Minted /\ merge.pins \subseteq Minted /\ merge.src \subseteq Minted
      /\ expired = {} /\ merge.cut = {}
  BY Zenon DEF ExpiryInv, SafeInv, MintedInv
<1>1. CASE MergeBegin
  <2> DEFINE plan == [NoMerge EXCEPT !.pc = IF Emptied(parts, expired) = {} THEN "select" ELSE "drop",
                                   !.cut = expired, !.pins = parts]
  <2>1. /\ up /\ CatalogFree /\ MergeStep /\ UNCHANGED store
        /\ merge' \in {plan, NoMerge}
        /\ \/ UNCHANGED <<commitVars, parts, pending, retiring>>
           \/ \E out \in Outcome : MergeCommit(parts, {}, out)
    BY <1>1, Zenon DEF MergeBegin
  <2>2. /\ plan.cut = {} /\ plan.pc \in {"select", "drop"}
        /\ NoMerge.cut = {} /\ NoMerge.pc = "idle"
    BY <1>0, Zenon DEF NoMerge
  <2> HIDE DEF plan
  <2>3. merge'.cut = {} /\ merge'.pc # "build" /\ CarryInv'
    BY <2>1, <2>2, Zenon DEF CarryInv
  <2>4. CASE UNCHANGED <<commitVars, parts, pending, retiring>>
    BY <2>1, <2>3, <2>4, MergeQuietDurable, Zenon DEF store
  <2>5. CASE \E out \in Outcome : MergeCommit(parts, {}, out)
    <3>1. parts \in SUBSET Part
      BY Zenon DEF SafeInv, TypeOK
    <3> QED BY <2>1, <2>3, <2>5, <3>1, MergeCommitDurable, Zenon
  <2> QED BY <2>1, <2>4, <2>5, Zenon
<1>2. CASE DropExpired
  <2> DEFINE gone == Emptied(merge.pins, merge.cut)
  <2>1. gone = {}
    BY <1>0, NothingEmptied, Zenon
  <2>2. PICK out \in Outcome : MergeCommit(parts \ gone, gone, out)
    BY <1>2, Zenon DEF DropExpired
  <2>3. /\ up /\ CatalogFree /\ MergeStep /\ UNCHANGED store
        /\ merge'.pc \in {"select", "reclaim"} /\ merge'.cut = {}
    BY <1>0, <1>2, ZenonT(30) DEF DropExpired, EndMerge, NoMerge, SafeInv, TypeOK
  <2>4. parts \ gone = parts /\ parts \in SUBSET Part
    BY <2>1, Zenon DEF SafeInv, TypeOK
  <2> HIDE DEF gone
  <2> QED BY <2>2, <2>3, <2>4, MergeCommitDurable, Zenon
<1>3. ASSUME NEW src \in SUBSET Part, MergeSelect(src) PROVE DurableInv'
  <2>1. /\ up /\ MergeStep /\ UNCHANGED <<store, commitVars, parts, pending, retiring>>
        /\ merge'.cut = {}
        /\ merge'.pc = "build" => merge'.src = src /\ merge'.left = RowsIn(src) \ merge.cut
    BY <1>0, <1>3, Zenon DEF MergeSelect, EndMerge, NoMerge, SafeInv, TypeOK
  <2>2. \A r : (\E p \in src : r \in rows[p]) => r \in RowsIn(src)
    BY Zenon DEF RowsIn
  <2>3. CarryInv'
    BY <1>0, <2>1, <2>2, Zenon DEF CarryInv, Held, store
  <2> QED BY <2>1, <2>3, MergeQuietDurable, Zenon DEF store
<1>4. ASSUME NEW q \in Part, NEW S \in SUBSET Rec, MergePart(q, S) PROVE DurableInv'
  <2>1. /\ up /\ merge.pc = "build" /\ merge'.cut = merge.cut /\ merge'.src = merge.src
        /\ merge'.left = merge.left \ S /\ merge'.outs = merge.outs \cup {q}
        /\ q \notin Minted /\ rows' = [rows EXCEPT ![q] = S]
        /\ MergeStep /\ UNCHANGED <<commitVars, parts>>
    BY <1>4, Zenon DEF MergePart, WritePart, SafeInv, TypeOK
  <2>2. rows'[q] = S /\ \A p \in Part : rows[p] \subseteq rows'[p] /\ (p \in Minted => rows'[p] = rows[p])
    <3>1. rows \in [Part -> SUBSET Rec]
      BY Zenon DEF SafeInv, TypeOK
    <3> QED BY <2>1, <3>1, Zenon DEF Minted
  <2>3. merge.src \subseteq Part /\ merge.outs \subseteq Part /\ flush.outs \subseteq Minted /\ flush.outs \subseteq Part
    BY Zenon DEF SafeInv, MintedInv, TypeOK
  <2>4. CarryInv'
    <3>1. \A r \in Rec : Held(r, merge.src)' => Held(r, merge.src)
      BY <1>0, <2>1, <2>2, <2>3, Zenon DEF Held
    <3>2. \A r \in Rec : Held(r, merge.outs) \/ r \in S => Held(r, merge.outs)'
      BY <2>1, <2>2, <2>3, Zenon DEF Held
    <3> QED BY <2>1, <3>1, <3>2, Zenon DEF CarryInv
  <2>5. \A p \in flush.outs : rows'[p] = rows[p]
    BY <2>2, <2>3, Zenon
  <2> QED BY <1>0, <2>1, <2>2, <2>4, <2>5, MergeQuietDurable, Zenon
<1>5. CASE MergeAbandon \/ MergeReclaim
  <2>1. /\ up /\ MergeStep /\ UNCHANGED <<rows, commitVars, parts>>
        /\ merge'.cut = {} /\ merge'.pc # "build"
    <3>1. CASE MergeAbandon
      BY <3>1, Zenon DEF MergeAbandon, EndMerge, NoMerge, store
    <3>2. CASE MergeReclaim
      BY <3>2, Zenon DEF MergeReclaim, ReclaimRetired, DeleteParts, NoMerge
    <3> QED BY <1>5, <3>1, <3>2, Zenon
  <2> QED BY <2>1, MergeQuietDurable, Zenon DEF CarryInv
<1>6. CASE MergePublish
  <2> DEFINE next == (parts \ merge.src) \cup merge.outs
  <2>1. PICK out \in Outcome : MergeCommit(next, merge.src, out)
    BY <1>6, Zenon DEF MergePublish
  <2>2. /\ up /\ CatalogFree /\ MergeStep /\ UNCHANGED store /\ merge.pc = "build" /\ merge.left = {}
        /\ merge'.cut = {} /\ merge'.pc = "reclaim"
    BY <1>6, Zenon DEF MergePublish, EndMerge, NoMerge
  <2>3. \A r \in Rec : Held(r, merge.src) => Held(r, merge.outs)
    BY <2>2, Zenon DEF CarryInv
  <2>4. next \in SUBSET Part /\ \A p \in Part : rows[p] \subseteq Rec
    BY Zenon DEF SafeInv, TypeOK
  <2>5. \A p \in parts : \A x \in rows[p] : \E q \in next : x \in rows[q]
    <3>1. SUFFICES ASSUME NEW p \in parts, NEW x \in rows[p], p \in merge.src PROVE \E q \in next : x \in rows[q]
      BY Zenon
    <3>2. p \in Part /\ x \in Rec
      BY <2>4, <3>1, Zenon DEF SafeInv, TypeOK
    <3> QED BY <2>3, <3>1, <3>2, Zenon DEF Held
  <2>6. (\A r : Held(r, parts) => Held(r, next)) /\ (\A s : HeldStream(s, parts) => HeldStream(s, next))
    BY <2>5, Zenon DEF Held, HeldStream
  <2> HIDE DEF next
  <2> QED BY <2>1, <2>2, <2>4, <2>6, MergeCommitDurable, Zenon
<1> QED BY <1>1, <1>2, <1>3, <1>4, <1>5, <1>6, Zenon DEF Merge
-----------------------------------------------------------------------------
\* Recovery reads exactly what the invariant says it will.
LEMMA ReplayedKept ==
    ASSUME TypeOK, NEW P, NEW E
    PROVE  /\ \A r : Kept(r, P, E) <=> r \in RowsIn(P) \cup Replayed(P, E)
           /\ \A r \in Replayed(P, E) : KnownTo(StreamOf[r], P, E)
<1>1. \A r : Held(r, P) <=> r \in RowsIn(P)
  BY Zenon DEF Held, RowsIn
<1>2. \A s, q : s \in KnownStreams(P, E, q) <=> HeldStream(s, P) \/ Identified(s, E, q)
  <2>1. \A s : s \in StreamsOf(RowsIn(P)) <=> HeldStream(s, P)
    BY Zenon DEF StreamsOf, RowsIn, HeldStream
  <2>2. \A s, q : s \in {g.stream : g \in {h \in ids : h.epoch > E /\ h.seq <= q}} <=> Identified(s, E, q)
    BY Zenon DEF Identified
  <2> QED BY <2>1, <2>2, Zenon DEF KnownStreams
<1>3. \A r : r \in Replayed(P, E) <=>
          \E f \in log : f.rec = r /\ f.epoch > E /\ StreamOf[r] \in KnownStreams(P, E, f.seq)
  BY Zenon DEF Replayed
<1>4. ASSUME NEW r PROVE Kept(r, P, E) <=> r \in RowsIn(P) \cup Replayed(P, E)
  <2>1. r \in Replayed(P, E) <=>
            \E f \in log : /\ f.rec = r /\ f.epoch > E
                           /\ HeldStream(StreamOf[r], P) \/ Identified(StreamOf[r], E, f.seq)
    <3>1. \A q : StreamOf[r] \in KnownStreams(P, E, q) <=>
                     HeldStream(StreamOf[r], P) \/ Identified(StreamOf[r], E, q)
      BY <1>2, Zenon
    <3>2. r \in Replayed(P, E) <=>
            \E f \in log : f.rec = r /\ f.epoch > E /\ StreamOf[r] \in KnownStreams(P, E, f.seq)
      BY <1>3, Zenon
    <3> QED BY <3>1, <3>2, Zenon
  <2>2. Kept(r, P, E) <=> Held(r, P) \/ r \in Replayed(P, E)
    BY <2>1, Zenon DEF Kept
  <2> QED BY <1>1, <2>2, Zenon
<1>5. \A r \in Replayed(P, E) : KnownTo(StreamOf[r], P, E)
  <2>1. SUFFICES ASSUME NEW r \in Replayed(P, E) PROVE KnownTo(StreamOf[r], P, E)
    BY Zenon
  <2>2. PICK f \in log : StreamOf[r] \in KnownStreams(P, E, f.seq)
    BY <1>3, Zenon
  <2>3. HeldStream(StreamOf[r], P) \/ Identified(StreamOf[r], E, f.seq)
    BY <1>2, <2>2, Zenon
  <2> QED BY <2>3, Zenon DEF KnownTo, Identified
<1> QED BY <1>4, <1>5, Zenon

LEMMA RecoverDurable == ASSUME DurableInv, SafeInv', Recover PROVE DurableInv'
<1> USE DEF DurableInv
<1>1. ReadIndex = index.parts
  BY Zenon DEF ReadIndex, SafeInv, PresentInv, Candidates
<1>2. PICK P, E : P = index.parts /\ E = index.epoch
  BY Zenon
<1>3. /\ ~up /\ up' /\ parts' = P /\ flushedEpoch' = E /\ limbo' = {} /\ flushing' = {}
      /\ head' = Replayed(P, E) /\ buf' = StreamsOf(head')
      /\ flush = NoFlush /\ merge = NoMerge /\ \A g \in ids : g.seq <= walSeq'
      /\ UNCHANGED <<acked, expired, index, flush, merge, log, ids, rows>>
  BY <1>1, <1>2, Zenon DEF Recover, CreateWAL, SweepOrphans, history, SafeInv, PhaseInv
<1>4. \A r \in acked : Kept(r, P, E)
  BY <1>2, Zenon DEF CandidateInv, Candidates
<1>5. /\ \A r : Kept(r, P, E) <=> r \in RowsIn(P) \cup Replayed(P, E)
      /\ \A r \in Replayed(P, E) : KnownTo(StreamOf[r], P, E)
  BY ReplayedKept, Zenon DEF SafeInv
<1>6. \A r \in acked : r \in RowsIn(P) \/ r \in head'
  BY <1>3, <1>4, <1>5, Zenon
<1>7. \A s \in Stream : Buffered(s)' => KnownTo(s, P, E)
  BY <1>3, <1>5, Zenon DEF Buffered, StreamsOf
<1>8. /\ \A r \in acked' : Kept(r, P, E)'
      /\ \A s \in Stream : Buffered(s)' => KnownTo(s, P, E)'
  BY <1>3, <1>4, <1>7, Zenon DEF Kept, KnownTo, Held, HeldStream, Identified
<1>9. CandidateInv'
  <2>1. Candidates' = {index}
    BY <1>3, Zenon DEF Candidates
  <2> QED BY <1>2, <1>8, <2>1, Zenon DEF CandidateInv
<1>10. LiveInv'
  <2>1. /\ \A r \in acked' : Kept(r, parts, flushedEpoch)'
        /\ \A s \in Stream : Buffered(s)' => KnownTo(s, parts, flushedEpoch)'
    BY <1>3, <1>8, Zenon DEF Kept, KnownTo, Held, HeldStream, Identified
  <2> QED BY <2>1, Zenon DEF LiveInv
<1>11. ServedInv'
  BY <1>3, <1>6, Zenon DEF ServedInv, Held, RowsIn
<1>12. ExpiryInv' /\ CarryInv' /\ FlushInv'
  BY <1>3, Zenon DEF ExpiryInv, CarryInv, FlushInv, NoFlush, NoMerge
<1>13. BufferInv'
  BY <1>3, Zenon DEF BufferInv, StreamsOf
<1> QED BY <1>9, <1>10, <1>11, <1>12, <1>13, Zenon

LEMMA DurableStep == ASSUME Expirable = {} PROVE DurableInv /\ [Next]_vars => DurableInv'
<1> SUFFICES ASSUME DurableInv, [Next]_vars PROVE DurableInv'
  BY Zenon
<1> USE DEF DurableInv
<1>1. SafeInv'
  BY SafeStep, Zenon
<1>2. CASE Flush
  BY <1>1, <1>2, FlushQuietDurable, PublishDurable, CheckpointDurable, Zenon DEF Flush
<1>3. ASSUME NEW ix \in limbo, LandLate(ix) PROVE DurableInv'
  <2>1. /\ Candidates' \subseteq Candidates /\ limbo # {}
        /\ UNCHANGED <<log, ids, walSeq, segEpoch, acked, expired, rows, parts, flushedEpoch, flush, merge,
                       head, buf, flushing, up>>
    BY <1>3, Zenon DEF LandLate, Candidates, history, logVars, headVars, store
  <2>2. CandidateInv'
    BY <1>1, <2>1, Steady, Zenon DEF Buffered, SafeInv
  <2>3. LiveInv'
    <3>1. \A p \in parts : \A x \in rows[p] : \E q \in parts' : x \in rows'[q]
      BY <2>1, Zenon
    <3> QED BY <2>1, <3>1, LiveGrows, Zenon DEF LiveInv, Buffered
  <2>4. ExpiryInv' /\ BufferInv' /\ CarryInv' /\ ServedInv'
    BY <2>1, Zenon DEF ExpiryInv, BufferInv, CarryInv, ServedInv, Held
  <2>5. FlushInv'
    <3>1. flush.pc # "checkpoint"
      BY <2>1, Zenon DEF FlushInv
    <3>2. flush.pc = "build" => TailInv(flushing, flush.epoch)'
      BY <2>1, Zenon DEF FlushInv, TailInv, Held, RelogAfter, LoggedAfter
    <3> QED BY <2>1, <3>1, <3>2, Zenon DEF FlushInv, Held
  <2> QED BY <1>1, <2>2, <2>3, <2>4, <2>5, Zenon
<1>4. CASE Crash
  <2>1. /\ ~up' /\ head' = {} /\ buf' = {} /\ flushing' = {} /\ flush' = NoFlush /\ merge' = NoMerge
        /\ UNCHANGED <<log, ids, acked, expired, rows, index, limbo>>
    BY <1>4, Zenon DEF Crash, history, store
  <2>2. CandidateInv'
    BY <1>1, <2>1, Steady, Zenon DEF Buffered, Candidates, SafeInv
  <2>3. ExpiryInv' /\ BufferInv' /\ CarryInv' /\ ServedInv' /\ LiveInv' /\ FlushInv'
    BY <2>1, Zenon DEF ExpiryInv, BufferInv, CarryInv, ServedInv, LiveInv, FlushInv, NoFlush, NoMerge
  <2> QED BY <1>1, <2>2, <2>3, Zenon
<1>5. CASE UNCHANGED vars
  <2>1. UNCHANGED <<log, ids, walSeq, segEpoch, acked, expired, rows, parts, flushedEpoch, flush, merge,
                    head, buf, flushing, up, index, limbo>>
    BY <1>5, Zenon DEF vars, history, logVars, headVars, store, commitVars
  <2>2. CandidateInv'
    BY <1>1, <2>1, Steady, Zenon DEF Buffered, Candidates, SafeInv
  <2>3. LiveInv' /\ (\A r : Held(r, parts) => Held(r, parts)')
    <3>1. \A p \in parts : \A x \in rows[p] : \E q \in parts' : x \in rows'[q]
      BY <2>1, Zenon
    <3> QED BY <2>1, <3>1, LiveGrows, Zenon DEF LiveInv, Buffered
  <2>4. ExpiryInv' /\ BufferInv' /\ CarryInv' /\ ServedInv'
    BY <2>1, Zenon DEF ExpiryInv, BufferInv, CarryInv, ServedInv, Held
  <2>5. FlushInv'
    BY <2>1, <2>3, QuietTail, Zenon DEF FlushInv, Held
  <2> QED BY <1>1, <2>2, <2>3, <2>4, <2>5, Zenon
<1> QED BY <1>1, <1>2, <1>3, <1>4, <1>5, IngestDurable, MergeDurable, RecoverDurable, Zenon DEF Next

\* With retention off, a restart at any moment (inside a flush, a merge, a
\* commit whose answer is lost, or between a commit and its checkpoint)
\* recovers every acknowledged batch from the parts of the stored index and
\* the segments above its watermark.
THEOREM NothingLost == ASSUME Expirable = {} PROVE Spec => []NoLoss
<1>1. DurableInv => NoLoss
  <2> SUFFICES ASSUME DurableInv PROVE NoLoss
    BY Zenon
  <2>1. ReadIndex = index.parts
    BY Zenon DEF ReadIndex, DurableInv, SafeInv, PresentInv, Candidates
  <2>2. \A r \in acked : Kept(r, index.parts, index.epoch)
    BY Zenon DEF DurableInv, CandidateInv, Candidates
  <2>3. \A r \in acked : r \in RowsIn(index.parts) \cup Replayed(index.parts, index.epoch)
    BY <2>2, ReplayedKept, Zenon DEF DurableInv, SafeInv
  <2> QED BY <2>1, <2>3, Zenon DEF NoLoss
<1> QED BY <1>1, DurableInit, DurableStep, PTL DEF Spec

\* With retention off, a fetch sees every acknowledged batch in the head, in
\* the detached buffers of a flush or in a part whose objects are there.
THEOREM AlwaysReadable == ASSUME Expirable = {} PROVE Spec => []Readable
<1>1. DurableInv => Readable
  <2> SUFFICES ASSUME DurableInv, up, NEW r \in acked PROVE r \in Served
    BY Zenon DEF Readable
  <2>1. parts \subseteq objects
    BY Zenon DEF DurableInv, SafeInv, PresentInv
  <2> QED BY <2>1, Zenon DEF DurableInv, ServedInv, Held, Served, RowsIn
<1> QED BY <1>1, DurableInit, DurableStep, PTL DEF Spec
=============================================================================
