----------------------------- MODULE SharedIndex -----------------------------
(***************************************************************************)
(* The replicas of one shard over one shared object store: every node runs *)
(* an engine on the same prefix and commits the same bucket-index object   *)
(* by compare-and-swap.  The claim on the shard moves between nodes; the   *)
(* commit fence (bucketindex.CheckTenure), the establishing commit of a    *)
(* tenure and the rebase on a rival's index are what keep a displaced      *)
(* writer from undoing its successor's work.  recordengine/ is the         *)
(* reference; engine/ has the same commit path.                            *)
(*                                                                         *)
(* The WAL, the head, retention, wants and holes are left out: a flush     *)
(* mints a part holding one new leaf of rows, a merge rewrites the leaves  *)
(* of its inputs.                                                          *)
(***************************************************************************)
EXTENDS Naturals, FiniteSets

CONSTANTS
    Node,       \* the replicas, each with a WriterID of its own
    None,       \* no owner
    Clustered,  \* whether the engines have a claim to commit under (Config.Term)
    Part,       \* part prefixes, each minted at most once
    MaxTerm,    \* bound on the tenures granted
    MaxLost,    \* bound on the index writes whose response is lost
    Late,       \* whether such a write may reach the store after its caller gave up
    MaxRestart, \* bound on process restarts
    Attempts    \* indexCommitAttempts

ASSUME NodeType == None \notin Node
ASSUME BoundsType == MaxTerm \in Nat /\ MaxLost \in Nat /\ MaxRestart \in Nat /\ Attempts \in Nat \ {0} /\ {Late, Clustered} \subseteq BOOLEAN

VARIABLES
    \* ---- etcd: the claim on the shard
    owner, lastTerm,
    term,       \* Ownership.Term as each node reads it; 0 for none or fenced
    \* ---- the object store
    index,      \* [ver, gen, parts, removed, slots]
    limbo,      \* writes whose response was lost and that may still land
    objects,    \* the parts whose objects exist
    covers,     \* the leaves each part was written with
    \* ---- each engine
    ver, gen,   \* Engine.indexVersion, Engine.generation
    view,       \* [parts, pending, indexed, removals, foreign, slots, flushed]
    established,
    flush,      \* the flush building: [outs, epoch]
    merge,      \* the merge building: [src, outs, stamp]
    com,        \* the commit holding the catalog lock
    retired,    \* Engine.retiring and abandoned outputs, to be deleted
    \* ---- history
    lastStamp,  \* the tenure under which the last landed commit began
    lost, restarts

claimVars == <<owner, lastTerm, term>>
storeVars == <<index, limbo, lastStamp>>
faultVars == <<lost, restarts>>
engineVars == <<ver, gen, view, established>>
buildVars == <<flush, merge, retired, objects, covers>>
vars == <<claimVars, storeVars, faultVars, engineVars, buildVars, com>>

Max2(a, b) == IF a >= b THEN a ELSE b
Minted == {p \in Part : covers[p] # {}}
Fresh == Part \ Minted

\* Generation.Compare and Generation.Next.
Less(g, h) == g.term < h.term \/ (g.term = h.term /\ g.counter < h.counter)

MaxGen(g, h) == IF Less(g, h) THEN h ELSE g

NextGenFlat(g, t) == [term |-> Max2(t, g.term), counter |-> IF t > g.term THEN 1 ELSE g.counter]

NextGen(g, t) == IF t > g.term THEN [term |-> t, counter |-> 1]
                 ELSE [term |-> g.term, counter |-> g.counter + 1]

NoFlush == [outs |-> {}, epoch |-> 0]
NoMerge == [src |-> {}, outs |-> {}, stamp |-> 0]
NoIndex == [ver |-> 0, gen |-> [term |-> 0, counter |-> 0], parts |-> {}, removed |-> {},
            slots |-> [n \in Node |-> 0]]
StartCommit(pc, kind, next, epoch, stamp, left) ==
    [pc |-> pc, kind |-> kind, next |-> next, epoch |-> epoch, stamp |-> stamp, left |-> left, ix |-> NoIndex]
NoCommit == StartCommit("idle", "none", {}, 0, 0, 0)
Idle(n) == com[n].pc = "idle"

Init ==
    /\ owner = None /\ lastTerm = 0 /\ term = [n \in Node |-> 0]
    /\ index = NoIndex /\ limbo = {} /\ lastStamp = 0
    /\ objects = {} /\ covers = [p \in Part |-> {}]
    /\ ver = [n \in Node |-> 0] /\ gen = [n \in Node |-> NoIndex.gen]
    /\ view = [n \in Node |-> [parts |-> {}, pending |-> {}, indexed |-> {}, removals |-> {},
                               foreign |-> {}, slots |-> NoIndex.slots, flushed |-> 0]]
    /\ established = [n \in Node |-> 0]
    /\ flush = [n \in Node |-> NoFlush] /\ merge = [n \in Node |-> NoMerge]
    /\ com = [n \in Node |-> NoCommit] /\ retired = [n \in Node |-> {}]
    /\ lost = 0 /\ restarts = 0
-----------------------------------------------------------------------------
(* The claim.  Ownership.Term fences a claim before its lease can expire,  *)
(* so a node reads a term only while it owns the shard, and may stop and   *)
(* resume reading it while the lease is late and then renewed.             *)

Acquire(n) ==
    /\ Clustered /\ owner = None /\ lastTerm < MaxTerm
    /\ owner' = n /\ lastTerm' = lastTerm + 1
    /\ term' = [term EXCEPT ![n] = lastTerm + 1]
    /\ UNCHANGED <<storeVars, faultVars, engineVars, buildVars, com>>

Fence(n) ==
    /\ term[n] # 0
    /\ term' = [term EXCEPT ![n] = 0]
    /\ UNCHANGED <<owner, lastTerm, storeVars, faultVars, engineVars, buildVars, com>>

Renew(n) ==
    /\ owner = n /\ term[n] = 0
    /\ term' = [term EXCEPT ![n] = lastTerm]
    /\ UNCHANGED <<owner, lastTerm, storeVars, faultVars, engineVars, buildVars, com>>

Expire ==
    /\ owner # None /\ term[owner] = 0
    /\ owner' = None
    /\ UNCHANGED <<lastTerm, term, storeVars, faultVars, engineVars, buildVars, com>>
-----------------------------------------------------------------------------
(* Loading and rebasing.                                                   *)

\* readIndexLocked, adoptLoadLocked: the stored index becomes the engine's
\* state; a flushed part that no landed commit has numbered is carried when
\* the index does not name it.
Loaded(n) ==
    LET carried == view[n].pending \ index.parts
    IN  [parts |-> index.parts \cup carried, pending |-> carried, indexed |-> index.parts,
         removals |-> index.removed, foreign |-> {}, slots |-> index.slots,
         flushed |-> IF carried = {} THEN index.slots[n]
                     ELSE Max2(index.slots[n], view[n].flushed)]

\* The same for a process that has just started.
Opened(n) ==
    [parts |-> index.parts, pending |-> {}, indexed |-> index.parts, removals |-> index.removed,
     foreign |-> {}, slots |-> index.slots, flushed |-> index.slots[n]]

LoadParts(n) ==
    /\ ver' = [ver EXCEPT ![n] = index.ver]
    /\ gen' = [gen EXCEPT ![n] = index.gen]
    /\ view' = [view EXCEPT ![n] = Loaded(n)]

RefreshReplica(n) ==
    /\ Idle(n)
    /\ LoadParts(n)
    /\ UNCHANGED <<claimVars, storeVars, faultVars, established, buildVars, com>>

\* foreignEntries: what the rival's index names that this engine neither
\* indexed nor removed.
Foreign(n) == index.parts \ (view[n].indexed \cup view[n].removals)

\* adoptIndexLocked.
Rebase(n) ==
    /\ com[n].pc = "rebase"
    /\ ver' = [ver EXCEPT ![n] = index.ver]
    /\ gen' = [gen EXCEPT ![n] = MaxGen(gen[n], index.gen)]
    /\ view' = [view EXCEPT ![n].slots = index.slots, ![n].foreign = Foreign(n)]
    /\ com' = [com EXCEPT ![n].pc = "check"]
    /\ UNCHANGED <<claimVars, storeVars, faultVars, established, buildVars>>
-----------------------------------------------------------------------------
(* One commit: fence check, candidate, compare-and-swap, with the rebase   *)
(* in between attempts.  The catalog lock is held from the first to the    *)
(* last; the claim and the store move underneath.                          *)

\* CheckTenure: the claim held now, the one the operation began under, and
\* the term of the index the commit builds on.
CheckTenure(n, stamp) == term[n] # 0 /\ stamp = term[n] /\ gen[n].term <= term[n]

TenureCached(n, stamp) == ~Clustered \/ (stamp # 0 /\ stamp = established[n])

\* tenureLocked: a writer with no cluster has no tenure to lose.
Tenure(n, stamp) == ~Clustered \/ (CheckTenure(n, stamp) /\ established[n] = term[n])

Begin(n, kind, next, epoch, stamp) ==
    com' = [com EXCEPT ![n] = StartCommit("check", kind, next, epoch, stamp, Attempts)]

\* A part the last built index named and this one does not was removed here.
NextRemovals(n) == (view[n].removals \cup view[n].indexed) \ com[n].next

\* nextIndexLocked: the rival's entries are carried, and every other writer's
\* watermark slot.
Candidate(n, g) ==
    [ver |-> ver[n] + 1, gen |-> g, parts |-> com[n].next \cup view[n].foreign,
     removed |-> NextRemovals(n), slots |-> [view[n].slots EXCEPT ![n] = com[n].epoch]]

FinishRetiring(n, result) ==
    LET c == com[n]
        ok == result = "landed"
        parts == IF c.kind = "flush" \/ (c.kind = "merge" /\ ok) THEN c.next ELSE view[n].parts
    IN  /\ view' = [view EXCEPT ![n].parts = parts, ![n].pending = {},
                                ![n].flushed = IF c.kind = "flush" THEN c.epoch ELSE @]
        /\ com' = [com EXCEPT ![n] = NoCommit]
        /\ established' = [established EXCEPT ![n] = IF ok /\ c.kind = "establish" THEN c.stamp ELSE @]
        /\ flush' = [flush EXCEPT ![n] = IF c.kind = "flush" THEN NoFlush ELSE @]
        /\ merge' = [merge EXCEPT ![n] = IF c.kind = "merge" THEN NoMerge ELSE @]
        /\ retired' = [retired EXCEPT ![n] = IF c.kind = "merge" THEN @ \cup merge[n].src ELSE @]
        /\ UNCHANGED <<objects, covers>>

\* What an operation does once its commit is over.  publishFlushLocked keeps
\* its outputs whatever the commit said; mergeHeld swaps and retires its
\* inputs, or discards its outputs unless the commit may have landed;
\* establishTenureLocked records the term.
Finish(n, result) ==
    LET c == com[n]
        ok == result = "landed"
        parts == IF c.kind = "flush" \/ (c.kind = "merge" /\ ok) THEN c.next ELSE view[n].parts
        kept == IF c.kind = "flush" THEN flush[n].outs ELSE {}
        dead == IF c.kind # "merge" \/ result = "unknown" THEN {}
                ELSE IF ok THEN merge[n].src ELSE merge[n].outs
    IN  /\ view' = [view EXCEPT ![n].parts = parts,
                                ![n].pending = IF ok THEN {} ELSE @ \cup kept,
                                ![n].flushed = IF c.kind = "flush" THEN c.epoch ELSE @]
        /\ com' = [com EXCEPT ![n] = NoCommit]
        /\ established' = [established EXCEPT ![n] = IF ok /\ c.kind = "establish" THEN c.stamp ELSE @]
        /\ flush' = [flush EXCEPT ![n] = IF c.kind = "flush" THEN NoFlush ELSE @]
        /\ merge' = [merge EXCEPT ![n] = IF c.kind = "merge" THEN NoMerge ELSE @]
        /\ retired' = [retired EXCEPT ![n] = @ \cup dead]
        /\ UNCHANGED <<objects, covers>>

\* The fence before an attempt: refused, or on to the candidate.
Check(n) ==
    /\ com[n].pc = "check"
    /\ IF Tenure(n, com[n].stamp)
       THEN com' = [com EXCEPT ![n].pc = "build"] /\ UNCHANGED <<view, established, buildVars>>
       ELSE Finish(n, "refused")
    /\ UNCHANGED <<claimVars, storeVars, faultVars, ver, gen>>

\* nextIndexLocked also advances the bookkeeping, whether or not the write
\* lands; it reads the claim again for its generation.
Build(n) ==
    LET g == NextGen(gen[n], term[n])
    IN  /\ com[n].pc = "build"
        /\ gen' = [gen EXCEPT ![n] = g]
        /\ view' = [view EXCEPT ![n].indexed = com[n].next, ![n].removals = NextRemovals(n),
                                ![n].slots = [@ EXCEPT ![n] = com[n].epoch]]
        /\ com' = [com EXCEPT ![n].pc = "cas", ![n].ix = Candidate(n, g)]
        /\ UNCHANGED <<claimVars, storeVars, faultVars, ver, established, buildVars>>

\* Backend.CompareAndSwap applied to the stored object: the version it is
\* conditioned on is the one before the version it would produce.
SwapAny(w) == index' = [w.ix EXCEPT !.ver = index.ver + 1] /\ lastStamp' = w.stamp

Swap(w) == w.ix.ver = index.ver + 1 /\ index' = w.ix /\ lastStamp' = w.stamp

Write(n) == [ix |-> com[n].ix, stamp |-> com[n].stamp]

\* commitOnceLocked, the write landed.
CasLands(n) ==
    /\ com[n].pc = "cas"
    /\ Swap(Write(n))
    /\ ver' = [ver EXCEPT ![n] = index'.ver]
    /\ Finish(n, "landed")
    /\ UNCHANGED <<claimVars, limbo, faultVars, gen>>

CasConflictsOneMore(n) ==
    /\ com[n].pc = "cas"
    /\ com[n].ix.ver # index.ver + 1
    /\ IF com[n].left > 0
       THEN com' = [com EXCEPT ![n].pc = "rebase", ![n].left = @ - 1]
            /\ UNCHANGED <<view, established, buildVars>>
       ELSE Finish(n, "conflict")
    /\ UNCHANGED <<claimVars, storeVars, faultVars, ver, gen>>

\* The version moved: rebase and try again, or report the conflict.
CasConflicts(n) ==
    /\ com[n].pc = "cas"
    /\ com[n].ix.ver # index.ver + 1
    /\ IF com[n].left > 1
       THEN com' = [com EXCEPT ![n].pc = "rebase", ![n].left = @ - 1]
            /\ UNCHANGED <<view, established, buildVars>>
       ELSE Finish(n, "conflict")
    /\ UNCHANGED <<claimVars, storeVars, faultVars, ver, gen>>

\* indexcommit.Save could not confirm the write (commitUnknownError): it
\* landed, or did not, or is still on its way.
CasUnknown(n) ==
    /\ com[n].pc = "cas" /\ lost < MaxLost
    /\ lost' = lost + 1
    /\ \/ Swap(Write(n)) /\ UNCHANGED limbo
       \/ UNCHANGED storeVars
       \/ Late /\ limbo' = limbo \cup {Write(n)} /\ UNCHANGED <<index, lastStamp>>
    /\ Finish(n, "unknown")
    /\ UNCHANGED <<claimVars, restarts, ver, gen>>

\* An unconfirmed write reaches the store.
LandLate(w) ==
    /\ w \in limbo
    /\ Swap(w)
    /\ limbo' = limbo \ {w}
    /\ UNCHANGED <<claimVars, faultVars, engineVars, buildVars, com>>
-----------------------------------------------------------------------------
(* The operations that commit.                                             *)

EstablishOnce(n) ==
    /\ Idle(n) /\ term[n] # 0 /\ established[n] # term[n] /\ index.gen.term < term[n]
    /\ LoadParts(n)
    /\ com' = [com EXCEPT ![n] = StartCommit("build", "establish", Loaded(n).parts, Loaded(n).flushed,
                                             term[n], 1)]
    /\ UNCHANGED <<claimVars, storeVars, faultVars, established, buildVars>>

\* establishTenureLocked: a fresh load, committed back under the new term in
\* one attempt.
Establish(n) ==
    /\ Idle(n) /\ term[n] # 0 /\ established[n] # term[n]
    /\ LoadParts(n)
    /\ com' = IF index.gen.term <= term[n]
              THEN [com EXCEPT ![n] = StartCommit("build", "establish", Loaded(n).parts,
                                                  Loaded(n).flushed, term[n], 1)]
              ELSE com
    /\ UNCHANGED <<claimVars, storeVars, faultVars, established, buildVars>>

WritePart(p, leaves) ==
    /\ covers' = [covers EXCEPT ![p] = leaves]
    /\ objects' = objects \cup {p}

\* flush: the plan phase, fenced, and the part written off the lock.
FlushBegin(n, p) ==
    /\ Idle(n) /\ flush[n] = NoFlush
    /\ Tenure(n, term[n])
    /\ p \in Fresh /\ WritePart(p, {p})
    /\ flush' = [flush EXCEPT ![n] = [outs |-> {p}, epoch |-> view[n].flushed + 1]]
    /\ UNCHANGED <<claimVars, storeVars, faultVars, engineVars, merge, retired, com>>

\* abortFlush: the rows go back to the head, the object is an orphan.
FlushAbort(n) ==
    /\ Idle(n) /\ flush[n] # NoFlush
    /\ flush' = [flush EXCEPT ![n] = NoFlush]
    /\ UNCHANGED <<claimVars, storeVars, faultVars, engineVars, merge, retired, objects, covers, com>>

\* publishFlushLocked up to its commit.
FlushPublish(n) ==
    /\ Idle(n) /\ flush[n] # NoFlush
    /\ Begin(n, "flush", view[n].parts \cup flush[n].outs, Max2(flush[n].epoch, view[n].flushed), term[n])
    /\ UNCHANGED <<claimVars, storeVars, faultVars, engineVars, buildVars>>

\* mergeHeld: a tenure still to be established is established first.
MayMerge(n) == Idle(n) /\ merge[n] = NoMerge /\ term[n] \in {0, established[n]}

\* pinMergeSourcesLocked: uncommitted parts are committed before a merge.
Republish(n) ==
    /\ MayMerge(n) /\ view[n].pending # {}
    /\ Begin(n, "republish", view[n].parts, view[n].flushed, term[n])
    /\ UNCHANGED <<claimVars, storeVars, faultVars, engineVars, buildVars>>

\* mergeHeld: plan under the tenure held now, then write the output.
MergeBegin(n, src, p) ==
    /\ MayMerge(n) /\ view[n].pending = {}
    /\ src # {} /\ src \subseteq view[n].parts
    /\ p \in Fresh /\ WritePart(p, UNION {covers[q] : q \in src})
    /\ merge' = [merge EXCEPT ![n] = [src |-> src, outs |-> {p}, stamp |-> term[n]]]
    /\ UNCHANGED <<claimVars, storeVars, faultVars, engineVars, flush, retired, com>>

\* mergeHeld: publish, unless a reload took a source away (mergeSourcesLive).
MergePublish(n) ==
    /\ Idle(n) /\ merge[n] # NoMerge
    /\ IF merge[n].src \subseteq view[n].parts
       THEN /\ Begin(n, "merge", (view[n].parts \ merge[n].src) \cup merge[n].outs, view[n].flushed,
                     merge[n].stamp)
            /\ UNCHANGED <<merge, retired>>
       ELSE /\ retired' = [retired EXCEPT ![n] = @ \cup merge[n].outs]
            /\ merge' = [merge EXCEPT ![n] = NoMerge]
            /\ UNCHANGED com
    /\ UNCHANGED <<claimVars, storeVars, faultVars, engineVars, flush, objects, covers>>

\* reclaimRetired and discardOutputs.
Reclaim(n) ==
    /\ retired[n] # {}
    /\ objects' = objects \ retired[n]
    /\ retired' = [retired EXCEPT ![n] = {}]
    /\ UNCHANGED <<claimVars, storeVars, faultVars, engineVars, flush, merge, covers, com>>

\* The process dies and reopens the prefix without a claim
\* (LoadPartsUnclaimed); a write it had sent may still land.
Restart(n) ==
    /\ restarts < MaxRestart
    /\ restarts' = restarts + 1
    /\ owner' = IF owner = n THEN None ELSE owner
    /\ term' = [term EXCEPT ![n] = 0]
    /\ established' = [established EXCEPT ![n] = 0]
    /\ limbo' = IF Late /\ com[n].pc = "cas" THEN limbo \cup {Write(n)} ELSE limbo
    /\ ver' = [ver EXCEPT ![n] = index.ver] /\ gen' = [gen EXCEPT ![n] = index.gen]
    /\ view' = [view EXCEPT ![n] = Opened(n)]
    /\ flush' = [flush EXCEPT ![n] = NoFlush] /\ merge' = [merge EXCEPT ![n] = NoMerge]
    /\ com' = [com EXCEPT ![n] = NoCommit] /\ retired' = [retired EXCEPT ![n] = {}]
    /\ UNCHANGED <<lastTerm, index, lastStamp, lost, objects, covers>>

Next ==
    \/ Expire
    \/ \E w \in limbo : LandLate(w)
    \/ \E n \in Node :
        \/ Acquire(n) \/ Fence(n) \/ Renew(n)
        \/ RefreshReplica(n) \/ Establish(n)
        \/ Check(n) \/ Build(n) \/ CasLands(n) \/ CasConflicts(n) \/ CasUnknown(n) \/ Rebase(n)
        \/ \E p \in Part : FlushBegin(n, p)
        \/ FlushAbort(n) \/ FlushPublish(n)
        \/ Republish(n)
        \/ \E src \in SUBSET Part, p \in Part : MergeBegin(n, src, p)
        \/ MergePublish(n)
        \/ Reclaim(n) \/ Restart(n)

Spec == Init /\ [][Next]_vars

\* The maintenance loop flushes or merges every engine each cycle, which first
\* establishes its tenure, and a commit that holds the lock runs on.
Progress(n) == Establish(n) \/ Check(n) \/ Build(n) \/ CasLands(n) \/ CasConflicts(n) \/ Rebase(n)
FairSpec == Spec /\ \A n \in Node : WF_vars(Progress(n))
-----------------------------------------------------------------------------
Gen == [term : Nat, counter : Nat]
Index == [ver : Nat, gen : Gen, parts : SUBSET Part, removed : SUBSET Part, slots : [Node -> Nat]]
View == [parts : SUBSET Part, pending : SUBSET Part, indexed : SUBSET Part, removals : SUBSET Part,
         foreign : SUBSET Part, slots : [Node -> Nat], flushed : Nat]
Committing == [pc : {"check", "build", "cas", "rebase"}, kind : {"establish", "flush", "merge", "republish"},
               next : SUBSET Part, epoch : Nat, stamp : Nat, left : 1 .. Attempts, ix : Index]
Commit == {NoCommit} \cup Committing

\* The type of the state; a commit in progress is one of its Attempts.
TypeOK ==
    /\ owner \in Node \cup {None} /\ lastTerm \in Nat /\ term \in [Node -> Nat]
    /\ index \in Index /\ limbo \subseteq [ix : Index, stamp : Nat] /\ lastStamp \in Nat
    /\ objects \subseteq Part /\ covers \in [Part -> SUBSET Part]
    /\ ver \in [Node -> Nat] /\ gen \in [Node -> Gen] /\ view \in [Node -> View]
    /\ established \in [Node -> Nat]
    /\ flush \in [Node -> [outs : SUBSET Part, epoch : Nat]]
    /\ merge \in [Node -> [src : SUBSET Part, outs : SUBSET Part, stamp : Nat]]
    /\ com \in [Node -> Commit] /\ retired \in [Node -> SUBSET Part]
    /\ lost \in Nat /\ restarts \in Nat

\* Over a shared store a displaced writer never lands a commit after its
\* successor's first one: the tenures under which commits began never go back.
NoDisplacedCommit == [][lastStamp' >= lastStamp]_vars

\* Every commit that lands supersedes the one it replaces: a replica that
\* orders index states by Generation never takes an older one for newer.
GenerationRises == [][index' # index => Less(index.gen, index'.gen)]_vars

\* No rows are named twice: a handoff never brings a merge's inputs back in
\* beside its output.
NoOverlap == \A p, q \in index.parts : p # q => covers[p] \cap covers[q] = {}

\* No commit drops rows another writer committed.
Covered(ix) == UNION {covers[p] : p \in ix.parts}
NothingDropped == [][Covered(index) \subseteq UNION {covers'[p] : p \in index'.parts}]_vars

\* What the index names exists: neither a displaced merge discarding its
\* outputs nor a successor reclaiming inputs deletes a named part.
NamedPresent == index.parts \subseteq objects

\* One attempt per operation is enough: a node that keeps its claim ends up
\* with an established tenure, whatever conflicts, lost responses and fenced
\* reads of the claim its establishing commits met.
EventuallyEstablished ==
    \A n \in Node : <>[](term[n] # 0) => <>[](established[n] = term[n])

\* A commit never lowers a writer's WAL watermark, its own or another's.
SlotsKept == [][\A n \in Node : index.slots[n] <= index'.slots[n]]_vars
=============================================================================
