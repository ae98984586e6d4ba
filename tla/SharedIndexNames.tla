-------------------------- MODULE SharedIndexNames --------------------------
(***************************************************************************)
(* What the index names when every commit is made under a claim, until a   *)
(* response is lost: no rows twice, nothing that was deleted, for any      *)
(* number of nodes, tenures and restarts, a restart's last write landing   *)
(* late included.                                                          *)
(***************************************************************************)
EXTENDS SharedIndexHandoff

\* The tenures a node has a trace of.
Marks(n) ==
    ({term[n], established[n], com[n].stamp, merge[n].stamp} \cup (IF owner = n THEN {lastTerm} ELSE {})) \ {0}

\* A tenure is one node's, and a write left behind by a restart is under a
\* tenure that nobody has any more.
MarkInv ==
    /\ \A n \in Node : Marks(n) \subseteq 1 .. lastTerm
    /\ \A m, n \in Node : m # n => Marks(m) \cap Marks(n) = {}
    /\ \A n \in Node, w \in limbo : w.stamp \notin Marks(n)

\* The node under whose tenure the last commit was made.
Holder(n) == established[n] # 0 /\ established[n] = lastStamp

\* The node's parts are the stored index's and its own unconfirmed ones.
Synced(n) ==
    /\ view[n].parts = index.parts \cup view[n].pending
    /\ view[n].pending \cap index.parts = {} /\ view[n].foreign = {}

\* The holder is at the stored version, as is an establishing commit that can
\* still land; a commit past its fence is the holder's if it can still land.
HoldAt(n) ==
    /\ established[n] <= lastStamp
    /\ com[n].pc \in {"build", "cas"} /\ com[n].kind # "establish" => established[n] = com[n].stamp
    /\ Holder(n) => ver[n] = index.ver /\ com[n].pc # "rebase" /\ Synced(n)
    /\ com[n].pc # "idle" /\ com[n].kind = "establish" /\ ver[n] = index.ver => Synced(n)

\* What a commit will leave the node with.
ShapeAt(n) ==
    com[n].pc # "idle" =>
        /\ com[n].kind = "flush" => com[n].next = view[n].parts \cup flush[n].outs
        /\ com[n].kind = "merge" => /\ merge[n].src \subseteq view[n].parts
                                    /\ com[n].next = (view[n].parts \ merge[n].src) \cup merge[n].outs
        /\ com[n].kind \in {"establish", "republish"} => com[n].next = view[n].parts

\* The parts a node has written and no index has named yet.
Own(n) == view[n].pending \cup flush[n].outs \cup merge[n].outs

\* The rows of an unmerged part are in no other part.
Alone(p) == covers[p] = {p} /\ \A q \in Part : p \in covers[q] => q = p

\* Nobody else names them, no write that was sent does, and none is retired.
OwnAt(n) ==
    /\ Own(n) \subseteq Hidden(n) /\ Own(n) \subseteq objects
    /\ \A k \in Node : Own(n) \cap retired[k] = {}
    /\ \A w \in limbo : Own(n) \cap w.ix.parts = {}
    /\ merge[n].outs \cap (view[n].pending \cup merge[n].src) = {}
    /\ \A p, q \in merge[n].outs : p = q
    /\ \A p \in view[n].pending \cup flush[n].outs : Alone(p)

\* Parts an index may name: present, not about to be deleted, no rows twice.
Apart(P) == \A p, q \in P : p # q => covers[p] \cap covers[q] = {}
Sound(P) == P \subseteq objects /\ Apart(P) /\ \A k \in Node : P \cap retired[k] = {}

NameInv ==
    /\ \A n \in Node : HoldAt(n) /\ ShapeAt(n) /\ OwnAt(n)
    /\ \A q \in Part : covers[q] \subseteq Minted
    /\ \A k \in Node : retired[k] \subseteq Minted
    /\ Sound(index.parts) /\ \A w \in limbo : Fits(w.ix) => Sound(w.ix.parts)
-----------------------------------------------------------------------------
(* Tenures.                                                                *)

LEMMA MarksKept ==
    ASSUME MarkInv, lastTerm' = lastTerm, limbo' \subseteq limbo, \A m \in Node : Marks(m)' \subseteq Marks(m)
    PROVE  MarkInv'
BY Zenon DEF MarkInv

LEMMA FewerMarks ==
    ASSUME NEW m, {term'[m], established'[m], com'[m].stamp, merge'[m].stamp} \subseteq Marks(m) \cup {0},
           owner' = m => owner = m, lastTerm' = lastTerm
    PROVE  Marks(m)' \subseteq Marks(m)
BY SMTT(30) DEF Marks

LEMMA MarkOf ==
    ASSUME NEW m
    PROVE  /\ {term[m], established[m], com[m].stamp, merge[m].stamp} \subseteq Marks(m) \cup {0}
           /\ owner = m => lastTerm \in Marks(m) \cup {0}
BY Zenon DEF Marks

\* A step of one node that takes no claim.
LEMMA MarksLocal ==
    ASSUME MarkInv, NEW n \in Node, By(n), UNCHANGED <<owner, lastTerm>>, limbo' \subseteq limbo,
           \A m \in Node \ {n} : term'[m] = term[m],
           {term'[n], established'[n], com'[n].stamp, merge'[n].stamp} \subseteq Marks(n) \cup {0}
    PROVE  MarkInv'
<1>1. ASSUME NEW m \in Node PROVE Marks(m)' \subseteq Marks(m)
  <2>1. CASE m = n
    BY <2>1, FewerMarks, Zenon
  <2>2. CASE m # n
    <3>1. /\ term'[m] = term[m] /\ established'[m] = established[m]
          /\ com'[m].stamp = com[m].stamp /\ merge'[m].stamp = merge[m].stamp
      BY <2>2, Zenon DEF By, Same
    <3> QED BY <3>1, MarkOf, FewerMarks
  <2> QED BY <2>1, <2>2, Zenon
<1> QED BY <1>1, MarksKept, Zenon

LEMMA FinishMarks ==
    ASSUME TypeOK, NEW n \in Node, NEW r, Finish(n, r)
    PROVE  {established'[n], com'[n].stamp, merge'[n].stamp} \subseteq Marks(n) \cup {0}
<1>1. /\ established'[n] \in {established[n], com[n].stamp} /\ com'[n].stamp = 0
      /\ merge'[n] \in {NoMerge, merge[n]}
  BY Finished, NoWork, Zenon
<1> QED BY <1>1, MarkOf, NoWork

LEMMA ClaimMarks ==
    ASSUME IInv, MarkInv, Expire \/ \E n \in Node : Acquire(n) \/ Fence(n) \/ Renew(n)
    PROVE  MarkInv'
<1>0. UNCHANGED <<limbo, established, com, merge>> /\ term \in [Node -> Nat] /\ lastTerm \in Nat
  BY Zenon DEF Expire, Acquire, Fence, Renew, storeVars, engineVars, buildVars, IInv, TypeOK
<1>1. CASE Expire
  <2>1. term' = term /\ lastTerm' = lastTerm /\ owner' = None
    BY <1>1, Zenon DEF Expire
  <2>2. ASSUME NEW m \in Node PROVE Marks(m)' \subseteq Marks(m)
    <3>1. owner' # m
      BY <2>1, NodeType, Zenon
    <3> QED BY <1>0, <2>1, <3>1, MarkOf, FewerMarks, Zenon
  <2> QED BY <1>0, <2>1, <2>2, MarksKept, Zenon
<1>2. ASSUME NEW n \in Node, Fence(n) \/ Renew(n) PROVE MarkInv'
  <2>1. /\ UNCHANGED <<owner, lastTerm>> /\ (term'[n] = 0 \/ (owner = n /\ term'[n] = lastTerm))
        /\ \A m \in Node \ {n} : term'[m] = term[m]
    BY <1>0, <1>2, Zenon DEF Fence, Renew
  <2>2. ASSUME NEW m \in Node PROVE Marks(m)' \subseteq Marks(m)
    <3>1. term'[m] \in Marks(m) \cup {0}
      BY <2>1, MarkOf, Zenon
    <3> QED BY <1>0, <2>1, <3>1, MarkOf, FewerMarks, ZenonT(30)
  <2> QED BY <1>0, <2>1, <2>2, MarksKept, Zenon
<1>3. ASSUME NEW n \in Node, Acquire(n) PROVE MarkInv'
  <2>1. /\ owner = None /\ owner' = n /\ lastTerm' = lastTerm + 1 /\ term'[n] = lastTerm + 1
        /\ \A m \in Node \ {n} : term'[m] = term[m]
    BY <1>0, <1>3, Zenon DEF Acquire
  <2>2. ASSUME NEW m \in Node \ {n} PROVE Marks(m)' = Marks(m)
    <3>1. owner # m /\ owner' # m /\ term'[m] = term[m]
      BY <2>1, NodeType, Zenon
    <3> QED BY <1>0, <3>1, Zenon DEF Marks
  <2>3. Marks(n)' \subseteq Marks(n) \cup {lastTerm + 1}
    BY <1>0, <2>1, ZenonT(30) DEF Marks
  <2>4. ASSUME NEW m \in Node PROVE Marks(m) \subseteq 1 .. lastTerm /\ lastTerm + 1 \notin Marks(m)
    BY <1>0 DEF MarkInv
  <2>5. \A w \in limbo : w.stamp # lastTerm + 1
    <3>1. ASSUME NEW w \in limbo PROVE w.stamp \in Nat /\ w.stamp <= lastTerm
      BY Zenon DEF IInv, TypeOK, LimboInv
    <3> QED BY <1>0, <3>1
  <2>6. ASSUME NEW m \in Node PROVE Marks(m)' \subseteq 1 .. lastTerm'
    <3>1. 1 .. lastTerm \subseteq 1 .. lastTerm' /\ lastTerm + 1 \in 1 .. lastTerm'
      BY <1>0, <2>1
    <3> QED BY <2>2, <2>3, <2>4, <3>1, Zenon
  <2>7. ASSUME NEW m \in Node, NEW k \in Node, m # k PROVE Marks(m)' \cap Marks(k)' = {}
    <3>1. Marks(m) \cap Marks(k) = {}
      BY <2>7, Zenon DEF MarkInv
    <3>2. CASE m = n
      BY <2>2, <2>3, <2>4, <2>7, <3>1, <3>2, Zenon
    <3>3. CASE k = n
      BY <2>2, <2>3, <2>4, <2>7, <3>1, <3>3
    <3>4. CASE m # n /\ k # n
      BY <2>2, <3>1, <3>4
    <3> QED BY <3>2, <3>3, <3>4, Zenon
  <2>8. ASSUME NEW m \in Node, NEW w \in limbo' PROVE w.stamp \notin Marks(m)'
    <3>1. w \in limbo /\ w.stamp \notin Marks(m)
      BY <1>0, Zenon DEF MarkInv
    <3>2. CASE m = n
      BY <2>3, <2>5, <3>1, <3>2, Zenon
    <3>3. CASE m # n
      BY <2>2, <3>1, <3>3, Zenon
    <3> QED BY <3>2, <3>3, Zenon
  <2> QED BY <2>6, <2>7, <2>8, Zenon DEF MarkInv
<1> QED BY <1>1, <1>2, <1>3, Zenon

\* A restart takes the node's tenures with it.
LEMMA RestartMarks == ASSUME IInv, MarkInv, NEW n \in Node, Restart(n) PROVE MarkInv'
<1>1. /\ com'[n] = NoCommit /\ merge'[n] = NoMerge /\ established'[n] = 0 /\ lastTerm' = lastTerm
      /\ Leaves(n) /\ By(n)
  BY Restarted, Zenon DEF IInv, By
<1>2. /\ term'[n] = 0 /\ owner' # n /\ \A m \in Node \ {n} : term'[m] = term[m] /\ (owner' = m => owner = m)
  BY NodeType, Zenon DEF Restart, IInv, TypeOK
<1>3. Marks(n)' = {}
  BY <1>1, <1>2, NoWork, Zenon DEF Marks
<1>4. ASSUME NEW m \in Node \ {n} PROVE Marks(m)' \subseteq Marks(m)
  <2>1. /\ term'[m] = term[m] /\ established'[m] = established[m] /\ (owner' = m => owner = m)
        /\ com'[m].stamp = com[m].stamp /\ merge'[m].stamp = merge[m].stamp
    BY <1>1, <1>2, Zenon DEF By, Same
  <2> QED BY <1>1, <2>1, MarkOf, FewerMarks
<1>5. ASSUME NEW m \in Node, NEW w \in limbo' PROVE w.stamp \notin Marks(m)'
  <2>1. CASE m = n
    BY <1>3, <2>1, Zenon
  <2>2. CASE m # n /\ w \in limbo
    BY <1>4, <2>2, ZenonT(30) DEF MarkInv
  <2>3. CASE m # n /\ w = Write(n)
    <3>1. w.stamp = com[n].stamp /\ w.stamp \in Marks(n) \cup {0} /\ 0 \notin Marks(m)
      BY <2>3, MarkOf, Zenon DEF Write, Marks
    <3>2. Marks(m) \cap Marks(n) = {}
      BY <2>3, Zenon DEF MarkInv
    <3> QED BY <1>4, <2>3, <3>1, <3>2, Zenon
  <2> QED BY <1>1, <2>1, <2>2, <2>3, Zenon DEF Leaves
<1>6. \A m \in Node : Marks(m)' \subseteq Marks(m)
  BY <1>3, <1>4, Zenon
<1> QED BY <1>1, <1>5, <1>6, ZenonT(30) DEF MarkInv

LEMMA CommitMarks ==
    ASSUME IInv, MarkInv, NEW n \in Node,
           Check(n) \/ CasConflicts(n) \/ Build(n) \/ Rebase(n) \/ CasLands(n)
    PROVE  MarkInv'
<1>1. UNCHANGED <<owner, lastTerm, term>> /\ limbo' = limbo
  BY Zenon DEF Check, CasConflicts, Build, Rebase, CasLands, claimVars, storeVars
<1>2. \A m \in Node \ {n} : ver'[m] = ver[m]
  BY FunTypes, Zenon DEF Check, CasConflicts, Build, Rebase, CasLands, IInv
<1>3. CASE \E r : Finish(n, r)
  <2>1. PICK r : Finish(n, r)
    BY <1>3, Zenon
  <2>2. By(n) /\ {established'[n], com'[n].stamp, merge'[n].stamp} \subseteq Marks(n) \cup {0}
    BY <1>2, <2>1, Finished, FinishMarks, Zenon DEF IInv, By
  <2> QED BY <1>1, <2>2, MarkOf, MarksLocal, Zenon
<1>4. CASE com'[n].stamp = com[n].stamp /\ UNCHANGED <<established, flush, merge, retired>>
           /\ \A m \in Node \ {n} : view'[m] = view[m] /\ com'[m] = com[m]
  <2>1. By(n)
    BY <1>2, <1>4, Zenon DEF By, Same
  <2> QED BY <1>1, <1>4, <2>1, MarkOf, MarksLocal
<1>5. CASE Build(n)
  BY <1>4, <1>5, Built, Zenon DEF IInv, buildVars
<1>6. CASE Rebase(n)
  BY <1>4, <1>6, Rebased DEF IInv, buildVars
<1>7. CASE (Check(n) /\ Tenure(n, com[n].stamp)) \/ (CasConflicts(n) /\ com[n].left > 1)
  BY <1>4, <1>7, Moved, ZenonT(30) DEF IInv, engineVars, buildVars
<1> QED BY <1>3, <1>5, <1>6, <1>7, Zenon DEF Check, CasConflicts, CasLands

LEMMA BeginMarks ==
    ASSUME IInv, MarkInv, NEW n \in Node, FlushPublish(n) \/ Republish(n) \/ MergePublish(n)
    PROVE  MarkInv'
<1>1. UNCHANGED <<owner, lastTerm, term, limbo, view, ver, established, flush>>
  BY Zenon DEF FlushPublish, Republish, MergePublish, claimVars, storeVars, engineVars, buildVars
<1>2. ASSUME NEW k, NEW P, NEW e, NEW t, Begin(n, k, P, e, t), UNCHANGED <<merge, retired>>, t \in {term[n], merge[n].stamp}
      PROVE  MarkInv'
  <2>1. com'[n].stamp = t /\ \A m \in Node \ {n} : com'[m] = com[m]
    BY <1>2, Begun DEF IInv
  <2>2. By(n)
    BY <1>1, <1>2, <2>1, Zenon DEF By, Same
  <2> QED BY <1>1, <1>2, <2>1, <2>2, MarkOf, MarksLocal
<1>3. CASE com' = com /\ merge' = [merge EXCEPT ![n] = NoMerge] /\ retired' = [retired EXCEPT ![n] = @ \cup merge[n].outs]
  <2>1. merge'[n].stamp = 0 /\ By(n)
    BY <1>1, <1>3, NoWork, FunTypes, Zenon DEF By, Same, IInv
  <2> QED BY <1>1, <1>3, <2>1, MarkOf, MarksLocal
<1>4. CASE FlushPublish(n)
  BY <1>2, <1>4, Zenon DEF FlushPublish, buildVars
<1>5. CASE Republish(n)
  BY <1>2, <1>5, Zenon DEF Republish, buildVars
<1>6. CASE MergePublish(n)
  BY <1>2, <1>3, <1>6, Zenon DEF MergePublish
<1> QED BY <1>4, <1>5, <1>6, Zenon

LEMMA WorkMarks ==
    ASSUME IInv, MarkInv, NEW n \in Node,
           \/ RefreshReplica(n) \/ Establish(n) \/ FlushAbort(n) \/ Reclaim(n)
           \/ \E p \in Part : FlushBegin(n, p)
           \/ \E src \in SUBSET Part, p \in Part : MergeBegin(n, src, p)
    PROVE  MarkInv'
<1>1. UNCHANGED <<owner, lastTerm, term, limbo, established>>
  BY Zenon DEF RefreshReplica, Establish, FlushAbort, Reclaim, FlushBegin, MergeBegin, claimVars, storeVars, engineVars
<1>2. ASSUME NEW m \in Node PROVE merge'[m].stamp \in {merge[m].stamp, term[m]}
  <2>1. DOMAIN merge = Node
    BY FunTypes DEF IInv
  <2>2. CASE merge' = merge
    BY <2>2, Zenon
  <2>3. ASSUME NEW S, NEW T, merge' = [merge EXCEPT ![n] = [src |-> S, outs |-> T, stamp |-> term[n]]]
        PROVE  merge'[m].stamp \in {merge[m].stamp, term[m]}
    <3>1. CASE m = n
      BY <2>1, <2>3, <3>1
    <3>2. CASE m # n
      BY <2>1, <2>3, <3>2
    <3> QED BY <3>1, <3>2, Zenon
  <2>4. merge' = merge \/ \E S, T : merge' = [merge EXCEPT ![n] = [src |-> S, outs |-> T, stamp |-> term[n]]]
    BY Zenon DEF RefreshReplica, Establish, FlushAbort, Reclaim, FlushBegin, MergeBegin, buildVars
  <2> QED BY <2>2, <2>3, <2>4, Zenon
<1>3. ASSUME NEW m \in Node PROVE com'[m].stamp \in {com[m].stamp, term[m]}
  <2>1. CASE com' = com
    BY <2>1, Zenon
  <2>2. CASE com' # com
    <3>1. Establish(n)
      BY <2>2, Zenon DEF RefreshReplica, FlushAbort, Reclaim, FlushBegin, MergeBegin
    <3>2. com'[n].stamp = term[n] /\ \A k \in Node \ {n} : com'[k] = com[k]
      BY <2>2, <3>1, EstablishBegun, Zenon DEF IInv
    <3> QED BY <3>2, Zenon
  <2> QED BY <2>1, <2>2, Zenon
<1>4. ASSUME NEW m \in Node PROVE Marks(m)' \subseteq Marks(m)
  <2>1. {term'[m], established'[m], com'[m].stamp, merge'[m].stamp} \subseteq Marks(m) \cup {0}
    BY <1>1, <1>2, <1>3, MarkOf
  <2> QED BY <1>1, <2>1, FewerMarks, Zenon
<1> QED BY <1>1, <1>4, MarksKept, Zenon

LEMMA MarkStep == ASSUME IInv, MarkInv, lost' = 0, [Next]_vars PROVE MarkInv'
<1>1. CASE Expire \/ \E n \in Node : Acquire(n) \/ Fence(n) \/ Renew(n)
  BY <1>1, ClaimMarks, Zenon
<1>2. CASE UNCHANGED vars \/ \E w \in limbo : LandLate(w)
  <2>1. UNCHANGED <<owner, lastTerm, term, established, com, merge>> /\ limbo' \subseteq limbo
    BY <1>2, Zenon DEF vars, LandLate, claimVars, storeVars, engineVars, buildVars
  <2>2. \A m \in Node : Marks(m)' = Marks(m)
    BY <2>1, Zenon DEF Marks
  <2> QED BY <2>1, <2>2, MarksKept, Zenon
<1>3. ASSUME NEW n \in Node, Check(n) \/ CasConflicts(n) \/ Build(n) \/ Rebase(n) \/ CasLands(n)
      PROVE  MarkInv'
  BY <1>3, CommitMarks, Zenon
<1>4. ASSUME NEW n \in Node, FlushPublish(n) \/ Republish(n) \/ MergePublish(n) PROVE MarkInv'
  BY <1>4, BeginMarks, Zenon
<1>5. ASSUME NEW n \in Node,
             \/ RefreshReplica(n) \/ Establish(n) \/ FlushAbort(n) \/ Reclaim(n)
             \/ \E p \in Part : FlushBegin(n, p)
             \/ \E src \in SUBSET Part, p \in Part : MergeBegin(n, src, p)
      PROVE  MarkInv'
  BY <1>5, WorkMarks, Zenon
<1>6. ASSUME NEW n \in Node, Restart(n) PROVE MarkInv'
  BY <1>6, RestartMarks, Zenon
<1>7. ASSUME NEW n \in Node PROVE ~CasUnknown(n)
  BY DEF CasUnknown, IInv, TypeOK
<1> QED BY <1>1, <1>2, <1>3, <1>4, <1>5, <1>6, <1>7, Zenon DEF Next
-----------------------------------------------------------------------------
(* Writes that can land.                                                   *)

LEMMA ApartAdd ==
    ASSUME NEW P \in SUBSET Part, NEW S \in SUBSET Part, Apart(P), \A p \in S : Alone(p)
    PROVE  Apart(P \cup S)
<1>1. SUFFICES ASSUME NEW p \in P \cup S, NEW q \in P \cup S, p # q PROVE covers[p] \cap covers[q] = {}
  BY Zenon DEF Apart
<1>2. CASE p \in S
  BY <1>1, <1>2 DEF Alone
<1>3. CASE q \in S
  BY <1>1, <1>3 DEF Alone
<1>4. CASE p \in P /\ q \in P
  BY <1>1, <1>4, Zenon DEF Apart
<1> QED BY <1>2, <1>3, <1>4, Zenon

LEMMA ApartSwap ==
    ASSUME NEW P, NEW src \in SUBSET P, NEW outs, Apart(P), \A p, q \in outs : p = q,
           Rows(covers, outs) = Rows(covers, src)
    PROVE  Apart((P \ src) \cup outs)
<1>1. ASSUME NEW p \in outs, NEW q \in P \ src PROVE covers[p] \cap covers[q] = {}
  <2>1. covers[p] \subseteq Rows(covers, src)
    BY Zenon DEF Rows
  <2>2. \A s \in src : covers[s] \cap covers[q] = {}
    BY Zenon DEF Apart
  <2> QED BY <2>1, <2>2 DEF Rows
<1> QED BY <1>1, Zenon DEF Apart

\* A commit that would land was built by the holder, or establishes a tenure
\* from the stored index.
LEMMA WriteHolds ==
    ASSUME IInv, SlotInv, NameInv, NEW n \in Node, com[n].pc = "cas", Fits(com[n].ix)
    PROVE  /\ ver[n] = index.ver /\ Synced(n)
           /\ com[n].kind # "establish" => established[n] = com[n].stamp
           /\ com[n].stamp >= lastStamp
<1>1. com[n].ix.ver = ver[n] + 1 /\ ver[n] \in Nat /\ index.ver \in Nat
  BY EngineFields, Zenon DEF IInv, CasInv
<1>2. ver[n] = index.ver
  BY <1>1 DEF Fits
<1>3. com[n].stamp >= lastStamp /\ com[n].stamp \in Nat /\ lastStamp \in Nat
  BY CommitFields, Zenon DEF IInv, WriteInv, Fit, Write, Fits, TypeOK
<1>4. HoldAt(n) /\ EpochAt(n)
  BY Zenon DEF NameInv, SlotInv
<1>5. CASE com[n].kind = "establish"
  BY <1>2, <1>3, <1>4, <1>5, Zenon DEF HoldAt
<1>6. CASE com[n].kind # "establish"
  <2>1. established[n] = com[n].stamp /\ established[n] <= lastStamp /\ established[n] # 0
    BY <1>4, <1>6, Zenon DEF HoldAt, EpochAt
  <2>2. Holder(n)
    BY <1>3, <2>1 DEF Holder
  <2> QED BY <1>2, <1>3, <1>4, <2>1, <2>2, Zenon DEF HoldAt
<1> QED BY <1>5, <1>6, Zenon

LEMMA Kinds ==
    ASSUME TypeOK, NEW n \in Node, com[n].pc # "idle"
    PROVE  com[n].kind \in {"establish", "flush", "merge", "republish"}
BY CommitFields, Zenon DEF Committing

\* It names the stored index's parts, less a merge's inputs, and the node's
\* own.
LEMMA WriteParts ==
    ASSUME IInv, RowsInv, SlotInv, NameInv, NEW n \in Node, com[n].pc = "cas", Fits(com[n].ix)
    PROVE  /\ com[n].ix.parts = com[n].next
           /\ com[n].kind = "flush" => com[n].next = index.parts \cup view[n].pending \cup flush[n].outs
           /\ com[n].kind = "merge" =>
                com[n].next = ((index.parts \cup view[n].pending) \ merge[n].src) \cup merge[n].outs
                /\ merge[n].src \subseteq index.parts \cup view[n].pending
           /\ com[n].kind \in {"establish", "republish"} => com[n].next = index.parts \cup view[n].pending
           /\ view[n].parts = index.parts \cup view[n].pending
<1>1. Synced(n)
  BY WriteHolds, Zenon
<1>2. com[n].ix.parts = com[n].next \cup view[n].foreign
  BY Zenon DEF RowsInv, RowsAt
<1>3. ShapeAt(n)
  BY Zenon DEF NameInv
<1>4. com[n].ix.parts = com[n].next
  BY <1>1, <1>2, Zenon DEF Synced
<1> QED BY <1>1, <1>3, <1>4, Zenon DEF Synced, ShapeAt

LEMMA WriteSound ==
    ASSUME IInv, RowsInv, SlotInv, NameInv, NEW n \in Node, com[n].pc = "cas", Fits(com[n].ix)
    PROVE  /\ Sound(com[n].ix.parts) /\ com[n].ix.parts \subseteq index.parts \cup Own(n)
           /\ com[n].kind # "flush" => com[n].ix.parts \cap flush[n].outs = {}
           /\ com[n].kind # "merge" => com[n].ix.parts \cap merge[n].outs = {}
           /\ com[n].kind = "merge" => com[n].ix.parts \cap merge[n].src = {}
<1> DEFINE P == com[n].ix.parts
           V == index.parts \cup view[n].pending
<1>1. /\ P = com[n].next
      /\ com[n].kind = "flush" => com[n].next = V \cup flush[n].outs
      /\ com[n].kind = "merge" => com[n].next = (V \ merge[n].src) \cup merge[n].outs /\ merge[n].src \subseteq V
      /\ com[n].kind \in {"establish", "republish"} => com[n].next = V
  BY WriteParts, Zenon
<1>2. com[n].kind \in {"establish", "flush", "merge", "republish"}
  BY Kinds, Zenon DEF IInv
<1>3. OwnAt(n) /\ OutsAt(n) /\ Sound(index.parts)
  BY Zenon DEF NameInv, SlotInv
<1>4. /\ index.parts \in SUBSET Part /\ view[n].pending \in SUBSET Part
      /\ flush[n].outs \in SUBSET Part
  BY EngineFields, Zenon DEF IInv, View
<1>5. Apart(V)
  BY <1>3, <1>4, ApartAdd, Zenon DEF OwnAt, Sound
<1>6. Apart(V \cup flush[n].outs)
  BY <1>3, <1>4, <1>5, ApartAdd, Zenon DEF OwnAt
<1>7. Rows(covers, merge[n].outs) = Rows(covers, merge[n].src)
  BY Zenon DEF RowsInv, RowsAt
<1>8. ASSUME merge[n].src \subseteq V PROVE Apart((V \ merge[n].src) \cup merge[n].outs)
  BY <1>3, <1>5, <1>7, <1>8, ApartSwap, Zenon DEF OwnAt
<1>9. V \subseteq index.parts \cup Own(n) /\ flush[n].outs \subseteq Own(n) /\ merge[n].outs \subseteq Own(n)
  BY Zenon DEF Own
<1>10. /\ flush[n].outs \cap index.parts = {} /\ flush[n].outs \cap view[n].pending = {}
       /\ flush[n].outs \cap merge[n].outs = {}
  BY <1>3, Zenon DEF OutsAt, Hidden, Settled
<1>11. merge[n].outs \cap index.parts = {} /\ merge[n].outs \cap (view[n].pending \cup merge[n].src) = {}
  BY <1>3, <1>9, Zenon DEF OwnAt, Hidden
<1> HIDE DEF P, V
<1>12. P \subseteq index.parts \cup Own(n)
  BY <1>1, <1>2, <1>9, Zenon
<1>13. Apart(P)
  BY <1>1, <1>2, <1>5, <1>6, <1>8, Zenon
<1>14. P \subseteq objects /\ \A k \in Node : P \cap retired[k] = {}
  BY <1>3, <1>12, Zenon DEF OwnAt, Sound
<1>15. Sound(P)
  BY <1>13, <1>14, Zenon DEF Sound
<1>16. V \cap flush[n].outs = {} /\ V \cap merge[n].outs = {}
  BY <1>10, <1>11, Zenon DEF V
<1>17. com[n].kind # "flush" => P \cap flush[n].outs = {}
  BY <1>1, <1>2, <1>10, <1>16, Zenon
<1>18. com[n].kind # "merge" => P \cap merge[n].outs = {}
  BY <1>1, <1>2, <1>10, <1>16, Zenon
<1>19. com[n].kind = "merge" => P \cap merge[n].src = {}
  BY <1>1, <1>11, Zenon
<1> QED BY <1>12, <1>15, <1>17, <1>18, <1>19, Zenon DEF P
-----------------------------------------------------------------------------
(* Steps of one node, seen from the others.                                *)

LEMMA OwnNames == \A n \in Node : Own(n) \subseteq Names(n) /\ merge[n].src \subseteq Names(n)
BY Zenon DEF Own, Names

LEMMA OthersHold ==
    ASSUME IInv, NameInv, NEW m \in Node, Same(m), ver'[m] = ver[m],
           \/ index' = index /\ lastStamp' = lastStamp
           \/ index'.ver = index.ver + 1 /\ lastStamp' >= lastStamp /\ lastStamp' \in Nat /\ ~Holder(m)'
    PROVE  HoldAt(m)' /\ ShapeAt(m)'
<1>1. HoldAt(m) /\ ShapeAt(m) /\ ver[m] \in Nat /\ index.ver \in Nat /\ ver[m] <= index.ver
      /\ established[m] \in Nat /\ lastStamp \in Nat
  BY EngineFields, Zenon DEF NameInv, IInv, KnowInv, TypeOK
<1>2. /\ view'[m] = view[m] /\ com'[m] = com[m] /\ flush'[m] = flush[m] /\ merge'[m] = merge[m]
      /\ established'[m] = established[m]
  BY Zenon DEF Same
<1>3. ShapeAt(m)'
  BY <1>1, <1>2, Zenon DEF ShapeAt
<1>4. CASE index' = index /\ lastStamp' = lastStamp
  BY <1>1, <1>2, <1>3, <1>4, Zenon DEF HoldAt, Holder, Synced
<1>5. CASE index'.ver = index.ver + 1 /\ lastStamp' >= lastStamp /\ lastStamp' \in Nat /\ ~Holder(m)'
  <2>1. established[m] <= lastStamp' /\ ver[m] # index'.ver
    BY <1>1, <1>5 DEF HoldAt
  <2> QED BY <1>1, <1>2, <1>3, <1>5, <2>1, Zenon DEF HoldAt
<1> QED BY <1>4, <1>5, Zenon

LEMMA OthersOwn ==
    ASSUME NameInv, NEW n \in Node, NEW m \in Node \ {n}, By(n), Leaves(n), UNCHANGED <<covers, objects>>,
           Names(n)' \subseteq Names(n) \cup index.parts, index'.parts \subseteq index.parts \cup Names(n),
           retired'[n] \subseteq retired[n] \cup Names(n)
    PROVE  OwnAt(m)'
<1>1. OwnAt(m) /\ Hidden(m) \subseteq Hidden(m)'
  BY HiddenOthers, Zenon DEF NameInv
<1>2. /\ view'[m] = view[m] /\ flush'[m] = flush[m] /\ merge'[m] = merge[m]
  BY Zenon DEF By, Same
<1>3. Own(m)' = Own(m) /\ Own(m) \cap Names(n) = {}
  BY <1>1, <1>2, Zenon DEF Own, OwnAt, Hidden
<1>4. ASSUME NEW w \in limbo' PROVE Own(m) \cap w.ix.parts = {}
  <2>1. CASE w \in limbo
    BY <1>1, <2>1, Zenon DEF OwnAt
  <2>2. CASE com[n].pc = "cas" /\ w = Write(n)
    <3>1. w.ix.parts \subseteq Names(n)
      BY <2>2, Zenon DEF Write, Names
    <3> QED BY <1>3, <3>1, Zenon
  <2> QED BY <2>1, <2>2, Zenon DEF Leaves
<1>5. ASSUME NEW k \in Node PROVE Own(m) \cap retired'[k] = {}
  <2>1. CASE k = n
    BY <1>1, <1>3, <2>1, Zenon DEF OwnAt
  <2>2. CASE k # n
    BY <1>1, <2>2, Zenon DEF OwnAt, By, Same
  <2> QED BY <2>1, <2>2, Zenon
<1>6. \A p : Alone(p)' <=> Alone(p)
  BY Zenon DEF Alone
<1>7. /\ Own(m)' \subseteq Hidden(m)' /\ Own(m)' \subseteq objects'
  BY <1>1, <1>3, Zenon DEF OwnAt
<1>8. /\ merge'[m].outs \cap (view'[m].pending \cup merge'[m].src) = {}
      /\ \A p, q \in merge'[m].outs : p = q
      /\ \A p \in view'[m].pending \cup flush'[m].outs : Alone(p)'
  BY <1>1, <1>2, <1>6, Zenon DEF OwnAt
<1> QED BY <1>3, <1>4, <1>5, <1>7, <1>8, Zenon DEF OwnAt

\* Steps of one node that leave the stored index alone.
LEMMA NamesLocal ==
    ASSUME IInv, RowsInv, MintInv, SlotInv, NameInv, NEW n \in Node, By(n), Leaves(n),
           UNCHANGED <<covers, objects, index, lastStamp>>,
           Names(n)' \subseteq Names(n) \cup index.parts,
           \/ retired'[n] \subseteq retired[n]
           \/ limbo' = limbo /\ retired'[n] \subseteq retired[n] \cup merge[n].outs,
           HoldAt(n)', ShapeAt(n)', OwnAt(n)'
    PROVE  NameInv'
<1>1. merge[n].outs \subseteq Names(n) /\ merge[n].outs \subseteq Own(n) /\ OwnAt(n)
  BY Zenon DEF Names, Own, NameInv
<1>2. retired'[n] \subseteq retired[n] \cup Names(n)
  BY <1>1, Zenon
<1>3. ASSUME NEW m \in Node PROVE HoldAt(m)' /\ ShapeAt(m)' /\ OwnAt(m)'
  <2>1. CASE m = n
    BY <2>1, Zenon
  <2>2. CASE m # n
    <3>1. Same(m) /\ ver'[m] = ver[m]
      BY <2>2, Zenon DEF By
    <3>2. OwnAt(m)'
      BY <1>2, <2>2, OthersOwn, Zenon
    <3> QED BY <3>1, <3>2, OthersHold, Zenon
  <2> QED BY <2>1, <2>2, Zenon
<1>4. Minted' = Minted
  BY Zenon DEF Minted
<1>5. \A q \in Part : covers'[q] \subseteq Minted'
  BY <1>4, Zenon DEF NameInv
<1>6. ASSUME NEW k \in Node PROVE retired'[k] \subseteq Minted'
  <2>1. CASE k = n
    BY <1>2, <1>4, <2>1, Zenon DEF NameInv, MintInv
  <2>2. CASE k # n
    BY <1>4, <2>2, Zenon DEF NameInv, By, Same
  <2> QED BY <2>1, <2>2, Zenon
<1>7. ASSUME NEW P, Sound(P), retired'[n] \cap P = {} PROVE Sound(P)'
  <2>1. Apart(P)'
    BY <1>7, Zenon DEF Sound, Apart
  <2>2. ASSUME NEW k \in Node PROVE P \cap retired'[k] = {}
    <3>1. CASE k # n
      BY <1>7, <3>1, Zenon DEF Sound, By, Same
    <3> QED BY <1>7, <3>1, Zenon
  <2> QED BY <1>7, <2>1, <2>2, Zenon DEF Sound
<1>8. Sound(index.parts)'
  <2>1. Sound(index.parts) /\ merge[n].outs \cap index.parts = {}
    BY <1>1, Zenon DEF NameInv, OwnAt, Hidden
  <2>2. retired'[n] \cap index.parts = {}
    BY <2>1, Zenon DEF Sound
  <2>3. Apart(index.parts)'
    BY <2>1, Zenon DEF Sound, Apart
  <2>4. ASSUME NEW k \in Node PROVE index.parts \cap retired'[k] = {}
    <3>1. CASE k # n
      BY <2>1, <3>1, Zenon DEF Sound, By, Same
    <3> QED BY <2>2, <3>1, Zenon
  <2> QED BY <2>1, <2>3, <2>4, Zenon DEF Sound
<1>9. ASSUME NEW w \in limbo', Fits(w.ix)' PROVE Sound(w.ix.parts)'
  <2>1. Fits(w.ix)
    BY <1>9, Zenon DEF Fits
  <2>2. CASE w \in limbo
    <3>1. Sound(w.ix.parts) /\ merge[n].outs \cap w.ix.parts = {}
      BY <1>1, <2>1, <2>2, Zenon DEF NameInv, OwnAt
    <3>2. retired'[n] \cap w.ix.parts = {}
      BY <3>1, Zenon DEF Sound
    <3> QED BY <1>7, <3>1, <3>2, Zenon
  <2>3. CASE w \notin limbo
    <3>1. com[n].pc = "cas" /\ w.ix = com[n].ix /\ retired'[n] \subseteq retired[n]
      BY <2>3, SMTT(30) DEF Leaves, Write
    <3>2. Sound(w.ix.parts)
      BY <2>1, <3>1, WriteSound, Zenon
    <3>3. retired'[n] \cap w.ix.parts = {}
      BY <3>1, <3>2, Zenon DEF Sound
    <3> QED BY <1>7, <3>2, <3>3, Zenon
  <2> QED BY <2>2, <2>3, Zenon
<1> QED BY <1>3, <1>5, <1>6, <1>8, <1>9, Zenon DEF NameInv

\* Steps of the node that write no part, land nothing, and retire at most the
\* output of a merge they give up.
LEMMA OwnSteady ==
    ASSUME SlotInv, NameInv, NEW n \in Node, By(n), UNCHANGED <<covers, objects, index, limbo>>,
           view'[n].pending \cup flush'[n].outs \subseteq view[n].pending \cup flush[n].outs,
           merge'[n] \in {merge[n], NoMerge},
           \/ retired'[n] \subseteq retired[n]
           \/ merge'[n] = NoMerge /\ retired'[n] \subseteq retired[n] \cup merge[n].outs
    PROVE  OwnAt(n)'
<1>1. OwnAt(n) /\ OutsAt(n) /\ Hidden(n)' = Hidden(n)
  BY HiddenOwn, Zenon DEF NameInv, SlotInv
<1>2. /\ merge[n].outs \cap (view[n].pending \cup flush[n].outs) = {}
      /\ merge'[n].outs \subseteq merge[n].outs /\ merge'[n].src \subseteq merge[n].src
  BY <1>1, NoWork, Zenon DEF OwnAt, OutsAt, Settled
<1>3. Own(n)' \subseteq Own(n)
  BY <1>2, Zenon DEF Own
<1>4. ASSUME NEW k \in Node PROVE Own(n)' \cap retired'[k] = {}
  <2>1. CASE k # n
    BY <1>1, <1>3, <2>1, Zenon DEF OwnAt, By, Same
  <2>2. CASE k = n /\ retired'[n] \subseteq retired[n]
    BY <1>1, <1>3, <2>2, Zenon DEF OwnAt
  <2>3. CASE k = n /\ merge'[n] = NoMerge /\ retired'[n] \subseteq retired[n] \cup merge[n].outs
    <3>1. Own(n)' \subseteq view[n].pending \cup flush[n].outs
      BY <2>3, NoWork, Zenon DEF Own
    <3> QED BY <1>1, <1>2, <1>3, <2>3, <3>1, Zenon DEF OwnAt
  <2> QED BY <2>1, <2>2, <2>3, Zenon
<1>5. /\ merge'[n].outs \cap (view'[n].pending \cup merge'[n].src) = {}
      /\ \A p, q \in merge'[n].outs : p = q
  BY <1>1, <1>2, ZenonT(30) DEF OwnAt
<1>6. \A p \in view'[n].pending \cup flush'[n].outs : Alone(p)'
  BY <1>1, Zenon DEF OwnAt, Alone
<1>7. /\ Own(n)' \subseteq Hidden(n)' /\ Own(n)' \subseteq objects'
      /\ \A w \in limbo' : Own(n)' \cap w.ix.parts = {}
  BY <1>1, <1>3, Zenon DEF OwnAt
<1> QED BY <1>4, <1>5, <1>6, <1>7, Zenon DEF OwnAt

LEMMA SteadyNames ==
    ASSUME IInv, RowsInv, MintInv, SlotInv, NameInv, NEW n \in Node, By(n),
           UNCHANGED <<covers, objects, index, limbo, lastStamp>>,
           Names(n)' \subseteq Names(n) \cup index.parts,
           view'[n].pending \cup flush'[n].outs \subseteq view[n].pending \cup flush[n].outs,
           merge'[n] \in {merge[n], NoMerge},
           \/ retired'[n] \subseteq retired[n]
           \/ merge'[n] = NoMerge /\ retired'[n] \subseteq retired[n] \cup merge[n].outs,
           HoldAt(n)', ShapeAt(n)'
    PROVE  NameInv'
<1>1. OwnAt(n)'
  BY OwnSteady, Zenon
<1>2. Leaves(n)
  BY Zenon DEF Leaves
<1> QED BY <1>1, <1>2, NamesLocal, Zenon

\* A commit that did not land.
LEMMA FinishedNames ==
    ASSUME IInv, RowsInv, MintInv, SlotInv, NameInv, NEW n \in Node, NEW r \in {"refused", "conflict"},
           Finish(n, r), com[n].pc # "idle", UNCHANGED <<index, limbo, lastStamp, ver>>
    PROVE  NameInv'
<1>1. /\ com'[n] = NoCommit /\ UNCHANGED <<covers, objects>> /\ By(n)
      /\ established'[n] = established[n] /\ view'[n].foreign = view[n].foreign
  BY Finished, Zenon DEF IInv, By
<1>2. /\ com[n].kind = "flush" => /\ view'[n].parts = com[n].next /\ flush'[n] = NoFlush
                                  /\ view'[n].pending = view[n].pending \cup flush[n].outs
      /\ com[n].kind # "flush" => /\ view'[n].parts = view[n].parts /\ flush'[n] = flush[n]
                                  /\ view'[n].pending = view[n].pending \cup {}
  BY Finished, Zenon DEF IInv
<1>3. /\ com[n].kind = "merge" => merge'[n] = NoMerge /\ retired'[n] = retired[n] \cup merge[n].outs
      /\ com[n].kind # "merge" => merge'[n] = merge[n] /\ retired'[n] = retired[n] \cup {}
  BY Finished, Zenon DEF IInv
<1>4. Names(n)' \subseteq Names(n)
  BY FinishNames, Zenon DEF IInv
<1>5. view'[n].pending \cup flush'[n].outs \subseteq view[n].pending \cup flush[n].outs
  BY <1>2, NoWork, Zenon
<1>6. com'[n].pc = "idle" /\ HoldAt(n) /\ OwnAt(n)
  BY <1>1, NoWork, Zenon DEF NameInv
<1>7. ShapeAt(n)'
  BY <1>6, Zenon DEF ShapeAt
<1>8. ASSUME Synced(n) PROVE Synced(n)'
  <2>1. CASE com[n].kind = "flush"
    <3>1. com[n].next = view[n].parts \cup flush[n].outs /\ flush[n].outs \cap index.parts = {}
      BY <1>6, <2>1, Zenon DEF NameInv, ShapeAt, OwnAt, Own, Hidden
    <3> QED BY <1>1, <1>2, <1>8, <2>1, <3>1, Zenon DEF Synced
  <2>2. CASE com[n].kind # "flush"
    <3>1. view'[n].pending = view[n].pending
      BY <1>2, <2>2, Zenon
    <3> QED BY <1>1, <1>2, <1>8, <2>2, <3>1, Zenon DEF Synced
  <2> QED BY <2>1, <2>2, Zenon
<1>9. HoldAt(n)'
  BY <1>1, <1>6, <1>8, Zenon DEF HoldAt, Holder
<1> QED BY <1>1, <1>3, <1>4, <1>5, <1>7, <1>9, SteadyNames, Zenon

LEMMA MovedNames ==
    ASSUME IInv, RowsInv, MintInv, SlotInv, NameInv, Clustered, NEW n \in Node, Check(n) \/ CasConflicts(n)
    PROVE  NameInv'
<1>1. UNCHANGED <<index, limbo, lastStamp, ver>> /\ com[n].pc # "idle"
  BY Zenon DEF Check, CasConflicts, storeVars
<1>2. CASE Finish(n, "refused") \/ Finish(n, "conflict")
  BY <1>1, <1>2, FinishedNames, Zenon
<1>3. CASE (Check(n) /\ Tenure(n, com[n].stamp)) \/ (CasConflicts(n) /\ com[n].left > 1)
  <2>1. /\ Check(n) => com'[n].pc = "build"
        /\ ~Check(n) => com'[n].pc = "rebase"
        /\ com'[n].kind = com[n].kind /\ com'[n].stamp = com[n].stamp
        /\ com'[n].next = com[n].next /\ com'[n].ix = com[n].ix
        /\ UNCHANGED <<engineVars, buildVars>> /\ \A m \in Node \ {n} : com'[m] = com[m]
    BY <1>3, Moved, Zenon DEF IInv
  <2>2. view' = view /\ merge' = merge /\ flush' = flush /\ covers' = covers /\ objects' = objects
        /\ established' = established /\ retired' = retired
    BY <2>1, Zenon DEF engineVars, buildVars
  <2>3. By(n)
    BY <1>1, <2>1, <2>2, Zenon DEF By, Same
  <2>4. Names(n)' = Names(n)
    BY <2>1, <2>2, Zenon DEF Names
  <2>5. HoldAt(n) /\ ShapeAt(n) /\ EpochAt(n)
    BY Zenon DEF NameInv, SlotInv
  <2>6. ShapeAt(n)'
    BY <1>1, <2>1, <2>2, <2>5, Zenon DEF ShapeAt
  <2>7. CASE Check(n) /\ Tenure(n, com[n].stamp)
    <3>1. established[n] = com[n].stamp /\ com[n].kind # "establish" /\ com'[n].pc = "build"
      BY <2>1, <2>5, <2>7, Zenon DEF Tenure, CheckTenure, Check, EpochAt
    <3>2. HoldAt(n)'
      BY <1>1, <2>1, <2>2, <2>5, <3>1, Zenon DEF HoldAt, Holder, Synced
    <3> QED BY <1>1, <2>2, <2>3, <2>4, <2>6, <3>2, SteadyNames, Zenon
  <2>8. CASE CasConflicts(n) /\ com[n].left > 1
    <3>1. com[n].pc = "cas" /\ ~Check(n) /\ com[n].ix.ver # index.ver + 1
      BY <2>8, Zenon DEF Check, CasConflicts
    <3>2. com[n].kind # "establish"
      BY <2>5, <2>8, <3>1 DEF EpochAt
    <3>3. com[n].ix.ver = ver[n] + 1
      BY <3>1, Zenon DEF IInv, CasInv
    <3>4. ~Holder(n)
      BY <2>5, <3>1, <3>3, Zenon DEF HoldAt
    <3>5. HoldAt(n)'
      BY <1>1, <2>1, <2>2, <2>5, <3>1, <3>2, <3>4, Zenon DEF HoldAt, Holder
    <3> QED BY <1>1, <2>2, <2>3, <2>4, <2>6, <3>5, SteadyNames, Zenon
  <2> QED BY <1>3, <2>7, <2>8, Zenon
<1> QED BY <1>2, <1>3, Zenon DEF Check, CasConflicts

LEMMA BuildNames == ASSUME IInv, RowsInv, MintInv, SlotInv, NameInv, NEW n \in Node, Build(n) PROVE NameInv'
<1>1. /\ view'[n].parts = view[n].parts /\ view'[n].pending = view[n].pending
      /\ view'[n].indexed = com[n].next /\ view'[n].foreign = view[n].foreign
      /\ com[n].pc = "build" /\ com'[n].pc = "cas" /\ com'[n].kind = com[n].kind
      /\ com'[n].next = com[n].next /\ com'[n].stamp = com[n].stamp
      /\ com'[n].ix.parts = com[n].next \cup view[n].foreign
      /\ \A m \in Node \ {n} : view'[m] = view[m] /\ com'[m] = com[m]
  BY Built, Zenon DEF IInv
<1>2. UNCHANGED <<index, limbo, lastStamp, ver, established, flush, merge, retired, covers, objects>>
  BY Zenon DEF Build, storeVars, buildVars
<1>3. By(n)
  BY <1>1, <1>2, Zenon DEF By, Same
<1>4. Names(n)' \subseteq Names(n)
  BY <1>1, <1>2, Zenon DEF Names
<1>5. HoldAt(n) /\ ShapeAt(n)
  BY Zenon DEF NameInv
<1>6. HoldAt(n)' /\ ShapeAt(n)'
  BY <1>1, <1>2, <1>5, Zenon DEF HoldAt, ShapeAt, Holder, Synced
<1> QED BY <1>1, <1>2, <1>3, <1>4, <1>6, SteadyNames, Zenon

LEMMA RebaseNames == ASSUME IInv, RowsInv, MintInv, SlotInv, NameInv, NEW n \in Node, Rebase(n) PROVE NameInv'
<1>1. /\ view'[n].parts = view[n].parts /\ view'[n].pending = view[n].pending
      /\ view'[n].indexed = view[n].indexed /\ view'[n].foreign = Foreign(n)
      /\ com[n].pc = "rebase" /\ com'[n].pc = "check"
      /\ com'[n].kind = com[n].kind /\ com'[n].next = com[n].next /\ com'[n].ix = com[n].ix
      /\ \A m \in Node \ {n} : view'[m] = view[m] /\ ver'[m] = ver[m] /\ com'[m] = com[m]
  BY Rebased, Zenon DEF IInv
<1>2. UNCHANGED <<index, limbo, lastStamp, established, flush, merge, retired, covers, objects>>
  BY Zenon DEF Rebase, storeVars, buildVars
<1>3. By(n)
  BY <1>1, <1>2, Zenon DEF By, Same
<1>4. Names(n)' \subseteq Names(n) \cup index.parts
  BY <1>1, <1>2, Zenon DEF Names, Foreign
<1>5. HoldAt(n) /\ ShapeAt(n) /\ com[n].kind # "establish"
  BY <1>1, Zenon DEF NameInv, SlotInv, EpochAt
<1>6. HoldAt(n)'
  BY <1>1, <1>2, <1>5, Zenon DEF HoldAt, Holder
<1>7. ShapeAt(n)'
  BY <1>1, <1>2, <1>5, Zenon DEF ShapeAt
<1> QED BY <1>1, <1>2, <1>3, <1>4, <1>6, <1>7, SteadyNames, Zenon

LEMMA LoadNames ==
    ASSUME IInv, RowsInv, MintInv, SlotInv, NameInv, NEW n \in Node, RefreshReplica(n) \/ Establish(n)
    PROVE  NameInv'
<1>1. /\ LoadParts(n) /\ com[n].pc = "idle"
      /\ UNCHANGED <<index, limbo, lastStamp, established, flush, merge, retired, covers, objects>>
  BY Zenon DEF RefreshReplica, Establish, Idle, storeVars, buildVars
<1>2. /\ view'[n].parts = index.parts \cup (view[n].pending \ index.parts)
      /\ view'[n].pending = view[n].pending \ index.parts
      /\ view'[n].indexed = index.parts /\ view'[n].foreign = {}
      /\ view'[n] = Loaded(n) /\ ver'[n] = index.ver
      /\ \A m \in Node \ {n} : view'[m] = view[m] /\ ver'[m] = ver[m]
  BY <1>1, LoadedView, Zenon DEF IInv
<1>3. /\ \/ com'[n] = com[n]
         \/ /\ com'[n].pc = "build" /\ com'[n].kind = "establish"
            /\ com'[n].next = view'[n].parts /\ com'[n].ix = NoIndex
      /\ \A m \in Node \ {n} : com'[m] = com[m]
  <2>1. CASE com' = com
    BY <2>1, Zenon
  <2>2. CASE com' # com
    <3>1. Establish(n)
      BY <2>2, Zenon DEF RefreshReplica
    <3> QED BY <1>2, <2>2, <3>1, EstablishBegun, ZenonT(30) DEF IInv
  <2> QED BY <2>1, <2>2, Zenon
<1>4. By(n)
  BY <1>1, <1>2, <1>3, Zenon DEF By, Same
<1>5. Names(n)' \subseteq Names(n) \cup index.parts
  <2>1. CASE com'[n] = com[n]
    BY <1>1, <1>2, <2>1, Zenon DEF Names
  <2>2. CASE com'[n].next = view'[n].parts /\ com'[n].ix = NoIndex
    BY <1>1, <1>2, <2>2, NoWork, ZenonT(30) DEF Names
  <2> QED BY <1>3, <2>1, <2>2, Zenon
<1>6. Synced(n)'
  BY <1>1, <1>2, Zenon DEF Synced
<1>7. HoldAt(n)'
  <2>1. HoldAt(n) /\ com'[n].pc \in {"idle", "build"} /\ (com'[n].pc = "build" => com'[n].kind = "establish")
    BY <1>1, <1>3, Zenon DEF NameInv
  <2> QED BY <1>1, <1>2, <1>6, <2>1, Zenon DEF HoldAt
<1>8. ShapeAt(n)'
  BY <1>1, <1>3, Zenon DEF ShapeAt
<1> QED BY <1>1, <1>2, <1>4, <1>5, <1>7, <1>8, SteadyNames, Zenon

LEMMA BegunNames ==
    ASSUME IInv, RowsInv, MintInv, SlotInv, NameInv, NEW n \in Node, com[n].pc = "idle",
           NEW k \in {"flush", "merge", "republish"}, NEW P, NEW e, NEW t, Begin(n, k, P, e, t),
           UNCHANGED <<index, limbo, lastStamp, view, ver, established, flush, merge, retired, covers, objects>>,
           P \subseteq Names(n),
           k = "flush" => P = view[n].parts \cup flush[n].outs,
           k = "merge" => merge[n].src \subseteq view[n].parts /\ P = (view[n].parts \ merge[n].src) \cup merge[n].outs,
           k = "republish" => P = view[n].parts
    PROVE  NameInv'
<1>1. /\ com'[n].pc = "check" /\ com'[n].kind = k /\ com'[n].next = P /\ com'[n].ix = NoIndex
      /\ \A m \in Node \ {n} : com'[m] = com[m]
  BY Begun DEF IInv
<1>2. By(n)
  BY <1>1, Zenon DEF By, Same
<1>3. Names(n)' \subseteq Names(n)
  BY <1>1, NoWork, Zenon DEF Names
<1>4. HoldAt(n)
  BY Zenon DEF NameInv
<1>5. HoldAt(n)'
  BY <1>1, <1>4, Zenon DEF HoldAt, Holder, Synced
<1>6. ShapeAt(n)'
  BY <1>1, Zenon DEF ShapeAt
<1> QED BY <1>2, <1>3, <1>5, <1>6, SteadyNames, Zenon

LEMMA BeginNames ==
    ASSUME IInv, RowsInv, MintInv, SlotInv, NameInv, NEW n \in Node,
           FlushPublish(n) \/ Republish(n) \/ MergePublish(n)
    PROVE  NameInv'
<1>1. com[n].pc = "idle" /\ UNCHANGED <<index, limbo, lastStamp, view, ver, established, flush, covers, objects>>
  BY Zenon DEF FlushPublish, Republish, MergePublish, MayMerge, Idle, storeVars, engineVars, buildVars
<1>2. CASE FlushPublish(n)
  <2> DEFINE P == view[n].parts \cup flush[n].outs
             e == Max2(flush[n].epoch, view[n].flushed)
  <2>1. Begin(n, "flush", P, e, term[n]) /\ UNCHANGED <<merge, retired>>
    BY <1>2, Zenon DEF FlushPublish, buildVars
  <2>2. P \subseteq Names(n)
    BY Zenon DEF Names
  <2> HIDE DEF e
  <2> QED BY <1>1, <2>1, <2>2, BegunNames, Zenon
<1>3. CASE Republish(n)
  <2>1. Begin(n, "republish", view[n].parts, view[n].flushed, term[n]) /\ UNCHANGED <<merge, retired>>
    BY <1>3, Zenon DEF Republish, buildVars
  <2>2. view[n].parts \subseteq Names(n)
    BY Zenon DEF Names
  <2> QED BY <1>1, <2>1, <2>2, BegunNames, Zenon
<1>4. CASE MergePublish(n) /\ merge[n].src \subseteq view[n].parts
  <2> DEFINE P == (view[n].parts \ merge[n].src) \cup merge[n].outs
  <2>1. Begin(n, "merge", P, view[n].flushed, merge[n].stamp) /\ UNCHANGED <<merge, retired>>
    BY <1>4, Zenon DEF MergePublish
  <2>2. P \subseteq Names(n)
    BY Zenon DEF Names
  <2> QED BY <1>1, <1>4, <2>1, <2>2, BegunNames, Zenon
<1>5. CASE MergePublish(n) /\ ~(merge[n].src \subseteq view[n].parts)
  <2>1. com' = com /\ merge' = [merge EXCEPT ![n] = NoMerge] /\ retired' = [retired EXCEPT ![n] = @ \cup merge[n].outs]
    BY <1>5, Zenon DEF MergePublish
  <2>2. merge'[n] = NoMerge /\ retired'[n] = retired[n] \cup merge[n].outs /\ By(n)
    BY <1>1, <2>1, FunTypes, Zenon DEF By, Same, IInv
  <2>3. Names(n)' \subseteq Names(n)
    <3>1. merge'[n].src = {} /\ merge'[n].outs = {}
      BY <2>2, NoWork, Zenon
    <3>2. view' = view /\ com' = com /\ flush' = flush
      BY <1>1, <2>1, Zenon
    <3> QED BY <3>1, <3>2, Zenon DEF Names
  <2>4. HoldAt(n)'
    BY <1>1, <2>1, Zenon DEF NameInv, HoldAt, Holder, Synced
  <2>5. ShapeAt(n)'
    BY <1>1, <2>1, Zenon DEF ShapeAt
  <2> QED BY <1>1, <2>2, <2>3, <2>4, <2>5, SteadyNames, Zenon
<1> QED BY <1>2, <1>3, <1>4, <1>5, Zenon

LEMMA RestartNames ==
    ASSUME IInv, RowsInv, MintInv, SlotInv, NameInv, NEW n \in Node, Restart(n) PROVE NameInv'
<1>1. /\ view'[n].parts = index.parts /\ view'[n].pending = {} /\ view'[n].indexed = index.parts
      /\ view'[n].foreign = {} /\ retired'[n] = {}
      /\ com'[n] = NoCommit /\ flush'[n] = NoFlush /\ merge'[n] = NoMerge /\ established'[n] = 0
      /\ UNCHANGED <<index, lastStamp, objects, covers>> /\ Leaves(n) /\ By(n)
  BY Restarted, Zenon DEF IInv, By
<1>2. /\ com'[n].pc = "idle" /\ com'[n].next = {} /\ com'[n].ix.parts = {}
      /\ flush'[n].outs = {} /\ merge'[n].src = {} /\ merge'[n].outs = {}
  BY <1>1, NoWork, Zenon
<1>3. Names(n)' \subseteq index.parts /\ Own(n)' = {}
  BY <1>1, <1>2, Zenon DEF Names, Own
<1>4. lastStamp \in Nat
  BY Zenon DEF IInv, TypeOK
<1>5. HoldAt(n)' /\ ShapeAt(n)'
  BY <1>1, <1>2, <1>4 DEF HoldAt, ShapeAt, Holder
<1>6. OwnAt(n)'
  BY <1>1, <1>2, <1>3, Zenon DEF OwnAt
<1> QED BY <1>1, <1>3, <1>5, <1>6, NamesLocal, Zenon

LEMMA ClaimNames ==
    ASSUME NameInv, UNCHANGED vars \/ Expire \/ \E n \in Node : Acquire(n) \/ Fence(n) \/ Renew(n)
    PROVE  NameInv'
<1>1. UNCHANGED <<index, limbo, lastStamp, view, com, flush, merge, ver, established, retired, covers, objects>>
  BY Zenon DEF vars, Expire, Acquire, Fence, Renew, storeVars, engineVars, buildVars
<1>2. \A m \in Node : HoldAt(m)' /\ ShapeAt(m)'
  BY <1>1, ZenonT(30) DEF NameInv, HoldAt, ShapeAt, Holder, Synced
<1>3. \A m \in Node : Own(m)' = Own(m) /\ Hidden(m)' = Hidden(m)
  <2>1. \A m \in Node : Own(m)' = Own(m) /\ Names(m)' = Names(m)
    BY <1>1, Zenon DEF Own, Names
  <2>2. index' = index
    BY <1>1, Zenon
  <2> QED BY <2>1, <2>2, Zenon DEF Hidden
<1>4. ASSUME NEW m \in Node PROVE OwnAt(m)'
  <2>1. OwnAt(m) /\ Own(m)' = Own(m) /\ Hidden(m)' = Hidden(m)
    BY <1>3, Zenon DEF NameInv
  <2>2. view' = view /\ flush' = flush /\ merge' = merge /\ retired' = retired /\ objects' = objects
    BY <1>1, Zenon
  <2>3. limbo' = limbo /\ \A p : Alone(p)' <=> Alone(p)
    BY <1>1, Zenon DEF Alone
  <2> QED BY <2>1, <2>2, <2>3, Zenon DEF OwnAt
<1>5. \A P : Sound(P) => Sound(P)'
  BY <1>1, Zenon DEF Sound, Apart
<1>6. Sound(index.parts)'
  BY <1>1, Zenon DEF NameInv, Sound, Apart
<1>7. Minted' = Minted
  BY <1>1, Zenon DEF Minted
<1> QED BY <1>1, <1>2, <1>4, <1>5, <1>6, <1>7, Zenon DEF NameInv, Fits

LEMMA FlushAbortNames ==
    ASSUME IInv, RowsInv, MintInv, SlotInv, NameInv, NEW n \in Node, FlushAbort(n) PROVE NameInv'
<1>1. /\ com[n].pc = "idle" /\ flush' = [flush EXCEPT ![n] = NoFlush]
      /\ UNCHANGED <<index, limbo, lastStamp, view, com, merge, ver, established, retired, covers, objects>>
  BY Zenon DEF FlushAbort, Idle, storeVars, engineVars
<1>2. flush'[n] = NoFlush /\ By(n)
  BY <1>1, FunTypes, Zenon DEF IInv, By, Same
<1>3. Names(n)' \subseteq Names(n) /\ flush'[n].outs = {}
  BY <1>1, <1>2, NoWork, SMTT(30) DEF Names
<1>4. HoldAt(n)' /\ ShapeAt(n)'
  BY <1>1, Zenon DEF NameInv, HoldAt, ShapeAt, Holder, Synced
<1> QED BY <1>1, <1>2, <1>3, <1>4, SteadyNames, Zenon

\* What is deleted is in no index, and nobody's to commit.
LEMMA ReclaimNames ==
    ASSUME IInv, NameInv, NEW n \in Node, Reclaim(n) PROVE NameInv'
<1>1. /\ objects' = objects \ retired[n] /\ retired' = [retired EXCEPT ![n] = {}]
      /\ UNCHANGED <<index, limbo, lastStamp, view, com, flush, merge, ver, established, covers>>
  BY Zenon DEF Reclaim, storeVars, engineVars
<1>2. \A k \in Node : retired'[k] \subseteq retired[k]
  BY <1>1, FunTypes, Zenon DEF IInv
<1>3. \A m \in Node : HoldAt(m)' /\ ShapeAt(m)'
  BY <1>1, ZenonT(30) DEF NameInv, HoldAt, ShapeAt, Holder, Synced
<1>4. ASSUME NEW m \in Node PROVE OwnAt(m)'
  <2>1. OwnAt(m) /\ Own(m)' = Own(m) /\ Hidden(m)' = Hidden(m)
    BY <1>1 DEF NameInv, Own, Hidden, Names
  <2>2. Own(m) \subseteq objects' /\ \A k \in Node : Own(m) \cap retired'[k] = {}
    BY <1>1, <1>2, <2>1, Zenon DEF OwnAt
  <2>3. \A p : Alone(p)' <=> Alone(p)
    BY <1>1, Zenon DEF Alone
  <2> QED BY <1>1, <2>1, <2>2, <2>3, Zenon DEF OwnAt
<1>5. ASSUME NEW P, Sound(P) PROVE Sound(P)'
  <2>1. Apart(P)'
    BY <1>1, <1>5, Zenon DEF Sound, Apart
  <2> QED BY <1>1, <1>2, <1>5, <2>1, Zenon DEF Sound
<1>6. Sound(index.parts)'
  <2>1. Sound(index.parts)
    BY Zenon DEF NameInv
  <2>2. Apart(index.parts)'
    BY <1>1, <2>1, Zenon DEF Sound, Apart
  <2> QED BY <1>1, <1>2, <2>1, <2>2, Zenon DEF Sound
<1>7. Minted' = Minted
  BY <1>1, Zenon DEF Minted
<1> QED BY <1>1, <1>2, <1>3, <1>4, <1>5, <1>6, <1>7, Zenon DEF NameInv, Fits
-----------------------------------------------------------------------------
(* Writing a part.                                                         *)

LEMMA WrittenNames ==
    ASSUME IInv, MintInv, NameInv, NEW n \in Node, com[n].pc = "idle", NEW p \in Fresh,
           NEW L \in SUBSET Part, L # {}, WritePart(p, L), L \subseteq Minted \cup {p}, By(n),
           UNCHANGED <<index, limbo, lastStamp, view, com, ver, established, retired>>,
           Names(n)' \subseteq Names(n) \cup {p}, Own(n)' \subseteq Own(n) \cup {p},
           merge'[n].outs \cap (view'[n].pending \cup merge'[n].src) = {},
           \A q, r \in merge'[n].outs : q = r,
           \A q \in flush'[n].outs : q \in flush[n].outs \/ (q = p /\ L = {p}),
           \A m \in Node : L \cap (view[m].pending \cup flush[m].outs) = {}
    PROVE  NameInv'
<1>1. /\ covers \in [Part -> SUBSET Part] /\ p \in Part /\ p \notin Minted
      /\ covers'[p] = L /\ \A q \in Part \ {p} : covers'[q] = covers[q]
  BY Zenon DEF IInv, TypeOK, Fresh, WritePart
<1>2. p \in Minted' /\ Minted \subseteq Minted' /\ objects \subseteq objects' /\ p \in objects'
  BY <1>1, Zenon DEF Minted, WritePart
<1>3. ASSUME NEW m \in Node PROVE Hidden(m) \cap Minted \subseteq Hidden(m)'
  <2>1. ASSUME NEW q \in Hidden(m) \cap Minted PROVE q \in Hidden(m)'
    <3>1. q # p /\ q \in Part /\ q \notin index'.parts /\ \A k \in Node \ {m} : q \notin Names(k)
      BY <1>1, Zenon DEF Hidden
    <3>2. ASSUME NEW k \in Node \ {m} PROVE q \notin Names(k)'
      <4>1. CASE k = n
        BY <3>1, <4>1, Zenon
      <4>2. CASE k # n
        <5>1. Same(k)
          BY <4>2, Zenon DEF By
        <5>2. Names(k)' = Names(k)
          BY <5>1, NamesSame, Zenon
        <5> QED BY <3>1, <5>2, ZenonT(30)
      <4> QED BY <4>1, <4>2, Zenon
    <3> QED BY <3>1, <3>2, Zenon DEF Hidden
  <2> QED BY <2>1, Zenon
<1>4. p \in Hidden(n)'
  <2>1. p \notin index.parts /\ \A m \in Node : p \notin Names(m)
    BY <1>1, Zenon DEF MintInv
  <2>2. ASSUME NEW k \in Node \ {n} PROVE p \notin Names(k)'
    <3>1. Same(k)
      BY Zenon DEF By
    <3>2. Names(k)' = Names(k)
      BY <3>1, NamesSame, Zenon
    <3> QED BY <2>1, <3>2, Zenon
  <2>3. p \in Part /\ p \notin index'.parts
    BY <1>1, <2>1, Zenon
  <2> QED BY <2>2, <2>3, Zenon DEF Hidden
<1>5. \A m \in Node : Own(m) \subseteq Minted /\ OwnAt(m)
  BY OwnNames, Zenon DEF MintInv, NameInv
<1>6. ASSUME NEW m \in Node, NEW q \in view[m].pending \cup flush[m].outs PROVE Alone(q)'
  <2>1. Alone(q) /\ q \in Minted /\ q \notin L
    BY <1>5, Zenon DEF OwnAt, Own
  <2>2. covers'[q] = {q}
    BY <1>1, <2>1, Zenon DEF Alone, Minted
  <2>3. ASSUME NEW r \in Part, q \in covers'[r] PROVE r = q
    BY <1>1, <2>1, <2>3, Zenon DEF Alone
  <2> QED BY <2>2, <2>3, Zenon DEF Alone
<1>7. ASSUME L = {p} PROVE Alone(p)'
  <2>1. ASSUME NEW r \in Part, p \in covers'[r] PROVE r = p
    BY <1>1, <2>1, Zenon DEF NameInv
  <2> QED BY <1>1, <1>7, <2>1, Zenon DEF Alone
<1>8. ASSUME NEW m \in Node PROVE HoldAt(m)' /\ ShapeAt(m)'
  <2>1. HoldAt(m) /\ ShapeAt(m)
    BY Zenon DEF NameInv
  <2>2. HoldAt(m)'
    BY <2>1, Zenon DEF HoldAt, Holder, Synced
  <2>3. CASE m = n
    BY <2>2, <2>3, Zenon DEF ShapeAt
  <2>4. CASE m # n
    BY <2>1, <2>2, <2>4, ZenonT(30) DEF ShapeAt, By, Same
  <2> QED BY <2>3, <2>4, Zenon
<1>9. ASSUME NEW m \in Node PROVE OwnAt(m)'
  <2>1. CASE m = n
    <3>1. Own(n)' \subseteq Hidden(n)' /\ Own(n)' \subseteq objects'
      BY <1>2, <1>3, <1>4, <1>5, Zenon DEF OwnAt
    <3>2. /\ \A k \in Node : p \notin retired[k]
          /\ \A w \in limbo : p \notin w.ix.parts
      BY <1>1, Zenon DEF NameInv, MintInv
    <3>3. /\ \A k \in Node : Own(n)' \cap retired[k] = {}
          /\ \A w \in limbo : Own(n)' \cap w.ix.parts = {}
      <4>1. /\ \A k \in Node : Own(n) \cap retired[k] = {}
            /\ \A w \in limbo : Own(n) \cap w.ix.parts = {}
        BY <1>5, Zenon DEF OwnAt
      <4>2. Own(n)' \subseteq Own(n) \cup {p}
        BY Zenon
      <4> QED BY <3>2, <4>1, <4>2, ZenonT(30)
    <3>4. \A q \in view'[n].pending \cup flush'[n].outs : Alone(q)'
      BY <1>6, <1>7, Zenon
    <3> QED BY <2>1, <3>1, <3>3, <3>4, Zenon DEF OwnAt
  <2>2. CASE m # n
    <3>1. flush'[m] = flush[m] /\ merge'[m] = merge[m] /\ OwnAt(m)
      BY <1>5, <2>2, Zenon DEF By, Same
    <3>2. Own(m)' = Own(m)
      BY <3>1, Zenon DEF Own
    <3>3. Own(m)' \subseteq Hidden(m)' /\ Own(m)' \subseteq objects'
      <4>1. Own(m) \subseteq Hidden(m) \cap Minted /\ Own(m) \subseteq objects
        BY <1>5, <3>1, Zenon DEF OwnAt
      <4> QED BY <1>2, <1>3, <3>2, <4>1, Zenon
    <3>4. \A q \in view'[m].pending \cup flush'[m].outs : Alone(q)'
      BY <1>6, <3>1, Zenon
    <3> QED BY <3>1, <3>2, <3>3, <3>4, Zenon DEF OwnAt
  <2> QED BY <2>1, <2>2, Zenon
<1>10. ASSUME NEW q \in Part PROVE covers'[q] \subseteq Minted'
  BY <1>1, <1>2, ZenonT(30) DEF NameInv
<1>11. ASSUME NEW P, Sound(P), P \subseteq Minted PROVE Sound(P)'
  <2>1. \A q \in P : covers'[q] = covers[q]
    BY <1>1, <1>11, Zenon DEF Minted
  <2>2. Apart(P)'
    BY <1>11, <2>1, Zenon DEF Sound, Apart
  <2> QED BY <1>2, <1>11, <2>2, Zenon DEF Sound
<1>12. Sound(index.parts)'
  <2>1. Sound(index.parts) /\ index.parts \subseteq Minted
    BY Zenon DEF NameInv, MintInv
  <2>2. \A q \in index.parts : covers'[q] = covers[q]
    BY <1>1, <2>1, ZenonT(30) DEF Minted
  <2>3. Apart(index.parts)'
    BY <2>1, <2>2, Zenon DEF Sound, Apart
  <2> QED BY <1>2, <2>1, <2>3, Zenon DEF Sound
<1>13. ASSUME NEW w \in limbo', Fits(w.ix)' PROVE Sound(w.ix.parts)'
  BY <1>11, <1>13, Zenon DEF Fits, NameInv, MintInv
<1> QED BY <1>2, <1>8, <1>9, <1>10, <1>12, <1>13, Zenon DEF NameInv

LEMMA FlushBeginNames ==
    ASSUME IInv, MintInv, NameInv, NEW n \in Node, NEW p \in Part, FlushBegin(n, p) PROVE NameInv'
<1>1. /\ p \in Fresh /\ com[n].pc = "idle" /\ WritePart(p, {p})
      /\ flush' = [flush EXCEPT ![n] = [outs |-> {p}, epoch |-> view[n].flushed + 1]]
      /\ UNCHANGED <<index, limbo, lastStamp, view, com, ver, merge, established, retired>>
  BY Zenon DEF FlushBegin, Idle, storeVars, engineVars
<1>2. flush'[n].outs = {p} /\ \A m \in Node \ {n} : flush'[m] = flush[m]
  BY <1>1, FunTypes, Zenon DEF IInv
<1>3. p \notin Minted /\ By(n)
  BY <1>1, <1>2, Zenon DEF Fresh, By, Same
<1>4. Names(n)' \subseteq Names(n) \cup {p} /\ Own(n)' \subseteq Own(n) \cup {p}
  BY <1>1, <1>2, Zenon DEF Names, Own
<1>5. /\ merge'[n].outs \cap (view'[n].pending \cup merge'[n].src) = {}
      /\ \A q, r \in merge'[n].outs : q = r
  BY <1>1, Zenon DEF NameInv, OwnAt
<1>6. \A m \in Node : {p} \cap (view[m].pending \cup flush[m].outs) = {}
  BY <1>3, Zenon DEF MintInv, Names
<1>7. {p} \in SUBSET Part /\ {p} # {} /\ {p} \subseteq Minted \cup {p}
  BY Zenon
<1>8. \A q \in flush'[n].outs : q \in flush[n].outs \/ (q = p /\ {p} = {p})
  BY <1>2, Zenon
<1> QED BY <1>1, <1>3, <1>4, <1>5, <1>6, <1>7, <1>8, WrittenNames, Zenon

LEMMA MergeBeginNames ==
    ASSUME IInv, MintInv, SlotInv, NameInv, NEW n \in Node, NEW src \in SUBSET Part, NEW p \in Part,
           MergeBegin(n, src, p)
    PROVE  NameInv'
<1> DEFINE L == Rows(covers, src)
<1>0. TypeOK
  BY Zenon DEF IInv
<1>1. /\ L # {} /\ L \in SUBSET Part /\ WritePart(p, L) /\ p \in Fresh
      /\ src \subseteq view[n].parts /\ src \subseteq Minted /\ com[n].pc = "idle" /\ view[n].pending = {}
      /\ merge'[n].src = src /\ merge'[n].outs = {p} /\ \A m \in Node \ {n} : merge'[m] = merge[m]
  BY <1>0, MergeCovers, ZenonT(30)
<1>2. UNCHANGED <<index, limbo, lastStamp, view, com, ver, flush, established, retired>>
  BY Zenon DEF MergeBegin, storeVars, engineVars
<1>3. p \notin Minted /\ By(n)
  BY <1>1, <1>2, Zenon DEF Fresh, By, Same
<1>4. Names(n)' \subseteq Names(n) \cup {p} /\ Own(n)' \subseteq Own(n) \cup {p}
  BY <1>1, <1>2, SMTT(30) DEF Names, Own
<1>5. /\ merge'[n].outs \cap (view'[n].pending \cup merge'[n].src) = {}
      /\ \A q, r \in merge'[n].outs : q = r
  BY <1>1, <1>2, <1>3, Zenon
<1>6. ASSUME NEW m \in Node PROVE L \cap (view[m].pending \cup flush[m].outs) = {}
  <2>1. ASSUME NEW q \in view[m].pending \cup flush[m].outs, NEW r \in src, q \in covers[r] PROVE FALSE
    <3>1. Alone(q) /\ q \in Hidden(m)
      BY Zenon DEF NameInv, OwnAt, Own
    <3>2. q = r /\ q \in view[n].parts
      BY <1>1, <2>1, <3>1, Zenon DEF Alone
    <3>3. CASE m # n
      BY <3>1, <3>2, <3>3, Zenon DEF Hidden, Names
    <3>4. CASE m = n
      BY <1>1, <3>2, <3>4, Zenon DEF SlotInv, OutsAt, Settled
    <3> QED BY <3>3, <3>4, Zenon
  <2> QED BY <2>1, Zenon DEF Rows
<1>7. L \subseteq Minted \cup {p}
  BY Zenon DEF NameInv, Rows
<1> HIDE DEF L
<1>8. \A q \in flush'[n].outs : q \in flush[n].outs \/ (q = p /\ L = {p})
  BY <1>2, Zenon
<1> QED BY <1>1, <1>2, <1>3, <1>4, <1>5, <1>6, <1>7, <1>8, WrittenNames, ZenonT(30)
-----------------------------------------------------------------------------
(* A write lands.                                                          *)

LEMMA NoneFits ==
    ASSUME IInv, NEW w, Swap(w), limbo' \subseteq limbo PROVE \A v \in limbo' : ~Fits(v.ix)'
<1>1. ASSUME NEW v \in limbo' PROVE ~Fits(v.ix)'
  <2>1. v \in limbo /\ v \in [ix : Index, stamp : Nat]
    BY Zenon DEF IInv, TypeOK
  <2>2. v.ix.ver <= index.ver + 1 /\ v.ix.ver \in Nat /\ index.ver \in Nat
    BY <2>1, EngineFields, Zenon DEF IInv, LimboInv, Fit, Index, TypeOK
  <2>3. index'.ver = index.ver + 1
    BY Zenon DEF Swap
  <2> QED BY <2>2, <2>3 DEF Fits
<1> QED BY <1>1, Zenon

LEMMA LandLateNames ==
    ASSUME IInv, MarkInv, NameInv, NEW w \in limbo, LandLate(w) PROVE NameInv'
<1>1. /\ Swap(w) /\ limbo' \subseteq limbo
      /\ UNCHANGED <<ver, view, established, flush, merge, retired, com, covers, objects>>
  BY Zenon DEF LandLate, engineVars, buildVars
<1>2. /\ w.stamp \in Nat /\ Fits(w.ix) /\ index' = w.ix /\ index'.ver = index.ver + 1
      /\ lastStamp' = w.stamp
  BY <1>1, Zenon DEF IInv, TypeOK, Swap, Fits
<1>3. lastStamp' >= lastStamp
  BY <1>1, <1>2, Zenon DEF IInv, LimboInv, Fit, Fits
<1>4. \A m \in Node : Same(m) /\ ver'[m] = ver[m] /\ Names(m)' = Names(m) /\ Own(m)' = Own(m)
  BY <1>1, Zenon DEF Same, Names, Own
<1>5. ASSUME NEW m \in Node PROVE HoldAt(m)' /\ ShapeAt(m)'
  <2>1. ~Holder(m)'
    <3>1. established[m] # 0 => established[m] # w.stamp
      BY MarkOf, Zenon DEF MarkInv
    <3> QED BY <1>1, <1>2, <3>1, Zenon DEF Holder
  <2> QED BY <1>2, <1>3, <1>4, <2>1, OthersHold, Zenon
<1>6. ASSUME NEW m \in Node PROVE OwnAt(m)'
  <2>1. OwnAt(m)
    BY Zenon DEF NameInv
  <2>2. Own(m)' \subseteq Hidden(m)'
    BY <1>2, <1>4, <2>1, SMTT(30) DEF OwnAt, Hidden
  <2>3. \A p : Alone(p)' <=> Alone(p)
    BY <1>1, Zenon DEF Alone
  <2>4. \A v \in limbo' : Own(m) \cap v.ix.parts = {}
    BY <1>1, <2>1, Zenon DEF OwnAt
  <2> QED BY <1>1, <1>4, <2>1, <2>2, <2>3, <2>4, Zenon DEF OwnAt
<1>7. Sound(index.parts)'
  <2>1. Sound(w.ix.parts)
    BY <1>2, Zenon DEF NameInv
  <2>2. \A p, q \in w.ix.parts : p # q => covers'[p] \cap covers'[q] = {}
    BY <1>1, <2>1, Zenon DEF Sound, Apart
  <2> QED BY <1>1, <1>2, <2>1, <2>2, Zenon DEF Sound, Apart
<1>8. Minted' = Minted
  BY <1>1, Zenon DEF Minted
<1>9. \A v \in limbo' : ~Fits(v.ix)'
  BY <1>1, NoneFits, Zenon
<1> QED BY <1>1, <1>5, <1>6, <1>7, <1>8, <1>9, Zenon DEF NameInv

LEMMA LandedNames ==
    ASSUME IInv, RowsInv, MintInv, SlotInv, MarkInv, NameInv, NEW n \in Node, CasLands(n) PROVE NameInv'
<1>1. /\ com[n].pc = "cas" /\ Finish(n, "landed") /\ Swap(Write(n)) /\ limbo' = limbo
      /\ ver' = [ver EXCEPT ![n] = index'.ver]
  BY Zenon DEF CasLands
<1>2. /\ index' = com[n].ix /\ index'.ver = index.ver + 1 /\ Fits(com[n].ix) /\ lastStamp' = com[n].stamp
  BY <1>1, Zenon DEF Swap, Write, Fits
<1>3. ver'[n] = index'.ver /\ \A m \in Node \ {n} : ver'[m] = ver[m]
  BY <1>1, FunTypes, Zenon DEF IInv
<1>4. com[n].kind \in {"establish", "flush", "merge", "republish"}
  BY <1>1, Kinds, Zenon DEF IInv
<1>5. /\ view'[n].parts = IF com[n].kind = "flush" \/ com[n].kind = "merge" THEN com[n].next ELSE view[n].parts
      /\ view'[n].pending = {} /\ view'[n].foreign = view[n].foreign
      /\ com'[n] = NoCommit /\ UNCHANGED <<covers, objects>>
      /\ flush'[n] = IF com[n].kind = "flush" THEN NoFlush ELSE flush[n]
      /\ merge'[n] = IF com[n].kind = "merge" THEN NoMerge ELSE merge[n]
      /\ established'[n] = IF com[n].kind = "establish" THEN com[n].stamp ELSE established[n]
      /\ retired'[n] = retired[n] \cup (IF com[n].kind # "merge" THEN {} ELSE merge[n].src)
  BY <1>1, Finished, ZenonT(30) DEF IInv
<1>6. By(n)
  BY <1>1, <1>3, Finished, Zenon DEF IInv, By
<1>7. /\ Synced(n) /\ (com[n].kind # "establish" => established[n] = com[n].stamp)
      /\ com[n].stamp >= lastStamp /\ com[n].stamp \in Nat /\ lastStamp \in Nat
  BY <1>1, <1>2, WriteHolds, CommitFields, Zenon DEF IInv, TypeOK
<1>8. /\ com[n].ix.parts = com[n].next
      /\ com[n].kind \in {"establish", "republish"} => com[n].next = view[n].parts
  BY <1>1, <1>2, WriteParts, Zenon
<1>9. /\ Sound(com[n].ix.parts) /\ com[n].ix.parts \subseteq index.parts \cup Own(n)
      /\ com[n].kind # "flush" => com[n].ix.parts \cap flush[n].outs = {}
      /\ com[n].kind # "merge" => com[n].ix.parts \cap merge[n].outs = {}
      /\ com[n].kind = "merge" => com[n].ix.parts \cap merge[n].src = {}
  BY <1>1, <1>2, WriteSound, Zenon
<1>10. OwnAt(n) /\ OutsAt(n) /\ ShapeAt(n)
  BY Zenon DEF NameInv, SlotInv
<1>11. view'[n].parts = com[n].ix.parts
  BY <1>4, <1>5, <1>8, Zenon
<1>12. HoldAt(n)' /\ ShapeAt(n)'
  <2>1. com'[n].pc = "idle" /\ established'[n] = com[n].stamp
    BY <1>5, <1>7, NoWork, Zenon
  <2>2. Synced(n)'
    BY <1>2, <1>5, <1>7, <1>11, Zenon DEF Synced
  <2>3. established'[n] <= lastStamp'
    BY <1>2, <1>7, <2>1, SMTT(30)
  <2>4. HoldAt(n)'
    BY <1>3, <2>1, <2>2, <2>3, Zenon DEF HoldAt
  <2> QED BY <2>1, <2>4, Zenon DEF ShapeAt
<1>13. /\ flush'[n].outs \subseteq flush[n].outs /\ merge'[n].outs \subseteq merge[n].outs
       /\ merge'[n].src \subseteq merge[n].src /\ Own(n)' = flush'[n].outs \cup merge'[n].outs
       /\ Own(n)' \subseteq Own(n) /\ Own(n)' \cap com[n].ix.parts = {}
  <2>1. /\ com[n].kind = "flush" => flush'[n].outs = {}
        /\ com[n].kind # "flush" => flush'[n].outs = flush[n].outs
    BY <1>5, NoWork, Zenon
  <2>2. /\ com[n].kind = "merge" => merge'[n].outs = {} /\ merge'[n].src = {}
        /\ com[n].kind # "merge" => merge'[n].outs = merge[n].outs /\ merge'[n].src = merge[n].src
    BY <1>5, NoWork, Zenon
  <2>3. Own(n)' = flush'[n].outs \cup merge'[n].outs
    BY <1>5, Zenon DEF Own
  <2>4. flush'[n].outs \cap com[n].ix.parts = {} /\ merge'[n].outs \cap com[n].ix.parts = {}
    BY <1>9, <2>1, <2>2, Zenon
  <2> QED BY <2>1, <2>2, <2>3, <2>4, Zenon DEF Own
<1>14. Own(n)' \cap retired'[n] = {}
  <2>1. CASE com[n].kind # "merge"
    BY <1>5, <1>10, <1>13, <2>1, Zenon DEF OwnAt
  <2>2. CASE com[n].kind = "merge"
    <3>1. Own(n)' \subseteq flush[n].outs
      BY <1>5, <1>13, <2>2, NoWork, Zenon
    <3>2. merge[n].src \subseteq view[n].parts
      BY <1>1, <1>10, <2>2, Zenon DEF ShapeAt
    <3>3. flush[n].outs \cap merge[n].src = {}
      BY <1>10, <3>2, Zenon DEF OutsAt, Settled
    <3> QED BY <1>5, <1>10, <1>13, <2>2, <3>1, <3>3, Zenon DEF OwnAt
  <2> QED BY <2>1, <2>2, Zenon
<1>15. OwnAt(n)'
  <2>1. Own(n)' \subseteq Hidden(n)' /\ Own(n)' \subseteq objects'
    BY <1>2, <1>5, <1>6, <1>10, <1>13, HiddenOwn, Zenon DEF OwnAt
  <2>2. ASSUME NEW k \in Node PROVE Own(n)' \cap retired'[k] = {}
    <3>1. CASE k # n
      BY <1>6, <1>10, <1>13, <3>1, Zenon DEF OwnAt, By, Same
    <3> QED BY <1>14, <3>1, Zenon
  <2>3. \A w \in limbo' : Own(n)' \cap w.ix.parts = {}
    BY <1>1, <1>10, <1>13, Zenon DEF OwnAt
  <2>4. \A p : Alone(p)' <=> Alone(p)
    BY <1>5, Zenon DEF Alone
  <2>5. /\ merge'[n].outs \cap (view'[n].pending \cup merge'[n].src) = {}
        /\ \A p, q \in merge'[n].outs : p = q
        /\ \A p \in view'[n].pending \cup flush'[n].outs : Alone(p)'
    BY <1>5, <1>10, <1>13, <2>4, Zenon DEF OwnAt
  <2> QED BY <2>1, <2>2, <2>3, <2>5, Zenon DEF OwnAt
<1>16. Names(n)' \subseteq Names(n) /\ com[n].ix.parts \subseteq Names(n) /\ merge[n].src \subseteq Names(n)
  BY <1>1, FinishNames, Zenon DEF IInv, Names
<1>17. retired'[n] \subseteq retired[n] \cup Names(n)
  BY <1>5, <1>16, Zenon
<1>18. ASSUME NEW m \in Node \ {n} PROVE HoldAt(m)' /\ ShapeAt(m)' /\ OwnAt(m)'
  <2>1. Same(m) /\ ver'[m] = ver[m] /\ Leaves(n)
    BY <1>1, <1>6, Zenon DEF By, Leaves
  <2>2. established[m] # 0 => established[m] # com[n].stamp
    <3>1. established[m] \in Marks(m) \cup {0} /\ com[n].stamp \in Marks(n) \cup {0} /\ Marks(m) \cap Marks(n) = {}
      BY MarkOf, Zenon DEF MarkInv
    <3> QED BY <3>1, Zenon
  <2>3. ~Holder(m)'
    BY <1>2, <2>1, <2>2, Zenon DEF Holder, Same
  <2>4. HoldAt(m)' /\ ShapeAt(m)'
    BY <1>2, <1>7, <2>1, <2>3, OthersHold, Zenon
  <2>5. OwnAt(m)'
    BY <1>2, <1>5, <1>6, <1>16, <1>17, <2>1, OthersOwn, Zenon
  <2> QED BY <2>4, <2>5, Zenon
<1>19. Sound(index.parts)'
  <2>1. com[n].ix.parts \cap retired'[n] = {}
    BY <1>5, <1>9, Zenon DEF Sound
  <2>2. ASSUME NEW k \in Node PROVE com[n].ix.parts \cap retired'[k] = {}
    <3>1. CASE k # n
      BY <1>6, <1>9, <3>1, Zenon DEF Sound, By, Same
    <3> QED BY <2>1, <3>1, Zenon
  <2>3. \A p, q \in com[n].ix.parts : p # q => covers'[p] \cap covers'[q] = {}
    BY <1>5, <1>9, Zenon DEF Sound, Apart
  <2> QED BY <1>2, <1>5, <1>9, <2>2, <2>3, Zenon DEF Sound, Apart
<1>20. Minted' = Minted
  BY <1>5, Zenon DEF Minted
<1>21. ASSUME NEW k \in Node PROVE retired'[k] \subseteq Minted'
  <2>1. CASE k = n
    BY <1>17, <1>20, <2>1, Zenon DEF NameInv, MintInv
  <2>2. CASE k # n
    BY <1>6, <1>20, <2>2, Zenon DEF NameInv, By, Same
  <2> QED BY <2>1, <2>2, Zenon
<1>22. \A v \in limbo' : ~Fits(v.ix)'
  BY <1>1, NoneFits, Zenon
<1>23. \A m \in Node : HoldAt(m)' /\ ShapeAt(m)' /\ OwnAt(m)'
  BY <1>12, <1>15, <1>18, Zenon
<1> QED BY <1>5, <1>19, <1>20, <1>21, <1>22, <1>23, Zenon DEF NameInv

LEMMA NameStep ==
    ASSUME IInv, RowsInv, MintInv, SlotInv, MarkInv, NameInv, Clustered, lost' = 0, [Next]_vars PROVE NameInv'
<1>1. CASE UNCHANGED vars \/ Expire \/ \E n \in Node : Acquire(n) \/ Fence(n) \/ Renew(n)
  BY <1>1, ClaimNames, Zenon
<1>2. CASE \E w \in limbo : LandLate(w)
  BY <1>2, LandLateNames, Zenon
<1>3. ASSUME NEW n \in Node, RefreshReplica(n) \/ Establish(n) \/ Restart(n) PROVE NameInv'
  BY <1>3, LoadNames, RestartNames, Zenon
<1>4. ASSUME NEW n \in Node, Check(n) \/ CasConflicts(n) \/ Build(n) \/ Rebase(n) PROVE NameInv'
  BY <1>4, MovedNames, BuildNames, RebaseNames, Zenon
<1>5. ASSUME NEW n \in Node, FlushPublish(n) \/ Republish(n) \/ MergePublish(n) PROVE NameInv'
  BY <1>5, BeginNames, Zenon
<1>6. ASSUME NEW n \in Node, CasLands(n) \/ FlushAbort(n) \/ Reclaim(n) PROVE NameInv'
  BY <1>6, LandedNames, FlushAbortNames, ReclaimNames, Zenon
<1>7. ASSUME NEW n \in Node, NEW p \in Part, FlushBegin(n, p) PROVE NameInv'
  BY <1>7, FlushBeginNames, Zenon
<1>8. ASSUME NEW n \in Node, NEW src \in SUBSET Part, NEW p \in Part, MergeBegin(n, src, p) PROVE NameInv'
  BY <1>8, MergeBeginNames, Zenon
<1>9. ASSUME NEW n \in Node PROVE ~CasUnknown(n)
  BY DEF CasUnknown, IInv, TypeOK
<1> QED BY <1>1, <1>2, <1>3, <1>4, <1>5, <1>6, <1>7, <1>8, <1>9, Zenon DEF Next

LEMMA NameInit == ASSUME Init PROVE MarkInv /\ NameInv
<1>1. /\ limbo = {} /\ index = NoIndex /\ lastTerm = 0 /\ owner = None /\ lastStamp = 0
      /\ \A n \in Node : /\ flush[n] = NoFlush /\ com[n] = NoCommit /\ merge[n] = NoMerge
                         /\ established[n] = 0 /\ term[n] = 0 /\ retired[n] = {} /\ view[n].pending = {}
      /\ \A p \in Part : covers[p] = {}
  BY Zenon DEF Init
<1>2. \A n \in Node : Marks(n) = {}
  <2>1. ASSUME NEW n \in Node PROVE Marks(n) = {}
    <3>1. owner # n
      BY <1>1, NodeType, Zenon
    <3>2. term[n] = 0 /\ established[n] = 0 /\ com[n].stamp = 0 /\ merge[n].stamp = 0
      BY <1>1, NoWork, Zenon
    <3> QED BY <3>1, <3>2, Zenon DEF Marks
  <2> QED BY <2>1, Zenon
<1>3. MarkInv
  BY <1>1, <1>2, Zenon DEF MarkInv
<1>4. \A n \in Node : Own(n) = {}
  BY <1>1, NoWork, Zenon DEF Own
<1>5. \A n \in Node : OwnAt(n)
  BY <1>1, <1>4, NoWork, Zenon DEF OwnAt
<1>6. \A n \in Node : HoldAt(n) /\ ShapeAt(n)
  BY <1>1, NoWork, SMTT(30) DEF HoldAt, ShapeAt, Holder
<1>7. Sound(index.parts)
  BY <1>1, Zenon DEF Sound, Apart, NoIndex
<1>8. NameInv
  BY <1>1, <1>5, <1>6, <1>7, Zenon DEF NameInv
<1> QED BY <1>3, <1>8, Zenon

LEMMA LostCount == ASSUME [Next]_vars PROVE lost' = lost \/ lost' = lost + 1
<1>1. CASE UNCHANGED vars \/ Expire \/ \E w \in limbo : LandLate(w)
  BY <1>1, Zenon DEF vars, faultVars, Expire, LandLate
<1>2. ASSUME NEW n \in Node, Acquire(n) \/ Fence(n) \/ Renew(n) \/ RefreshReplica(n) \/ Establish(n) \/ Restart(n)
      PROVE  lost' = lost
  BY <1>2, Zenon DEF Acquire, Fence, Renew, RefreshReplica, Establish, Restart, faultVars
<1>3. ASSUME NEW n \in Node, Check(n) \/ Build(n) \/ CasLands(n) \/ CasConflicts(n) \/ Rebase(n)
      PROVE  lost' = lost
  BY <1>3, Zenon DEF Check, Build, CasLands, CasConflicts, Rebase, faultVars
<1>4. ASSUME NEW n \in Node, CasUnknown(n) PROVE lost' = lost + 1
  BY <1>4, Zenon DEF CasUnknown
<1>5. ASSUME NEW n \in Node, FlushAbort(n) \/ FlushPublish(n) \/ Republish(n) \/ MergePublish(n) \/ Reclaim(n)
      PROVE  lost' = lost
  BY <1>5, Zenon DEF FlushAbort, FlushPublish, Republish, MergePublish, Reclaim, faultVars
<1>6. ASSUME NEW n \in Node, NEW p \in Part, NEW src, FlushBegin(n, p) \/ MergeBegin(n, src, p)
      PROVE  lost' = lost
  BY <1>6, Zenon DEF FlushBegin, MergeBegin, faultVars
<1> QED BY <1>1, <1>2, <1>3, <1>4, <1>5, <1>6, Zenon DEF Next

LEMMA NamesHold == ASSUME Clustered PROVE Spec => [](lost = 0 => NameInv)
<1> DEFINE Inv == lost = 0 => MarkInv /\ NameInv
<1>1. Init => SlotInv /\ Inv
  BY SlotInit, NameInit, Zenon
<1>2. IInv /\ MintInv /\ SlotInv /\ [Next]_vars => SlotInv'
  BY SlotStep, Zenon
<1>3. IInv /\ RowsInv /\ MintInv /\ SlotInv /\ Inv /\ [Next]_vars => Inv'
  <2>1. SUFFICES ASSUME IInv, RowsInv, MintInv, SlotInv, Inv, [Next]_vars, lost' = 0 PROVE (MarkInv /\ NameInv)'
    BY Zenon
  <2>2. lost = 0
    <3>1. lost' = lost \/ lost' = lost + 1
      BY <2>1, LostCount, Zenon
    <3> QED BY <2>1, <3>1 DEF IInv, TypeOK
  <2> QED BY <2>1, <2>2, MarkStep, NameStep, Zenon
<1>4. Inv => (lost = 0 => NameInv)
  BY Zenon
<1> QED BY <1>1, <1>2, <1>3, <1>4, RowsHold, PTL DEF Spec

\* Under claims and until a commit's response is lost, no rows are named twice:
\* whatever tenures, fenced claims, restarts and late writes of a process that
\* died come between, a handoff brings no merge's inputs back in beside its
\* output (mergeHeld, adoptIndexLocked, establishTenureLocked).
THEOREM NamedOnce == ASSUME Clustered PROVE Spec => [](lost = 0 => NoOverlap)
<1>1. NameInv => NoOverlap
  BY Zenon DEF NameInv, Sound, Apart, NoOverlap
<1> QED BY <1>1, NamesHold, PTL

\* And what the index names is in the store: neither a displaced merge that
\* discards its outputs nor an owner that reclaims merged inputs deletes a part
\* that an index names, or that a write already sent will name (discardOutputs,
\* reclaimRetired).
THEOREM NamedIsPresent == ASSUME Clustered PROVE Spec => [](lost = 0 => NamedPresent)
<1>1. NameInv => NamedPresent
  BY Zenon DEF NameInv, Sound, NamedPresent
<1> QED BY <1>1, NamesHold, PTL
=============================================================================
