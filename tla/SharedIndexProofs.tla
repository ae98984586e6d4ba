-------------------------- MODULE SharedIndexProofs --------------------------
(***************************************************************************)
(* For any number of nodes, tenures, lost responses and restarts: the      *)
(* index generation rises with every landed commit, and a displaced writer *)
(* lands nothing after its successor's first commit.                       *)
(***************************************************************************)
EXTENDS SharedIndex, TLAPS

\* A term is read only by the owner, and is the newest one granted.
ClaimInv ==
    /\ lastStamp <= lastTerm
    /\ \A n \in Node : term[n] # 0 => owner = n /\ term[n] = lastTerm
    /\ ~Clustered => lastTerm = 0

\* Stamps are terms that were granted.
StampInv == \A n \in Node : com[n].stamp <= lastTerm /\ merge[n].stamp <= lastTerm

\* A commit past its fence that builds on the stored index began under a
\* tenure no older than the last that committed.
BuildInv == \A n \in Node : com[n].pc = "build" /\ ver[n] = index.ver => com[n].stamp >= lastStamp

\* A commit at its write holds the node's generation, and is conditioned on
\* the node's version.
CasInv == \A n \in Node : com[n].pc = "cas" => com[n].ix.gen = gen[n] /\ com[n].ix.ver = ver[n] + 1

\* What a node knows is never ahead of the store, and a node that has seen the
\* stored version has a generation no older than the stored one.
KnowInv == \A n \in Node : ver[n] <= index.ver /\ (ver[n] = index.ver => ~Less(gen[n], index.gen))

\* A write that can still land was built on the stored index by the newest
\* tenure to have committed.
Fit(w) ==
    /\ w.ix.ver <= index.ver + 1
    /\ w.ix.ver = index.ver + 1 => Less(index.gen, w.ix.gen) /\ w.stamp >= lastStamp

LimboInv == \A w \in limbo : Fit(w) /\ w.stamp <= lastTerm
WriteInv == \A n \in Node : com[n].pc = "cas" => Fit(Write(n))

IInv == TypeOK /\ ClaimInv /\ StampInv /\ BuildInv /\ CasInv /\ KnowInv /\ LimboInv /\ WriteInv
-----------------------------------------------------------------------------
(* Types.                                                                  *)

LEMMA NoIndexType == NoIndex \in Index /\ NoIndex.gen \in Gen
BY Zenon DEF NoIndex, Index, Gen

LEMMA InitTypes == ASSUME Init PROVE TypeOK
BY NoIndexType, Zenon DEF Init, TypeOK, View, NoIndex, Index, Gen, NoFlush, NoMerge, Commit

LEMMA CommitFields ==
    ASSUME TypeOK, NEW n \in Node
    PROVE  /\ com[n].next \in SUBSET Part /\ com[n].epoch \in Nat /\ com[n].stamp \in Nat
           /\ com[n].ix \in Index
           /\ com[n].pc # "idle" => com[n] \in Committing
<1>1. com[n] \in Commit
  BY Zenon DEF TypeOK
<1>2. CASE com[n] = NoCommit
  BY <1>2, NoIndexType DEF NoCommit, StartCommit
<1>3. CASE com[n] \in Committing
  BY <1>3, Zenon DEF Committing
<1> QED BY <1>1, <1>2, <1>3, Zenon DEF Commit

LEMMA EngineFields ==
    ASSUME TypeOK, NEW n \in Node
    PROVE  /\ view[n] \in View /\ gen[n] \in Gen /\ ver[n] \in Nat /\ term[n] \in Nat
           /\ flush[n].outs \in SUBSET Part /\ flush[n].epoch \in Nat
           /\ merge[n].src \in SUBSET Part /\ merge[n].outs \in SUBSET Part /\ merge[n].stamp \in Nat
           /\ index.ver \in Nat /\ index.gen \in Gen /\ index.slots \in [Node -> Nat]
           /\ index.parts \in SUBSET Part /\ index.removed \in SUBSET Part
<1>1. view[n] \in View /\ gen[n] \in Gen /\ ver[n] \in Nat /\ term[n] \in Nat
  BY Zenon DEF TypeOK
<1>2. /\ flush[n].outs \in SUBSET Part /\ flush[n].epoch \in Nat
      /\ merge[n].src \in SUBSET Part /\ merge[n].outs \in SUBSET Part /\ merge[n].stamp \in Nat
  BY Zenon DEF TypeOK
<1>3. index \in Index
  BY Zenon DEF TypeOK
<1> QED BY <1>1, <1>2, <1>3, Zenon DEF Index

LEMMA WriteType == ASSUME TypeOK, NEW n \in Node PROVE Write(n) \in [ix : Index, stamp : Nat]
BY CommitFields, Zenon DEF Write

-----------------------------------------------------------------------------
(* The inductive invariant.                                                *)

LEMMA LessLaws ==
    /\ \A g \in Gen : ~Less(g, g)
    /\ \A f, g, h \in Gen : ~Less(g, f) /\ Less(g, h) => Less(f, h) /\ ~Less(h, f)
BY DEF Gen, Less

LEMMA InitInv == ASSUME Init PROVE IInv
<1>1. TypeOK
  BY InitTypes, Zenon
<1>2. ClaimInv /\ LimboInv
  BY DEF Init, ClaimInv, LimboInv
<1>5. StampInv
  <2>1. NoCommit.stamp = 0 /\ NoMerge.stamp = 0
    BY Zenon DEF NoCommit, StartCommit, NoMerge
  <2> QED BY <2>1 DEF Init, StampInv
<1>3. BuildInv /\ CasInv /\ WriteInv
  BY Zenon DEF Init, BuildInv, CasInv, WriteInv, NoCommit, StartCommit
<1>4. KnowInv
  <2>1. index.ver = 0 /\ index.gen = NoIndex.gen
    BY Zenon DEF Init, NoIndex
  <2>2. \A n \in Node : ver[n] = 0 /\ gen[n] = NoIndex.gen
    BY Zenon DEF Init
  <2>3. ~Less(NoIndex.gen, NoIndex.gen)
    BY NoIndexType, LessLaws, Zenon
  <2>4. \A n \in Node : ver[n] <= index.ver
    BY <2>1, <2>2
  <2>5. \A n \in Node : ~Less(gen[n], index.gen)
    BY <2>1, <2>2, <2>3, Zenon
  <2> QED BY <2>4, <2>5, Zenon DEF KnowInv
<1> QED BY <1>1, <1>2, <1>3, <1>4, <1>5, Zenon DEF IInv

\* A node may leave its write behind, unconfirmed.
Leaves(n) == \A w \in limbo' : w \in limbo \/ (com[n].pc = "cas" /\ w = Write(n))

\* Steps that leave the stored index and every node's knowledge alone and move
\* one node's commit to a point other than its write.
Local(n) ==
    /\ UNCHANGED <<owner, lastTerm, term, index, lastStamp, ver, gen>>
    /\ Leaves(n)
    /\ \A m \in Node \ {n} : com'[m] = com[m]
    /\ com'[n].pc # "cas" /\ com'[n].stamp <= lastTerm
    /\ com'[n].pc = "build" /\ ver[n] = index.ver => com'[n].stamp >= lastStamp
    /\ \A m \in Node : merge'[m].stamp <= lastTerm

\* A node whose version becomes the stored one, and its generation one that is
\* no older than the stored one.
Learns(n) ==
    /\ UNCHANGED <<index, lastStamp, lastTerm>>
    /\ Leaves(n)
    /\ ver'[n] = index.ver /\ ~Less(gen'[n], index.gen)
    /\ \A m \in Node \ {n} : com'[m] = com[m] /\ ver'[m] = ver[m] /\ gen'[m] = gen[m]
    /\ com'[n].pc # "cas" /\ com'[n].stamp <= lastTerm
    /\ com'[n].pc = "build" => com'[n].stamp >= lastStamp
    /\ \A m \in Node : merge'[m].stamp <= lastTerm

\* A write lands: every other node's expectation is stale from now on.
Lands(w) ==
    /\ w \in [ix : Index, stamp : Nat] /\ w.stamp <= lastTerm
    /\ Swap(w)
    /\ UNCHANGED <<claimVars, gen>> /\ limbo' \subseteq limbo
    /\ \A m \in Node :
        /\ com'[m] = com[m] \/ (com'[m].pc = "idle" /\ com'[m].stamp = 0)
        /\ merge'[m].stamp <= lastTerm
        /\ ver'[m] = ver[m] \/ (com'[m].pc = "idle" /\ ver'[m] = index'.ver /\ w.ix.gen = gen[m])

LEMMA InvStep == IInv /\ [Next]_vars => IInv'
<1>NextGenType. ASSUME NEW g \in Gen, NEW t \in Nat
                       PROVE  NextGen(g, t) \in Gen /\ Less(g, NextGen(g, t))
  BY <1>NextGenType DEF NextGen, Gen, Less
<1>MaxGenType. ASSUME NEW g \in Gen, NEW h \in Gen
                      PROVE  MaxGen(g, h) \in Gen /\ ~Less(MaxGen(g, h), h)
  BY <1>MaxGenType DEF MaxGen, Gen, Less
<1>SteppedType.
    ASSUME NEW c \in Committing, NEW q \in {"check", "build", "cas", "rebase"}
    PROVE  /\ [c EXCEPT !.pc = q] \in Committing
           /\ c.left > 1 => [c EXCEPT !.pc = q, !.left = c.left - 1] \in Committing
  <2> USE <1>SteppedType
  <2>1. [c EXCEPT !.pc = q] \in Committing
    BY Zenon DEF Committing
  <2>2. ASSUME c.left > 1 PROVE c.left - 1 \in 1 .. Attempts
    BY <2>2, BoundsType DEF Committing
  <2>3. ASSUME NEW l \in 1 .. Attempts PROVE [c EXCEPT !.pc = q, !.left = l] \in Committing
    BY Zenon DEF Committing
  <2> QED BY <2>1, <2>2, <2>3, Zenon
<1>FinishTypes.
    ASSUME TypeOK, NEW n \in Node, NEW r, Finish(n, r)
    PROVE  /\ view' \in [Node -> View] /\ com' \in [Node -> Commit]
           /\ established' \in [Node -> Nat] /\ retired' \in [Node -> SUBSET Part]
           /\ flush' \in [Node -> [outs : SUBSET Part, epoch : Nat]]
           /\ merge' \in [Node -> [src : SUBSET Part, outs : SUBSET Part, stamp : Nat]]
           /\ objects' \subseteq Part /\ covers' \in [Part -> SUBSET Part]
  <2> USE <1>FinishTypes
  <2>1. /\ com[n].next \in SUBSET Part /\ com[n].epoch \in Nat /\ com[n].stamp \in Nat
    BY CommitFields, Zenon
  <2>2. /\ view[n] \in View /\ flush[n].outs \in SUBSET Part
        /\ merge[n].src \in SUBSET Part /\ merge[n].outs \in SUBSET Part
    BY EngineFields, Zenon
  <2>3. view' \in [Node -> View]
    BY <2>1, <2>2, ZenonT(30) DEF Finish, TypeOK, View
  <2>4. com' \in [Node -> Commit]
    BY Zenon DEF Finish, TypeOK, Commit
  <2>5. established' \in [Node -> Nat]
    BY <2>1, Zenon DEF Finish, TypeOK
  <2>6. retired' \in [Node -> SUBSET Part]
    BY <2>2, ZenonT(30) DEF Finish, TypeOK
  <2>7. flush' \in [Node -> [outs : SUBSET Part, epoch : Nat]]
    BY Zenon DEF Finish, TypeOK, NoFlush
  <2>8. merge' \in [Node -> [src : SUBSET Part, outs : SUBSET Part, stamp : Nat]]
    BY Zenon DEF Finish, TypeOK, NoMerge
  <2>9. objects' \subseteq Part /\ covers' \in [Part -> SUBSET Part]
    BY Zenon DEF Finish, TypeOK
  <2> QED BY <2>3, <2>4, <2>5, <2>6, <2>7, <2>8, <2>9, Zenon
<1>LoadTypes.
    ASSUME TypeOK, NEW n \in Node
    PROVE  Loaded(n) \in View /\ Opened(n) \in View
           /\ (LoadParts(n) => ver' \in [Node -> Nat] /\ gen' \in [Node -> Gen] /\ view' \in [Node -> View])
  <2> USE <1>LoadTypes
  <2>1. /\ view[n] \in View /\ index.ver \in Nat /\ index.gen \in Gen /\ index.slots \in [Node -> Nat]
        /\ index.parts \in SUBSET Part /\ index.removed \in SUBSET Part
    BY EngineFields, Zenon
  <2>2. Opened(n) \in View
    BY <2>1, Zenon DEF Opened, View
  <2>3. Loaded(n) \in View
    BY <2>1, Zenon DEF Loaded, View, Max2
  <2>4. LoadParts(n) => ver' \in [Node -> Nat] /\ gen' \in [Node -> Gen] /\ view' \in [Node -> View]
    BY <2>1, <2>3 DEF LoadParts, TypeOK
  <2> QED BY <2>2, <2>3, <2>4, Zenon
<1>BeginTypes.
    ASSUME TypeOK, NEW n \in Node, NEW k \in {"flush", "merge", "republish"}, NEW P \in SUBSET Part,
           NEW e \in Nat, NEW t \in Nat, Begin(n, k, P, e, t)
    PROVE  com' \in [Node -> Commit]
  <2> USE <1>BeginTypes
  <2>1. StartCommit("check", k, P, e, t, Attempts) \in Committing
    BY NoIndexType, BoundsType DEF StartCommit, Committing
  <2> QED BY <2>1, Zenon DEF Begin, TypeOK, Commit
<1>ClaimTypes.
    ASSUME TypeOK, NEW n \in Node, Acquire(n) \/ Fence(n) \/ Renew(n) \/ Expire
    PROVE  TypeOK'
  <2> USE <1>ClaimTypes
  <2>1. owner' \in Node \cup {None} /\ lastTerm' \in Nat /\ term' \in [Node -> Nat]
    <3>1. owner \in Node \cup {None} /\ lastTerm \in Nat /\ term \in [Node -> Nat]
      BY Zenon DEF TypeOK
    <3>2. CASE Acquire(n)
      BY <3>1, <3>2 DEF Acquire
    <3>3. CASE Fence(n)
      BY <3>1, <3>3, Zenon DEF Fence
    <3>4. CASE Renew(n)
      BY <3>1, <3>4, Zenon DEF Renew
    <3>5. CASE Expire
      BY <3>1, <3>5, Zenon DEF Expire
    <3> QED BY <3>2, <3>3, <3>4, <3>5, Zenon
  <2>2. UNCHANGED <<storeVars, faultVars, engineVars, buildVars, com>>
    BY Zenon DEF Acquire, Fence, Renew, Expire
  <2>3. index' \in Index /\ limbo' \subseteq [ix : Index, stamp : Nat] /\ lastStamp' \in Nat
    BY <2>2, Zenon DEF TypeOK, storeVars
  <2>4. /\ ver' \in [Node -> Nat] /\ gen' \in [Node -> Gen] /\ view' \in [Node -> View]
        /\ established' \in [Node -> Nat] /\ com' \in [Node -> Commit]
    BY <2>2, Zenon DEF TypeOK, engineVars
  <2>5. /\ objects' \subseteq Part /\ covers' \in [Part -> SUBSET Part]
        /\ flush' \in [Node -> [outs : SUBSET Part, epoch : Nat]]
        /\ merge' \in [Node -> [src : SUBSET Part, outs : SUBSET Part, stamp : Nat]]
        /\ retired' \in [Node -> SUBSET Part]
    BY <2>2, Zenon DEF TypeOK, buildVars
  <2>6. lost' \in Nat /\ restarts' \in Nat
    BY <2>2, Zenon DEF TypeOK, faultVars
  <2> QED BY <2>1, <2>3, <2>4, <2>5, <2>6, Zenon DEF TypeOK
<1>LoadStepTypes.
    ASSUME TypeOK, NEW n \in Node, RefreshReplica(n) \/ Establish(n)
    PROVE  TypeOK'
  <2> USE <1>LoadStepTypes
  <2>1. ver' \in [Node -> Nat] /\ gen' \in [Node -> Gen] /\ view' \in [Node -> View]
    BY <1>LoadTypes, Zenon DEF RefreshReplica, Establish
  <2>2. com' \in [Node -> Commit]
    <3>1. CASE com' = com
      BY <3>1, Zenon DEF TypeOK
    <3> DEFINE c == StartCommit("build", "establish", Loaded(n).parts, Loaded(n).flushed, term[n], 1)
    <3>2. CASE com' = [com EXCEPT ![n] = c]
      <4>1. Loaded(n).parts \in SUBSET Part /\ Loaded(n).flushed \in Nat /\ term[n] \in Nat
        BY <1>LoadTypes, EngineFields, Zenon DEF View
      <4>2. c \in Committing
        BY <4>1, NoIndexType, BoundsType DEF StartCommit, Committing
      <4> HIDE DEF c
      <4> QED BY <3>2, <4>2, Zenon DEF TypeOK, Commit
    <3> QED BY <3>1, <3>2, Zenon DEF RefreshReplica, Establish
  <2>3. UNCHANGED <<claimVars, storeVars, faultVars, established, buildVars>>
    BY Zenon DEF RefreshReplica, Establish
  <2> QED BY <2>1, <2>2, <2>3, Zenon DEF TypeOK, claimVars, storeVars, faultVars, buildVars
\* The candidate is an index.
<1>CandidateType.
    ASSUME TypeOK, NEW n \in Node
    PROVE  /\ Candidate(n, NextGen(gen[n], term[n])) \in Index
           /\ NextGen(gen[n], term[n]) \in Gen
           /\ NextRemovals(n) \in SUBSET Part
           /\ [view[n].slots EXCEPT ![n] = com[n].epoch] \in [Node -> Nat]
  <2> USE <1>CandidateType
  <2>1. view[n] \in View /\ gen[n] \in Gen /\ ver[n] \in Nat /\ term[n] \in Nat
    BY EngineFields, Zenon
  <2>2. com[n].next \in SUBSET Part /\ com[n].epoch \in Nat
    BY CommitFields, Zenon
  <2>3. NextGen(gen[n], term[n]) \in Gen
    BY <2>1, <1>NextGenType, Zenon
  <2>4. NextRemovals(n) \in SUBSET Part
    BY <2>1, Zenon DEF NextRemovals, View
  <2>5. [view[n].slots EXCEPT ![n] = com[n].epoch] \in [Node -> Nat]
    BY <2>1, <2>2, Zenon DEF View
  <2>6. com[n].next \cup view[n].foreign \in SUBSET Part
    BY <2>1, <2>2, Zenon DEF View
  <2> QED BY <2>1, <2>3, <2>4, <2>5, <2>6 DEF Candidate, Index
<1>BuildTypes. ASSUME TypeOK, NEW n \in Node, Build(n) PROVE TypeOK'
  <2> USE <1>BuildTypes
  <2> DEFINE g == NextGen(gen[n], term[n])
             s == [view[n].slots EXCEPT ![n] = com[n].epoch]
             ix == Candidate(n, g)
  <2>1. /\ ix \in Index /\ g \in Gen /\ NextRemovals(n) \in SUBSET Part /\ s \in [Node -> Nat]
        /\ view[n] \in View /\ com[n].next \in SUBSET Part
    BY <1>CandidateType, EngineFields, CommitFields, Zenon
  <2>2. com[n] \in Committing /\ com[n].pc = "build"
    BY CommitFields, Zenon DEF Build
  <2>3. gen' = [gen EXCEPT ![n] = g]
    BY Zenon DEF Build
  <2>4. view' = [view EXCEPT ![n].indexed = com[n].next, ![n].removals = NextRemovals(n), ![n].slots = s]
    BY <2>1, Zenon DEF Build, TypeOK, View
  <2>5. com' = [com EXCEPT ![n].pc = "cas", ![n].ix = ix]
    BY Zenon DEF Build
  <2> HIDE DEF g, s, ix
  <2>6. gen' \in [Node -> Gen]
    BY <2>1, <2>3, Zenon DEF TypeOK
  <2>7. view' \in [Node -> View]
    BY <2>1, <2>4, Zenon DEF TypeOK, View
  <2>8. com' \in [Node -> Commit]
    BY <2>1, <2>2, <2>5, Zenon DEF TypeOK, Commit, Committing
  <2>9. UNCHANGED <<claimVars, storeVars, faultVars, ver, established, buildVars>>
    BY Zenon DEF Build
  <2> QED BY <2>6, <2>7, <2>8, <2>9, Zenon DEF TypeOK, claimVars, storeVars, faultVars, buildVars
<1>RebaseTypes. ASSUME TypeOK, NEW n \in Node, Rebase(n) PROVE TypeOK'
  <2> USE <1>RebaseTypes
  <2>1. /\ view[n] \in View /\ gen[n] \in Gen /\ index.ver \in Nat /\ index.gen \in Gen
        /\ index.slots \in [Node -> Nat] /\ index.parts \in SUBSET Part
    BY EngineFields, Zenon
  <2>2. com[n] \in Committing
    BY CommitFields, Zenon DEF Rebase
  <2>3. ver' \in [Node -> Nat]
    BY <2>1, Zenon DEF Rebase, TypeOK
  <2>4. gen' \in [Node -> Gen]
    BY <2>1, <1>MaxGenType, Zenon DEF Rebase, TypeOK
  <2>5. view' \in [Node -> View]
    BY <2>1, Zenon DEF Rebase, TypeOK, View, Foreign
  <2>6. com' \in [Node -> Commit]
    BY <2>2, Zenon DEF Rebase, TypeOK, Commit, Committing
  <2>7. UNCHANGED <<claimVars, storeVars, faultVars, established, buildVars>>
    BY Zenon DEF Rebase
  <2> QED BY <2>3, <2>4, <2>5, <2>6, <2>7, Zenon DEF TypeOK, claimVars, storeVars, faultVars, buildVars
<1>SwapTypes.
    ASSUME TypeOK, NEW w \in [ix : Index, stamp : Nat], Swap(w)
    PROVE  index' \in Index /\ lastStamp' \in Nat /\ index'.ver \in Nat
  BY <1>SwapTypes, Zenon DEF Swap, Index
<1>CommitStepTypes.
    ASSUME TypeOK, NEW n \in Node,
           Check(n) \/ CasLands(n) \/ CasConflicts(n) \/ CasUnknown(n)
    PROVE  TypeOK'
  <2> USE <1>CommitStepTypes
  <2>1. CASE Check(n) \/ CasConflicts(n)
    <3>1. UNCHANGED <<claimVars, storeVars, faultVars, ver, gen>>
      BY <2>1, Zenon DEF Check, CasConflicts
    <3>2. CASE \E r : Finish(n, r)
      BY <3>1, <3>2, <1>FinishTypes, Zenon DEF TypeOK, claimVars, storeVars, faultVars
    <3>3. CASE ~\E r : Finish(n, r)
      <4>1. com[n] \in Committing
        BY <2>1, CommitFields, Zenon DEF Check, CasConflicts
      <4>2. CASE Check(n)
        <5>1. com' = [com EXCEPT ![n] = [com[n] EXCEPT !.pc = "build"]] /\ UNCHANGED <<view, established, buildVars>>
          BY <3>3, <4>2, Zenon DEF Check
        <5> QED BY <3>1, <4>1, <5>1, <1>SteppedType, Zenon DEF TypeOK, Commit, claimVars, storeVars, faultVars, buildVars
      <4>3. CASE CasConflicts(n)
        <5>1. /\ com' = [com EXCEPT ![n] = [com[n] EXCEPT !.pc = "rebase", !.left = com[n].left - 1]]
              /\ com[n].left > 1 /\ UNCHANGED <<view, established, buildVars>>
          BY <3>3, <4>3, Zenon DEF CasConflicts
        <5> QED BY <3>1, <4>1, <5>1, <1>SteppedType, Zenon DEF TypeOK, Commit, claimVars, storeVars, faultVars, buildVars
      <4> QED BY <2>1, <4>2, <4>3, Zenon
    <3> QED BY <3>2, <3>3, Zenon
  <2>2. CASE CasLands(n)
    <3>1. Swap(Write(n)) /\ Finish(n, "landed") /\ UNCHANGED <<claimVars, limbo, faultVars, gen>>
          /\ ver' = [ver EXCEPT ![n] = index'.ver]
      BY <2>2, Zenon DEF CasLands
    <3>2. index' \in Index /\ lastStamp' \in Nat /\ ver' \in [Node -> Nat]
      BY <3>1, <1>SwapTypes, WriteType, Zenon DEF TypeOK
    <3> QED BY <3>1, <3>2, <1>FinishTypes, Zenon DEF TypeOK, claimVars, faultVars
  <2>3. CASE CasUnknown(n)
    <3>1. /\ Finish(n, "unknown") /\ UNCHANGED <<claimVars, restarts, ver, gen>>
          /\ lost' = lost + 1
      BY <2>3, Zenon DEF CasUnknown
    <3>2. index' \in Index /\ lastStamp' \in Nat /\ limbo' \subseteq [ix : Index, stamp : Nat]
      <4>1. CASE Swap(Write(n)) /\ UNCHANGED limbo
        BY <4>1, <1>SwapTypes, WriteType, Zenon DEF TypeOK
      <4>2. CASE UNCHANGED storeVars
        BY <4>2, Zenon DEF TypeOK, storeVars
      <4>3. CASE limbo' = limbo \cup {Write(n)} /\ UNCHANGED <<index, lastStamp>>
        BY <4>3, WriteType, Zenon DEF TypeOK
      <4> QED BY <2>3, <4>1, <4>2, <4>3, Zenon DEF CasUnknown
    <3> QED BY <3>1, <3>2, <1>FinishTypes DEF TypeOK, claimVars
  <2> QED BY <2>1, <2>2, <2>3, Zenon
<1>LandLateTypes. ASSUME TypeOK, NEW w, LandLate(w) PROVE TypeOK'
  <2> USE <1>LandLateTypes
  <2>1. w \in [ix : Index, stamp : Nat] /\ Swap(w) /\ limbo' \subseteq limbo
    BY Zenon DEF LandLate, TypeOK
  <2>2. index' \in Index /\ lastStamp' \in Nat /\ limbo' \subseteq [ix : Index, stamp : Nat]
    BY <2>1, <1>SwapTypes, Zenon DEF TypeOK
  <2>3. UNCHANGED <<claimVars, faultVars, engineVars, buildVars, com>>
    BY Zenon DEF LandLate
  <2> QED BY <2>2, <2>3, Zenon DEF TypeOK, claimVars, faultVars, engineVars, buildVars
<1>BeginStepTypes.
    ASSUME TypeOK, NEW n \in Node, FlushPublish(n) \/ Republish(n) \/ MergePublish(n)
    PROVE  TypeOK'
  <2> USE <1>BeginStepTypes
  <2>1. /\ view[n] \in View /\ term[n] \in Nat /\ flush[n].outs \in SUBSET Part /\ flush[n].epoch \in Nat
        /\ merge[n].outs \in SUBSET Part /\ merge[n].stamp \in Nat
    BY EngineFields, Zenon
  <2>2. CASE FlushPublish(n)
    <3>1. com' \in [Node -> Commit]
      BY <2>1, <2>2, <1>BeginTypes, Zenon DEF FlushPublish, View, Max2
    <3> QED BY <2>2, <3>1, Zenon DEF FlushPublish, TypeOK, claimVars, storeVars, faultVars, engineVars, buildVars
  <2>3. CASE Republish(n)
    <3>1. com' \in [Node -> Commit]
      BY <2>1, <2>3, <1>BeginTypes, Zenon DEF Republish, View
    <3> QED BY <2>3, <3>1, Zenon DEF Republish, TypeOK, claimVars, storeVars, faultVars, engineVars, buildVars
  <2>4. CASE MergePublish(n)
    <3>1. com' \in [Node -> Commit]
      <4>1. CASE UNCHANGED com
        BY <4>1, Zenon DEF TypeOK
      <4>2. CASE Begin(n, "merge", (view[n].parts \ merge[n].src) \cup merge[n].outs, view[n].flushed,
                       merge[n].stamp)
        BY <2>1, <4>2, <1>BeginTypes, Zenon DEF View
      <4> QED BY <2>4, <4>1, <4>2, Zenon DEF MergePublish
    <3>2. retired' \in [Node -> SUBSET Part]
      <4>1. CASE merge[n].src \subseteq view[n].parts
        <5>1. UNCHANGED retired
          BY <2>4, <4>1, Zenon DEF MergePublish
        <5> QED BY <5>1, Zenon DEF TypeOK
      <4>2. CASE ~(merge[n].src \subseteq view[n].parts)
        <5>1. retired' = [retired EXCEPT ![n] = retired[n] \cup merge[n].outs]
          BY <2>4, <4>2, Zenon DEF MergePublish
        <5> QED BY <2>1, <5>1, Zenon DEF TypeOK
      <4> QED BY <4>1, <4>2, Zenon
    <3>3. merge' \in [Node -> [src : SUBSET Part, outs : SUBSET Part, stamp : Nat]]
      <4>1. CASE merge[n].src \subseteq view[n].parts
        <5>1. UNCHANGED merge
          BY <2>4, <4>1, Zenon DEF MergePublish
        <5> QED BY <5>1, Zenon DEF TypeOK
      <4>2. CASE ~(merge[n].src \subseteq view[n].parts)
        <5>1. merge' = [merge EXCEPT ![n] = NoMerge]
          BY <2>4, <4>2, Zenon DEF MergePublish
        <5> QED BY <5>1, Zenon DEF TypeOK, NoMerge
      <4> QED BY <4>1, <4>2, Zenon
    <3>4. UNCHANGED <<claimVars, storeVars, faultVars, engineVars, flush, objects, covers>>
      BY <2>4, Zenon DEF MergePublish
    <3> QED BY <3>1, <3>2, <3>3, <3>4, Zenon DEF TypeOK, claimVars, storeVars, faultVars, engineVars
  <2> QED BY <2>2, <2>3, <2>4, Zenon
<1>WorkTypes.
    ASSUME TypeOK, NEW n \in Node,
           \/ \E p \in Part : FlushBegin(n, p)
           \/ FlushAbort(n) \/ Reclaim(n)
           \/ \E src \in SUBSET Part, p \in Part : MergeBegin(n, src, p)
    PROVE  TypeOK'
  <2> USE <1>WorkTypes
  <2>0. view[n] \in View /\ term[n] \in Nat
    BY EngineFields, Zenon
  <2>1. CASE \E p \in Part : FlushBegin(n, p)
    <3>1. PICK p \in Part : FlushBegin(n, p)
      BY <2>1, Zenon
    <3>2. covers' \in [Part -> SUBSET Part] /\ objects' \subseteq Part
      BY <3>1, Zenon DEF FlushBegin, WritePart, TypeOK
    <3>3. flush' \in [Node -> [outs : SUBSET Part, epoch : Nat]]
      <4>1. view[n].flushed + 1 \in Nat
        BY <2>0 DEF View
      <4>2. flush' = [flush EXCEPT ![n] = [outs |-> {p}, epoch |-> view[n].flushed + 1]]
        BY <3>1, Zenon DEF FlushBegin
      <4> QED BY <4>1, <4>2, Zenon DEF TypeOK
    <3>4. UNCHANGED <<claimVars, storeVars, faultVars, engineVars, merge, retired, com>>
      BY <3>1, Zenon DEF FlushBegin
    <3> QED BY <3>2, <3>3, <3>4, Zenon DEF TypeOK, claimVars, storeVars, faultVars, engineVars
  <2>2. CASE FlushAbort(n)
    BY <2>2, Zenon DEF FlushAbort, NoFlush, TypeOK, claimVars, storeVars, faultVars, engineVars
  <2>3. CASE Reclaim(n)
    BY <2>3, Zenon DEF Reclaim, TypeOK, claimVars, storeVars, faultVars, engineVars
  <2>4. CASE \E src \in SUBSET Part, p \in Part : MergeBegin(n, src, p)
    <3>1. PICK src \in SUBSET Part, p \in Part : MergeBegin(n, src, p)
      BY <2>4, Zenon
    <3>2. UNION {covers[q] : q \in src} \in SUBSET Part
      BY DEF TypeOK
    <3>3. covers' \in [Part -> SUBSET Part] /\ objects' \subseteq Part
      BY <3>1, <3>2, ZenonT(30) DEF MergeBegin, WritePart, TypeOK
    <3>4. merge' \in [Node -> [src : SUBSET Part, outs : SUBSET Part, stamp : Nat]]
      <4> DEFINE b == [src |-> src, outs |-> {p}, stamp |-> term[n]]
      <4>1. b \in [src : SUBSET Part, outs : SUBSET Part, stamp : Nat]
        BY <2>0, Zenon
      <4>2. merge' = [merge EXCEPT ![n] = b]
        BY <3>1, Zenon DEF MergeBegin
      <4> HIDE DEF b
      <4> QED BY <4>1, <4>2, Zenon DEF TypeOK
    <3>5. UNCHANGED <<claimVars, storeVars, faultVars, engineVars, flush, retired, com>>
      BY <3>1, Zenon DEF MergeBegin
    <3> QED BY <3>3, <3>4, <3>5, Zenon DEF TypeOK, claimVars, storeVars, faultVars, engineVars
  <2> QED BY <2>1, <2>2, <2>3, <2>4, Zenon
<1>RestartTypes. ASSUME TypeOK, NEW n \in Node, Restart(n) PROVE TypeOK'
  <2> USE <1>RestartTypes
  <2>1. index.ver \in Nat /\ index.gen \in Gen /\ Opened(n) \in View
    BY EngineFields, <1>LoadTypes, Zenon
  <2>2. /\ owner' \in Node \cup {None} /\ term' \in [Node -> Nat] /\ established' \in [Node -> Nat]
        /\ lastTerm' \in Nat /\ lost' \in Nat /\ restarts' \in Nat
    BY DEF Restart, TypeOK
  <2>3. limbo' \subseteq [ix : Index, stamp : Nat] /\ index' \in Index /\ lastStamp' \in Nat
    BY WriteType, Zenon DEF Restart, TypeOK
  <2>4. ver' \in [Node -> Nat] /\ gen' \in [Node -> Gen] /\ view' \in [Node -> View]
    BY <2>1, Zenon DEF Restart, TypeOK
  <2>5. /\ flush' \in [Node -> [outs : SUBSET Part, epoch : Nat]]
        /\ merge' \in [Node -> [src : SUBSET Part, outs : SUBSET Part, stamp : Nat]]
    BY Zenon DEF Restart, TypeOK, NoFlush, NoMerge
  <2>6. com' \in [Node -> Commit] /\ retired' \in [Node -> SUBSET Part]
    BY Zenon DEF Restart, TypeOK, Commit
  <2>7. objects' \subseteq Part /\ covers' \in [Part -> SUBSET Part]
    BY Zenon DEF Restart, TypeOK
  <2> QED BY <2>2, <2>3, <2>4, <2>5, <2>6, <2>7, Zenon DEF TypeOK
<1>StutterTypes. ASSUME TypeOK, UNCHANGED vars PROVE TypeOK'
  BY <1>StutterTypes, Zenon DEF TypeOK, vars, claimVars, storeVars, faultVars, engineVars, buildVars
<1>TypeFacts.
    ASSUME IInv
    PROVE  /\ lastTerm \in Nat /\ lastStamp \in Nat /\ com \in [Node -> Commit]
           /\ merge \in [Node -> [src : SUBSET Part, outs : SUBSET Part, stamp : Nat]]
  BY <1>TypeFacts, Zenon DEF IInv, TypeOK
\* A merge's stamp is one that was there, or none.
<1>ClearedStamps.
    ASSUME IInv, NEW n \in Node, merge' = merge \/ merge' = [merge EXCEPT ![n] = NoMerge]
    PROVE  \A m \in Node : merge'[m].stamp <= lastTerm
  <2> USE <1>ClearedStamps
  <2>1. CASE merge' = merge
    BY <2>1, Zenon DEF IInv, StampInv
  <2>2. CASE merge' = [merge EXCEPT ![n] = NoMerge]
    <3>1. NoMerge.stamp <= lastTerm
      BY <1>TypeFacts DEF NoMerge
    <3>2. \A m \in Node : merge[m].stamp <= lastTerm
      BY Zenon DEF IInv, StampInv
    <3>3. merge \in [Node -> [src : SUBSET Part, outs : SUBSET Part, stamp : Nat]]
      BY <1>TypeFacts, Zenon
    <3> QED BY <2>2, <3>1, <3>2, <3>3, Zenon
  <2> QED BY <2>1, <2>2, Zenon
<1>FinishFields.
    ASSUME IInv, NEW n \in Node, NEW r, Finish(n, r)
    PROVE  /\ com'[n].pc = "idle" /\ com'[n].stamp = 0
           /\ \A m \in Node \ {n} : com'[m] = com[m]
           /\ \A m \in Node : merge'[m].stamp <= lastTerm
  <2> USE <1>FinishFields
  <2>1. com' = [com EXCEPT ![n] = NoCommit] /\ NoCommit.pc = "idle" /\ NoCommit.stamp = 0
    BY Zenon DEF Finish, NoCommit, StartCommit
  <2>2. com'[n] = NoCommit /\ \A m \in Node \ {n} : com'[m] = com[m]
    BY <2>1, <1>TypeFacts, Zenon
  <2>3. merge' = merge \/ merge' = [merge EXCEPT ![n] = NoMerge]
    <3>1. merge' = [merge EXCEPT ![n] = IF com[n].kind = "merge" THEN NoMerge ELSE merge[n]]
      BY Zenon DEF Finish
    <3>2. merge \in [Node -> [src : SUBSET Part, outs : SUBSET Part, stamp : Nat]]
      BY <1>TypeFacts, Zenon
    <3> QED BY <3>1, <3>2, Zenon
  <2>4. \A m \in Node : merge'[m].stamp <= lastTerm
    BY <2>3, <1>ClearedStamps, Zenon
  <2> QED BY <2>1, <2>2, <2>4, Zenon
\* The terms a node can stamp an operation with.
<1>TermBound. ASSUME IInv, NEW n \in Node PROVE term[n] <= lastTerm
  <2> USE <1>TermBound
  <2>1. term \in [Node -> Nat] /\ lastTerm \in Nat
    BY Zenon DEF IInv, TypeOK
  <2>2. term[n] # 0 => term[n] = lastTerm
    BY Zenon DEF IInv, ClaimInv
  <2> QED BY <2>1, <2>2
<1>ClaimStep.
    ASSUME IInv, NEW n \in Node, Acquire(n) \/ Fence(n) \/ Renew(n) \/ Expire
    PROVE  IInv'
  <2> USE <1>ClaimStep
  <2>1. TypeOK'
    BY <1>ClaimTypes, Zenon DEF IInv
  <2>2. UNCHANGED <<index, limbo, lastStamp, ver, gen, merge, com>>
    BY Zenon DEF Acquire, Fence, Renew, Expire, storeVars, engineVars, buildVars
  <2>3. lastTerm \in Nat /\ lastTerm' \in Nat /\ lastStamp \in Nat /\ lastTerm' >= lastTerm
    <3>1. lastTerm \in Nat /\ lastStamp \in Nat
      BY <1>TypeFacts, Zenon
    <3>2. lastTerm' = lastTerm \/ lastTerm' = lastTerm + 1
      BY Zenon DEF Acquire, Fence, Renew, Expire
    <3> QED BY <3>1, <3>2
  <2>4. ClaimInv'
    <3>1. CASE Acquire(n)
      <4>1. \A m \in Node : term[m] = 0
        BY <3>1, NodeType, Zenon DEF Acquire, IInv, ClaimInv
      <4>2. owner' = n /\ lastTerm' = lastTerm + 1 /\ term' = [term EXCEPT ![n] = lastTerm + 1] /\ Clustered
        BY <3>1, Zenon DEF Acquire
      <4>3. lastStamp' <= lastTerm'
        <5>1. lastStamp <= lastTerm
          BY Zenon DEF IInv, ClaimInv
        <5> QED BY <2>2, <2>3, <4>2, <5>1
      <4>4. \A m \in Node : term'[m] # 0 => owner' = m /\ term'[m] = lastTerm'
        <5>1. term \in [Node -> Nat]
          BY Zenon DEF IInv, TypeOK
        <5> QED BY <4>1, <4>2, <5>1, Zenon
      <4> QED BY <4>2, <4>3, <4>4, Zenon DEF ClaimInv
    <3>2. CASE Fence(n)
      BY <3>2, Zenon DEF Fence, IInv, TypeOK, ClaimInv, storeVars
    <3>3. CASE Renew(n)
      BY <3>3, Zenon DEF Renew, IInv, TypeOK, ClaimInv, storeVars
    <3>4. CASE Expire
      BY <3>4, Zenon DEF Expire, IInv, TypeOK, ClaimInv, storeVars
    <3> QED BY <3>1, <3>2, <3>3, <3>4, Zenon
  <2>5. StampInv'
    <3>1. \A m \in Node : com[m].stamp \in Nat /\ merge[m].stamp \in Nat
      BY CommitFields, EngineFields, Zenon DEF IInv
    <3>2. \A m \in Node : com[m].stamp <= lastTerm /\ merge[m].stamp <= lastTerm
      BY Zenon DEF IInv, StampInv
    <3>3. \A m \in Node : com[m].stamp <= lastTerm' /\ merge[m].stamp <= lastTerm'
      BY <2>3, <3>1, <3>2
    <3> QED BY <2>2, <3>3, Zenon DEF StampInv
  <2>6. BuildInv' /\ CasInv' /\ KnowInv'
    BY <2>2, Zenon DEF IInv, BuildInv, CasInv, KnowInv
  <2>7. LimboInv'
    BY <2>2, <2>3 DEF IInv, TypeOK, LimboInv, Fit
  <2>8. WriteInv'
    BY <2>2, Zenon DEF IInv, WriteInv, Fit, Write
  <2> QED BY <2>1, <2>4, <2>5, <2>6, <2>7, <2>8, Zenon DEF IInv
<1>LeavesStep.
    ASSUME IInv, NEW n \in Node, Leaves(n), UNCHANGED <<index, lastStamp, lastTerm>>
    PROVE  LimboInv'
  <2> USE <1>LeavesStep
  <2>1. ASSUME NEW w \in limbo' PROVE Fit(w) /\ w.stamp <= lastTerm
    <3>1. CASE w \in limbo
      BY <3>1, Zenon DEF IInv, LimboInv
    <3>2. CASE com[n].pc = "cas" /\ w = Write(n)
      BY <3>2, Zenon DEF IInv, WriteInv, StampInv, Write
    <3> QED BY <3>1, <3>2, Zenon DEF Leaves
  <2> QED BY <2>1, Zenon DEF LimboInv, Fit
<1>LocalStep. ASSUME IInv, TypeOK', NEW n \in Node, Local(n) PROVE IInv'
  <2> USE <1>LocalStep
  <2>1. ClaimInv'
    BY Zenon DEF IInv, ClaimInv, Local
  <2>2. StampInv'
    BY Zenon DEF IInv, StampInv, Local
  <2>3. BuildInv'
    BY Zenon DEF IInv, BuildInv, Local
  <2>4. CasInv'
    BY Zenon DEF IInv, CasInv, Local
  <2>5. KnowInv'
    BY Zenon DEF IInv, KnowInv, Local
  <2>6. LimboInv'
    BY <1>LeavesStep, Zenon DEF Local
  <2>7. WriteInv'
    BY Zenon DEF IInv, WriteInv, Fit, Write, Local
  <2> QED BY <2>1, <2>2, <2>3, <2>4, <2>5, <2>6, <2>7, Zenon DEF IInv
<1>FinishStep.
    ASSUME IInv, TypeOK', NEW n \in Node, NEW r, Finish(n, r),
           UNCHANGED <<owner, lastTerm, term, index, lastStamp, ver, gen>>, Leaves(n)
    PROVE  IInv'
  <2> USE <1>FinishStep
  <2>1. /\ com'[n].pc = "idle" /\ com'[n].stamp = 0
        /\ \A m \in Node \ {n} : com'[m] = com[m]
        /\ \A m \in Node : merge'[m].stamp <= lastTerm
    BY <1>FinishFields, Zenon
  <2>2. 0 <= lastTerm
    BY <1>TypeFacts
  <2>3. Local(n)
    BY <2>1, <2>2, Zenon DEF Local
  <2> QED BY <2>3, <1>LocalStep, Zenon
<1>CheckStep. ASSUME IInv, NEW n \in Node, Check(n) PROVE IInv'
  <2> USE <1>CheckStep
  <2>1. TypeOK'
    BY <1>CommitStepTypes, Zenon DEF IInv
  <2>2. UNCHANGED <<owner, lastTerm, term, index, lastStamp, limbo, ver, gen>>
    BY Zenon DEF Check, claimVars, storeVars
  <2>3. CASE ~Tenure(n, com[n].stamp)
    BY <2>1, <2>2, <2>3, <1>FinishStep, Zenon DEF Check, Leaves
  <2>4. CASE Tenure(n, com[n].stamp)
    <3> DEFINE c == [com[n] EXCEPT !.pc = "build"]
    <3>1. com' = [com EXCEPT ![n] = c] /\ UNCHANGED merge
      BY <2>4, Zenon DEF Check, buildVars
    <3>2. c.pc = "build" /\ c.stamp = com[n].stamp
      <4>1. com[n] \in Committing
        BY CommitFields, Zenon DEF IInv, Check
      <4> QED BY <4>1, Zenon DEF Committing
    <3> HIDE DEF c
    <3>3. com[n].stamp \in Nat /\ lastStamp \in Nat /\ lastTerm \in Nat /\ com[n].stamp <= lastTerm
      BY CommitFields, Zenon DEF IInv, TypeOK, StampInv
    <3>4. com[n].stamp >= lastStamp
      <4>1. lastStamp <= lastTerm /\ (~Clustered => lastTerm = 0) /\ (term[n] # 0 => term[n] = lastTerm)
        BY Zenon DEF IInv, ClaimInv
      <4>2. ~Clustered \/ (term[n] # 0 /\ com[n].stamp = term[n])
        BY <2>4, Zenon DEF Tenure, CheckTenure
      <4>3. CASE ~Clustered
        <5>1. lastTerm = 0
          BY <4>1, <4>3, Zenon
        <5> QED BY <3>3, <4>1, <5>1
      <4>4. CASE term[n] # 0 /\ com[n].stamp = term[n]
        <5>1. com[n].stamp = lastTerm
          BY <4>1, <4>4, Zenon
        <5> QED BY <3>3, <4>1, <5>1, Zenon
      <4> QED BY <4>2, <4>3, <4>4, Zenon
    <3>5. com'[n] = c /\ \A m \in Node \ {n} : com'[m] = com[m]
      BY <3>1, Zenon DEF IInv, TypeOK
    <3>6. \A m \in Node : merge'[m].stamp <= lastTerm
      BY <3>1, Zenon DEF IInv, StampInv
    <3>7. Local(n)
      BY <2>2, <3>2, <3>3, <3>4, <3>5, <3>6, Zenon DEF Local, Leaves
    <3> QED BY <2>1, <3>7, <1>LocalStep, Zenon
  <2> QED BY <2>3, <2>4, Zenon
<1>CasConflictsStep. ASSUME IInv, NEW n \in Node, CasConflicts(n) PROVE IInv'
  <2> USE <1>CasConflictsStep
  <2>1. TypeOK'
    BY <1>CommitStepTypes, Zenon DEF IInv
  <2>2. UNCHANGED <<owner, lastTerm, term, index, lastStamp, limbo, ver, gen>>
    BY Zenon DEF CasConflicts, claimVars, storeVars
  <2>3. CASE ~(com[n].left > 1)
    BY <2>1, <2>2, <2>3, <1>FinishStep, Zenon DEF CasConflicts, Leaves
  <2>4. CASE com[n].left > 1
    <3> DEFINE c == [com[n] EXCEPT !.pc = "rebase", !.left = com[n].left - 1]
    <3>1. com' = [com EXCEPT ![n] = c] /\ UNCHANGED merge
      BY <2>4, Zenon DEF CasConflicts, buildVars
    <3>2. c.pc = "rebase" /\ c.stamp = com[n].stamp
      <4>1. com[n] \in Committing
        BY CommitFields, Zenon DEF IInv, CasConflicts
      <4> QED BY <4>1, Zenon DEF Committing
    <3> HIDE DEF c
    <3>3. com[n].stamp <= lastTerm /\ \A m \in Node : merge'[m].stamp <= lastTerm
      BY <3>1, Zenon DEF IInv, StampInv
    <3>4. com'[n] = c /\ \A m \in Node \ {n} : com'[m] = com[m]
      BY <3>1, Zenon DEF IInv, TypeOK
    <3>5. Local(n)
      BY <2>2, <3>2, <3>3, <3>4, Zenon DEF Local, Leaves
    <3> QED BY <2>1, <3>5, <1>LocalStep, Zenon
  <2> QED BY <2>3, <2>4, Zenon
<1>BeginFields.
    ASSUME IInv, NEW n \in Node, NEW k, NEW P, NEW e, NEW t, Begin(n, k, P, e, t)
    PROVE  com'[n].pc = "check" /\ com'[n].stamp = t /\ \A m \in Node \ {n} : com'[m] = com[m]
  <2> USE <1>BeginFields
  <2> DEFINE c == StartCommit("check", k, P, e, t, Attempts)
  <2>1. com' = [com EXCEPT ![n] = c]
    BY Zenon DEF Begin
  <2>2. c.pc = "check" /\ c.stamp = t
    BY Zenon DEF StartCommit
  <2> HIDE DEF c
  <2> QED BY <2>1, <2>2, <1>TypeFacts, Zenon
<1>BeginStep.
    ASSUME IInv, NEW n \in Node, FlushPublish(n) \/ Republish(n) \/ MergePublish(n)
    PROVE  IInv'
  <2> USE <1>BeginStep
  <2>1. TypeOK'
    BY <1>BeginStepTypes, Zenon DEF IInv
  <2>2. UNCHANGED <<owner, lastTerm, term, index, lastStamp, limbo, ver, gen>>
    BY Zenon DEF FlushPublish, Republish, MergePublish, claimVars, storeVars, engineVars
  <2>3. lastTerm \in Nat /\ term[n] <= lastTerm /\ merge[n].stamp <= lastTerm
    BY <1>TermBound, Zenon DEF IInv, TypeOK, StampInv
  <2>4. \A m \in Node : merge'[m].stamp <= lastTerm
    <3>1. merge' = merge \/ merge' = [merge EXCEPT ![n] = NoMerge]
      BY Zenon DEF FlushPublish, Republish, MergePublish, buildVars
    <3> QED BY <3>1, <1>ClearedStamps, Zenon
  <2>5. \/ com' = com /\ com[n].pc = "idle"
        \/ \E k, P, e, t : t \in {term[n], merge[n].stamp} /\ Begin(n, k, P, e, t)
    BY Zenon DEF FlushPublish, Republish, MergePublish, Idle
  <2>6. com'[n].pc \in {"idle", "check"} /\ com'[n].stamp <= lastTerm /\ \A m \in Node \ {n} : com'[m] = com[m]
    <3>1. CASE com' = com /\ com[n].pc = "idle"
      BY <3>1, Zenon DEF IInv, StampInv
    <3>2. ASSUME NEW k, NEW P, NEW e, NEW t, t \in {term[n], merge[n].stamp}, Begin(n, k, P, e, t)
          PROVE  com'[n].pc = "check" /\ com'[n].stamp <= lastTerm /\ \A m \in Node \ {n} : com'[m] = com[m]
      <4>1. com'[n].pc = "check" /\ com'[n].stamp = t /\ \A m \in Node \ {n} : com'[m] = com[m]
        BY <3>2, <1>BeginFields, Zenon
      <4> QED BY <2>3, <3>2, <4>1, Zenon
    <3> QED BY <2>5, <3>1, <3>2, Zenon
  <2>7. Local(n)
    BY <2>2, <2>4, <2>6, Zenon DEF Local, Leaves
  <2> QED BY <2>1, <2>7, <1>LocalStep, Zenon
<1>WorkStep.
    ASSUME IInv, NEW n \in Node,
           \/ \E p \in Part : FlushBegin(n, p)
           \/ FlushAbort(n) \/ Reclaim(n)
           \/ \E src \in SUBSET Part, p \in Part : MergeBegin(n, src, p)
    PROVE  IInv'
  <2> USE <1>WorkStep
  <2>1. TypeOK'
    BY <1>WorkTypes, Zenon DEF IInv
  <2>2. UNCHANGED <<owner, lastTerm, term, index, lastStamp, limbo, ver, gen, com>>
    BY Zenon DEF FlushBegin, FlushAbort, Reclaim, MergeBegin, claimVars, storeVars, engineVars
  <2>3. ASSUME \E src \in SUBSET Part, p \in Part : MergeBegin(n, src, p)
        PROVE  \A m \in Node : merge'[m].stamp <= lastTerm
    <3>1. PICK src \in SUBSET Part, p \in Part : MergeBegin(n, src, p)
      BY <2>3, Zenon
    <3> DEFINE b == [src |-> src, outs |-> {p}, stamp |-> term[n]]
    <3>2. merge' = [merge EXCEPT ![n] = b] /\ b.stamp = term[n]
      BY <3>1, Zenon DEF MergeBegin
    <3> HIDE DEF b
    <3>3. merge \in [Node -> [src : SUBSET Part, outs : SUBSET Part, stamp : Nat]]
      BY Zenon DEF IInv, TypeOK
    <3> QED BY <3>2, <3>3, <1>TermBound, Zenon DEF IInv, StampInv
  <2>4. \A m \in Node : merge'[m].stamp <= lastTerm
    <3>1. CASE ~\E src \in SUBSET Part, p \in Part : MergeBegin(n, src, p)
      BY <3>1, Zenon DEF FlushBegin, FlushAbort, Reclaim, IInv, StampInv
    <3> QED BY <2>3, <3>1, Zenon
  <2>5. ClaimInv'
    BY <2>2, Zenon DEF IInv, ClaimInv
  <2>6. StampInv'
    BY <2>2, <2>4, Zenon DEF IInv, StampInv
  <2>7. BuildInv' /\ CasInv' /\ KnowInv'
    BY <2>2, Zenon DEF IInv, BuildInv, CasInv, KnowInv
  <2>8. LimboInv' /\ WriteInv'
    BY <2>2, Zenon DEF IInv, LimboInv, WriteInv, Fit, Write
  <2> QED BY <2>1, <2>5, <2>6, <2>7, <2>8, Zenon DEF IInv
<1>LearnsStep. ASSUME IInv, TypeOK', ClaimInv', NEW n \in Node, Learns(n) PROVE IInv'
  <2> USE <1>LearnsStep
  <2>2. StampInv'
    BY Zenon DEF IInv, StampInv, Learns
  <2>3. BuildInv'
    BY Zenon DEF IInv, BuildInv, Learns
  <2>4. CasInv'
    BY ZenonT(30) DEF IInv, CasInv, Learns
  <2>5. KnowInv'
    <3>1. index.ver \in Nat
      BY EngineFields, Zenon DEF IInv
    <3>2. ver'[n] = index'.ver /\ ~Less(gen'[n], index'.gen)
      BY Zenon DEF Learns
    <3>3. ASSUME NEW m \in Node \ {n}
          PROVE  ver'[m] <= index'.ver /\ (ver'[m] = index'.ver => ~Less(gen'[m], index'.gen))
      <4>1. ver'[m] = ver[m] /\ gen'[m] = gen[m] /\ index' = index
        BY Zenon DEF Learns
      <4> QED BY <4>1, Zenon DEF IInv, KnowInv
    <3>4. index'.ver = index.ver
      BY Zenon DEF Learns
    <3>5. ver'[n] <= index'.ver
      BY <3>1, <3>2, <3>4
    <3>6. \A m \in Node : ver'[m] <= index'.ver /\ (ver'[m] = index'.ver => ~Less(gen'[m], index'.gen))
      BY <3>2, <3>3, <3>5, Zenon
    <3> QED BY <3>6, Zenon DEF KnowInv
  <2>6. LimboInv'
    BY <1>LeavesStep, Zenon DEF Learns
  <2>7. WriteInv'
    BY Zenon DEF IInv, WriteInv, Fit, Write, Learns
  <2> QED BY <2>2, <2>3, <2>4, <2>5, <2>6, <2>7, Zenon DEF IInv
<1>LoadStep. ASSUME IInv, NEW n \in Node, RefreshReplica(n) \/ Establish(n) PROVE IInv'
  <2> USE <1>LoadStep
  <2>1. TypeOK'
    BY <1>LoadStepTypes, Zenon DEF IInv
  <2>2. UNCHANGED <<claimVars, storeVars, merge>>
    BY Zenon DEF RefreshReplica, Establish, buildVars
  <2>3. ver' = [ver EXCEPT ![n] = index.ver] /\ gen' = [gen EXCEPT ![n] = index.gen]
    BY Zenon DEF RefreshReplica, Establish, LoadParts
  <2>4. /\ ver'[n] = index.ver /\ gen'[n] = index.gen
        /\ \A m \in Node \ {n} : ver'[m] = ver[m] /\ gen'[m] = gen[m]
    BY <2>3, Zenon DEF IInv, TypeOK
  <2>5. ~Less(gen'[n], index.gen)
    BY <2>4, EngineFields, LessLaws, Zenon DEF IInv
  <2>6. \/ com' = com /\ com[n].pc = "idle"
        \/ term[n] # 0 /\ \E c : c.pc = "build" /\ c.stamp = term[n] /\ com' = [com EXCEPT ![n] = c]
    BY Zenon DEF RefreshReplica, Establish, Idle, StartCommit
  <2>7. /\ \A m \in Node \ {n} : com'[m] = com[m]
        /\ com'[n].pc # "cas" /\ com'[n].stamp <= lastTerm
        /\ com'[n].pc = "build" => com'[n].stamp >= lastStamp
    <3>1. lastTerm \in Nat /\ lastStamp \in Nat /\ com \in [Node -> Commit]
      BY Zenon DEF IInv, TypeOK
    <3>2. CASE com' = com /\ com[n].pc = "idle"
      BY <3>2, Zenon DEF IInv, StampInv
    <3>3. CASE term[n] # 0 /\ \E c : c.pc = "build" /\ c.stamp = term[n] /\ com' = [com EXCEPT ![n] = c]
      <4>1. term[n] = lastTerm /\ lastStamp <= lastTerm
        BY <3>3, Zenon DEF IInv, ClaimInv
      <4> QED BY <3>1, <3>3, <4>1
    <3> QED BY <2>6, <3>2, <3>3, Zenon
  <2>8. ClaimInv' /\ \A m \in Node : merge'[m].stamp <= lastTerm
    BY <2>2, Zenon DEF IInv, ClaimInv, StampInv, claimVars, storeVars
  <2>9. Learns(n)
    BY <2>2, <2>4, <2>5, <2>7, <2>8, Zenon DEF Learns, Leaves, claimVars, storeVars
  <2> QED BY <2>1, <2>8, <2>9, <1>LearnsStep, Zenon
<1>RebaseStep. ASSUME IInv, NEW n \in Node, Rebase(n) PROVE IInv'
  <2> USE <1>RebaseStep
  <2>1. TypeOK'
    BY <1>RebaseTypes, Zenon DEF IInv
  <2>2. UNCHANGED <<claimVars, storeVars, merge>>
    BY Zenon DEF Rebase, buildVars
  <2>3. /\ ver'[n] = index.ver /\ gen'[n] = MaxGen(gen[n], index.gen)
        /\ \A m \in Node \ {n} : ver'[m] = ver[m] /\ gen'[m] = gen[m]
    BY Zenon DEF Rebase, IInv, TypeOK
  <2>4. ~Less(gen'[n], index.gen)
    BY <2>3, EngineFields, <1>MaxGenType, Zenon DEF IInv
  <2> DEFINE c == [com[n] EXCEPT !.pc = "check"]
  <2>5. com' = [com EXCEPT ![n] = c]
    BY Zenon DEF Rebase
  <2>6. c.pc = "check" /\ c.stamp = com[n].stamp
    <3>1. com[n] \in Committing
      BY CommitFields, Zenon DEF IInv, Rebase
    <3> QED BY <3>1, Zenon DEF Committing
  <2> HIDE DEF c
  <2>7. com'[n] = c /\ \A m \in Node \ {n} : com'[m] = com[m]
    BY <2>5, Zenon DEF IInv, TypeOK
  <2>8. com[n].stamp <= lastTerm
    BY Zenon DEF IInv, StampInv
  <2>9. ClaimInv' /\ \A m \in Node : merge'[m].stamp <= lastTerm
    BY <2>2, Zenon DEF IInv, ClaimInv, StampInv, claimVars, storeVars
  <2>10. Learns(n)
    BY <2>2, <2>3, <2>4, <2>6, <2>7, <2>8, <2>9, Zenon DEF Learns, Leaves, claimVars, storeVars
  <2> QED BY <2>1, <2>9, <2>10, <1>LearnsStep, Zenon
<1>BuildStep. ASSUME IInv, NEW n \in Node, Build(n) PROVE IInv'
  <2> USE <1>BuildStep
  <2> DEFINE g == NextGen(gen[n], term[n])
             ix == Candidate(n, g)
             c == [com[n] EXCEPT !.pc = "cas", !.ix = ix]
  <2>1. TypeOK'
    BY <1>BuildTypes, Zenon DEF IInv
  <2>2. UNCHANGED <<owner, lastTerm, term, index, lastStamp, limbo, ver, merge>>
    BY Zenon DEF Build, claimVars, storeVars, buildVars
  <2>3. g \in Gen /\ Less(gen[n], g) /\ gen[n] \in Gen /\ index.gen \in Gen
    BY EngineFields, <1>NextGenType, Zenon DEF IInv
  <2>4. ix.gen = g /\ ix.ver = ver[n] + 1
    BY Zenon DEF Candidate
  <2>5. com[n] \in Committing /\ com[n].pc = "build"
    BY CommitFields, Zenon DEF IInv, Build
  <2>6. com' = [com EXCEPT ![n] = c] /\ gen' = [gen EXCEPT ![n] = g]
    BY Zenon DEF Build
  <2> HIDE DEF g, ix
  <2>7. c.pc = "cas" /\ c.stamp = com[n].stamp /\ c.ix = ix
    BY <2>5, Zenon DEF Committing
  <2> HIDE DEF c
  <2>8. /\ com'[n] = c /\ gen'[n] = g
        /\ \A m \in Node \ {n} : com'[m] = com[m] /\ gen'[m] = gen[m]
    BY <2>6, Zenon DEF IInv, TypeOK
  <2>9. ver[n] \in Nat /\ index.ver \in Nat /\ ver[n] <= index.ver
    BY EngineFields, Zenon DEF IInv, KnowInv
  <2>10. ver[n] = index.ver => Less(index.gen, g) /\ ~Less(g, index.gen) /\ com[n].stamp >= lastStamp
    BY <2>3, <2>5, LessLaws, Zenon DEF IInv, KnowInv, BuildInv
  <2>11. ClaimInv'
    BY <2>2, Zenon DEF IInv, ClaimInv
  <2>12. StampInv'
    BY <2>2, <2>7, <2>8, Zenon DEF IInv, StampInv
  <2>13. BuildInv'
    BY <2>2, <2>7, <2>8, Zenon DEF IInv, BuildInv
  <2>14. CasInv'
    BY <2>2, <2>4, <2>7, <2>8, ZenonT(30) DEF IInv, CasInv
  <2>15. KnowInv'
    BY <2>2, <2>8, <2>10, Zenon DEF IInv, KnowInv
  <2>16. LimboInv'
    BY <2>2, Zenon DEF IInv, LimboInv, Fit
  <2>17. WriteInv'
    <3>1. Fit(Write(n))'
      <4>1. com'[n].ix.ver = ver[n] + 1 /\ com'[n].ix.gen = g /\ com'[n].stamp = com[n].stamp
        BY <2>4, <2>7, <2>8, Zenon
      <4>2. ver[n] + 1 <= index.ver + 1 /\ (ver[n] + 1 = index.ver + 1 => ver[n] = index.ver)
        BY <2>9
      <4> QED BY <2>2, <2>10, <4>1, <4>2, Zenon DEF Fit, Write
    <3>2. ASSUME NEW m \in Node \ {n}, com'[m].pc = "cas" PROVE Fit(Write(m))'
      BY <2>2, <2>8, <3>2, Zenon DEF IInv, WriteInv, Fit, Write
    <3> QED BY <3>1, <3>2, Zenon DEF WriteInv
  <2> QED BY <2>1, <2>11, <2>12, <2>13, <2>14, <2>15, <2>16, <2>17, Zenon DEF IInv
<1>LandsStep. ASSUME IInv, TypeOK', NEW w, Lands(w) PROVE IInv'
  <2> USE <1>LandsStep
  <2>0. /\ w \in [ix : Index, stamp : Nat] /\ w.stamp <= lastTerm /\ limbo' \subseteq limbo
        /\ index' = w.ix /\ lastStamp' = w.stamp
        /\ UNCHANGED <<owner, lastTerm, term, gen>>
    BY Zenon DEF Lands, Swap, claimVars
  <2>1. index'.ver = index.ver + 1 /\ index.ver \in Nat
    <3>1. index \in Index
      BY Zenon DEF IInv, TypeOK
    <3> QED BY <3>1, Zenon DEF Lands, Swap, Index
  <2>2. index'.gen \in Gen
    BY <2>0, Zenon DEF Index
  <2>3. \A m \in Node : ver[m] \in Nat /\ ver[m] <= index.ver
    BY EngineFields, Zenon DEF IInv, KnowInv
  <2>4. \A m \in Node :
          /\ com'[m] = com[m] \/ (com'[m].pc = "idle" /\ com'[m].stamp = 0)
          /\ ver'[m] = ver[m] \/ (com'[m].pc = "idle" /\ ver'[m] = index'.ver /\ index'.gen = gen'[m])
    BY <2>0, Zenon DEF Lands
  <2>5. ClaimInv'
    BY <2>0, Zenon DEF IInv, ClaimInv
  <2>6. StampInv'
    <3>1. 0 <= lastTerm
      BY <1>TypeFacts
    <3>2. \A m \in Node : com'[m].stamp <= lastTerm
      BY <2>4, <3>1, Zenon DEF IInv, StampInv
    <3>3. \A m \in Node : merge'[m].stamp <= lastTerm
      BY Zenon DEF Lands
    <3> QED BY <2>0, <3>2, <3>3, Zenon DEF StampInv
  <2>7. BuildInv'
    <3>1. ASSUME NEW m \in Node, com'[m].pc = "build" PROVE ver'[m] # index'.ver
      <4>1. ver'[m] = ver[m]
        BY <2>4, <3>1, Zenon
      <4>2. ver[m] \in Nat /\ ver[m] <= index.ver
        BY <2>3, Zenon
      <4> QED BY <2>1, <4>1, <4>2
    <3> QED BY <3>1, Zenon DEF BuildInv
  <2>8. CasInv'
    <3>1. ASSUME NEW m \in Node, com'[m].pc = "cas" PROVE com'[m] = com[m] /\ ver'[m] = ver[m] /\ gen'[m] = gen[m]
      BY <2>0, <2>4, <3>1, Zenon
    <3> QED BY <3>1, Zenon DEF IInv, CasInv
  <2>9. KnowInv'
    <3>1. ASSUME NEW m \in Node PROVE ver'[m] <= index'.ver /\ (ver'[m] = index'.ver => ~Less(gen'[m], index'.gen))
      <4>1. CASE ver'[m] = ver[m]
        <5>1. ver[m] \in Nat /\ ver[m] <= index.ver
          BY <2>3, Zenon
        <5>2. ver[m] <= index'.ver /\ ver[m] # index'.ver
          BY <2>1, <5>1
        <5> QED BY <4>1, <5>2, Zenon
      <4>2. CASE ver'[m] = index'.ver /\ index'.gen = gen'[m]
        <5>1. ~Less(gen'[m], index'.gen)
          BY <2>2, <4>2, LessLaws, Zenon
        <5>2. index'.ver <= index'.ver
          BY <2>1
        <5> QED BY <4>2, <5>1, <5>2, Zenon
      <4> QED BY <2>4, <4>1, <4>2, Zenon
    <3> QED BY <3>1, Zenon DEF KnowInv
  <2>10. LimboInv'
    <3>1. ASSUME NEW v \in limbo' PROVE Fit(v)' /\ v.stamp <= lastTerm
      <4>1. v \in limbo /\ v \in [ix : Index, stamp : Nat]
        BY <2>0, Zenon DEF IInv, TypeOK
      <4>2. v.ix.ver <= index.ver + 1 /\ v.stamp <= lastTerm
        BY <4>1, Zenon DEF IInv, LimboInv, Fit
      <4>3. v.ix.ver \in Nat
        BY <4>1, Zenon DEF Index
      <4>4. v.ix.ver <= index'.ver + 1 /\ v.ix.ver # index'.ver + 1
        BY <2>1, <4>2, <4>3
      <4> QED BY <4>2, <4>4, Zenon DEF Fit
    <3> QED BY <2>0, <3>1, Zenon DEF LimboInv
  <2>11. WriteInv'
    <3>1. ASSUME NEW m \in Node, com'[m].pc = "cas" PROVE Fit(Write(m))'
      <4>1. com'[m] = com[m]
        BY <2>4, <3>1, Zenon
      <4>2. com[m].ix.ver <= index.ver + 1
        BY <3>1, <4>1, Zenon DEF IInv, WriteInv, Fit, Write
      <4>3. com[m].ix.ver \in Nat
        BY CommitFields, Zenon DEF IInv, Index
      <4>4. com[m].ix.ver <= index'.ver + 1 /\ com[m].ix.ver # index'.ver + 1
        BY <2>1, <4>2, <4>3
      <4> QED BY <4>1, <4>4, Zenon DEF Fit, Write
    <3> QED BY <3>1, Zenon DEF WriteInv
  <2> QED BY <2>5, <2>6, <2>7, <2>8, <2>9, <2>10, <2>11, Zenon DEF IInv
<1>CasLandsStep. ASSUME IInv, NEW n \in Node, CasLands(n) PROVE IInv'
  <2> USE <1>CasLandsStep
  <2>1. TypeOK'
    BY <1>CommitStepTypes, Zenon DEF IInv
  <2>2. /\ com[n].pc = "cas" /\ Swap(Write(n)) /\ Finish(n, "landed")
        /\ UNCHANGED <<claimVars, limbo, gen>> /\ ver' = [ver EXCEPT ![n] = index'.ver]
    BY Zenon DEF CasLands
  <2>3. ver'[n] = index'.ver /\ \A m \in Node \ {n} : ver'[m] = ver[m]
    BY <2>2, Zenon DEF IInv, TypeOK
  <2>4. Write(n) \in [ix : Index, stamp : Nat] /\ Write(n).stamp <= lastTerm /\ Write(n).ix.gen = gen[n]
    BY <2>2, WriteType, Zenon DEF IInv, StampInv, CasInv, Write
  <2>5. /\ com'[n].pc = "idle" /\ com'[n].stamp = 0
        /\ \A m \in Node \ {n} : com'[m] = com[m]
        /\ \A m \in Node : merge'[m].stamp <= lastTerm
    BY <2>2, <1>FinishFields, Zenon
  <2>6. Lands(Write(n))
    <3>1. \A m \in Node :
            /\ com'[m] = com[m] \/ (com'[m].pc = "idle" /\ com'[m].stamp = 0)
            /\ ver'[m] = ver[m] \/ (com'[m].pc = "idle" /\ ver'[m] = index'.ver /\ Write(n).ix.gen = gen[m])
      BY <2>3, <2>4, <2>5, Zenon
    <3> QED BY <2>2, <2>4, <2>5, <3>1, Zenon DEF Lands
  <2> QED BY <2>1, <2>6, <1>LandsStep, Zenon
<1>CasUnknownStep. ASSUME IInv, NEW n \in Node, CasUnknown(n) PROVE IInv'
  <2> USE <1>CasUnknownStep
  <2>1. TypeOK'
    BY <1>CommitStepTypes, Zenon DEF IInv
  <2>2. com[n].pc = "cas" /\ Finish(n, "unknown") /\ UNCHANGED <<claimVars, ver, gen>>
    BY Zenon DEF CasUnknown
  <2>3. CASE Swap(Write(n)) /\ UNCHANGED limbo
    <3>1. Write(n) \in [ix : Index, stamp : Nat] /\ Write(n).stamp <= lastTerm
      BY WriteType, Zenon DEF IInv, StampInv, Write
    <3>2. Lands(Write(n))
      BY <2>2, <2>3, <3>1, <1>FinishFields, Zenon DEF Lands
    <3> QED BY <2>1, <3>2, <1>LandsStep, Zenon
  <2>4. CASE UNCHANGED storeVars
    <3>1. Leaves(n) /\ UNCHANGED <<owner, lastTerm, term, index, lastStamp, ver, gen>>
      BY <2>2, <2>4, Zenon DEF Leaves, storeVars, claimVars
    <3> QED BY <2>1, <2>2, <3>1, <1>FinishStep, Zenon
  <2>5. CASE limbo' = limbo \cup {Write(n)} /\ UNCHANGED <<index, lastStamp>>
    <3>1. Leaves(n) /\ UNCHANGED <<owner, lastTerm, term, index, lastStamp, ver, gen>>
      BY <2>2, <2>5, Zenon DEF Leaves, claimVars
    <3> QED BY <2>1, <2>2, <3>1, <1>FinishStep, Zenon
  <2> QED BY <2>3, <2>4, <2>5, Zenon DEF CasUnknown
<1>LandLateStep. ASSUME IInv, NEW w, LandLate(w) PROVE IInv'
  <2> USE <1>LandLateStep
  <2>1. TypeOK'
    BY <1>LandLateTypes, Zenon DEF IInv
  <2>2. /\ w \in limbo /\ Swap(w) /\ limbo' \subseteq limbo
        /\ UNCHANGED <<claimVars, ver, gen, merge, com>>
    BY Zenon DEF LandLate, engineVars, buildVars
  <2>3. w \in [ix : Index, stamp : Nat] /\ w.stamp <= lastTerm
    BY <2>2, Zenon DEF IInv, TypeOK, LimboInv
  <2>4. \A m \in Node : merge'[m].stamp <= lastTerm
    BY <2>2, Zenon DEF IInv, StampInv
  <2>5. Lands(w)
    BY <2>2, <2>3, <2>4, Zenon DEF Lands
  <2> QED BY <2>1, <2>5, <1>LandsStep, Zenon
<1>RestartStep. ASSUME IInv, NEW n \in Node, Restart(n) PROVE IInv'
  <2> USE <1>RestartStep
  <2>1. TypeOK'
    BY <1>RestartTypes, Zenon DEF IInv
  <2>2. ClaimInv'
    BY NodeType, Zenon DEF Restart, IInv, ClaimInv, TypeOK
  <2>3. UNCHANGED <<index, lastStamp, lastTerm>> /\ Leaves(n)
    BY Zenon DEF Restart, Leaves
  <2>4. /\ ver'[n] = index.ver /\ gen'[n] = index.gen
        /\ \A m \in Node \ {n} : ver'[m] = ver[m] /\ gen'[m] = gen[m]
    BY Zenon DEF Restart, IInv, TypeOK
  <2>5. ~Less(gen'[n], index.gen)
    BY <2>4, EngineFields, LessLaws, Zenon DEF IInv
  <2>6. com' = [com EXCEPT ![n] = NoCommit] /\ NoCommit.pc = "idle" /\ NoCommit.stamp = 0
    BY Zenon DEF Restart, NoCommit, StartCommit
  <2>7. com'[n] = NoCommit /\ (\A m \in Node \ {n} : com'[m] = com[m]) /\ lastTerm \in Nat
    BY <2>6, <1>TypeFacts, Zenon
  <2>8. \A m \in Node : merge'[m].stamp <= lastTerm
    BY <1>ClearedStamps, Zenon DEF Restart
  <2>9. Learns(n)
    <3>1. 0 <= lastTerm
      BY <2>7
    <3> QED BY <2>3, <2>4, <2>5, <2>6, <2>7, <2>8, <3>1, Zenon DEF Learns
  <2> QED BY <2>1, <2>2, <2>9, <1>LearnsStep, Zenon
<1>StutterStep. ASSUME IInv, UNCHANGED vars PROVE IInv'
  <2> USE <1>StutterStep
  <2>1. TypeOK'
    BY <1>StutterTypes, Zenon DEF IInv
  <2>2. UNCHANGED <<owner, lastTerm, term, index, lastStamp, limbo, ver, gen, merge, com>>
    BY Zenon DEF vars, claimVars, storeVars, engineVars, buildVars
  <2>3. ClaimInv' /\ StampInv' /\ BuildInv' /\ CasInv' /\ KnowInv'
    BY <2>2, Zenon DEF IInv, ClaimInv, StampInv, BuildInv, CasInv, KnowInv
  <2>4. LimboInv' /\ WriteInv'
    BY <2>2, Zenon DEF IInv, LimboInv, WriteInv, Fit, Write
  <2> QED BY <2>1, <2>3, <2>4, Zenon DEF IInv
<1> SUFFICES ASSUME IInv, [Next]_vars
             PROVE  IInv'
  BY Zenon
<1>1. CASE UNCHANGED vars
  BY <1>1, <1>StutterStep, Zenon
<1>2. CASE Expire
  <2>1. owner \in Node
    BY <1>2, Zenon DEF Expire, IInv, TypeOK
  <2> QED BY <1>2, <2>1, <1>ClaimStep, Zenon
<1>3. CASE \E w \in limbo : LandLate(w)
  BY <1>3, <1>LandLateStep, Zenon
<1>4. ASSUME NEW n \in Node,
             \/ Acquire(n) \/ Fence(n) \/ Renew(n) \/ RefreshReplica(n) \/ Establish(n)
             \/ Check(n) \/ Build(n) \/ CasLands(n) \/ CasConflicts(n) \/ CasUnknown(n) \/ Rebase(n)
      PROVE  IInv'
  BY Zenon, <1>4, <1>ClaimStep, <1>LoadStep, <1>CheckStep, <1>BuildStep, <1>CasLandsStep, <1>CasConflictsStep, <1>CasUnknownStep,
     <1>RebaseStep
<1>5. ASSUME NEW n \in Node,
             \/ \E p \in Part : FlushBegin(n, p)
             \/ FlushAbort(n) \/ FlushPublish(n) \/ Republish(n)
             \/ \E src \in SUBSET Part, p \in Part : MergeBegin(n, src, p)
             \/ MergePublish(n) \/ Reclaim(n) \/ Restart(n)
      PROVE  IInv'
  BY <1>5, <1>BeginStep, <1>WorkStep, <1>RestartStep, Zenon
<1> QED BY <1>1, <1>2, <1>3, <1>4, <1>5, Zenon DEF Next

\* Only a write that fits the stored index changes it.
LEMMA OnlyFitLands ==
    ASSUME IInv, [Next]_vars
    PROVE  \/ UNCHANGED <<index, lastStamp>>
           \/ Less(index.gen, index'.gen) /\ lastStamp' >= lastStamp
<1>1. ASSUME NEW w, Swap(w), Fit(w) PROVE Less(index.gen, index'.gen) /\ lastStamp' >= lastStamp
  BY <1>1, Zenon DEF Swap, Fit
<1>2. CASE \E w \in limbo : LandLate(w)
  BY <1>1, <1>2, Zenon DEF LandLate, IInv, LimboInv
<1>3. CASE \E n \in Node : CasLands(n) \/ CasUnknown(n)
  <2>1. PICK n \in Node : CasLands(n) \/ CasUnknown(n)
    BY <1>3, Zenon
  <2>2. Fit(Write(n))
    BY <2>1, Zenon DEF CasLands, CasUnknown, IInv, WriteInv
  <2>3. Swap(Write(n)) \/ UNCHANGED <<index, lastStamp>>
    BY <2>1, Zenon DEF CasLands, CasUnknown, storeVars
  <2> QED BY <1>1, <2>2, <2>3, Zenon
<1>4. CASE ~(\E w \in limbo : LandLate(w)) /\ ~(\E n \in Node : CasLands(n) \/ CasUnknown(n))
  <2>1. CASE UNCHANGED vars \/ Expire
    BY <2>1, Zenon DEF vars, Expire, storeVars
  <2>2. ASSUME NEW n \in Node,
               \/ Acquire(n) \/ Fence(n) \/ Renew(n) \/ RefreshReplica(n) \/ Establish(n)
               \/ Check(n) \/ Build(n) \/ CasConflicts(n) \/ Rebase(n)
        PROVE  UNCHANGED <<index, lastStamp>>
    BY <2>2, Zenon DEF Acquire, Fence, Renew, RefreshReplica, Establish, Check, Build, CasConflicts, Rebase, storeVars
  <2>3. ASSUME NEW n \in Node,
               \/ \E p \in Part : FlushBegin(n, p)
               \/ FlushAbort(n) \/ FlushPublish(n) \/ Republish(n)
               \/ \E src \in SUBSET Part, p \in Part : MergeBegin(n, src, p)
               \/ MergePublish(n) \/ Reclaim(n) \/ Restart(n)
        PROVE  UNCHANGED <<index, lastStamp>>
    BY <2>3, Zenon DEF FlushBegin, FlushAbort, FlushPublish, Republish, MergeBegin, MergePublish, Reclaim,
                Restart, storeVars
  <2> QED BY <1>4, <2>1, <2>2, <2>3, Zenon DEF Next
<1> QED BY <1>2, <1>3, <1>4, Zenon
-----------------------------------------------------------------------------
LEMMA InvHolds == Spec => []IInv
<1>1. Init => IInv
  BY InitInv, Zenon
<1>2. IInv /\ [Next]_vars => IInv'
  BY InvStep, Zenon
<1> QED BY <1>1, <1>2, PTL DEF Spec

\* The state of every engine, of the claim and of the store has its type, for
\* any number of replicas and any bounds.
THEOREM SharedTypes == Spec => []TypeOK
<1>1. IInv => TypeOK
  BY Zenon DEF IInv
<1> QED BY <1>1, InvHolds, PTL

\* Whatever conflicts, lost responses, late writes, handoffs and restarts the
\* commit path meets, every commit that lands supersedes the one it replaces
\* (nextIndexLocked, adoptIndexLocked, Generation.Next).
THEOREM GenerationsRise == Spec => GenerationRises
<1>1. IInv /\ [Next]_vars => [index' # index => Less(index.gen, index'.gen)]_vars
  BY OnlyFitLands, Zenon
<1> QED BY <1>1, InvHolds, PTL DEF Spec, GenerationRises

\* No writer displaced by a handoff lands a commit after its successor's first
\* one (CheckTenure with the compare-and-swap, establishTenureLocked).
THEOREM DisplacedNeverCommits == Spec => NoDisplacedCommit
<1>1. IInv /\ [Next]_vars => [lastStamp' >= lastStamp]_vars
  <2>1. ASSUME IInv, [Next]_vars PROVE lastStamp' >= lastStamp
    <3>1. lastStamp \in Nat
      BY <2>1, Zenon DEF IInv, TypeOK
    <3>2. (lastStamp' = lastStamp) \/ lastStamp' >= lastStamp
      BY <2>1, OnlyFitLands, Zenon
    <3> QED BY <3>1, <3>2
  <2> QED BY <2>1, Zenon
<1> QED BY <1>1, InvHolds, PTL DEF Spec, NoDisplacedCommit
=============================================================================
