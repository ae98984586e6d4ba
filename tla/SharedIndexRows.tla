--------------------------- MODULE SharedIndexRows ---------------------------
(***************************************************************************)
(* For any number of nodes, tenures, lost responses and restarts: no       *)
(* commit that lands drops rows the index named.                           *)
(***************************************************************************)
EXTENDS SharedIndexProofs

\* The leaves of rows the parts of a set were written with.
Rows(c, S) == UNION {c[p] : p \in S}

\* What a node may yet commit the name of.
Names(n) ==
    view[n].parts \cup view[n].pending \cup view[n].indexed \cup view[n].foreign
    \cup flush[n].outs \cup merge[n].src \cup merge[n].outs
    \cup com[n].next \cup com[n].ix.parts

\* What a node remembers having removed.
Removed(n) == view[n].removals \cup com[n].ix.removed

\* Every name was minted, so that a part written now is in none of the sets.
MintInv ==
    /\ \A n \in Node : Names(n) \subseteq Minted /\ Removed(n) \subseteq Minted
    /\ index.parts \cup index.removed \subseteq Minted
    /\ \A w \in limbo : w.ix.parts \cup w.ix.removed \subseteq Minted

\* A merge's output holds the rows of its inputs.  What an engine indexed and
\* removed is in the parts it will hold when its commit is over; a commit
\* other than a flush rewrites rows and adds none.
RowsAt(n) ==
    /\ Rows(covers, merge[n].outs) = Rows(covers, merge[n].src)
    /\ com[n].pc = "idle" =>
        Rows(covers, view[n].indexed \cup view[n].removals) \subseteq Rows(covers, view[n].parts)
    /\ com[n].pc # "idle" =>
        /\ Rows(covers, view[n].indexed \cup view[n].removals) \subseteq Rows(covers, com[n].next)
        /\ Rows(covers, view[n].parts) \subseteq Rows(covers, com[n].next)
        /\ com[n].kind # "flush" => Rows(covers, com[n].next) \subseteq Rows(covers, view[n].parts)
    /\ com[n].pc = "cas" =>
        /\ com[n].ix.parts = com[n].next \cup view[n].foreign
        /\ view[n].indexed = com[n].next
        /\ Rows(covers, com[n].ix.removed) \subseteq Rows(covers, com[n].next)

\* A node at the stored version has every name of the stored index accounted
\* for: indexed, removed or foreign.
KnowAt(n) == ver[n] = index.ver => index.parts \subseteq view[n].indexed \cup view[n].removals \cup view[n].foreign

\* A write that may still land keeps the rows of the index it replaces.
Keeps(ix) ==
    /\ Rows(covers, ix.removed) \subseteq Rows(covers, ix.parts)
    /\ ix.ver = index.ver + 1 => Rows(covers, index.parts) \subseteq Rows(covers, ix.parts)

RowsInv ==
    /\ \A n \in Node : RowsAt(n) /\ KnowAt(n)
    /\ Rows(covers, index.removed) \subseteq Rows(covers, index.parts)
    /\ \A w \in limbo : Keeps(w.ix)
-----------------------------------------------------------------------------
(* What the steps of one node do, field by field.                          *)

Same(m) ==
    /\ view'[m] = view[m] /\ com'[m] = com[m] /\ flush'[m] = flush[m] /\ merge'[m] = merge[m]
    /\ established'[m] = established[m] /\ retired'[m] = retired[m]

LEMMA FunTypes ==
    ASSUME TypeOK
    PROVE  /\ view \in [Node -> View] /\ com \in [Node -> Commit] /\ established \in [Node -> Nat]
           /\ flush \in [Node -> [outs : SUBSET Part, epoch : Nat]]
           /\ merge \in [Node -> [src : SUBSET Part, outs : SUBSET Part, stamp : Nat]]
           /\ retired \in [Node -> SUBSET Part] /\ ver \in [Node -> Nat]
BY Zenon DEF TypeOK

LEMMA Finished ==
    ASSUME TypeOK, NEW n \in Node, NEW r, Finish(n, r)
    PROVE  /\ view'[n].parts = IF com[n].kind = "flush" \/ (com[n].kind = "merge" /\ r = "landed")
                               THEN com[n].next ELSE view[n].parts
           /\ view'[n].pending = IF r = "landed" THEN {}
                                 ELSE view[n].pending \cup (IF com[n].kind = "flush" THEN flush[n].outs ELSE {})
           /\ view'[n].flushed = IF com[n].kind = "flush" THEN com[n].epoch ELSE view[n].flushed
           /\ view'[n].indexed = view[n].indexed /\ view'[n].removals = view[n].removals
           /\ view'[n].foreign = view[n].foreign /\ view'[n].slots = view[n].slots
           /\ com'[n] = NoCommit /\ covers' = covers /\ objects' = objects
           /\ flush'[n] = IF com[n].kind = "flush" THEN NoFlush ELSE flush[n]
           /\ merge'[n] = IF com[n].kind = "merge" THEN NoMerge ELSE merge[n]
           /\ established'[n] = IF r = "landed" /\ com[n].kind = "establish" THEN com[n].stamp ELSE established[n]
           /\ retired'[n] = retired[n] \cup (IF com[n].kind # "merge" \/ r = "unknown" THEN {}
                                             ELSE IF r = "landed" THEN merge[n].src ELSE merge[n].outs)
           /\ \A m \in Node \ {n} : Same(m)
<1>1. view[n] \in View
  BY FunTypes, Zenon
<1>2. /\ view'[n].parts = IF com[n].kind = "flush" \/ (com[n].kind = "merge" /\ r = "landed")
                          THEN com[n].next ELSE view[n].parts
      /\ view'[n].pending = IF r = "landed" THEN {}
                            ELSE view[n].pending \cup (IF com[n].kind = "flush" THEN flush[n].outs ELSE {})
      /\ view'[n].flushed = IF com[n].kind = "flush" THEN com[n].epoch ELSE view[n].flushed
      /\ view'[n].indexed = view[n].indexed /\ view'[n].removals = view[n].removals
      /\ view'[n].foreign = view[n].foreign /\ view'[n].slots = view[n].slots
  BY <1>1, FunTypes, ZenonT(30) DEF Finish, View
<1>3. /\ com'[n] = NoCommit /\ covers' = covers /\ objects' = objects
      /\ flush'[n] = IF com[n].kind = "flush" THEN NoFlush ELSE flush[n]
      /\ merge'[n] = IF com[n].kind = "merge" THEN NoMerge ELSE merge[n]
      /\ established'[n] = IF r = "landed" /\ com[n].kind = "establish" THEN com[n].stamp ELSE established[n]
      /\ retired'[n] = retired[n] \cup (IF com[n].kind # "merge" \/ r = "unknown" THEN {}
                                        ELSE IF r = "landed" THEN merge[n].src ELSE merge[n].outs)
  BY FunTypes, Zenon DEF Finish
<1>4. ASSUME NEW m \in Node \ {n} PROVE Same(m)
  BY FunTypes, Zenon DEF Finish, Same
<1> QED BY <1>2, <1>3, <1>4, Zenon

\* An operation whose commit was not confirmed.
LEMMA Unconfirmed ==
    ASSUME TypeOK, NEW n \in Node, NEW r, r # "landed", Finish(n, r)
    PROVE  /\ com[n].kind = "flush" =>
                /\ view'[n].parts = com[n].next /\ view'[n].flushed = com[n].epoch
                /\ view'[n].pending = view[n].pending \cup flush[n].outs
           /\ com[n].kind # "flush" =>
                /\ view'[n].parts = view[n].parts /\ view'[n].flushed = view[n].flushed
                /\ view'[n].pending = view[n].pending
<1>f. /\ view'[n].parts = IF com[n].kind = "flush" \/ (com[n].kind = "merge" /\ r = "landed")
                          THEN com[n].next ELSE view[n].parts
      /\ view'[n].pending = IF r = "landed" THEN {}
                            ELSE view[n].pending \cup (IF com[n].kind = "flush" THEN flush[n].outs ELSE {})
      /\ view'[n].flushed = IF com[n].kind = "flush" THEN com[n].epoch ELSE view[n].flushed
      /\ view'[n].indexed = view[n].indexed /\ view'[n].removals = view[n].removals
      /\ view'[n].foreign = view[n].foreign /\ view'[n].slots = view[n].slots
      /\ com'[n] = NoCommit /\ covers' = covers /\ objects' = objects
      /\ flush'[n] = IF com[n].kind = "flush" THEN NoFlush ELSE flush[n]
      /\ merge'[n] = IF com[n].kind = "merge" THEN NoMerge ELSE merge[n]
      /\ established'[n] = IF r = "landed" /\ com[n].kind = "establish" THEN com[n].stamp ELSE established[n]
      /\ retired'[n] = retired[n] \cup (IF com[n].kind # "merge" \/ r = "unknown" THEN {}
                                        ELSE IF r = "landed" THEN merge[n].src ELSE merge[n].outs)
      /\ \A m \in Node \ {n} : Same(m)
  BY Finished, Zenon
<1>0. /\ view'[n].parts = IF com[n].kind = "flush" \/ (com[n].kind = "merge" /\ r = "landed")
                          THEN com[n].next ELSE view[n].parts
      /\ view'[n].pending = IF r = "landed" THEN {}
                            ELSE view[n].pending \cup (IF com[n].kind = "flush" THEN flush[n].outs ELSE {})
      /\ view'[n].flushed = IF com[n].kind = "flush" THEN com[n].epoch ELSE view[n].flushed
  BY <1>f, Zenon
<1>1. CASE com[n].kind = "flush"
  BY <1>0, <1>1, Zenon
<1>2. CASE com[n].kind # "flush"
  <2>1. view'[n].pending = view[n].pending \cup {}
    BY <1>0, <1>2, Zenon
  <2> QED BY <1>0, <1>2, <2>1, Zenon
<1> QED BY <1>1, <1>2, Zenon

LEMMA LoadedView ==
    ASSUME TypeOK, NEW n \in Node, LoadParts(n)
    PROVE  /\ view'[n].parts = index.parts \cup (view[n].pending \ index.parts)
           /\ view'[n].pending = view[n].pending \ index.parts
           /\ view'[n].indexed = index.parts /\ view'[n].removals = index.removed
           /\ view'[n].foreign = {} /\ view'[n].slots = index.slots
           /\ view'[n].flushed = IF view[n].pending \ index.parts = {} THEN index.slots[n]
                                 ELSE Max2(index.slots[n], view[n].flushed)
           /\ ver'[n] = index.ver
           /\ view'[n] = Loaded(n)
           /\ \A m \in Node \ {n} : view'[m] = view[m] /\ ver'[m] = ver[m]
<1>1. view'[n] = Loaded(n) /\ ver'[n] = index.ver /\ \A m \in Node \ {n} : view'[m] = view[m] /\ ver'[m] = ver[m]
  BY FunTypes, Zenon DEF LoadParts
<1> QED BY <1>1 DEF Loaded

LEMMA Rebased ==
    ASSUME TypeOK, NEW n \in Node, Rebase(n)
    PROVE  /\ view'[n].parts = view[n].parts /\ view'[n].pending = view[n].pending
           /\ view'[n].indexed = view[n].indexed /\ view'[n].removals = view[n].removals
           /\ view'[n].foreign = Foreign(n) /\ view'[n].slots = index.slots
           /\ view'[n].flushed = view[n].flushed /\ ver'[n] = index.ver
           /\ com[n].pc = "rebase" /\ com'[n].pc = "check" /\ com'[n].kind = com[n].kind
           /\ com'[n].next = com[n].next /\ com'[n].epoch = com[n].epoch
           /\ com'[n].stamp = com[n].stamp /\ com'[n].ix = com[n].ix
           /\ UNCHANGED <<claimVars, storeVars, faultVars, established, buildVars>>
           /\ \A m \in Node \ {n} : view'[m] = view[m] /\ ver'[m] = ver[m] /\ com'[m] = com[m]
<1>1. view[n] \in View /\ com[n] \in Committing
  BY FunTypes, CommitFields, Zenon DEF Rebase
<1>2. /\ view'[n].parts = view[n].parts /\ view'[n].pending = view[n].pending
      /\ view'[n].indexed = view[n].indexed /\ view'[n].removals = view[n].removals
      /\ view'[n].foreign = Foreign(n) /\ view'[n].slots = index.slots
      /\ view'[n].flushed = view[n].flushed
  BY <1>1, FunTypes, Zenon DEF Rebase, View
<1>3. /\ com[n].pc = "rebase" /\ com'[n].pc = "check" /\ com'[n].kind = com[n].kind
      /\ com'[n].next = com[n].next /\ com'[n].epoch = com[n].epoch
      /\ com'[n].stamp = com[n].stamp /\ com'[n].ix = com[n].ix
  BY <1>1, FunTypes, Zenon DEF Rebase, Committing
<1>4. /\ ver'[n] = index.ver
      /\ UNCHANGED <<claimVars, storeVars, faultVars, established, buildVars>>
      /\ \A m \in Node \ {n} : view'[m] = view[m] /\ ver'[m] = ver[m] /\ com'[m] = com[m]
  BY FunTypes, Zenon DEF Rebase
<1> QED BY <1>2, <1>3, <1>4, Zenon

LEMMA Built ==
    ASSUME TypeOK, NEW n \in Node, Build(n)
    PROVE  /\ view'[n].parts = view[n].parts /\ view'[n].pending = view[n].pending
           /\ view'[n].indexed = com[n].next /\ view'[n].removals = NextRemovals(n)
           /\ view'[n].foreign = view[n].foreign /\ view'[n].flushed = view[n].flushed
           /\ view'[n].slots = [view[n].slots EXCEPT ![n] = com[n].epoch]
           /\ com[n].pc = "build" /\ com'[n].pc = "cas" /\ com'[n].kind = com[n].kind
           /\ com'[n].next = com[n].next /\ com'[n].epoch = com[n].epoch /\ com'[n].stamp = com[n].stamp
           /\ com'[n].left = com[n].left
           /\ com'[n].ix.ver = ver[n] + 1 /\ com'[n].ix.parts = com[n].next \cup view[n].foreign
           /\ com'[n].ix.removed = NextRemovals(n)
           /\ com'[n].ix.slots = [view[n].slots EXCEPT ![n] = com[n].epoch]
           /\ UNCHANGED <<claimVars, storeVars, faultVars, ver, established, buildVars>>
           /\ \A m \in Node \ {n} : view'[m] = view[m] /\ com'[m] = com[m]
<1> DEFINE ix == Candidate(n, NextGen(gen[n], term[n]))
<1>1. view[n] \in View /\ com[n] \in Committing
  BY FunTypes, CommitFields, Zenon DEF Build
<1>2. /\ view'[n].parts = view[n].parts /\ view'[n].pending = view[n].pending
      /\ view'[n].indexed = com[n].next /\ view'[n].removals = NextRemovals(n)
      /\ view'[n].foreign = view[n].foreign /\ view'[n].flushed = view[n].flushed
      /\ view'[n].slots = [view[n].slots EXCEPT ![n] = com[n].epoch]
  BY <1>1, FunTypes, Zenon DEF Build, View
<1>3. /\ ix.ver = ver[n] + 1 /\ ix.parts = com[n].next \cup view[n].foreign
      /\ ix.removed = NextRemovals(n) /\ ix.slots = [view[n].slots EXCEPT ![n] = com[n].epoch]
  BY Zenon DEF Candidate
<1>4. com' = [com EXCEPT ![n].pc = "cas", ![n].ix = ix] /\ com[n].pc = "build"
  BY Zenon DEF Build
<1> HIDE DEF ix
<1>5. /\ com'[n].pc = "cas" /\ com'[n].kind = com[n].kind
      /\ com'[n].next = com[n].next /\ com'[n].epoch = com[n].epoch /\ com'[n].stamp = com[n].stamp
      /\ com'[n].left = com[n].left /\ com'[n].ix = ix
  BY <1>1, <1>4, FunTypes, Zenon DEF Committing
<1>6. /\ UNCHANGED <<claimVars, storeVars, faultVars, ver, established, buildVars>>
      /\ \A m \in Node \ {n} : view'[m] = view[m] /\ com'[m] = com[m]
  BY FunTypes, Zenon DEF Build
<1> QED BY <1>2, <1>3, <1>4, <1>5, <1>6, Zenon

LEMMA Restarted ==
    ASSUME TypeOK, NEW n \in Node, Restart(n)
    PROVE  /\ view'[n].parts = index.parts /\ view'[n].pending = {}
           /\ view'[n].indexed = index.parts /\ view'[n].removals = index.removed
           /\ view'[n].foreign = {} /\ view'[n].slots = index.slots
           /\ view'[n].flushed = index.slots[n] /\ ver'[n] = index.ver
           /\ com'[n] = NoCommit /\ flush'[n] = NoFlush /\ merge'[n] = NoMerge
           /\ established'[n] = 0 /\ retired'[n] = {}
           /\ UNCHANGED <<index, lastStamp, lastTerm, objects, covers>>
           /\ Leaves(n)
           /\ \A m \in Node \ {n} : Same(m) /\ ver'[m] = ver[m]
<1>1. /\ view'[n] = Opened(n) /\ ver'[n] = index.ver
      /\ com'[n] = NoCommit /\ flush'[n] = NoFlush /\ merge'[n] = NoMerge
      /\ established'[n] = 0 /\ retired'[n] = {}
  BY FunTypes, Zenon DEF Restart
<1>2. \A m \in Node \ {n} : Same(m) /\ ver'[m] = ver[m]
  BY FunTypes, Zenon DEF Restart, Same
<1>3. UNCHANGED <<index, lastStamp, lastTerm, objects, covers>> /\ Leaves(n)
  BY Zenon DEF Restart, Leaves
<1> QED BY <1>1, <1>2, <1>3 DEF Opened

LEMMA Begun ==
    ASSUME TypeOK, NEW n \in Node, NEW k, NEW P, NEW e, NEW t, Begin(n, k, P, e, t)
    PROVE  /\ com'[n].pc = "check" /\ com'[n].kind = k /\ com'[n].next = P
           /\ com'[n].epoch = e /\ com'[n].stamp = t /\ com'[n].ix = NoIndex
           /\ \A m \in Node \ {n} : com'[m] = com[m]
<1> DEFINE c == StartCommit("check", k, P, e, t, Attempts)
<1>1. com' = [com EXCEPT ![n] = c]
  BY Zenon DEF Begin
<1>2. c.pc = "check" /\ c.kind = k /\ c.next = P /\ c.epoch = e /\ c.stamp = t /\ c.ix = NoIndex
  BY Zenon DEF StartCommit
<1> HIDE DEF c
<1> QED BY <1>1, <1>2, FunTypes, Zenon

LEMMA EstablishBegun ==
    ASSUME TypeOK, NEW n \in Node, Establish(n), com' # com
    PROVE  /\ com'[n].pc = "build" /\ com'[n].kind = "establish" /\ com'[n].next = Loaded(n).parts
           /\ com'[n].epoch = Loaded(n).flushed /\ com'[n].stamp = term[n] /\ com'[n].ix = NoIndex
           /\ com'[n].left = 1
           /\ \A m \in Node \ {n} : com'[m] = com[m]
<1> DEFINE c == StartCommit("build", "establish", Loaded(n).parts, Loaded(n).flushed, term[n], 1)
<1>1. com' = [com EXCEPT ![n] = c]
  BY Zenon DEF Establish
<1>2. /\ c.pc = "build" /\ c.kind = "establish" /\ c.next = Loaded(n).parts
      /\ c.epoch = Loaded(n).flushed /\ c.stamp = term[n] /\ c.ix = NoIndex /\ c.left = 1
  BY Zenon DEF StartCommit
<1> HIDE DEF c
<1> QED BY <1>1, <1>2, FunTypes, Zenon

\* A commit moves on to another point of its attempt.
LEMMA Moved ==
    ASSUME TypeOK, NEW n \in Node,
           \/ Check(n) /\ Tenure(n, com[n].stamp)
           \/ CasConflicts(n) /\ com[n].left > 1
    PROVE  /\ com[n].pc \in {"check", "cas"}
           /\ Check(n) => com'[n].pc = "build"
           /\ ~Check(n) => com'[n].pc = "rebase"
           /\ com'[n].kind = com[n].kind /\ com'[n].next = com[n].next /\ com'[n].epoch = com[n].epoch
           /\ com'[n].stamp = com[n].stamp /\ com'[n].ix = com[n].ix
           /\ UNCHANGED <<claimVars, storeVars, faultVars, engineVars, buildVars>>
           /\ \A m \in Node \ {n} : com'[m] = com[m]
<1>1. com[n] \in Committing
  BY CommitFields, Zenon DEF Check, CasConflicts
<1>2. com[n].pc \in {"check", "cas"} /\ UNCHANGED <<claimVars, storeVars, faultVars, engineVars, buildVars>>
  BY Zenon DEF Check, CasConflicts, engineVars
<1>3. CASE Check(n) /\ Tenure(n, com[n].stamp)
  <2>1. com' = [com EXCEPT ![n].pc = "build"]
    BY <1>3, Zenon DEF Check
  <2> QED BY <1>1, <1>2, <1>3, <2>1, FunTypes, Zenon DEF Committing
<1>4. CASE CasConflicts(n) /\ com[n].left > 1
  <2>1. com' = [com EXCEPT ![n].pc = "rebase", ![n].left = @ - 1]
    BY <1>4, Zenon DEF CasConflicts
  <2>2. ~Check(n)
    BY <1>4, Zenon DEF Check, CasConflicts
  <2> QED BY <1>1, <1>2, <2>1, <2>2, FunTypes, Zenon DEF Committing
<1> QED BY <1>3, <1>4, Zenon
-----------------------------------------------------------------------------
(* No commit drops rows.                                                   *)

LEMMA NoWork ==
    /\ NoFlush.outs = {} /\ NoMerge.src = {} /\ NoMerge.outs = {} /\ NoMerge.stamp = 0
    /\ NoCommit.pc = "idle" /\ NoCommit.next = {} /\ NoCommit.stamp = 0 /\ NoCommit.ix = NoIndex
    /\ NoIndex.parts = {} /\ NoIndex.removed = {}
BY Zenon DEF NoFlush, NoMerge, NoCommit, StartCommit, NoIndex

\* What a planned merge covers is what its inputs cover, and is something.
LEMMA MergeCovers ==
    ASSUME TypeOK, MintInv, NEW n \in Node, NEW src \in SUBSET Part, NEW p \in Part, MergeBegin(n, src, p)
    PROVE  /\ Rows(covers, src) # {} /\ Rows(covers, src) \in SUBSET Part /\ WritePart(p, Rows(covers, src))
           /\ p \in Fresh /\ src \subseteq view[n].parts /\ src \subseteq Minted /\ com[n].pc = "idle"
           /\ view[n].pending = {} /\ merge[n] = NoMerge
           /\ merge'[n].src = src /\ merge'[n].outs = {p} /\ merge'[n].stamp = term[n]
           /\ UNCHANGED <<claimVars, storeVars, faultVars, engineVars, flush, retired, com>>
           /\ \A m \in Node \ {n} : merge'[m] = merge[m]
<1>1. /\ src # {} /\ src \subseteq view[n].parts /\ p \in Fresh /\ WritePart(p, Rows(covers, src))
      /\ com[n].pc = "idle" /\ view[n].pending = {} /\ merge[n] = NoMerge
      /\ UNCHANGED <<claimVars, storeVars, faultVars, engineVars, flush, retired, com>>
  BY Zenon DEF MergeBegin, MayMerge, Idle, Rows
<1>2. src \subseteq Minted
  BY <1>1, Zenon DEF MintInv, Names
<1>3. Rows(covers, src) # {}
  BY <1>1, <1>2 DEF Rows, Minted
<1>4. Rows(covers, src) \in SUBSET Part
  BY DEF TypeOK, Rows
<1>5. merge' = [merge EXCEPT ![n] = [src |-> src, outs |-> {p}, stamp |-> term[n]]]
  BY Zenon DEF MergeBegin
<1>6. /\ merge'[n].src = src /\ merge'[n].outs = {p} /\ merge'[n].stamp = term[n]
      /\ \A m \in Node \ {n} : merge'[m] = merge[m]
  BY <1>5, FunTypes, Zenon
<1> QED BY <1>1, <1>2, <1>3, <1>4, <1>6, Zenon

LEMMA RowsStep ==
    IInv /\ RowsInv /\ MintInv /\ [Next]_vars
    => RowsInv' /\ MintInv' /\ Rows(covers, index.parts) \subseteq Rows(covers', index'.parts)
<1>RowsMono. \A c, A, B : A \subseteq B => Rows(c, A) \subseteq Rows(c, B)
  BY Zenon DEF Rows
<1>RowsCut. \A c, S, A, B : S \subseteq A \cup B => Rows(c, S) \subseteq Rows(c, A) \cup Rows(c, B)
  BY Zenon DEF Rows
<1>RowsSplit. \A c, A, B : Rows(c, A) \subseteq Rows(c, A \ B) \cup Rows(c, B)
  BY Zenon DEF Rows
\* Parts written before are as they were.
<1>RowsSame. ASSUME NEW c, NEW d, NEW S, \A p \in S : c[p] = d[p] PROVE Rows(c, S) = Rows(d, S)
  BY <1>RowsSame, Zenon DEF Rows
<1>OthersRows. ASSUME RowsInv, NEW m \in Node, Same(m), covers' = covers PROVE RowsAt(m)'
  <2> USE <1>OthersRows
  <2>1. RowsAt(m)
    BY Zenon DEF RowsInv
  <2> QED BY <2>1, Zenon DEF RowsAt, Same
<1>OthersKnow.
    ASSUME IInv, RowsInv, NEW m \in Node, view'[m] = view[m], ver'[m] = ver[m],
           index' = index \/ index'.ver = index.ver + 1
    PROVE  KnowAt(m)'
  <2> USE <1>OthersKnow
  <2>1. KnowAt(m) /\ ver[m] \in Nat /\ index.ver \in Nat /\ ver[m] <= index.ver
    BY EngineFields, Zenon DEF RowsInv, IInv, KnowInv
  <2>2. CASE index' = index
    BY <2>1, <2>2, Zenon DEF KnowAt
  <2>3. CASE index'.ver = index.ver + 1
    <3>1. ver'[m] # index'.ver
      BY <2>1, <2>3
    <3> QED BY <3>1, Zenon DEF KnowAt
  <2> QED BY <2>2, <2>3, Zenon
<1>OthersNames.
    ASSUME MintInv, NEW m \in Node, Same(m), covers' = covers
    PROVE  Names(m)' \subseteq Minted' /\ Removed(m)' \subseteq Minted'
  <2> USE <1>OthersNames
  <2>1. Names(m) \subseteq Minted /\ Removed(m) \subseteq Minted /\ Minted' = Minted
    BY Zenon DEF MintInv, Minted
  <2>2. Names(m)' = Names(m) /\ Removed(m)' = Removed(m)
    BY Zenon DEF Same, Names, Removed
  <2> QED BY <2>1, <2>2, Zenon
\* What the commit of an operation leaves behind, whatever became of it.
<1>FinishRows.
    ASSUME TypeOK, RowsInv, MintInv, NEW n \in Node, NEW r, Finish(n, r), com[n].pc # "idle"
    PROVE  RowsAt(n)' /\ Names(n)' \subseteq Minted' /\ Removed(n)' \subseteq Minted'
  <2> USE <1>FinishRows
  <2>1. /\ view'[n].indexed = view[n].indexed /\ view'[n].removals = view[n].removals
        /\ view'[n].foreign = view[n].foreign /\ com'[n] = NoCommit /\ covers' = covers
    BY Finished, Zenon
  <2>2. \/ view'[n].parts = com[n].next
        \/ view'[n].parts = view[n].parts /\ com[n].kind # "flush"
    BY Finished, Zenon
  <2>3. view'[n].pending \subseteq view[n].pending \cup flush[n].outs
    BY Finished, ZenonT(30)
  <2>4. /\ flush'[n].outs \in {{}, flush[n].outs}
        /\ \/ merge'[n].src = {} /\ merge'[n].outs = {}
           \/ merge'[n] = merge[n]
    BY Finished, NoWork, Zenon
  <2>5. com'[n].pc = "idle" /\ com'[n].next = {} /\ com'[n].ix.parts = {} /\ com'[n].ix.removed = {}
    BY <2>1, NoWork, Zenon
  <2>6. RowsAt(n)
    BY Zenon DEF RowsInv
  <2>7. Rows(covers, view[n].indexed \cup view[n].removals) \subseteq Rows(covers, view'[n].parts)
    BY <2>2, <2>6, Zenon DEF RowsAt
  <2>8. Rows(covers, merge'[n].outs) = Rows(covers, merge'[n].src)
    BY <2>4, <2>6, Zenon DEF RowsAt
  <2>9. RowsAt(n)'
    BY <2>1, <2>5, <2>7, <2>8, Zenon DEF RowsAt
  <2>10. Names(n) \subseteq Minted /\ Removed(n) \subseteq Minted /\ Minted' = Minted
    BY <2>1, Zenon DEF MintInv, Minted
  <2>11. Names(n)' \subseteq Names(n)
    BY <2>1, <2>2, <2>3, <2>4, <2>5, ZenonT(30) DEF Names
  <2>12. Removed(n)' \subseteq Removed(n)
    BY <2>1, <2>5, Zenon DEF Removed
  <2> QED BY <2>9, <2>10, <2>11, <2>12, Zenon
\* A write that would land keeps the rows of the index it replaces.
<1>WriteKeeps.
    ASSUME IInv, RowsInv, MintInv, NEW n \in Node, com[n].pc = "cas"
    PROVE  Keeps(com[n].ix) /\ com[n].ix.parts \cup com[n].ix.removed \subseteq Minted
  <2> USE <1>WriteKeeps
  <2>1. RowsAt(n) /\ KnowAt(n) /\ com[n].ix.ver = ver[n] + 1 /\ ver[n] \in Nat /\ index.ver \in Nat
    BY EngineFields, Zenon DEF RowsInv, IInv, CasInv
  <2>2. com[n].ix.parts = com[n].next \cup view[n].foreign
    BY <2>1, Zenon DEF RowsAt
  <2>3. Rows(covers, com[n].next) \subseteq Rows(covers, com[n].ix.parts)
    BY <2>2, <1>RowsMono, Zenon
  <2>4. Rows(covers, view[n].foreign) \subseteq Rows(covers, com[n].ix.parts)
    BY <2>2, <1>RowsMono, ZenonT(30)
  <2>5. Rows(covers, com[n].ix.removed) \subseteq Rows(covers, com[n].ix.parts)
    BY <2>1, <2>3, Zenon DEF RowsAt
  <2>6. ASSUME com[n].ix.ver = index.ver + 1
        PROVE  Rows(covers, index.parts) \subseteq Rows(covers, com[n].ix.parts)
    <3>1. index.parts \subseteq (view[n].indexed \cup view[n].removals) \cup view[n].foreign
      BY <2>1, <2>6 DEF KnowAt
    <3>2. Rows(covers, index.parts) \subseteq Rows(covers, view[n].indexed \cup view[n].removals) \cup Rows(covers, view[n].foreign)
      BY <3>1, <1>RowsCut
    <3>3. Rows(covers, view[n].indexed \cup view[n].removals) \subseteq Rows(covers, com[n].next)
      BY <2>1, Zenon DEF RowsAt
    <3> QED BY <2>3, <2>4, <3>2, <3>3, Zenon
  <2>7. com[n].ix.parts \cup com[n].ix.removed \subseteq Minted
    BY Zenon DEF MintInv, Names, Removed
  <2> QED BY <2>5, <2>6, <2>7, Zenon DEF Keeps
\* Steps of one node that leave the stored index alone.
<1>RowsLocal.
    ASSUME IInv, RowsInv, MintInv, NEW n \in Node, Leaves(n), covers' = covers, index' = index,
           \A m \in Node \ {n} : Same(m) /\ ver'[m] = ver[m],
           RowsAt(n)', KnowAt(n)', Names(n)' \subseteq Minted', Removed(n)' \subseteq Minted'
    PROVE  RowsInv' /\ MintInv'
  <2> USE <1>RowsLocal
  <2>1. ASSUME NEW m \in Node
        PROVE  RowsAt(m)' /\ KnowAt(m)' /\ Names(m)' \subseteq Minted' /\ Removed(m)' \subseteq Minted'
    <3>1. CASE m = n
      BY <3>1, Zenon
    <3>2. CASE m # n
      <4>1. Same(m) /\ ver'[m] = ver[m] /\ view'[m] = view[m]
        BY <3>2, Zenon DEF Same
      <4> QED BY <4>1, <1>OthersRows, <1>OthersKnow, <1>OthersNames, Zenon
    <3> QED BY <3>1, <3>2, Zenon
  <2>2. ASSUME NEW w \in limbo' PROVE Keeps(w.ix)' /\ w.ix.parts \cup w.ix.removed \subseteq Minted'
    <3>1. Minted' = Minted
      BY Zenon DEF Minted
    <3>2. Keeps(w.ix) /\ w.ix.parts \cup w.ix.removed \subseteq Minted
      <4>1. CASE w \in limbo
        BY <4>1, Zenon DEF RowsInv, MintInv
      <4>2. CASE com[n].pc = "cas" /\ w = Write(n)
        <5>1. w.ix = com[n].ix
          BY <4>2, Zenon DEF Write
        <5> QED BY <4>2, <5>1, <1>WriteKeeps, Zenon
      <4> QED BY <4>1, <4>2, Zenon DEF Leaves
    <3> QED BY <3>1, <3>2, Zenon DEF Keeps
  <2>3. Rows(covers', index'.removed) \subseteq Rows(covers', index'.parts)
    BY Zenon DEF RowsInv
  <2>4. index'.parts \cup index'.removed \subseteq Minted'
    BY Zenon DEF MintInv, Minted
  <2>5. RowsInv'
    BY <2>1, <2>2, <2>3, Zenon DEF RowsInv
  <2>6. MintInv'
    BY <2>1, <2>2, <2>4, Zenon DEF MintInv
  <2> QED BY <2>5, <2>6, Zenon
\* A write lands.
<1>RowsLanded.
    ASSUME IInv, RowsInv, MintInv, NEW w \in [ix : Index, stamp : Nat], Swap(w), Keeps(w.ix),
           w.ix.parts \cup w.ix.removed \subseteq Minted,
           limbo' \subseteq limbo, covers' = covers,
           \A m \in Node : RowsAt(m)' /\ KnowAt(m)' /\ Names(m)' \subseteq Minted' /\ Removed(m)' \subseteq Minted'
    PROVE  /\ RowsInv' /\ MintInv'
           /\ Rows(covers, index.parts) \subseteq Rows(covers', index'.parts)
  <2> USE <1>RowsLanded
  <2>1. index' = w.ix /\ w.ix.ver = index.ver + 1 /\ Minted' = Minted
    BY Zenon DEF Swap, Minted
  <2>2. Rows(covers', index'.removed) \subseteq Rows(covers', index'.parts)
    BY <2>1, Zenon DEF Keeps
  <2>3. Rows(covers, index.parts) \subseteq Rows(covers', index'.parts)
    BY <2>1, Zenon DEF Keeps
  <2>4. ASSUME NEW v \in limbo' PROVE Keeps(v.ix)' /\ v.ix.parts \cup v.ix.removed \subseteq Minted'
    <3>1. v \in limbo /\ v \in [ix : Index, stamp : Nat]
      BY Zenon DEF IInv, TypeOK
    <3>2. v.ix.ver <= index.ver + 1 /\ v.ix.ver \in Nat /\ index.ver \in Nat
      BY <3>1, EngineFields, Zenon DEF IInv, LimboInv, Fit, Index, TypeOK
    <3>3. v.ix.ver # index'.ver + 1
      BY <2>1, <3>2
    <3>4. Rows(covers, v.ix.removed) \subseteq Rows(covers, v.ix.parts) /\ v.ix.parts \cup v.ix.removed \subseteq Minted
      BY <3>1, Zenon DEF RowsInv, MintInv, Keeps
    <3> QED BY <2>1, <3>3, <3>4, Zenon DEF Keeps
  <2>5. RowsInv'
    BY <2>2, <2>4, Zenon DEF RowsInv
  <2>6. MintInv'
    BY <2>1, <2>4, Zenon DEF MintInv
  <2> QED BY <2>3, <2>5, <2>6, Zenon
\* A step that touches no engine's view and no commit, and writes no part.
<1>RowsIdle.
    ASSUME IInv, RowsInv, MintInv, UNCHANGED <<index, limbo, covers, view, com, merge, ver>>,
           \A m \in Node : flush'[m].outs \subseteq flush[m].outs
    PROVE  RowsInv' /\ MintInv'
  <2> USE <1>RowsIdle
  <2>1. Minted' = Minted
    BY Zenon DEF Minted
  <2>2. ASSUME NEW m \in Node PROVE RowsAt(m)' /\ KnowAt(m)' /\ Names(m)' \subseteq Minted' /\ Removed(m)' \subseteq Minted'
    <3>1. RowsAt(m) /\ KnowAt(m) /\ Names(m) \subseteq Minted /\ Removed(m) \subseteq Minted
      BY Zenon DEF RowsInv, MintInv
    <3>2. Names(m)' \subseteq Names(m) /\ Removed(m)' = Removed(m)
      BY DEF Names, Removed
    <3>3. RowsAt(m)' /\ KnowAt(m)'
      BY <3>1, Zenon DEF RowsAt, KnowAt
    <3> QED BY <2>1, <3>1, <3>2, <3>3, Zenon
  <2>3. \A w \in limbo' : Keeps(w.ix)'
    BY Zenon DEF RowsInv, Keeps
  <2>4. RowsInv'
    BY <2>2, <2>3, Zenon DEF RowsInv
  <2>5. MintInv'
    BY <2>1, <2>2, Zenon DEF MintInv
  <2> QED BY <2>4, <2>5, Zenon
\* The commit of an operation is over and the stored index has not moved.
<1>FinishedRows.
    ASSUME IInv, RowsInv, MintInv, NEW n \in Node, NEW r, Finish(n, r), com[n].pc # "idle",
           UNCHANGED <<index, ver>>, Leaves(n)
    PROVE  RowsInv' /\ MintInv'
  <2> USE <1>FinishedRows
  <2>1. RowsAt(n)' /\ Names(n)' \subseteq Minted' /\ Removed(n)' \subseteq Minted'
    BY <1>FinishRows, Zenon DEF IInv
  <2>2. /\ view'[n].indexed = view[n].indexed /\ view'[n].removals = view[n].removals
        /\ view'[n].foreign = view[n].foreign /\ covers' = covers
        /\ \A m \in Node \ {n} : Same(m)
    BY Finished, Zenon DEF IInv
  <2>3. KnowAt(n)'
    <3>1. KnowAt(n)
      BY Zenon DEF RowsInv
    <3> QED BY <2>2, <3>1, Zenon DEF KnowAt
  <2> QED BY <2>1, <2>2, <2>3, <1>RowsLocal, Zenon
\* The same, the write having landed.
<1>LandedRows.
    ASSUME IInv, RowsInv, MintInv, NEW n \in Node, NEW r, Finish(n, r), com[n].pc = "cas",
           Swap(Write(n)), limbo' = limbo,
           ver'[n] \in {ver[n], index'.ver}, \A m \in Node \ {n} : ver'[m] = ver[m]
    PROVE  RowsInv' /\ MintInv' /\ Rows(covers, index.parts) \subseteq Rows(covers', index'.parts)
  <2> USE <1>LandedRows
  <2>1. RowsAt(n)' /\ Names(n)' \subseteq Minted' /\ Removed(n)' \subseteq Minted'
    BY <1>FinishRows, Zenon DEF IInv
  <2>2. /\ view'[n].indexed = view[n].indexed /\ view'[n].removals = view[n].removals
        /\ view'[n].foreign = view[n].foreign /\ covers' = covers
        /\ \A m \in Node \ {n} : Same(m)
    BY Finished, Zenon DEF IInv
  <2>3. index' = com[n].ix /\ index'.ver = index.ver + 1 /\ Write(n).ix = com[n].ix
    BY Zenon DEF Swap, Write
  <2>4. KnowAt(n)'
    <3>1. com[n].ix.parts = com[n].next \cup view[n].foreign /\ view[n].indexed = com[n].next
      BY Zenon DEF RowsInv, RowsAt
    <3> QED BY <2>2, <2>3, <3>1, Zenon DEF KnowAt
  <2>5. ASSUME NEW m \in Node
        PROVE  RowsAt(m)' /\ KnowAt(m)' /\ Names(m)' \subseteq Minted' /\ Removed(m)' \subseteq Minted'
    <3>1. CASE m = n
      BY <2>1, <2>4, <3>1, Zenon
    <3>2. CASE m # n
      <4>1. Same(m) /\ ver'[m] = ver[m] /\ view'[m] = view[m]
        BY <2>2, <3>2, Zenon DEF Same
      <4> QED BY <2>2, <2>3, <4>1, <1>OthersRows, <1>OthersKnow, <1>OthersNames, Zenon
    <3> QED BY <3>1, <3>2, Zenon
  <2>6. Write(n) \in [ix : Index, stamp : Nat]
    BY WriteType, Zenon DEF IInv
  <2>7. Keeps(Write(n).ix) /\ Write(n).ix.parts \cup Write(n).ix.removed \subseteq Minted
    BY <2>3, <1>WriteKeeps, Zenon
  <2> QED BY <2>2, <2>5, <2>6, <2>7, <1>RowsLanded, Zenon
<1>MovedRows.
    ASSUME IInv, RowsInv, MintInv, NEW n \in Node, Check(n) \/ CasConflicts(n)
    PROVE  RowsInv' /\ MintInv'
  <2> USE <1>MovedRows
  <2>1. UNCHANGED <<index, limbo, ver>> /\ com[n].pc # "idle"
    BY Zenon DEF Check, CasConflicts, storeVars
  <2>2. CASE \E r : Finish(n, r)
    <3>1. Leaves(n)
      BY <2>1, Zenon DEF Leaves
    <3> QED BY <2>1, <2>2, <3>1, <1>FinishedRows, Zenon
  <2>3. CASE (Check(n) /\ Tenure(n, com[n].stamp)) \/ (CasConflicts(n) /\ com[n].left > 1)
    <3>1. /\ com'[n].pc \in {"build", "rebase"} /\ com'[n].kind = com[n].kind
          /\ com'[n].next = com[n].next /\ com'[n].ix = com[n].ix
          /\ UNCHANGED <<engineVars, buildVars>> /\ \A m \in Node \ {n} : com'[m] = com[m]
      BY <2>3, Moved, Zenon DEF IInv
    <3>2. view' = view /\ merge' = merge /\ flush' = flush /\ covers' = covers /\ established' = established /\ retired' = retired
      BY <3>1, Zenon DEF engineVars, buildVars
    <3>3. RowsAt(n) /\ KnowAt(n) /\ Names(n) \subseteq Minted /\ Removed(n) \subseteq Minted /\ Minted' = Minted
      BY <3>2, Zenon DEF RowsInv, MintInv, Minted
    <3>4. RowsAt(n)' /\ KnowAt(n)'
      BY <2>1, <3>1, <3>2, <3>3, Zenon DEF RowsAt, KnowAt
    <3>5. Names(n)' = Names(n) /\ Removed(n)' = Removed(n)
      BY <3>1, <3>2, Zenon DEF Names, Removed
    <3>6. Leaves(n) /\ \A m \in Node \ {n} : Same(m) /\ ver'[m] = ver[m]
      BY <2>1, <3>1, <3>2, Zenon DEF Leaves, Same
    <3> QED BY <2>1, <3>2, <3>3, <3>4, <3>5, <3>6, <1>RowsLocal, Zenon
  <2> QED BY <2>2, <2>3, Zenon DEF Check, CasConflicts
<1>BuildRows. ASSUME IInv, RowsInv, MintInv, NEW n \in Node, Build(n) PROVE RowsInv' /\ MintInv'
  <2> USE <1>BuildRows
  <2>1. /\ view'[n].parts = view[n].parts /\ view'[n].pending = view[n].pending
        /\ view'[n].indexed = com[n].next /\ view'[n].removals = NextRemovals(n)
        /\ view'[n].foreign = view[n].foreign
        /\ com[n].pc = "build" /\ com'[n].pc = "cas" /\ com'[n].kind = com[n].kind
        /\ com'[n].next = com[n].next /\ com'[n].ix.parts = com[n].next \cup view[n].foreign
        /\ com'[n].ix.removed = NextRemovals(n)
        /\ \A m \in Node \ {n} : view'[m] = view[m] /\ com'[m] = com[m]
    BY Built, Zenon DEF IInv
  <2>2. UNCHANGED <<index, limbo, ver, established, flush, merge, retired, covers>>
    BY Zenon DEF Build, storeVars, buildVars
  <2>3. RowsAt(n) /\ KnowAt(n) /\ Names(n) \subseteq Minted /\ Removed(n) \subseteq Minted /\ Minted' = Minted
    BY <2>2, Zenon DEF RowsInv, MintInv, Minted
  <2>4. NextRemovals(n) \subseteq view[n].indexed \cup view[n].removals
    BY Zenon DEF NextRemovals
  <2>5. Rows(covers, NextRemovals(n)) \subseteq Rows(covers, com[n].next)
    <3>1. Rows(covers, NextRemovals(n)) \subseteq Rows(covers, view[n].indexed \cup view[n].removals)
      BY <2>4, <1>RowsMono, Zenon
    <3> QED BY <2>1, <2>3, <3>1, Zenon DEF RowsAt
  <2>6. Rows(covers, com[n].next \cup NextRemovals(n)) \subseteq Rows(covers, com[n].next)
    <3>1. Rows(covers, com[n].next \cup NextRemovals(n)) \subseteq Rows(covers, com[n].next) \cup Rows(covers, NextRemovals(n))
      BY <1>RowsCut
    <3> QED BY <2>5, <3>1, Zenon
  <2>7. RowsAt(n)'
    BY <2>1, <2>2, <2>3, <2>5, <2>6, Zenon DEF RowsAt
  <2>8. KnowAt(n)'
    BY <2>1, <2>2, <2>3, Zenon DEF KnowAt, NextRemovals
  <2>9. Names(n)' \subseteq Names(n)
    BY <2>1, <2>2, Zenon DEF Names
  <2>10. Removed(n)' \subseteq Removed(n) \cup Names(n)
    BY <2>1, <2>4, ZenonT(30) DEF Names, Removed
  <2>11. Leaves(n) /\ \A m \in Node \ {n} : Same(m) /\ ver'[m] = ver[m]
    BY <2>1, <2>2, Zenon DEF Leaves, Same
  <2>12. Names(n)' \subseteq Minted' /\ Removed(n)' \subseteq Minted'
    BY <2>3, <2>9, <2>10, Zenon
  <2> QED BY <2>2, <2>7, <2>8, <2>11, <2>12, <1>RowsLocal, Zenon
<1>RebaseRows. ASSUME IInv, RowsInv, MintInv, NEW n \in Node, Rebase(n) PROVE RowsInv' /\ MintInv'
  <2> USE <1>RebaseRows
  <2>1. /\ view'[n].parts = view[n].parts /\ view'[n].pending = view[n].pending
        /\ view'[n].indexed = view[n].indexed /\ view'[n].removals = view[n].removals
        /\ view'[n].foreign = Foreign(n) /\ com[n].pc = "rebase" /\ com'[n].pc = "check"
        /\ com'[n].kind = com[n].kind /\ com'[n].next = com[n].next /\ com'[n].ix = com[n].ix
        /\ \A m \in Node \ {n} : view'[m] = view[m] /\ ver'[m] = ver[m] /\ com'[m] = com[m]
    BY Rebased, Zenon DEF IInv
  <2>2. UNCHANGED <<index, limbo, established, flush, merge, retired, covers>>
    BY Zenon DEF Rebase, storeVars, buildVars
  <2>3. RowsAt(n) /\ Names(n) \subseteq Minted /\ Removed(n) \subseteq Minted /\ Minted' = Minted
        /\ index.parts \subseteq Minted
    BY <2>2, Zenon DEF RowsInv, MintInv, Minted
  <2>4. RowsAt(n)'
    BY <2>1, <2>2, <2>3, Zenon DEF RowsAt
  <2>5. KnowAt(n)'
    BY <2>1, <2>2, Zenon DEF KnowAt, Foreign
  <2>6. Names(n)' \subseteq Names(n) \cup index.parts /\ Removed(n)' = Removed(n)
    BY <2>1, <2>2, Zenon DEF Names, Removed, Foreign
  <2>7. Leaves(n) /\ \A m \in Node \ {n} : Same(m) /\ ver'[m] = ver[m]
    BY <2>1, <2>2, Zenon DEF Leaves, Same
  <2>8. Names(n)' \subseteq Minted' /\ Removed(n)' \subseteq Minted'
    BY <2>3, <2>6, Zenon
  <2> QED BY <2>2, <2>4, <2>5, <2>7, <2>8, <1>RowsLocal, Zenon
\* A fresh load accounts for everything the index names and removed.
<1>LoadRows.
    ASSUME IInv, RowsInv, MintInv, NEW n \in Node, RefreshReplica(n) \/ Establish(n)
    PROVE  RowsInv' /\ MintInv'
  <2> USE <1>LoadRows
  <2>1. /\ LoadParts(n) /\ com[n].pc = "idle"
        /\ UNCHANGED <<index, limbo, established, flush, merge, retired, covers>>
    BY Zenon DEF RefreshReplica, Establish, Idle, storeVars, buildVars
  <2>2. /\ view'[n].parts = index.parts \cup (view[n].pending \ index.parts)
        /\ view'[n].pending = view[n].pending \ index.parts
        /\ view'[n].indexed = index.parts /\ view'[n].removals = index.removed
        /\ view'[n].foreign = {} /\ view'[n] = Loaded(n)
        /\ \A m \in Node \ {n} : view'[m] = view[m] /\ ver'[m] = ver[m]
    BY <2>1, LoadedView, Zenon DEF IInv
  <2>3. /\ com'[n] = com[n] \/ (com'[n].pc = "build" /\ com'[n].next = view'[n].parts /\ com'[n].ix = NoIndex)
        /\ \A m \in Node \ {n} : com'[m] = com[m]
    <3>1. CASE com' = com
      BY <3>1, Zenon
    <3>2. CASE com' # com
      <4>1. Establish(n)
        BY <3>2, Zenon DEF RefreshReplica
      <4> QED BY <2>2, <3>2, <4>1, EstablishBegun, ZenonT(30) DEF IInv
    <3> QED BY <3>1, <3>2, Zenon
  <2>4. /\ Rows(covers, index.removed) \subseteq Rows(covers, index.parts)
        /\ Names(n) \subseteq Minted /\ Removed(n) \subseteq Minted /\ Minted' = Minted
        /\ index.parts \subseteq Minted /\ index.removed \subseteq Minted /\ RowsAt(n)
    BY <2>1, Zenon DEF RowsInv, MintInv, Minted
  <2>5. Rows(covers, index.parts \cup index.removed) \subseteq Rows(covers, view'[n].parts)
    <3>1. Rows(covers, index.parts \cup index.removed) \subseteq Rows(covers, index.parts) \cup Rows(covers, index.removed)
      BY <1>RowsCut, ZenonT(30)
    <3>2. Rows(covers, index.parts) \subseteq Rows(covers, view'[n].parts)
      BY <2>2, <1>RowsMono, Zenon
    <3> QED BY <2>4, <3>1, <3>2, Zenon
  <2>6. RowsAt(n)'
    <3>1. CASE com'[n] = com[n]
      BY <2>1, <2>2, <2>4, <2>5, <3>1, Zenon DEF RowsAt
    <3>2. CASE com'[n].pc = "build" /\ com'[n].next = view'[n].parts
      BY <2>1, <2>2, <2>4, <2>5, <3>2, Zenon DEF RowsAt
    <3> QED BY <2>3, <3>1, <3>2, Zenon
  <2>7. KnowAt(n)'
    BY <2>1, <2>2, Zenon DEF KnowAt
  <2>8. Names(n)' \subseteq Names(n) \cup index.parts /\ Removed(n)' \subseteq Removed(n) \cup index.removed
    <3>1. CASE com'[n] = com[n]
      BY <2>1, <2>2, <3>1, Zenon DEF Names, Removed
    <3>2. CASE com'[n].next = view'[n].parts /\ com'[n].ix = NoIndex
      BY <2>1, <2>2, <3>2, NoWork, ZenonT(30) DEF Names, Removed
    <3> QED BY <2>3, <3>1, <3>2, Zenon
  <2>9. Leaves(n) /\ \A m \in Node \ {n} : Same(m) /\ ver'[m] = ver[m]
    BY <2>1, <2>2, <2>3, Zenon DEF Leaves, Same
  <2>10. Names(n)' \subseteq Minted' /\ Removed(n)' \subseteq Minted'
    BY <2>4, <2>8, Zenon
  <2> QED BY <2>1, <2>6, <2>7, <2>9, <2>10, <1>RowsLocal, Zenon
<1>RestartRows. ASSUME IInv, RowsInv, MintInv, NEW n \in Node, Restart(n) PROVE RowsInv' /\ MintInv'
  <2> USE <1>RestartRows
  <2>1. /\ view'[n].parts = index.parts /\ view'[n].pending = {}
        /\ view'[n].indexed = index.parts /\ view'[n].removals = index.removed
        /\ view'[n].foreign = {} /\ com'[n] = NoCommit /\ flush'[n] = NoFlush /\ merge'[n] = NoMerge
        /\ index' = index /\ covers' = covers /\ Leaves(n)
        /\ \A m \in Node \ {n} : Same(m) /\ ver'[m] = ver[m]
    BY Restarted, Zenon DEF IInv
  <2>2. /\ Rows(covers, index.removed) \subseteq Rows(covers, index.parts) /\ Minted' = Minted
        /\ index.parts \subseteq Minted /\ index.removed \subseteq Minted
    BY <2>1, Zenon DEF RowsInv, MintInv, Minted
  <2>3. /\ com'[n].pc = "idle" /\ com'[n].next = {} /\ com'[n].ix.parts = {} /\ com'[n].ix.removed = {}
        /\ flush'[n].outs = {} /\ merge'[n].src = {} /\ merge'[n].outs = {}
    BY <2>1, NoWork, Zenon
  <2>4. Rows(covers, index.parts \cup index.removed) \subseteq Rows(covers, index.parts)
    <3>1. Rows(covers, index.parts \cup index.removed) \subseteq Rows(covers, index.parts) \cup Rows(covers, index.removed)
      BY <1>RowsCut, ZenonT(30)
    <3> QED BY <2>2, <3>1, Zenon
  <2>5. RowsAt(n)'
    BY <2>1, <2>3, <2>4, Zenon DEF RowsAt
  <2>6. KnowAt(n)'
    BY <2>1, Zenon DEF KnowAt
  <2>7. Names(n)' \subseteq Minted' /\ Removed(n)' \subseteq Minted'
    BY <2>1, <2>2, <2>3, Zenon DEF Names, Removed
  <2> QED BY <2>1, <2>5, <2>6, <2>7, <1>RowsLocal, Zenon
\* A commit begins: it adds a flush's output, swaps a merge's, or changes
\* nothing.
<1>BegunRows.
    ASSUME IInv, RowsInv, MintInv, NEW n \in Node, com[n].pc = "idle",
           NEW k, NEW P, NEW e, NEW t, Begin(n, k, P, e, t),
           UNCHANGED <<index, limbo, covers, view, ver, established, flush, merge, retired>>,
           P \subseteq Names(n), Rows(covers, view[n].parts) \subseteq Rows(covers, P),
           k # "flush" => Rows(covers, P) \subseteq Rows(covers, view[n].parts)
    PROVE  RowsInv' /\ MintInv'
  <2> USE <1>BegunRows
  <2>1. /\ com'[n].pc = "check" /\ com'[n].kind = k /\ com'[n].next = P
        /\ com'[n].ix.parts = {} /\ com'[n].ix.removed = {}
        /\ \A m \in Node \ {n} : com'[m] = com[m]
    BY Begun, NoWork DEF IInv
  <2>2. RowsAt(n) /\ KnowAt(n) /\ Names(n) \subseteq Minted /\ Removed(n) \subseteq Minted /\ Minted' = Minted
    BY Zenon DEF RowsInv, MintInv, Minted
  <2>3. RowsAt(n)'
    <3>1. /\ Rows(covers, merge[n].outs) = Rows(covers, merge[n].src)
          /\ Rows(covers, view[n].indexed \cup view[n].removals) \subseteq Rows(covers, view[n].parts)
      BY <2>2, Zenon DEF RowsAt
    <3> QED BY <2>1, <3>1, Zenon DEF RowsAt
  <2>4. KnowAt(n)'
    BY <2>2, Zenon DEF KnowAt
  <2>5. Names(n)' \subseteq Names(n) /\ Removed(n)' \subseteq Removed(n)
    BY <2>1, Zenon DEF Names, Removed
  <2>6. Leaves(n) /\ \A m \in Node \ {n} : Same(m) /\ ver'[m] = ver[m]
    BY <2>1, Zenon DEF Leaves, Same
  <2>7. Names(n)' \subseteq Minted' /\ Removed(n)' \subseteq Minted'
    BY <2>2, <2>5, Zenon
  <2> QED BY <2>3, <2>4, <2>6, <2>7, <1>RowsLocal, Zenon
<1>BeginRows.
    ASSUME IInv, RowsInv, MintInv, NEW n \in Node, FlushPublish(n) \/ Republish(n) \/ MergePublish(n)
    PROVE  RowsInv' /\ MintInv'
  <2> USE <1>BeginRows
  <2>1. com[n].pc = "idle" /\ UNCHANGED <<index, limbo, covers, view, ver, established, flush>>
    BY Zenon DEF FlushPublish, Republish, MergePublish, MayMerge, Idle, storeVars, engineVars, buildVars
  <2>2. CASE FlushPublish(n)
    <3> DEFINE P == view[n].parts \cup flush[n].outs
               e == Max2(flush[n].epoch, view[n].flushed)
    <3>1. Begin(n, "flush", P, e, term[n]) /\ UNCHANGED <<merge, retired>>
      BY <2>2, Zenon DEF FlushPublish, buildVars
    <3>2. P \subseteq Names(n) /\ Rows(covers, view[n].parts) \subseteq Rows(covers, P)
      BY <1>RowsMono, Zenon DEF Names
    <3> HIDE DEF P, e
    <3> QED BY <2>1, <3>1, <3>2, <1>BegunRows, Zenon
  <2>3. CASE Republish(n)
    <3>1. Begin(n, "republish", view[n].parts, view[n].flushed, term[n]) /\ UNCHANGED <<merge, retired>>
      BY <2>3, Zenon DEF Republish, buildVars
    <3>2. view[n].parts \subseteq Names(n)
      BY Zenon DEF Names
    <3> QED BY <2>1, <3>1, <3>2, <1>BegunRows, Zenon
  <2>4. CASE MergePublish(n) /\ merge[n].src \subseteq view[n].parts
    <3> DEFINE P == (view[n].parts \ merge[n].src) \cup merge[n].outs
    <3>1. Begin(n, "merge", P, view[n].flushed, merge[n].stamp) /\ UNCHANGED <<merge, retired>>
      BY <2>4, Zenon DEF MergePublish
    <3>2. P \subseteq Names(n)
      BY Zenon DEF Names
    <3>3. Rows(covers, merge[n].outs) = Rows(covers, merge[n].src)
      BY Zenon DEF RowsInv, RowsAt
    <3>4. Rows(covers, view[n].parts) \subseteq Rows(covers, P)
      <4>1. Rows(covers, view[n].parts) \subseteq Rows(covers, view[n].parts \ merge[n].src) \cup Rows(covers, merge[n].src)
        BY <1>RowsSplit, Zenon
      <4>2. Rows(covers, view[n].parts \ merge[n].src) \subseteq Rows(covers, P)
        BY <1>RowsMono, ZenonT(30)
      <4>3. Rows(covers, merge[n].outs) \subseteq Rows(covers, P)
        BY <1>RowsMono, ZenonT(30)
      <4> QED BY <3>3, <4>1, <4>2, <4>3, Zenon
    <3>5. Rows(covers, P) \subseteq Rows(covers, view[n].parts)
      <4>1. Rows(covers, P) \subseteq Rows(covers, view[n].parts \ merge[n].src) \cup Rows(covers, merge[n].outs)
        BY <1>RowsCut
      <4>2. Rows(covers, view[n].parts \ merge[n].src) \subseteq Rows(covers, view[n].parts)
        BY <1>RowsMono, Zenon
      <4>3. Rows(covers, merge[n].src) \subseteq Rows(covers, view[n].parts)
        BY <2>4, <1>RowsMono, Zenon
      <4> QED BY <3>3, <4>1, <4>2, <4>3, Zenon
    <3> HIDE DEF P
    <3> QED BY <2>1, <3>1, <3>2, <3>4, <3>5, <1>BegunRows, Zenon
  <2>5. CASE MergePublish(n) /\ ~(merge[n].src \subseteq view[n].parts)
    <3>1. com' = com /\ merge' = [merge EXCEPT ![n] = NoMerge] /\ retired' = [retired EXCEPT ![n] = @ \cup merge[n].outs]
      BY <2>5, Zenon DEF MergePublish
    <3>2. merge'[n].src = {} /\ merge'[n].outs = {}
      BY <3>1, NoWork, FunTypes, Zenon DEF IInv
    <3>3. RowsAt(n) /\ KnowAt(n) /\ Names(n) \subseteq Minted /\ Removed(n) \subseteq Minted /\ Minted' = Minted
      BY <2>1, Zenon DEF RowsInv, MintInv, Minted
    <3>4. RowsAt(n)' /\ KnowAt(n)'
      BY <2>1, <3>1, <3>2, <3>3, Zenon DEF RowsAt, KnowAt
    <3>5. Names(n)' \subseteq Names(n) /\ Removed(n)' = Removed(n)
      BY <2>1, <3>1, <3>2, Zenon DEF Names, Removed
    <3>6. Leaves(n) /\ \A m \in Node \ {n} : Same(m) /\ ver'[m] = ver[m]
      BY <2>1, <3>1, FunTypes, Zenon DEF Leaves, Same, IInv
    <3>7. Names(n)' \subseteq Minted' /\ Removed(n)' \subseteq Minted'
      BY <3>3, <3>5, Zenon
    <3> QED BY <2>1, <3>4, <3>6, <3>7, <1>RowsLocal, Zenon
  <2> QED BY <2>2, <2>3, <2>4, <2>5, Zenon
\* A part is written under a prefix nobody has named.
<1>Written.
    ASSUME TypeOK, NEW p \in Fresh, NEW L \in SUBSET Part, L # {}, WritePart(p, L)
    PROVE  /\ covers'[p] = L /\ p \in Minted' /\ p \notin Minted /\ Minted \subseteq Minted'
           /\ \A S : S \subseteq Minted => Rows(covers', S) = Rows(covers, S)
  <2> USE <1>Written
  <2>1. covers \in [Part -> SUBSET Part] /\ p \in Part /\ p \notin Minted
    BY Zenon DEF TypeOK, Fresh
  <2>2. covers'[p] = L /\ \A q \in Part \ {p} : covers'[q] = covers[q]
    BY <2>1, Zenon DEF WritePart
  <2>3. p \in Minted' /\ Minted \subseteq Minted'
    BY <2>1, <2>2, Zenon DEF Minted
  <2>4. ASSUME NEW S, S \subseteq Minted PROVE Rows(covers', S) = Rows(covers, S)
    <3>1. \A q \in S : covers'[q] = covers[q]
      BY <2>1, <2>2, <2>4, Zenon DEF Minted
    <3> QED BY <3>1, <1>RowsSame, ZenonT(30)
  <2> QED BY <2>1, <2>2, <2>3, <2>4, Zenon
<1>WrittenRows.
    ASSUME IInv, RowsInv, MintInv, NEW n \in Node, NEW p \in Fresh, NEW L \in SUBSET Part, L # {},
           WritePart(p, L), UNCHANGED <<index, limbo, view, com, ver>>,
           \A m \in Node \ {n} : flush'[m] = flush[m] /\ merge'[m] = merge[m],
           flush'[n].outs \cup merge'[n].src \cup merge'[n].outs \subseteq Names(n) \cup {p},
           Rows(covers', merge'[n].outs) = Rows(covers', merge'[n].src)
    PROVE  RowsInv' /\ MintInv' /\ Rows(covers, index.parts) \subseteq Rows(covers', index'.parts)
  <2> USE <1>WrittenRows
  <2>1. /\ p \in Minted' /\ Minted \subseteq Minted'
        /\ \A S : S \subseteq Minted => Rows(covers', S) = Rows(covers, S)
    BY <1>Written, Zenon DEF IInv
  <2>2. ASSUME NEW m \in Node PROVE Names(m)' \subseteq Minted' /\ Removed(m)' \subseteq Minted'
    <3>1. Names(m) \subseteq Minted /\ Removed(m) \subseteq Minted
      BY Zenon DEF MintInv
    <3>2. Removed(m)' = Removed(m)
      BY Zenon DEF Removed
    <3>3. Names(m)' \subseteq Names(m) \cup {p}
      <4>1. CASE m = n
        <5>1. Names(n)' = view[n].parts \cup view[n].pending \cup view[n].indexed \cup view[n].foreign
                          \cup flush'[n].outs \cup merge'[n].src \cup merge'[n].outs
                          \cup com[n].next \cup com[n].ix.parts
          BY Zenon DEF Names
        <5>2. view[n].parts \cup view[n].pending \cup view[n].indexed \cup view[n].foreign
              \cup com[n].next \cup com[n].ix.parts \subseteq Names(n)
          BY Zenon DEF Names
        <5> QED BY <4>1, <5>1, <5>2, Zenon
      <4>2. CASE m # n
        BY <4>2 DEF Names
      <4> QED BY <4>1, <4>2, Zenon
    <3> QED BY <2>1, <3>1, <3>2, <3>3, Zenon
  <2>3. ASSUME NEW m \in Node PROVE RowsAt(m)' /\ KnowAt(m)'
    <3>1. Names(m) \subseteq Minted /\ Removed(m) \subseteq Minted /\ RowsAt(m) /\ KnowAt(m)
      BY Zenon DEF MintInv, RowsInv
    <3>2. /\ merge[m].outs \subseteq Minted /\ merge[m].src \subseteq Minted
          /\ view[m].indexed \cup view[m].removals \subseteq Minted
          /\ view[m].parts \subseteq Minted /\ com[m].next \subseteq Minted /\ com[m].ix.removed \subseteq Minted
      BY <3>1, Zenon DEF Names, Removed
    <3>3. /\ Rows(covers', merge[m].outs) = Rows(covers, merge[m].outs)
          /\ Rows(covers', merge[m].src) = Rows(covers, merge[m].src)
          /\ Rows(covers', view[m].indexed \cup view[m].removals) = Rows(covers, view[m].indexed \cup view[m].removals)
          /\ Rows(covers', view[m].parts) = Rows(covers, view[m].parts)
          /\ Rows(covers', com[m].next) = Rows(covers, com[m].next)
          /\ Rows(covers', com[m].ix.removed) = Rows(covers, com[m].ix.removed)
      BY <2>1, <3>2, Zenon
    <3>4. Rows(covers', merge'[m].outs) = Rows(covers', merge'[m].src)
      <4>1. CASE m = n
        BY <4>1, Zenon
      <4>2. CASE m # n
        BY <3>1, <3>3, <4>2, Zenon DEF RowsAt
      <4> QED BY <4>1, <4>2, Zenon
    <3>5. RowsAt(m)'
      BY <3>1, <3>3, <3>4, Zenon DEF RowsAt
    <3>6. KnowAt(m)'
      BY <3>1, Zenon DEF KnowAt
    <3> QED BY <3>5, <3>6, Zenon
  <2>4. index.parts \subseteq Minted /\ index.removed \subseteq Minted
    BY Zenon DEF MintInv
  <2>5. Rows(covers', index.parts) = Rows(covers, index.parts) /\ Rows(covers', index.removed) = Rows(covers, index.removed)
    BY <2>1, <2>4, Zenon
  <2>6. ASSUME NEW w \in limbo PROVE Keeps(w.ix)' /\ w.ix.parts \cup w.ix.removed \subseteq Minted'
    <3>1. w.ix.parts \subseteq Minted /\ w.ix.removed \subseteq Minted /\ Keeps(w.ix)
      BY Zenon DEF MintInv, RowsInv
    <3>2. Rows(covers', w.ix.parts) = Rows(covers, w.ix.parts) /\ Rows(covers', w.ix.removed) = Rows(covers, w.ix.removed)
      BY <2>1, <3>1, Zenon
    <3> QED BY <2>1, <2>5, <3>1, <3>2, Zenon DEF Keeps
  <2>7. Rows(covers', index'.removed) \subseteq Rows(covers', index'.parts)
    BY <2>5, Zenon DEF RowsInv
  <2>8. RowsInv'
    BY <2>3, <2>6, <2>7, Zenon DEF RowsInv
  <2>9. MintInv'
    BY <2>1, <2>2, <2>4, <2>6, Zenon DEF MintInv
  <2> QED BY <2>5, <2>8, <2>9, Zenon
<1>FlushBeginRows.
    ASSUME IInv, RowsInv, MintInv, NEW n \in Node, NEW p \in Part, FlushBegin(n, p)
    PROVE  RowsInv' /\ MintInv' /\ Rows(covers, index.parts) \subseteq Rows(covers', index'.parts)
  <2> USE <1>FlushBeginRows
  <2>1. /\ p \in Fresh /\ WritePart(p, {p})
        /\ flush' = [flush EXCEPT ![n] = [outs |-> {p}, epoch |-> view[n].flushed + 1]]
        /\ UNCHANGED <<index, limbo, view, com, ver, merge>>
    BY Zenon DEF FlushBegin, storeVars, engineVars
  <2>2. flush'[n].outs = {p} /\ \A m \in Node \ {n} : flush'[m] = flush[m]
    BY <2>1, FunTypes, Zenon DEF IInv
  <2>3. merge[n].src \subseteq Minted /\ merge[n].outs \subseteq Minted
    BY Zenon DEF MintInv, Names
  <2>4. Rows(covers', merge[n].outs) = Rows(covers, merge[n].outs) /\ Rows(covers', merge[n].src) = Rows(covers, merge[n].src)
    BY <2>1, <2>3, <1>Written, Zenon DEF IInv
  <2>5. Rows(covers', merge'[n].outs) = Rows(covers', merge'[n].src)
    BY <2>1, <2>4, Zenon DEF RowsInv, RowsAt
  <2>6. flush'[n].outs \cup merge'[n].src \cup merge'[n].outs \subseteq Names(n) \cup {p}
    BY <2>1, <2>2, Zenon DEF Names
  <2>7. {p} # {} /\ {p} \in SUBSET Part /\ \A m \in Node \ {n} : flush'[m] = flush[m] /\ merge'[m] = merge[m]
    BY <2>1, <2>2, Zenon
  <2> QED BY <2>1, <2>5, <2>6, <2>7, <1>WrittenRows, Zenon
<1>MergeBeginRows.
    ASSUME IInv, RowsInv, MintInv, NEW n \in Node, NEW src \in SUBSET Part, NEW p \in Part, MergeBegin(n, src, p)
    PROVE  RowsInv' /\ MintInv' /\ Rows(covers, index.parts) \subseteq Rows(covers', index'.parts)
  <2> USE <1>MergeBeginRows
  <2> DEFINE L == Rows(covers, src)
  <2>0. TypeOK
    BY Zenon DEF IInv
  <2>1. /\ L # {} /\ L \in SUBSET Part /\ WritePart(p, L) /\ p \in Fresh
        /\ src \subseteq view[n].parts /\ src \subseteq Minted
        /\ merge'[n].src = src /\ merge'[n].outs = {p} /\ \A m \in Node \ {n} : merge'[m] = merge[m]
    BY <2>0, MergeCovers, ZenonT(30)
  <2>2. UNCHANGED <<index, limbo, view, com, ver, flush>>
    BY Zenon DEF MergeBegin, storeVars, engineVars
  <2> HIDE DEF L
  <2>3. covers'[p] = L /\ Rows(covers', src) = Rows(covers, src)
    BY <2>1, <1>Written, Zenon DEF IInv
  <2>4. Rows(covers', {p}) = covers'[p]
    BY Zenon DEF Rows
  <2>5. Rows(covers', merge'[n].outs) = Rows(covers', merge'[n].src)
    BY <2>1, <2>3, <2>4, Zenon DEF L
  <2>6. flush'[n].outs \cup merge'[n].src \cup merge'[n].outs \subseteq Names(n) \cup {p}
    BY <2>1, <2>2, Zenon DEF Names
  <2> QED BY <2>1, <2>2, <2>5, <2>6, <1>WrittenRows, Zenon
<1>CasRows.
    ASSUME IInv, RowsInv, MintInv, NEW n \in Node, CasLands(n) \/ CasUnknown(n)
    PROVE  RowsInv' /\ MintInv' /\ Rows(covers, index.parts) \subseteq Rows(covers', index'.parts)
  <2> USE <1>CasRows
  <2>1. com[n].pc = "cas" /\ com[n].pc # "idle"
    BY Zenon DEF CasLands, CasUnknown
  <2>2. CASE CasLands(n)
    <3>1. Finish(n, "landed") /\ Swap(Write(n)) /\ limbo' = limbo /\ ver' = [ver EXCEPT ![n] = index'.ver]
      BY <2>2, Zenon DEF CasLands
    <3>2. ver'[n] = index'.ver /\ \A m \in Node \ {n} : ver'[m] = ver[m]
      BY <3>1, FunTypes, Zenon DEF IInv
    <3> QED BY <2>1, <3>1, <3>2, <1>LandedRows, Zenon
  <2>3. CASE CasUnknown(n)
    <3>1. Finish(n, "unknown") /\ ver' = ver
      BY <2>3, Zenon DEF CasUnknown
    <3>2. CASE Swap(Write(n)) /\ limbo' = limbo
      BY <2>1, <3>1, <3>2, <1>LandedRows, Zenon
    <3>3. CASE index' = index /\ Leaves(n)
      <4>1. covers' = covers
        BY <3>1, Zenon DEF Finish
      <4> QED BY <2>1, <3>1, <3>3, <4>1, <1>FinishedRows, Zenon
    <3>4. \/ Swap(Write(n)) /\ limbo' = limbo
          \/ index' = index /\ Leaves(n)
      BY <2>1, <2>3, Zenon DEF CasUnknown, Leaves, storeVars
    <3> QED BY <3>2, <3>3, <3>4, Zenon
  <2> QED BY <2>2, <2>3, Zenon
<1>LandLateRows.
    ASSUME IInv, RowsInv, MintInv, NEW w \in limbo, LandLate(w)
    PROVE  RowsInv' /\ MintInv' /\ Rows(covers, index.parts) \subseteq Rows(covers', index'.parts)
  <2> USE <1>LandLateRows
  <2>1. /\ Swap(w) /\ limbo' \subseteq limbo
        /\ UNCHANGED <<ver, view, established, flush, merge, retired, covers, com>>
    BY Zenon DEF LandLate, engineVars, buildVars
  <2>2. w \in [ix : Index, stamp : Nat] /\ Keeps(w.ix) /\ w.ix.parts \cup w.ix.removed \subseteq Minted
    BY Zenon DEF IInv, TypeOK, RowsInv, MintInv
  <2>3. index'.ver = index.ver + 1
    BY <2>1, Zenon DEF Swap
  <2>4. ASSUME NEW m \in Node
        PROVE  RowsAt(m)' /\ KnowAt(m)' /\ Names(m)' \subseteq Minted' /\ Removed(m)' \subseteq Minted'
    <3>1. Same(m) /\ view'[m] = view[m] /\ ver'[m] = ver[m]
      BY <2>1, Zenon DEF Same
    <3> QED BY <2>1, <2>3, <3>1, <1>OthersRows, <1>OthersKnow, <1>OthersNames, Zenon
  <2> QED BY <2>1, <2>2, <2>4, <1>RowsLanded, Zenon
\* The steps that touch no engine's view and no commit.
<1>QuietRows.
    ASSUME IInv, RowsInv, MintInv,
           \/ UNCHANGED vars \/ Expire
           \/ \E n \in Node : Acquire(n) \/ Fence(n) \/ Renew(n) \/ FlushAbort(n) \/ Reclaim(n)
    PROVE  RowsInv' /\ MintInv' /\ index' = index /\ covers' = covers
  <2> USE <1>QuietRows
  <2>1. UNCHANGED <<index, limbo, covers, view, com, merge, ver>>
    BY Zenon DEF vars, Expire, Acquire, Fence, Renew, FlushAbort, Reclaim, storeVars, engineVars, buildVars
  <2>2. \A m \in Node : flush'[m].outs \subseteq flush[m].outs
    <3>1. flush' = flush \/ \E n \in Node : flush' = [flush EXCEPT ![n] = NoFlush]
      BY Zenon DEF vars, Expire, Acquire, Fence, Renew, FlushAbort, Reclaim, buildVars
    <3>2. CASE flush' = flush
      BY <3>2, Zenon
    <3>3. ASSUME NEW n \in Node, flush' = [flush EXCEPT ![n] = NoFlush]
          PROVE  \A m \in Node : flush'[m].outs \subseteq flush[m].outs
      BY <3>3, FunTypes, NoWork, Zenon DEF IInv
    <3> QED BY <3>1, <3>2, <3>3, Zenon
  <2> QED BY <2>1, <2>2, <1>RowsIdle, Zenon
<1> SUFFICES ASSUME IInv, RowsInv, MintInv, [Next]_vars
             PROVE  RowsInv' /\ MintInv' /\ Rows(covers, index.parts) \subseteq Rows(covers', index'.parts)
  BY Zenon
<1>1. CASE \/ UNCHANGED vars \/ Expire
           \/ \E n \in Node : Acquire(n) \/ Fence(n) \/ Renew(n) \/ FlushAbort(n) \/ Reclaim(n)
  BY <1>1, <1>QuietRows, Zenon
<1>2. CASE \E w \in limbo : LandLate(w)
  BY <1>2, <1>LandLateRows, Zenon
<1>3. ASSUME NEW n \in Node, RefreshReplica(n) \/ Establish(n) \/ Restart(n)
      PROVE  RowsInv' /\ MintInv' /\ index' = index /\ covers' = covers
  <2>1. index' = index /\ covers' = covers
    BY <1>3, Zenon DEF RefreshReplica, Establish, Restart, storeVars, buildVars
  <2> QED BY <1>3, <2>1, <1>LoadRows, <1>RestartRows, Zenon
<1>4. ASSUME NEW n \in Node, Check(n) \/ CasConflicts(n) \/ Build(n) \/ Rebase(n)
      PROVE  RowsInv' /\ MintInv' /\ index' = index /\ covers' = covers
  <2>1. index' = index /\ covers' = covers
    BY <1>4, Zenon DEF Check, CasConflicts, Build, Rebase, Finish, storeVars, buildVars
  <2> QED BY <1>4, <2>1, <1>MovedRows, <1>BuildRows, <1>RebaseRows, Zenon
<1>5. ASSUME NEW n \in Node, FlushPublish(n) \/ Republish(n) \/ MergePublish(n)
      PROVE  RowsInv' /\ MintInv' /\ index' = index /\ covers' = covers
  <2>1. index' = index /\ covers' = covers
    BY <1>5, Zenon DEF FlushPublish, Republish, MergePublish, storeVars, buildVars
  <2> QED BY <1>5, <2>1, <1>BeginRows, Zenon
<1>6. ASSUME NEW n \in Node, CasLands(n) \/ CasUnknown(n)
      PROVE  RowsInv' /\ MintInv' /\ Rows(covers, index.parts) \subseteq Rows(covers', index'.parts)
  BY <1>6, <1>CasRows, Zenon
<1>7. ASSUME NEW n \in Node, NEW p \in Part, FlushBegin(n, p)
      PROVE  RowsInv' /\ MintInv' /\ Rows(covers, index.parts) \subseteq Rows(covers', index'.parts)
  BY <1>7, <1>FlushBeginRows, Zenon
<1>8. ASSUME NEW n \in Node, NEW src \in SUBSET Part, NEW p \in Part, MergeBegin(n, src, p)
      PROVE  RowsInv' /\ MintInv' /\ Rows(covers, index.parts) \subseteq Rows(covers', index'.parts)
  BY <1>8, <1>MergeBeginRows, Zenon
<1> QED BY <1>1, <1>2, <1>3, <1>4, <1>5, <1>6, <1>7, <1>8, Zenon DEF Next

LEMMA RowsInit == ASSUME Init PROVE RowsInv /\ MintInv
<1>1. /\ index.parts = {} /\ index.removed = {} /\ limbo = {} /\ index.ver = 0
      /\ \A n \in Node :
          /\ view[n].parts = {} /\ view[n].pending = {} /\ view[n].indexed = {}
          /\ view[n].removals = {} /\ view[n].foreign = {}
          /\ flush[n].outs = {} /\ merge[n].src = {} /\ merge[n].outs = {}
          /\ com[n].pc = "idle" /\ com[n].next = {} /\ com[n].ix.parts = {} /\ com[n].ix.removed = {}
  BY NoWork, Zenon DEF Init, NoIndex
<1>2. \A n \in Node : Names(n) = {} /\ Removed(n) = {}
  BY <1>1, Zenon DEF Names, Removed
<1>3. MintInv
  BY <1>1, <1>2, Zenon DEF MintInv
<1>4. \A n \in Node : RowsAt(n) /\ KnowAt(n)
  <2> TAKE n \in Node
  <2>1. view[n].indexed \cup view[n].removals = view[n].parts
    BY <1>1, Zenon
  <2> QED BY <1>1, <2>1, Zenon DEF RowsAt, KnowAt
<1>5. RowsInv
  BY <1>1, <1>4, Zenon DEF RowsInv
<1> QED BY <1>3, <1>5, Zenon

LEMMA RowsHold == Spec => [](IInv /\ RowsInv /\ MintInv)
<1>1. Init => RowsInv /\ MintInv
  BY RowsInit, Zenon
<1>2. IInv /\ RowsInv /\ MintInv /\ [Next]_vars => RowsInv' /\ MintInv'
  BY RowsStep, Zenon
<1> QED BY <1>1, <1>2, InvHolds, PTL DEF Spec

\* A commit that lands names every row the index it replaces named, whatever
\* the handoffs, conflicts, lost responses, late writes and restarts before it
\* (readIndexLocked and its carry, foreignEntries, nextIndexLocked).
THEOREM NothingIsDropped == Spec => NothingDropped
<1>1. IInv /\ RowsInv /\ MintInv /\ [Next]_vars
        => [Covered(index) \subseteq UNION {covers'[p] : p \in index'.parts}]_vars
  <2> SUFFICES ASSUME IInv, RowsInv, MintInv, [Next]_vars
               PROVE  Covered(index) \subseteq UNION {covers'[p] : p \in index'.parts}
    BY Zenon
  <2>1. Rows(covers, index.parts) \subseteq Rows(covers', index'.parts)
    BY RowsStep, Zenon
  <2> QED BY <2>1, Zenon DEF Covered, Rows
<1> QED BY <1>1, RowsHold, PTL DEF Spec, NothingDropped
=============================================================================
