------------------------- MODULE SharedIndexHandoff -------------------------
(***************************************************************************)
(* What the claim on the shard buys: with every commit made under one, a   *)
(* watermark slot of the index never falls, for any number of nodes,       *)
(* tenures, lost responses and restarts.                                   *)
(***************************************************************************)
EXTENDS SharedIndexRows

\* The parts that only this node can still commit.
Hidden(n) == {p \in Part : p \notin index.parts /\ \A m \in Node \ {n} : p \notin Names(m)}

\* The node's own parts a flush in progress is no part of.
Settled(n) ==
    view[n].parts \cup view[n].pending \cup view[n].foreign \cup merge[n].outs
    \cup (IF com[n].kind = "flush" THEN {} ELSE com[n].next \cup com[n].ix.parts)

\* A flush's output is nobody else's, and in no write already sent.
OutsAt(n) ==
    /\ flush[n] # NoFlush => flush[n].outs # {}
    /\ flush[n].outs \subseteq Hidden(n) /\ flush[n].outs \cap Settled(n) = {}
    /\ \A w \in limbo : flush[n].outs \cap w.ix.parts = {}

\* A commit's epoch is the watermark the node will have; past its fence the
\* node has an established tenure, or is establishing one from a fresh load.
EpochAt(n) ==
    /\ com[n].pc # "idle" =>
        /\ com[n].epoch >= view[n].flushed
        /\ com[n].kind # "flush" => com[n].epoch = view[n].flushed
        /\ com[n].kind = "flush" => flush[n] # NoFlush
        /\ com[n].pc # "check" /\ com[n].kind # "establish" => established[n] # 0
        /\ com[n].kind = "establish" => com[n].left = 1 /\ com[n].pc \in {"build", "cas"}
        /\ com[n].kind = "establish" /\ ver[n] = index.ver => index.slots[n] <= view[n].flushed
    /\ com[n].pc = "cas" =>
        /\ com[n].ix.slots[n] = com[n].epoch
        /\ \A k \in Node \ {n} : com[n].ix.slots[k] = view[n].slots[k]
    /\ ver[n] = index.ver => \A k \in Node \ {n} : view[n].slots[k] = index.slots[k]

\* A node is never behind its own slot; where it is ahead, it holds a flushed
\* part that only it can commit.
Ahead(n, ix) ==
    /\ ix.slots[n] <= view[n].flushed
    /\ ix.slots[n] < view[n].flushed => \E p \in view[n].pending \cap Hidden(n) : p \notin ix.parts

Fits(ix) == ix.ver = index.ver + 1

SlotInv ==
    /\ \A n \in Node : OutsAt(n) /\ EpochAt(n)
    /\ \A n \in Node : established[n] # 0 =>
        Ahead(n, index) /\ \A w \in limbo : Fits(w.ix) => Ahead(n, w.ix)
    /\ \A w \in limbo : Fits(w.ix) => \A k \in Node : index.slots[k] <= w.ix.slots[k]

-----------------------------------------------------------------------------
(* Steps of one node, seen from the others.                                *)

By(n) == \A m \in Node \ {n} : Same(m) /\ ver'[m] = ver[m]

LEMMA NamesSame == ASSUME NEW m, Same(m) PROVE Names(m)' = Names(m)
BY Zenon DEF Same, Names

LEMMA HiddenOthers ==
    ASSUME NEW n \in Node, NEW m \in Node \ {n}, By(n), Names(n)' \subseteq Names(n) \cup index.parts,
           index'.parts \subseteq index.parts \cup Names(n)
    PROVE  Hidden(m) \subseteq Hidden(m)'
<1>1. ASSUME NEW p \in Hidden(m) PROVE p \in Hidden(m)'
  <2>1. p \in Part /\ p \notin index.parts /\ \A k \in Node \ {m} : p \notin Names(k)
    BY Zenon DEF Hidden
  <2>2. p \notin index'.parts
    BY <2>1, Zenon
  <2>3. ASSUME NEW k \in Node \ {m} PROVE p \notin Names(k)'
    <3>1. CASE k = n
      BY <2>1, <3>1, Zenon
    <3>2. CASE k # n
      <4>1. Same(k)
        BY <3>2, Zenon DEF By
      <4> QED BY <2>1, <4>1, NamesSame, Zenon
    <3> QED BY <3>1, <3>2, Zenon
  <2> QED BY <2>1, <2>2, <2>3, Zenon DEF Hidden
<1> QED BY <1>1, Zenon

LEMMA HiddenOwn ==
    ASSUME NEW n \in Node, By(n)
    PROVE  /\ \A p \in Hidden(n) : p \notin index'.parts => p \in Hidden(n)'
           /\ index' = index => Hidden(n)' = Hidden(n)
<1>1. \A k \in Node \ {n} : Names(k)' = Names(k)
  BY NamesSame, Zenon DEF By
<1> QED BY <1>1, Zenon DEF Hidden

\* Steps of one node that leave the stored index alone: what is left to show
\* is about the node itself.
OwnAhead(n) ==
    established[n] # 0 => Ahead(n, index) /\ \A w \in limbo : Fits(w.ix) => Ahead(n, w.ix)

\* The commit of an operation is over.
LEMMA FinishNames ==
    ASSUME TypeOK, NEW n \in Node, NEW r, Finish(n, r) PROVE Names(n)' \subseteq Names(n)
<1>1. view'[n].parts \in {com[n].next, view[n].parts} /\ view'[n].pending \subseteq view[n].pending \cup flush[n].outs
  BY Finished, ZenonT(30)
<1>2. /\ view'[n].indexed = view[n].indexed /\ view'[n].foreign = view[n].foreign /\ com'[n] = NoCommit
      /\ flush'[n] \in {NoFlush, flush[n]} /\ merge'[n] \in {NoMerge, merge[n]}
  BY Finished, Zenon
<1> QED BY <1>1, <1>2, NoWork DEF Names

LEMMA SlotStep ==
    IInv /\ MintInv /\ SlotInv /\ Clustered /\ [Next]_vars
    => SlotInv' /\ \A k \in Node : index.slots[k] <= index'.slots[k]
<1>Max2Type. \A a, b \in Nat : Max2(a, b) \in Nat /\ a <= Max2(a, b) /\ b <= Max2(a, b) /\ (a <= b => Max2(a, b) = b)
  BY DEF Max2
<1>OthersOuts.
    ASSUME SlotInv, NEW n \in Node, NEW m \in Node \ {n}, By(n),
           Names(n)' \subseteq Names(n) \cup index.parts, index'.parts \subseteq index.parts \cup Names(n),
           Leaves(n)
    PROVE  OutsAt(m)'
  <2> USE <1>OthersOuts
  <2>1. OutsAt(m) /\ Hidden(m) \subseteq Hidden(m)'
    BY HiddenOthers, Zenon DEF SlotInv
  <2>2. Same(m)
    BY Zenon DEF By
  <2>3. Settled(m)' = Settled(m)
    BY <2>2, Zenon DEF Settled, Same
  <2>4. flush'[m] = flush[m]
    BY <2>2, Zenon DEF Same
  <2>5. ASSUME NEW w \in limbo' PROVE flush[m].outs \cap w.ix.parts = {}
    <3>1. CASE w \in limbo
      BY <2>1, <3>1, Zenon DEF OutsAt
    <3>2. CASE com[n].pc = "cas" /\ w = Write(n)
      <4>1. w.ix.parts \subseteq Names(n)
        BY <3>2, Zenon DEF Write, Names
      <4>2. flush[m].outs \cap Names(n) = {}
        BY <2>1, Zenon DEF OutsAt, Hidden
      <4> QED BY <4>1, <4>2, Zenon
    <3> QED BY <3>1, <3>2, Zenon DEF Leaves
  <2> QED BY <2>1, <2>3, <2>4, <2>5, Zenon DEF OutsAt
\* A write that would land takes every other slot from the stored index.
<1>WriteSlots.
    ASSUME IInv, SlotInv, NEW n \in Node, com[n].pc = "cas", Fits(com[n].ix)
    PROVE  /\ ver[n] = index.ver
           /\ \A k \in Node \ {n} : com[n].ix.slots[k] = index.slots[k]
           /\ \A k \in Node : index.slots[k] <= com[n].ix.slots[k]
  <2> USE <1>WriteSlots
  <2>1. com[n].ix.ver = ver[n] + 1 /\ ver[n] \in Nat /\ index.ver \in Nat
    BY EngineFields, Zenon DEF IInv, CasInv
  <2>2. ver[n] = index.ver
    BY <2>1 DEF Fits
  <2>3. EpochAt(n)
    BY Zenon DEF SlotInv
  <2>4. \A k \in Node \ {n} : com[n].ix.slots[k] = index.slots[k]
    BY <2>2, <2>3, Zenon DEF EpochAt
  <2>5. index.slots \in [Node -> Nat] /\ view[n].flushed \in Nat /\ com[n].epoch \in Nat
    BY EngineFields, CommitFields, Zenon DEF IInv, View
  <2>6. index.slots[n] <= view[n].flushed
    <3>1. CASE com[n].kind = "establish"
      BY <2>2, <2>3, <3>1, Zenon DEF EpochAt
    <3>2. CASE com[n].kind # "establish"
      <4>1. established[n] # 0
        BY <2>3, <3>2, Zenon DEF EpochAt
      <4> QED BY <4>1, Zenon DEF SlotInv, Ahead
    <3> QED BY <3>1, <3>2, Zenon
  <2>7. com[n].ix.slots[n] = com[n].epoch /\ com[n].epoch >= view[n].flushed
    BY <2>3, Zenon DEF EpochAt
  <2>8. index.slots[n] <= com[n].ix.slots[n]
    BY <2>5, <2>6, <2>7
  <2>9. \A k \in Node : index.slots[k] <= com[n].ix.slots[k]
    BY <2>4, <2>5, <2>8
  <2> QED BY <2>2, <2>4, <2>9, Zenon
<1>OthersEpoch.
    ASSUME IInv, SlotInv, NEW m \in Node, Same(m), ver'[m] = ver[m], index' = index \/ index'.ver = index.ver + 1
    PROVE  EpochAt(m)'
  <2> USE <1>OthersEpoch
  <2>1. EpochAt(m) /\ ver[m] \in Nat /\ index.ver \in Nat /\ ver[m] <= index.ver
    BY EngineFields, Zenon DEF SlotInv, IInv, KnowInv
  <2>2. index' = index \/ ver'[m] # index'.ver
    BY <2>1
  <2>3. /\ view'[m] = view[m] /\ com'[m] = com[m] /\ flush'[m] = flush[m] /\ established'[m] = established[m]
    BY Zenon DEF Same
  <2> QED BY <2>1, <2>2, <2>3, ZenonT(30) DEF EpochAt
\* What holds of an index that this node is not behind still holds after a
\* step of another node.
<1>OthersAhead.
    ASSUME NEW n \in Node, NEW m \in Node \ {n}, By(n), NEW ix, Ahead(m, ix),
           Hidden(m) \subseteq Hidden(m)'
    PROVE  Ahead(m, ix)'
  <2> USE <1>OthersAhead
  <2>1. view'[m] = view[m]
    BY Zenon DEF By, Same
  <2> QED BY <2>1, Zenon DEF Ahead
\* A node is not behind a write of another node either.
<1>AheadOfWrite.
    ASSUME IInv, SlotInv, NEW n \in Node, NEW m \in Node \ {n}, com[n].pc = "cas", Fits(com[n].ix),
           Ahead(m, index)
    PROVE  Ahead(m, com[n].ix)
  <2> USE <1>AheadOfWrite
  <2>1. com[n].ix.slots[m] = index.slots[m]
    BY <1>WriteSlots, Zenon
  <2>2. com[n].ix.parts \subseteq Names(n)
    BY Zenon DEF Names
  <2>3. \A p \in Hidden(m) : p \notin com[n].ix.parts
    BY <2>2, Zenon DEF Hidden
  <2> QED BY <2>1, <2>3, Zenon DEF Ahead
<1>SlotsLocal.
    ASSUME IInv, SlotInv, NEW n \in Node, By(n), index' = index, Leaves(n),
           Names(n)' \subseteq Names(n) \cup index.parts,
           OutsAt(n)', EpochAt(n)', OwnAhead(n)'
    PROVE  SlotInv'
  <2> USE <1>SlotsLocal
  <2>1. ASSUME NEW m \in Node PROVE OutsAt(m)' /\ EpochAt(m)'
    <3>1. CASE m = n
      BY <3>1, Zenon
    <3>2. CASE m # n
      <4>1. OutsAt(m)'
        BY <3>2, <1>OthersOuts, Zenon
      <4>2. Same(m) /\ ver'[m] = ver[m]
        BY <3>2, Zenon DEF By
      <4> QED BY <4>1, <4>2, <1>OthersEpoch, Zenon
    <3> QED BY <3>1, <3>2, Zenon
  <2>2. ASSUME NEW m \in Node PROVE OwnAhead(m)'
    <3>1. CASE m = n
      BY <3>1, Zenon
    <3>2. CASE m # n /\ established[m] # 0
      <4>1. Hidden(m) \subseteq Hidden(m)'
        BY <3>2, HiddenOthers, Zenon
      <4>2. Ahead(m, index)
        BY <3>2, Zenon DEF SlotInv
      <4>3. Ahead(m, index)'
        <5>1. view'[m] = view[m]
          BY <3>2, Zenon DEF By, Same
        <5> QED BY <4>1, <4>2, <5>1, Zenon DEF Ahead
      <4>4. ASSUME NEW w \in limbo', Fits(w.ix)' PROVE Ahead(m, w.ix)'
        <5>1. Fits(w.ix)
          BY <4>4, Zenon DEF Fits
        <5>2. Ahead(m, w.ix)
          <6>1. CASE w \in limbo
            BY <3>2, <5>1, <6>1, Zenon DEF SlotInv
          <6>2. CASE com[n].pc = "cas" /\ w = Write(n)
            <7>1. w.ix = com[n].ix
              BY <6>2, Zenon DEF Write
            <7> QED BY <3>2, <4>2, <5>1, <6>2, <7>1, <1>AheadOfWrite, Zenon
          <6> QED BY <6>1, <6>2, Zenon DEF Leaves
        <5> QED BY <3>2, <4>1, <5>2, <1>OthersAhead, Zenon
      <4> QED BY <4>3, <4>4, Zenon DEF OwnAhead
    <3>3. CASE m # n /\ established[m] = 0
      <4>1. established'[m] = 0
        BY <3>3, Zenon DEF By, Same
      <4> QED BY <4>1, Zenon DEF OwnAhead
    <3> QED BY <3>1, <3>2, <3>3, Zenon
  <2>3. ASSUME NEW w \in limbo', Fits(w.ix)' PROVE \A k \in Node : index'.slots[k] <= w.ix.slots[k]
    <3>1. Fits(w.ix)
      BY <2>3, Zenon DEF Fits
    <3>2. CASE w \in limbo
      BY <3>1, <3>2, Zenon DEF SlotInv
    <3>3. CASE com[n].pc = "cas" /\ w = Write(n)
      <4>1. w.ix = com[n].ix
        BY <3>3, Zenon DEF Write
      <4> QED BY <3>1, <3>3, <4>1, <1>WriteSlots, Zenon
    <3> QED BY <3>2, <3>3, Zenon DEF Leaves
  <2> QED BY <2>1, <2>2, <2>3, Zenon DEF SlotInv, OwnAhead
\* A write lands: nothing else that was sent fits any more.
<1>SlotsLanded.
    ASSUME IInv, SlotInv, NEW w \in [ix : Index, stamp : Nat], Swap(w), limbo' \subseteq limbo,
           \A m \in Node : OutsAt(m)' /\ EpochAt(m)' /\ (established'[m] # 0 => Ahead(m, index)')
    PROVE  SlotInv'
  <2> USE <1>SlotsLanded
  <2>1. ASSUME NEW v \in limbo' PROVE ~Fits(v.ix)'
    <3>1. v \in limbo /\ v \in [ix : Index, stamp : Nat]
      BY Zenon DEF IInv, TypeOK
    <3>2. v.ix.ver <= index.ver + 1 /\ v.ix.ver \in Nat /\ index.ver \in Nat
      BY <3>1, EngineFields, Zenon DEF IInv, LimboInv, Fit, Index, TypeOK
    <3>3. index'.ver = index.ver + 1
      BY Zenon DEF Swap
    <3> QED BY <3>2, <3>3 DEF Fits
  <2> QED BY <2>1, Zenon DEF SlotInv
<1>FinishOuts.
    ASSUME TypeOK, SlotInv, NEW n \in Node, NEW r, Finish(n, r), By(n), com[n].pc # "idle",
           \A w \in limbo' : w \in limbo \/ w = Write(n),
           index'.parts \subseteq index.parts \/ (index' = com[n].ix)
    PROVE  OutsAt(n)'
  <2> USE <1>FinishOuts
  <2>1. OutsAt(n)
    BY Zenon DEF SlotInv
  <2>2. CASE com[n].kind = "flush"
    <3>1. flush'[n] = NoFlush /\ flush'[n].outs = {}
      BY <2>2, Finished, NoWork, Zenon
    <3> QED BY <3>1, Zenon DEF OutsAt
  <2>3. CASE com[n].kind # "flush"
    <3>1. flush'[n] = flush[n] /\ com'[n] = NoCommit /\ view'[n].foreign = view[n].foreign
      BY <2>3, Finished, Zenon
    <3>2. view'[n].parts \in {com[n].next, view[n].parts} /\ view'[n].pending \subseteq view[n].pending
      BY <2>3, Finished, ZenonT(30)
    <3>3. merge'[n].outs \subseteq merge[n].outs
      BY Finished, NoWork, Zenon
    <3>4. Settled(n)' \subseteq Settled(n)
      <4>1. Settled(n) = view[n].parts \cup view[n].pending \cup view[n].foreign \cup merge[n].outs \cup (com[n].next \cup com[n].ix.parts)
        BY <2>3, Zenon DEF Settled
      <4>2. Settled(n)' \subseteq view'[n].parts \cup view'[n].pending \cup view'[n].foreign \cup merge'[n].outs
        BY <3>1, NoWork, Zenon DEF Settled
      <4> QED BY <3>1, <3>2, <3>3, <4>1, <4>2, Zenon
    <3>5. com[n].ix.parts \subseteq Settled(n)
      BY <2>3, Zenon DEF Settled
    <3>6. flush[n].outs \cap index'.parts = {}
      BY <2>1, <3>5, Zenon DEF OutsAt, Hidden
    <3>7. flush[n].outs \subseteq Hidden(n)'
      BY <2>1, <3>6, HiddenOwn, Zenon DEF OutsAt
    <3>8. ASSUME NEW w \in limbo' PROVE flush[n].outs \cap w.ix.parts = {}
      <4>1. CASE w \in limbo
        BY <2>1, <4>1, Zenon DEF OutsAt
      <4>2. CASE w = Write(n)
        <5>1. w.ix.parts = com[n].ix.parts
          BY <4>2, Zenon DEF Write
        <5> QED BY <2>1, <3>5, <5>1, Zenon DEF OutsAt
      <4> QED BY <4>1, <4>2, Zenon
    <3> QED BY <2>1, <3>1, <3>4, <3>7, <3>8, Zenon DEF OutsAt
  <2> QED BY <2>2, <2>3, Zenon
\* A flush that was not confirmed leaves the node ahead by its outputs.
<1>FinishAhead.
    ASSUME IInv, SlotInv, NEW n \in Node, NEW r, Finish(n, r), r # "landed", By(n), com[n].pc # "idle",
           index' = index, NEW ix \in Index, Ahead(n, ix), flush[n].outs \cap ix.parts = {}
    PROVE  Ahead(n, ix)'
  <2> USE <1>FinishAhead
  <2>1. Hidden(n)' = Hidden(n)
    BY HiddenOwn, Zenon
  <2>2. ix.slots[n] \in Nat /\ view[n].flushed \in Nat /\ com[n].epoch \in Nat /\ com[n].epoch >= view[n].flushed
    BY EngineFields, CommitFields, Zenon DEF IInv, View, Index, SlotInv, EpochAt
  <2>3. CASE com[n].kind # "flush"
    <3>1. view'[n].flushed = view[n].flushed /\ view'[n].pending = view[n].pending
      BY <2>3, Unconfirmed, Zenon DEF IInv
    <3> QED BY <2>1, <3>1, Zenon DEF Ahead
  <2>4. CASE com[n].kind = "flush"
    <3>1. view'[n].flushed = com[n].epoch /\ view'[n].pending = view[n].pending \cup flush[n].outs
      BY <2>4, Unconfirmed, Zenon DEF IInv
    <3>2. flush[n].outs # {} /\ flush[n].outs \subseteq Hidden(n)
      BY <2>4, Zenon DEF SlotInv, EpochAt, OutsAt
    <3>3. PICK p \in flush[n].outs : p \in Hidden(n) /\ p \notin ix.parts
      BY <3>2, Zenon
    <3>4. p \in view'[n].pending \cap Hidden(n)'
      BY <2>1, <3>1, <3>3, Zenon
    <3>5. ix.slots[n] <= view'[n].flushed
      BY <2>2, <3>1 DEF Ahead
    <3> QED BY <3>3, <3>4, <3>5, Zenon DEF Ahead
  <2> QED BY <2>3, <2>4, Zenon
\* A node is level with its own write.
<1>LevelWithWrite.
    ASSUME IInv, SlotInv, NEW n \in Node, NEW r, Finish(n, r), com[n].pc = "cas"
    PROVE  com[n].ix.slots[n] = view'[n].flushed /\ view'[n].flushed \in Nat
  <2> USE <1>LevelWithWrite
  <2>1. EpochAt(n) /\ com[n].epoch \in Nat
    BY CommitFields, Zenon DEF SlotInv, IInv
  <2>2. view'[n].flushed = IF com[n].kind = "flush" THEN com[n].epoch ELSE view[n].flushed
    BY Finished, Zenon DEF IInv
  <2> QED BY <2>1, <2>2, Zenon DEF EpochAt
<1>FinishedSlots.
    ASSUME IInv, SlotInv, NEW n \in Node, NEW r, Finish(n, r), r # "landed", com[n].pc # "idle",
           UNCHANGED <<index, ver>>, Leaves(n)
    PROVE  SlotInv'
  <2> USE <1>FinishedSlots
  <2>1. By(n) /\ com'[n] = NoCommit /\ established'[n] = established[n] /\ view'[n].slots = view[n].slots
    BY Finished, ZenonT(30) DEF IInv, By
  <2>2. Names(n)' \subseteq Names(n)
    BY FinishNames, Zenon DEF IInv
  <2>3. OutsAt(n)'
    BY <2>1, <1>FinishOuts, Zenon DEF IInv, Leaves
  <2>4. EpochAt(n)'
    <3>1. EpochAt(n) /\ com'[n].pc = "idle"
      BY <2>1, NoWork, Zenon DEF SlotInv
    <3> QED BY <2>1, <3>1, Zenon DEF EpochAt
  <2>5. ASSUME established[n] # 0 PROVE Ahead(n, index)'
    <3>1. Ahead(n, index) /\ flush[n].outs \cap index.parts = {} /\ index \in Index
      BY <2>5, Zenon DEF SlotInv, OutsAt, Hidden, IInv, TypeOK
    <3> QED BY <2>1, <3>1, <1>FinishAhead, Zenon
  <2>6. ASSUME established[n] # 0, NEW w \in limbo', Fits(w.ix)' PROVE Ahead(n, w.ix)'
    <3>1. Fits(w.ix)
      BY <2>6, Zenon DEF Fits
    <3>2. CASE w \in limbo
      <4>1. Ahead(n, w.ix) /\ flush[n].outs \cap w.ix.parts = {} /\ w.ix \in Index
        BY <2>6, <3>1, <3>2, Zenon DEF SlotInv, OutsAt, IInv, TypeOK
      <4> QED BY <2>1, <4>1, <1>FinishAhead, Zenon
    <3>3. CASE com[n].pc = "cas" /\ w = Write(n)
      <4>1. w.ix.slots[n] = view'[n].flushed /\ view'[n].flushed \in Nat
        BY <3>3, <1>LevelWithWrite, Zenon DEF Write
      <4> QED BY <4>1 DEF Ahead
    <3> QED BY <3>2, <3>3, Zenon DEF Leaves
  <2>7. OwnAhead(n)'
    BY <2>1, <2>5, <2>6, Zenon DEF OwnAhead
  <2> QED BY <2>1, <2>2, <2>3, <2>4, <2>7, <1>SlotsLocal, Zenon
<1>LandedSlots.
    ASSUME IInv, SlotInv, NEW n \in Node, NEW r, Finish(n, r), com[n].pc = "cas",
           Swap(Write(n)), limbo' = limbo,
           ver'[n] \in {ver[n], index'.ver}, \A m \in Node \ {n} : ver'[m] = ver[m]
    PROVE  SlotInv' /\ \A k \in Node : index.slots[k] <= index'.slots[k]
  <2> USE <1>LandedSlots
  <2>1. index' = com[n].ix /\ index'.ver = index.ver + 1 /\ Write(n).ix = com[n].ix /\ Fits(com[n].ix)
    BY Zenon DEF Swap, Write, Fits
  <2>2. By(n) /\ com'[n] = NoCommit /\ view'[n].slots = view[n].slots
    BY Finished, Zenon DEF IInv, By
  <2>3. Names(n)' \subseteq Names(n) /\ com[n].ix.parts \subseteq Names(n)
    BY FinishNames, Zenon DEF IInv, Names
  <2>4. ASSUME NEW m \in Node PROVE OutsAt(m)'
    <3>1. CASE m = n
      BY <2>1, <2>2, <3>1, <1>FinishOuts, Zenon DEF IInv
    <3>2. CASE m # n
      <4>1. Leaves(n)
        BY Zenon DEF Leaves
      <4> QED BY <2>1, <2>2, <2>3, <3>2, <4>1, <1>OthersOuts, Zenon
    <3> QED BY <3>1, <3>2, Zenon
  <2>5. ASSUME NEW m \in Node PROVE EpochAt(m)'
    <3>1. CASE m = n
      <4>1. EpochAt(n) /\ com'[n].pc = "idle"
        BY <2>2, NoWork, Zenon DEF SlotInv
      <4> QED BY <2>1, <2>2, <3>1, <4>1, ZenonT(30) DEF EpochAt
    <3>2. CASE m # n
      <4>1. Same(m) /\ ver'[m] = ver[m]
        BY <2>2, <3>2, Zenon DEF By
      <4> QED BY <2>1, <4>1, <1>OthersEpoch, Zenon
    <3> QED BY <3>1, <3>2, Zenon
  <2>6. ASSUME NEW m \in Node, established'[m] # 0 PROVE Ahead(m, index)'
    <3>1. CASE m = n
      <4>1. index'.slots[n] = view'[n].flushed /\ view'[n].flushed \in Nat
        BY <2>1, <1>LevelWithWrite, Zenon
      <4> QED BY <3>1, <4>1 DEF Ahead
    <3>2. CASE m # n
      <4>1. established[m] # 0 /\ view'[m] = view[m]
        BY <2>2, <2>6, <3>2, Zenon DEF By, Same
      <4>2. Ahead(m, index)
        BY <4>1, Zenon DEF SlotInv
      <4>3. Ahead(m, com[n].ix)
        BY <2>1, <3>2, <4>2, <1>AheadOfWrite, Zenon
      <4>4. Hidden(m) \subseteq Hidden(m)'
        BY <2>1, <2>2, <2>3, <3>2, HiddenOthers, Zenon
      <4> QED BY <2>1, <4>1, <4>3, <4>4, Zenon DEF Ahead
    <3> QED BY <3>1, <3>2, Zenon
  <2>7. Write(n) \in [ix : Index, stamp : Nat]
    BY WriteType, Zenon DEF IInv
  <2>8. SlotInv'
    BY <2>4, <2>5, <2>6, <2>7, <1>SlotsLanded, Zenon
  <2>9. \A k \in Node : index.slots[k] <= index'.slots[k]
    BY <2>1, <1>WriteSlots, Zenon
  <2> QED BY <2>8, <2>9, Zenon
\* Steps of the node that leave its watermark, its unconfirmed parts, its
\* flush and its tenure alone.
<1>SteadySlots.
    ASSUME IInv, SlotInv, NEW n \in Node, By(n), index' = index, limbo' = limbo,
           view'[n].flushed = view[n].flushed, view'[n].pending = view[n].pending,
           flush'[n] = flush[n], established'[n] = established[n],
           Settled(n)' \cap flush[n].outs = {},
           Names(n)' \subseteq Names(n) \cup index.parts, EpochAt(n)'
    PROVE  SlotInv'
  <2> USE <1>SteadySlots
  <2>1. Hidden(n)' = Hidden(n)
    BY HiddenOwn, Zenon
  <2>2. OutsAt(n)'
    BY <2>1, Zenon DEF SlotInv, OutsAt
  <2>3. OwnAhead(n)'
    BY <2>1, Zenon DEF SlotInv, OwnAhead, Ahead, Fits
  <2>4. Leaves(n)
    BY Zenon DEF Leaves
  <2> QED BY <2>2, <2>3, <2>4, <1>SlotsLocal, Zenon
<1>MovedSlots.
    ASSUME IInv, SlotInv, Clustered, NEW n \in Node, Check(n) \/ CasConflicts(n)
    PROVE  SlotInv'
  <2> USE <1>MovedSlots
  <2>1. UNCHANGED <<index, limbo, ver>> /\ com[n].pc # "idle"
    BY Zenon DEF Check, CasConflicts, storeVars
  <2>2. CASE Finish(n, "refused") \/ Finish(n, "conflict")
    <3>1. Leaves(n)
      BY <2>1, Zenon DEF Leaves
    <3> QED BY <2>1, <2>2, <3>1, <1>FinishedSlots, Zenon
  <2>3. CASE (Check(n) /\ Tenure(n, com[n].stamp)) \/ (CasConflicts(n) /\ com[n].left > 1)
    <3>1. /\ com'[n].pc \in {"build", "rebase"} /\ (~Check(n) => com[n].pc = "cas")
          /\ com'[n].kind = com[n].kind /\ com'[n].epoch = com[n].epoch
          /\ com'[n].next = com[n].next /\ com'[n].ix = com[n].ix
          /\ UNCHANGED <<engineVars, buildVars>> /\ \A m \in Node \ {n} : com'[m] = com[m]
      <4>1. ~Check(n) => com[n].pc = "cas"
        BY <2>3, Zenon DEF CasConflicts
      <4> QED BY <2>3, <4>1, Moved, Zenon DEF IInv
    <3>2. view' = view /\ merge' = merge /\ flush' = flush /\ covers' = covers /\ established' = established /\ retired' = retired
      BY <3>1, Zenon DEF engineVars, buildVars
    <3>3. By(n)
      BY <2>1, <3>1, <3>2, Zenon DEF By, Same
    <3>4. Names(n)' = Names(n) /\ Settled(n)' = Settled(n)
      BY <3>1, <3>2, Zenon DEF Names, Settled
    <3>5. EpochAt(n) /\ OutsAt(n)
      BY Zenon DEF SlotInv
    <3>6. com[n].kind # "establish" /\ established[n] # 0
      <4>1. CASE Check(n) /\ Tenure(n, com[n].stamp)
        BY <3>5, <4>1, Zenon DEF Tenure, CheckTenure, Check, EpochAt
      <4>2. CASE ~Check(n) /\ com[n].left > 1
        <5>1. com[n].pc = "cas"
          BY <3>1, <4>2, Zenon
        <5>2. com[n].kind # "establish"
          BY <3>5, <4>2, <5>1 DEF EpochAt
        <5> QED BY <3>5, <5>1, <5>2, Zenon DEF EpochAt
      <4> QED BY <2>3, <4>1, <4>2, Zenon DEF Check, CasConflicts
    <3>7. EpochAt(n)'
      BY <2>1, <3>1, <3>2, <3>5, <3>6, Zenon DEF EpochAt
    <3>8. Settled(n)' \cap flush[n].outs = {}
      BY <3>4, <3>5, Zenon DEF OutsAt
    <3> QED BY <2>1, <3>2, <3>3, <3>4, <3>7, <3>8, <1>SteadySlots, Zenon
  <2> QED BY <2>2, <2>3, Zenon DEF Check, CasConflicts
<1>BuildSlots. ASSUME IInv, SlotInv, NEW n \in Node, Build(n) PROVE SlotInv'
  <2> USE <1>BuildSlots
  <2>1. /\ view'[n].parts = view[n].parts /\ view'[n].pending = view[n].pending
        /\ view'[n].indexed = com[n].next /\ view'[n].foreign = view[n].foreign
        /\ view'[n].flushed = view[n].flushed
        /\ view'[n].slots = [view[n].slots EXCEPT ![n] = com[n].epoch]
        /\ com[n].pc = "build" /\ com'[n].pc = "cas" /\ com'[n].kind = com[n].kind
        /\ com'[n].next = com[n].next /\ com'[n].epoch = com[n].epoch /\ com'[n].left = com[n].left
        /\ com'[n].ix.parts = com[n].next \cup view[n].foreign
        /\ com'[n].ix.slots = [view[n].slots EXCEPT ![n] = com[n].epoch]
        /\ \A m \in Node \ {n} : view'[m] = view[m] /\ com'[m] = com[m]
    BY Built, Zenon DEF IInv
  <2>2. UNCHANGED <<index, limbo, ver, established, flush, merge, retired>>
    BY Zenon DEF Build, storeVars, buildVars
  <2>3. By(n)
    BY <2>1, <2>2, Zenon DEF By, Same
  <2>4. Names(n)' \subseteq Names(n)
    BY <2>1, <2>2, Zenon DEF Names
  <2>5. Settled(n)' \subseteq Settled(n)
    BY <2>1, <2>2, Zenon DEF Settled
  <2>6. EpochAt(n) /\ OutsAt(n) /\ view[n].slots \in [Node -> Nat]
    BY EngineFields, Zenon DEF SlotInv, IInv, View
  <2>7. EpochAt(n)'
    <3>1. /\ com'[n].ix.slots[n] = com[n].epoch
          /\ \A k \in Node \ {n} : com'[n].ix.slots[k] = view[n].slots[k] /\ view'[n].slots[k] = view[n].slots[k]
      BY <2>1, <2>6, Zenon
    <3>2. ver[n] = index.ver => \A k \in Node \ {n} : view[n].slots[k] = index.slots[k]
      BY <2>6, Zenon DEF EpochAt
    <3>3. /\ com[n].epoch >= view[n].flushed
          /\ com[n].kind # "flush" => com[n].epoch = view[n].flushed
          /\ com[n].kind = "flush" => flush[n] # NoFlush
          /\ com[n].kind # "establish" => established[n] # 0
          /\ com[n].kind = "establish" => com[n].left = 1
          /\ com[n].kind = "establish" /\ ver[n] = index.ver => index.slots[n] <= view[n].flushed
      BY <2>1, <2>6, Zenon DEF EpochAt
    <3> QED BY <2>1, <2>2, <3>1, <3>2, <3>3, SMTT(30) DEF EpochAt
  <2>8. Settled(n)' \cap flush[n].outs = {}
    BY <2>5, <2>6, Zenon DEF OutsAt
  <2> QED BY <2>1, <2>2, <2>3, <2>4, <2>7, <2>8, <1>SteadySlots, Zenon
<1>RebaseSlots. ASSUME IInv, SlotInv, NEW n \in Node, Rebase(n) PROVE SlotInv'
  <2> USE <1>RebaseSlots
  <2>1. /\ view'[n].parts = view[n].parts /\ view'[n].pending = view[n].pending
        /\ view'[n].indexed = view[n].indexed /\ view'[n].flushed = view[n].flushed
        /\ view'[n].foreign = Foreign(n) /\ view'[n].slots = index.slots
        /\ com[n].pc = "rebase" /\ com'[n].pc = "check"
        /\ com'[n].kind = com[n].kind /\ com'[n].epoch = com[n].epoch
        /\ com'[n].next = com[n].next /\ com'[n].ix = com[n].ix
        /\ \A m \in Node \ {n} : view'[m] = view[m] /\ ver'[m] = ver[m] /\ com'[m] = com[m]
    BY Rebased, Zenon DEF IInv
  <2>2. UNCHANGED <<index, limbo, established, flush, merge, retired>>
    BY Zenon DEF Rebase, storeVars, buildVars
  <2>3. By(n)
    BY <2>1, <2>2, Zenon DEF By, Same
  <2>4. Names(n)' \subseteq Names(n) \cup index.parts
    BY <2>1, <2>2, Zenon DEF Names, Foreign
  <2>5. Settled(n)' \subseteq Settled(n) \cup index.parts
    BY <2>1, <2>2, Zenon DEF Settled, Foreign
  <2>6. EpochAt(n) /\ OutsAt(n)
    BY Zenon DEF SlotInv
  <2>7. com[n].kind # "establish"
    BY <2>1, Zenon DEF SlotInv, EpochAt
  <2>8. EpochAt(n)'
    BY <2>1, <2>2, <2>6, <2>7, Zenon DEF EpochAt
  <2>9. Settled(n)' \cap flush[n].outs = {}
    BY <2>5, <2>6, Zenon DEF OutsAt, Hidden
  <2> QED BY <2>1, <2>2, <2>3, <2>4, <2>8, <2>9, <1>SteadySlots, Zenon
\* A reload of an established node leaves its watermark where it was: with
\* nothing carried, the slot had caught up.
<1>LoadSlots.
    ASSUME IInv, SlotInv, NEW n \in Node, RefreshReplica(n) \/ Establish(n)
    PROVE  SlotInv'
  <2> USE <1>LoadSlots
  <2>1. /\ LoadParts(n) /\ com[n].pc = "idle"
        /\ UNCHANGED <<index, limbo, established, flush, merge, retired, covers>>
    BY Zenon DEF RefreshReplica, Establish, Idle, storeVars, buildVars
  <2>2. /\ view'[n].parts = index.parts \cup (view[n].pending \ index.parts)
        /\ view'[n].pending = view[n].pending \ index.parts
        /\ view'[n].indexed = index.parts /\ view'[n].foreign = {} /\ view'[n].slots = index.slots
        /\ view'[n].flushed = IF view[n].pending \ index.parts = {} THEN index.slots[n]
                              ELSE Max2(index.slots[n], view[n].flushed)
        /\ view'[n] = Loaded(n)
        /\ \A m \in Node \ {n} : view'[m] = view[m] /\ ver'[m] = ver[m]
    BY <2>1, LoadedView, Zenon DEF IInv
  <2>3. /\ \/ com'[n] = com[n]
           \/ /\ com'[n].pc = "build" /\ com'[n].kind = "establish" /\ com'[n].left = 1
              /\ com'[n].next = view'[n].parts /\ com'[n].epoch = view'[n].flushed /\ com'[n].ix = NoIndex
        /\ \A m \in Node \ {n} : com'[m] = com[m]
    <3>1. CASE com' = com
      BY <3>1, Zenon
    <3>2. CASE com' # com
      <4>1. Establish(n)
        BY <3>2, Zenon DEF RefreshReplica
      <4> QED BY <2>2, <3>2, <4>1, EstablishBegun, SMTT(30) DEF IInv
    <3> QED BY <3>1, <3>2, Zenon
  <2>4. By(n)
    BY <2>1, <2>2, <2>3, Zenon DEF By, Same
  <2>5. Names(n)' \subseteq Names(n) \cup index.parts /\ Settled(n)' \subseteq Settled(n) \cup index.parts
    <3>1. CASE com'[n] = com[n]
      BY <2>1, <2>2, <3>1, Zenon DEF Names, Settled
    <3>2. CASE com'[n].next = view'[n].parts /\ com'[n].ix = NoIndex
      BY <2>1, <2>2, <3>2, NoWork, ZenonT(30) DEF Names, Settled
    <3> QED BY <2>3, <3>1, <3>2, Zenon
  <2>6. index.slots[n] \in Nat /\ view[n].flushed \in Nat /\ OutsAt(n) /\ Hidden(n)' = Hidden(n)
    BY <2>1, <2>4, EngineFields, HiddenOwn, Zenon DEF SlotInv, IInv, View
  <2>7. index.slots[n] <= view'[n].flushed /\ view'[n].flushed \in Nat
    <3>1. view'[n].flushed = index.slots[n] \/ view'[n].flushed = Max2(index.slots[n], view[n].flushed)
      BY <2>2, Zenon
    <3>2. index.slots[n] <= index.slots[n]
      BY <2>6
    <3> QED BY <2>6, <3>1, <3>2, <1>Max2Type
  <2>8. OutsAt(n)'
    BY <2>1, <2>5, <2>6, Zenon DEF OutsAt, Hidden
  <2>9. EpochAt(n)'
    <3>1. CASE com'[n] = com[n]
      BY <2>1, <2>2, <3>1, Zenon DEF EpochAt
    <3>2. CASE /\ com'[n].pc = "build" /\ com'[n].kind = "establish" /\ com'[n].left = 1
               /\ com'[n].epoch = view'[n].flushed
      <4>1. view'[n].flushed >= view'[n].flushed /\ index'.slots[n] <= view'[n].flushed
        BY <2>1, <2>7
      <4>2. \A k \in Node \ {n} : view'[n].slots[k] = index'.slots[k]
        BY <2>1, <2>2, Zenon
      <4> QED BY <3>2, <4>1, <4>2, Zenon DEF EpochAt
    <3> QED BY <2>3, <3>1, <3>2, Zenon
  <2>10. ASSUME established[n] # 0 PROVE view'[n].flushed = view[n].flushed
    <3>1. Ahead(n, index)
      BY <2>10, Zenon DEF SlotInv
    <3>2. view[n].pending \ index.parts = {} => index.slots[n] = view[n].flushed
      BY <2>6, <3>1 DEF Ahead, Hidden
    <3>3. index.slots[n] <= view[n].flushed
      BY <3>1, Zenon DEF Ahead
    <3>4. Max2(index.slots[n], view[n].flushed) = view[n].flushed
      BY <2>6, <3>3, <1>Max2Type, Zenon
    <3> QED BY <2>2, <3>2, <3>4, Zenon
  <2>11. ASSUME established[n] # 0, NEW ix, Ahead(n, ix) PROVE Ahead(n, ix)'
    <3>1. \A p \in view[n].pending \cap Hidden(n) : p \in view'[n].pending \cap Hidden(n)'
      BY <2>2, <2>6, Zenon DEF Hidden
    <3>2. view'[n].flushed = view[n].flushed
      BY <2>10, <2>11, Zenon
    <3> QED BY <2>11, <3>1, <3>2, Zenon DEF Ahead
  <2>12. ASSUME established[n] # 0 PROVE Ahead(n, index)'
    <3>1. Ahead(n, index)
      BY <2>12, Zenon DEF SlotInv
    <3>2. \A p \in view[n].pending \cap Hidden(n) : p \in view'[n].pending \cap Hidden(n)'
      BY <2>2, <2>6, Zenon DEF Hidden
    <3>3. view'[n].flushed = view[n].flushed
      BY <2>10, <2>12, Zenon
    <3> QED BY <2>1, <3>1, <3>2, <3>3, Zenon DEF Ahead
  <2>13. OwnAhead(n)'
    BY <2>1, <2>11, <2>12, Zenon DEF SlotInv, OwnAhead, Fits
  <2>14. Leaves(n)
    BY <2>1, Zenon DEF Leaves
  <2> QED BY <2>1, <2>4, <2>5, <2>8, <2>9, <2>13, <2>14, <1>SlotsLocal, Zenon
<1>RestartSlots. ASSUME IInv, SlotInv, NEW n \in Node, Restart(n) PROVE SlotInv'
  <2> USE <1>RestartSlots
  <2>1. /\ view'[n].parts = index.parts /\ view'[n].pending = {} /\ view'[n].indexed = index.parts
        /\ view'[n].foreign = {} /\ view'[n].slots = index.slots
        /\ com'[n] = NoCommit /\ flush'[n] = NoFlush /\ merge'[n] = NoMerge /\ established'[n] = 0
        /\ index' = index /\ Leaves(n) /\ By(n)
    BY Restarted, Zenon DEF IInv, By
  <2>2. /\ com'[n].pc = "idle" /\ com'[n].next = {} /\ com'[n].ix.parts = {}
        /\ flush'[n].outs = {} /\ merge'[n].src = {} /\ merge'[n].outs = {}
    BY <2>1, NoWork, Zenon
  <2>3. Names(n)' \subseteq index.parts
    BY <2>1, <2>2, Zenon DEF Names
  <2>4. OutsAt(n)'
    BY <2>1, <2>2, Zenon DEF OutsAt
  <2>5. EpochAt(n)'
    BY <2>1, <2>2, Zenon DEF EpochAt
  <2>6. OwnAhead(n)'
    BY <2>1, Zenon DEF OwnAhead
  <2> QED BY <2>1, <2>3, <2>4, <2>5, <2>6, <1>SlotsLocal, Zenon
<1>BegunSlots.
    ASSUME IInv, SlotInv, NEW n \in Node, com[n].pc = "idle",
           NEW k \in {"flush", "merge", "republish"}, NEW P, NEW e, NEW t, Begin(n, k, P, e, t),
           UNCHANGED <<index, limbo, view, ver, established, flush, merge, retired>>,
           P \subseteq Names(n), e >= view[n].flushed, k = "flush" => flush[n] # NoFlush,
           k # "flush" => e = view[n].flushed /\ P \subseteq Settled(n)
    PROVE  SlotInv'
  <2> USE <1>BegunSlots
  <2>1. /\ com'[n].pc = "check" /\ com'[n].kind = k /\ com'[n].next = P /\ com'[n].epoch = e
        /\ com'[n].ix.parts = {} /\ \A m \in Node \ {n} : com'[m] = com[m]
    <3>1. TypeOK
      BY Zenon DEF IInv
    <3>2. /\ com'[n].pc = "check" /\ com'[n].kind = k /\ com'[n].next = P
          /\ com'[n].epoch = e /\ com'[n].stamp = t /\ com'[n].ix = NoIndex
          /\ \A m \in Node \ {n} : com'[m] = com[m]
      BY <3>1, Begun, ZenonT(30)
    <3>3. com'[n].ix.parts = {}
      BY <3>2, NoWork, Zenon
    <3> QED BY <3>2, <3>3, Zenon
  <2>2. By(n)
    BY <2>1, Zenon DEF By, Same
  <2>3. Names(n)' \subseteq Names(n)
    BY <2>1, ZenonT(30) DEF Names
  <2>4. Settled(n)' \subseteq Settled(n)
    <3>1. Settled(n)' = view[n].parts \cup view[n].pending \cup view[n].foreign \cup merge[n].outs
                        \cup (IF k = "flush" THEN {} ELSE P \cup {})
      BY <2>1, Zenon DEF Settled
    <3>2. view[n].parts \cup view[n].pending \cup view[n].foreign \cup merge[n].outs \subseteq Settled(n)
      BY Zenon DEF Settled
    <3> QED BY <3>1, <3>2, Zenon
  <2>5. OutsAt(n) /\ EpochAt(n)
    BY Zenon DEF SlotInv
  <2>6. EpochAt(n)'
    BY <2>1, <2>5, Zenon DEF EpochAt
  <2>7. Settled(n)' \cap flush[n].outs = {}
    BY <2>4, <2>5, Zenon DEF OutsAt
  <2> QED BY <2>2, <2>3, <2>6, <2>7, <1>SteadySlots, Zenon
<1>BeginSlots.
    ASSUME IInv, SlotInv, NEW n \in Node, FlushPublish(n) \/ Republish(n) \/ MergePublish(n)
    PROVE  SlotInv'
  <2> USE <1>BeginSlots
  <2>1. com[n].pc = "idle" /\ UNCHANGED <<index, limbo, view, ver, established, flush>>
    BY Zenon DEF FlushPublish, Republish, MergePublish, MayMerge, Idle, storeVars, engineVars, buildVars
  <2>2. view[n].flushed \in Nat /\ flush[n].epoch \in Nat
    BY EngineFields, Zenon DEF IInv, View
  <2>3. CASE FlushPublish(n)
    <3> DEFINE P == view[n].parts \cup flush[n].outs
               e == Max2(flush[n].epoch, view[n].flushed)
    <3>1. Begin(n, "flush", P, e, term[n]) /\ UNCHANGED <<merge, retired>> /\ flush[n] # NoFlush
      BY <2>3, Zenon DEF FlushPublish, buildVars
    <3>2. P \subseteq Names(n)
      BY Zenon DEF Names
    <3>3. e >= view[n].flushed
      BY <2>2, <1>Max2Type, Zenon
    <3> HIDE DEF P, e
    <3> QED BY <2>1, <3>1, <3>2, <3>3, <1>BegunSlots, Zenon
  <2>4. CASE Republish(n)
    <3>1. Begin(n, "republish", view[n].parts, view[n].flushed, term[n]) /\ UNCHANGED <<merge, retired>>
      BY <2>4, Zenon DEF Republish, buildVars
    <3>2. view[n].parts \subseteq Names(n) /\ view[n].parts \subseteq Settled(n)
      BY Zenon DEF Names, Settled
    <3>3. view[n].flushed >= view[n].flushed
      BY <2>2
    <3> QED BY <2>1, <3>1, <3>2, <3>3, <1>BegunSlots, Zenon
  <2>5. CASE MergePublish(n) /\ merge[n].src \subseteq view[n].parts
    <3> DEFINE P == (view[n].parts \ merge[n].src) \cup merge[n].outs
    <3>1. Begin(n, "merge", P, view[n].flushed, merge[n].stamp) /\ UNCHANGED <<merge, retired>>
      BY <2>5, Zenon DEF MergePublish
    <3>2. P \subseteq Names(n) /\ P \subseteq Settled(n)
      BY Zenon DEF Names, Settled
    <3>3. view[n].flushed >= view[n].flushed
      BY <2>2
    <3> HIDE DEF P
    <3> QED BY <2>1, <3>1, <3>2, <3>3, <1>BegunSlots, Zenon
  <2>6. CASE MergePublish(n) /\ ~(merge[n].src \subseteq view[n].parts)
    <3>1. com' = com /\ merge' = [merge EXCEPT ![n] = NoMerge] /\ retired' = [retired EXCEPT ![n] = @ \cup merge[n].outs]
      BY <2>6, Zenon DEF MergePublish
    <3>2. merge'[n].src = {} /\ merge'[n].outs = {}
      BY <3>1, NoWork, FunTypes, Zenon DEF IInv
    <3>3. By(n)
      BY <2>1, <3>1, FunTypes, Zenon DEF By, Same, IInv
    <3>4. Names(n)' \subseteq Names(n) /\ Settled(n)' \subseteq Settled(n)
      BY <2>1, <3>1, <3>2, Zenon DEF Names, Settled
    <3>5. OutsAt(n) /\ EpochAt(n)
      BY Zenon DEF SlotInv
    <3>6. EpochAt(n)' /\ Settled(n)' \cap flush[n].outs = {}
      BY <2>1, <3>1, <3>4, <3>5, Zenon DEF EpochAt, OutsAt
    <3> QED BY <2>1, <3>3, <3>4, <3>6, <1>SteadySlots, Zenon
  <2> QED BY <2>3, <2>4, <2>5, <2>6, Zenon
\* A part nobody has named is written for the node.
<1>WrittenSlots.
    ASSUME IInv, SlotInv, MintInv, NEW n \in Node, com[n].pc = "idle", NEW p, p \notin Minted, By(n),
           UNCHANGED <<index, limbo, view, com, ver, established>>,
           Names(n)' \subseteq Names(n) \cup {p}, OutsAt(n)'
    PROVE  SlotInv'
  <2> USE <1>WrittenSlots
  <2>1. ASSUME NEW m \in Node PROVE Hidden(m) \cap Minted \subseteq Hidden(m)'
    <3>1. ASSUME NEW q \in Hidden(m) \cap Minted PROVE q \in Hidden(m)'
      <4>1. q # p /\ q \in Part /\ q \notin index'.parts /\ \A k \in Node \ {m} : q \notin Names(k)
        BY Zenon DEF Hidden
      <4>2. ASSUME NEW k \in Node \ {m} PROVE q \notin Names(k)'
        <5>1. CASE k = n
          BY <4>1, <5>1, Zenon
        <5>2. CASE k # n
          BY <4>1, <5>2, NamesSame, Zenon DEF By
        <5> QED BY <5>1, <5>2, Zenon
      <4> QED BY <4>1, <4>2, Zenon DEF Hidden
    <3> QED BY <3>1, Zenon
  <2>2. ASSUME NEW m \in Node PROVE view[m].pending \subseteq Minted /\ flush[m].outs \subseteq Minted
    BY ZenonT(30) DEF MintInv, Names
  <2>3. ASSUME NEW m \in Node PROVE OutsAt(m)'
    <3>1. CASE m = n
      BY <3>1, Zenon
    <3>2. CASE m # n
      <4>1. OutsAt(m) /\ Same(m)
        BY <3>2, Zenon DEF SlotInv, By
      <4>2. Settled(m)' = Settled(m) /\ flush'[m] = flush[m]
        BY <4>1, Zenon DEF Settled, Same
      <4>3. flush[m].outs \subseteq Hidden(m)'
        BY <2>1, <2>2, <4>1, Zenon DEF OutsAt
      <4> QED BY <4>1, <4>2, <4>3, Zenon DEF OutsAt
    <3> QED BY <3>1, <3>2, Zenon
  <2>4. ASSUME NEW m \in Node PROVE EpochAt(m)'
    <3>1. EpochAt(m)
      BY Zenon DEF SlotInv
    <3>2. com[m].kind = "flush" /\ com[m].pc # "idle" => flush'[m] # NoFlush
      <4>1. CASE m # n
        BY <3>1, <4>1, Zenon DEF EpochAt, By, Same
      <4> QED BY <4>1, Zenon
    <3> QED BY <3>1, <3>2, Zenon DEF EpochAt
  <2>5. ASSUME NEW m \in Node, NEW ix, Ahead(m, ix) PROVE Ahead(m, ix)'
    BY <2>1, <2>2, <2>5, Zenon DEF Ahead
  <2>6. ASSUME NEW m \in Node, established[m] # 0 PROVE Ahead(m, index)'
    <3>1. Ahead(m, index)
      BY <2>6, Zenon DEF SlotInv
    <3> QED BY <2>1, <2>2, <3>1, Zenon DEF Ahead
  <2> QED BY <2>3, <2>4, <2>5, <2>6, Zenon DEF SlotInv, Fits
<1>FlushBeginSlots. ASSUME IInv, SlotInv, MintInv, NEW n \in Node, NEW p \in Part, FlushBegin(n, p) PROVE SlotInv'
  <2> USE <1>FlushBeginSlots
  <2>1. /\ p \in Fresh /\ com[n].pc = "idle"
        /\ flush' = [flush EXCEPT ![n] = [outs |-> {p}, epoch |-> view[n].flushed + 1]]
        /\ UNCHANGED <<index, limbo, view, com, ver, merge, established, retired>>
    BY Zenon DEF FlushBegin, Idle, storeVars, engineVars
  <2>2. flush'[n].outs = {p} /\ \A m \in Node \ {n} : flush'[m] = flush[m]
    BY <2>1, FunTypes, Zenon DEF IInv
  <2>3. p \notin Minted /\ By(n)
    BY <2>1, <2>2, Zenon DEF Fresh, By, Same
  <2>4. Names(n)' \subseteq Names(n) \cup {p} /\ Settled(n)' = Settled(n) /\ Settled(n) \subseteq Names(n)
    BY <2>1, <2>2, Zenon DEF Names, Settled
  <2>5. \A m \in Node : p \notin Names(m)
    BY <2>3, Zenon DEF MintInv
  <2>6. p \notin index.parts /\ \A w \in limbo : p \notin w.ix.parts
    BY <2>3, Zenon DEF MintInv
  <2>7. p \in Hidden(n)'
    BY <2>1, <2>3, <2>5, <2>6, NamesSame, Zenon DEF Hidden, By
  <2>8. OutsAt(n)'
    BY <2>1, <2>2, <2>4, <2>5, <2>6, <2>7, Zenon DEF OutsAt
  <2> QED BY <2>1, <2>3, <2>4, <2>8, <1>WrittenSlots, Zenon
<1>MergeBeginSlots.
    ASSUME IInv, SlotInv, MintInv, NEW n \in Node, NEW src \in SUBSET Part, NEW p \in Part, MergeBegin(n, src, p)
    PROVE  SlotInv'
  <2> USE <1>MergeBeginSlots
  <2>1. /\ p \in Fresh /\ src \subseteq view[n].parts /\ com[n].pc = "idle"
        /\ merge'[n].src = src /\ merge'[n].outs = {p} /\ \A m \in Node \ {n} : merge'[m] = merge[m]
    BY MergeCovers, ZenonT(30) DEF IInv
  <2>2. UNCHANGED <<index, limbo, view, com, ver, flush, established, retired>>
    BY Zenon DEF MergeBegin, storeVars, engineVars
  <2>3. p \notin Minted /\ By(n)
    BY <2>1, <2>2, Zenon DEF Fresh, By, Same
  <2>4. Names(n)' \subseteq Names(n) \cup {p} /\ Settled(n)' \subseteq Settled(n) \cup {p}
    BY <2>1, <2>2, ZenonT(30) DEF Names, Settled
  <2>5. p \notin flush[n].outs
    BY <2>3, Zenon DEF MintInv, Names
  <2>6. Hidden(n)' = Hidden(n) /\ OutsAt(n)
    BY <2>2, <2>3, HiddenOwn, Zenon DEF SlotInv
  <2>7. OutsAt(n)'
    BY <2>2, <2>4, <2>5, <2>6, Zenon DEF OutsAt
  <2> QED BY <2>1, <2>2, <2>3, <2>4, <2>7, <1>WrittenSlots, Zenon
<1>CasSlots.
    ASSUME IInv, SlotInv, NEW n \in Node, CasLands(n) \/ CasUnknown(n)
    PROVE  SlotInv' /\ \A k \in Node : index.slots[k] <= index'.slots[k]
  <2> USE <1>CasSlots
  <2>0. \A k \in Node : index.slots[k] <= index.slots[k]
    <3>1. TypeOK
      BY Zenon DEF IInv
    <3>2. ASSUME NEW k \in Node PROVE index.slots[k] \in Nat
      BY <3>1, EngineFields, Zenon
    <3> QED BY <3>2
  <2>1. com[n].pc = "cas" /\ com[n].pc # "idle"
    BY Zenon DEF CasLands, CasUnknown
  <2>2. CASE CasLands(n)
    <3>1. Finish(n, "landed") /\ Swap(Write(n)) /\ limbo' = limbo /\ ver' = [ver EXCEPT ![n] = index'.ver]
      BY <2>2, Zenon DEF CasLands
    <3>2. ver'[n] = index'.ver /\ \A m \in Node \ {n} : ver'[m] = ver[m]
      BY <3>1, FunTypes, Zenon DEF IInv
    <3> QED BY <2>1, <3>1, <3>2, <1>LandedSlots, Zenon
  <2>3. CASE CasUnknown(n)
    <3>1. Finish(n, "unknown") /\ ver' = ver
      BY <2>3, Zenon DEF CasUnknown
    <3>2. CASE Swap(Write(n)) /\ limbo' = limbo
      BY <2>1, <3>1, <3>2, <1>LandedSlots, Zenon
    <3>3. CASE index' = index /\ Leaves(n)
      BY <2>0, <2>1, <3>1, <3>3, <1>FinishedSlots, Zenon
    <3>4. \/ Swap(Write(n)) /\ limbo' = limbo
          \/ index' = index /\ Leaves(n)
      BY <2>1, <2>3, Zenon DEF CasUnknown, Leaves, storeVars
    <3> QED BY <3>2, <3>3, <3>4, Zenon
  <2> QED BY <2>2, <2>3, Zenon
<1>LandLateSlots.
    ASSUME IInv, SlotInv, NEW w \in limbo, LandLate(w)
    PROVE  SlotInv' /\ \A k \in Node : index.slots[k] <= index'.slots[k]
  <2> USE <1>LandLateSlots
  <2>1. /\ Swap(w) /\ limbo' \subseteq limbo
        /\ UNCHANGED <<ver, view, established, flush, merge, retired, com>>
    BY Zenon DEF LandLate, engineVars, buildVars
  <2>2. w \in [ix : Index, stamp : Nat] /\ Fits(w.ix) /\ index' = w.ix /\ index'.ver = index.ver + 1
    BY <2>1, Zenon DEF IInv, TypeOK, Swap, Fits
  <2>3. \A m \in Node : Same(m) /\ ver'[m] = ver[m] /\ Names(m)' = Names(m) /\ Settled(m)' = Settled(m)
    BY <2>1, Zenon DEF Same, Names, Settled
  <2>4. ASSUME NEW m \in Node PROVE \A p \in Hidden(m) : p \notin w.ix.parts => p \in Hidden(m)'
    BY <2>2, <2>3, Zenon DEF Hidden
  <2>5. ASSUME NEW m \in Node PROVE OutsAt(m)'
    <3>1. OutsAt(m)
      BY Zenon DEF SlotInv
    <3>2. flush[m].outs \subseteq Hidden(m)'
      BY <2>4, <3>1, Zenon DEF OutsAt
    <3> QED BY <2>1, <2>3, <3>1, <3>2, Zenon DEF OutsAt
  <2>6. ASSUME NEW m \in Node PROVE EpochAt(m)'
    BY <2>2, <2>3, <1>OthersEpoch, Zenon
  <2>7. ASSUME NEW m \in Node, established'[m] # 0 PROVE Ahead(m, index)'
    <3>1. Ahead(m, w.ix)
      BY <2>1, <2>2, <2>7, Zenon DEF SlotInv
    <3> QED BY <2>1, <2>2, <2>4, <3>1, Zenon DEF Ahead
  <2>8. SlotInv'
    BY <2>1, <2>2, <2>5, <2>6, <2>7, <1>SlotsLanded, Zenon
  <2>9. \A k \in Node : index.slots[k] <= index'.slots[k]
    BY <2>2, Zenon DEF SlotInv
  <2> QED BY <2>8, <2>9, Zenon
<1>QuietSlots.
    ASSUME IInv, SlotInv,
           \/ UNCHANGED vars \/ Expire
           \/ \E n \in Node : Acquire(n) \/ Fence(n) \/ Renew(n) \/ FlushAbort(n) \/ Reclaim(n)
    PROVE  SlotInv' /\ index' = index
  <2> USE <1>QuietSlots
  <2>1. UNCHANGED <<index, limbo, view, com, merge, ver, established>>
    BY Zenon DEF vars, Expire, Acquire, Fence, Renew, FlushAbort, Reclaim, storeVars, engineVars, buildVars
  <2>2. \A m \in Node : flush'[m] = flush[m] \/ (flush'[m] = NoFlush /\ com[m].pc = "idle")
    <3>1. flush' = flush \/ \E n \in Node : flush' = [flush EXCEPT ![n] = NoFlush] /\ com[n].pc = "idle"
      BY Zenon DEF vars, Expire, Acquire, Fence, Renew, FlushAbort, Reclaim, Idle, buildVars
    <3>2. ASSUME NEW n \in Node, flush' = [flush EXCEPT ![n] = NoFlush], com[n].pc = "idle"
          PROVE  \A m \in Node : flush'[m] = flush[m] \/ (flush'[m] = NoFlush /\ com[m].pc = "idle")
      BY <3>2, FunTypes, Zenon DEF IInv
    <3> QED BY <3>1, <3>2, Zenon
  <2>3. ASSUME NEW m \in Node PROVE Names(m)' \subseteq Names(m) /\ Settled(m)' = Settled(m)
    <3>1. flush'[m].outs \subseteq flush[m].outs
      BY <2>2, NoWork, Zenon
    <3>2. Names(m)' \subseteq Names(m)
      BY <2>1, <3>1 DEF Names
    <3>3. Settled(m)' = Settled(m)
      BY <2>1, Zenon DEF Settled
    <3> QED BY <3>2, <3>3, Zenon
  <2>4. ASSUME NEW m \in Node PROVE Hidden(m) \subseteq Hidden(m)'
    BY <2>1, <2>3, Zenon DEF Hidden
  <2>5. ASSUME NEW m \in Node PROVE OutsAt(m)'
    <3>1. OutsAt(m)
      BY Zenon DEF SlotInv
    <3>2. CASE flush'[m] = NoFlush
      BY <3>2, NoWork, Zenon DEF OutsAt
    <3>3. CASE flush'[m] = flush[m]
      BY <2>1, <2>3, <2>4, <3>1, <3>3, Zenon DEF OutsAt
    <3> QED BY <2>2, <3>2, <3>3, Zenon
  <2>6. ASSUME NEW m \in Node PROVE EpochAt(m)'
    <3>1. EpochAt(m)
      BY Zenon DEF SlotInv
    <3> QED BY <2>1, <2>2, <3>1, Zenon DEF EpochAt
  <2>7. ASSUME NEW m \in Node, NEW ix, Ahead(m, ix) PROVE Ahead(m, ix)'
    BY <2>1, <2>4, <2>7, Zenon DEF Ahead
  <2>8. ASSUME NEW m \in Node, established[m] # 0 PROVE Ahead(m, index)'
    <3>1. Ahead(m, index)
      BY <2>8, Zenon DEF SlotInv
    <3> QED BY <2>1, <2>4, <3>1, Zenon DEF Ahead
  <2> QED BY <2>1, <2>5, <2>6, <2>7, <2>8, Zenon DEF SlotInv, Fits
<1> SUFFICES ASSUME IInv, MintInv, SlotInv, Clustered, [Next]_vars
             PROVE  SlotInv' /\ \A k \in Node : index.slots[k] <= index'.slots[k]
  BY Zenon
<1>0. \A k \in Node : index.slots[k] <= index.slots[k]
  <2>1. TypeOK
    BY Zenon DEF IInv
  <2>2. ASSUME NEW k \in Node PROVE index.slots[k] \in Nat
    BY <2>1, EngineFields, Zenon
  <2> QED BY <2>2
<1>1. CASE \/ UNCHANGED vars \/ Expire
           \/ \E n \in Node : Acquire(n) \/ Fence(n) \/ Renew(n) \/ FlushAbort(n) \/ Reclaim(n)
  BY <1>0, <1>1, <1>QuietSlots, Zenon
<1>2. CASE \E w \in limbo : LandLate(w)
  BY <1>2, <1>LandLateSlots, Zenon
<1>3. ASSUME NEW n \in Node, RefreshReplica(n) \/ Establish(n) \/ Restart(n)
      PROVE  SlotInv' /\ index' = index
  <2>1. index' = index
    BY <1>3, Zenon DEF RefreshReplica, Establish, Restart, storeVars
  <2> QED BY <1>3, <2>1, <1>LoadSlots, <1>RestartSlots, Zenon
<1>4. ASSUME NEW n \in Node, Check(n) \/ CasConflicts(n) \/ Build(n) \/ Rebase(n)
      PROVE  SlotInv' /\ index' = index
  <2>1. index' = index
    BY <1>4, Zenon DEF Check, CasConflicts, Build, Rebase, storeVars
  <2> QED BY <1>4, <2>1, <1>MovedSlots, <1>BuildSlots, <1>RebaseSlots, Zenon
<1>5. ASSUME NEW n \in Node, FlushPublish(n) \/ Republish(n) \/ MergePublish(n)
      PROVE  SlotInv' /\ index' = index
  <2>1. index' = index
    BY <1>5, Zenon DEF FlushPublish, Republish, MergePublish, storeVars
  <2> QED BY <1>5, <2>1, <1>BeginSlots, Zenon
<1>6. ASSUME NEW n \in Node, CasLands(n) \/ CasUnknown(n)
      PROVE  SlotInv' /\ \A k \in Node : index.slots[k] <= index'.slots[k]
  BY <1>6, <1>CasSlots, Zenon
<1>7. ASSUME NEW n \in Node, NEW p \in Part, FlushBegin(n, p) PROVE SlotInv' /\ index' = index
  BY <1>7, <1>FlushBeginSlots, Zenon DEF FlushBegin, storeVars
<1>8. ASSUME NEW n \in Node, NEW src \in SUBSET Part, NEW p \in Part, MergeBegin(n, src, p)
      PROVE  SlotInv' /\ index' = index
  BY <1>8, <1>MergeBeginSlots, Zenon DEF MergeBegin, storeVars
<1> QED BY <1>0, <1>1, <1>2, <1>3, <1>4, <1>5, <1>6, <1>7, <1>8, Zenon DEF Next

LEMMA SlotInit == ASSUME Init PROVE SlotInv
<1>1. /\ limbo = {} /\ index = NoIndex
      /\ \A n \in Node : flush[n] = NoFlush /\ com[n] = NoCommit /\ established[n] = 0 /\ view[n].slots = NoIndex.slots
  BY Zenon DEF Init
<1>2. \A n \in Node : OutsAt(n)
  BY <1>1, NoWork, Zenon DEF OutsAt
<1>3. \A n \in Node : EpochAt(n)
  BY <1>1, NoWork, Zenon DEF EpochAt
<1> QED BY <1>1, <1>2, <1>3, Zenon DEF SlotInv

\* Under claims, no commit lowers a watermark slot: not the writer's own after
\* a lost response and a reload, and not a rival's on a rebase (nextIndexLocked,
\* adoptIndexLocked, adoptLoadLocked).
THEOREM SlotsNeverFall == ASSUME Clustered PROVE Spec => SlotsKept
<1>1. Init => SlotInv
  BY SlotInit, Zenon
<1>2. IInv /\ RowsInv /\ MintInv /\ SlotInv /\ [Next]_vars
        => SlotInv' /\ [\A n \in Node : index.slots[n] <= index'.slots[n]]_vars
  BY SlotStep, Zenon
<1> QED BY <1>1, <1>2, RowsHold, PTL DEF Spec, SlotsKept
=============================================================================
