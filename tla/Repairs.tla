------------------------------ MODULE Repairs ------------------------------
(* Self-repair of a shard's part set (internal/repair over                     *)
(* backend/bucketindex): parts whose objects vanish become wants, a pass asks  *)
(* the shard's other owners for them or for whatever now holds their rows, and *)
(* a commit publishes what came back.  Flushes, merges, mirroring and further  *)
(* losses go on between a pass and its commit.  `rows` is what a part really   *)
(* holds; the code sees only blocks, claims and levels.                        *)
EXTENDS Integers, Sequences, FiniteSets, FiniteSetsExt

CONSTANTS MaxFlush, MaxPart, MaxLoss, MaxPass,
          FetchesPerCycle, HoleConfirmations, MaxLineage

-----------------------------------------------------------------------------
(* The block algebra of the bucket index (backend/bucketindex): which parts   *)
(* hold which other parts' rows, decided from identities alone.  A part's     *)
(* identity is the blocks it covers, its merge level and, for one output of a *)
(* merge that wrote several, the claim the outputs hold jointly.  The code's  *)
(* intervals (a range with gaps) encode sets of blocks: here they are the     *)
(* sets, and the empty set is the invalid interval.                           *)

NoClaim == [blocks |-> {}, group |-> {}]

ValidClaim(c) == c.blocks # {} /\ c.group # {}

Contains(a, b) == a # {} /\ b # {} /\ b \subseteq a

Meets(a, b) == a \cap b # {}

Data(es) == { e \in es : ~e.hole }

Blocks(es) == UNION { e.blocks : e \in es }

Claims(es) == { c \in { e.claim : e \in es } : ValidClaim(c) }

LineageOf(es) == Claims(Data(es))

\* Relater.close: the least set that holds iv and, step by step, what every step it takes leads to;
\* a step is taken from all of its blocks (whole) or from any of them.
Close(steps, iv, whole) ==
    LET grown[n \in 0 .. Cardinality(steps)] ==
            IF n = 0 THEN iv
            ELSE LET s == grown[n - 1]
                 IN s \cup UNION { c.to : c \in { d \in steps : IF whole THEN Contains(s, d.from) ELSE Meets(s, d.from) } }
    IN grown[Cardinality(steps)]

Down(l) == { [from |-> c.blocks, to |-> c.group] : c \in l }

Up(l) == { [from |-> c.group, to |-> c.blocks] : c \in l }

Holds(l, iv) == Close(Down(l), iv, TRUE)

Ancestry(l, iv) == Close(Up(l), iv, FALSE)

Ancestors(l, iv) == { c \in l : Meets(Ancestry(l, iv), c.group) }

Descendants(l, iv) == Close(Down(l), iv, FALSE)

\* A claim is realized where every member of its group is present.
Realize(l, iv) == Close(Up(l), iv, TRUE)

Covered(l, es) == Realize(l, Blocks(es))

SameIdentity(e, o) == e.level = o.level /\ e.blocks # {} /\ e.blocks = o.blocks /\ e.claim = o.claim

Subsumes(l, e, o) ==
    \/ e.term > o.term /\ SameIdentity(e, o)
    \/ e.level > o.level /\ Contains(Holds(l, e.blocks), o.blocks)

Overlaps(l, a, b) ==
    LET upA == Ancestry(l, a.blocks)
        upB == Ancestry(l, b.blocks)
        viaA == Ancestors(l, a.blocks)
        viaB == Ancestors(l, b.blocks)
    IN \/ Meets(a.blocks, upB)
       \/ Meets(b.blocks, upA)
       \/ \E c \in (viaA \cup viaB) \ (viaA \cap viaB) : Meets(c.blocks, upA \cap upB)

\* The shallowest part derived from the group: what the group as a whole stands at.
Levels(l, group, es) ==
    { e.level : e \in { x \in Data(es) : Contains(Descendants(l, group), x.blocks) } }

\* The live parts that added, or a group the two complete together, makes redundant.
Subsumed(l, live, added) ==
    LET all == live \cup added
        complete == { c \in l : Contains(Covered(l, Data(all)), c.group) }
    IN { o \in live :
           \/ \E e \in added : e.prefix # o.prefix /\ Subsumes(l, e, o)
           \/ \E c \in complete :
                 /\ Contains(Holds(l, c.blocks), o.blocks)
                 /\ Levels(l, c.group, all) # {}
                 /\ o.level < Min(Levels(l, c.group, all)) }

Better(a, b) ==
    \/ Cardinality(a.blocks) > Cardinality(b.blocks)
    \/ Cardinality(a.blocks) = Cardinality(b.blocks) /\ a.level > b.level
    \/ Cardinality(a.blocks) = Cardinality(b.blocks) /\ a.level = b.level /\ a.prefix < b.prefix

Best(es) == { e \in es : \A o \in es \ {e} : Better(e, o) }

\* No part holds the want alone, but complete groups among them do.
JointlySatisfying(es, l, w) ==
    IF ~Contains(Covered(l, es), w.blocks) THEN {}
    ELSE Best({ e \in es : LET k == l \cup Claims({e}) IN
                   /\ Ancestors(k, e.blocks) # {}
                   /\ Meets(Ancestry(k, e.blocks), w.blocks) })

\* Relations.satisfying: the part itself, else the best one holding it whole, else a group.
Satisfying(es, known, w) ==
    LET l == known \cup Claims({w})
        itself == { e \in es : e.prefix = w.prefix }
        whole == { e \in es : Contains(e.blocks, w.blocks) \/ Subsumes(l, e, w) }
    IN IF itself # {} THEN itself
       ELSE IF whole # {} THEN Best(whole)
       ELSE JointlySatisfying(es, l, w)

\* The blocks that would complete a group derived from the want.
Missing(es, known, w) ==
    LET l == known \cup Claims({w})
        via == { c \in l : Meets(Descendants(l, w.blocks), c.blocks) }
    IN IF w.blocks = {} \/ Satisfying(es, known, w) # {} THEN {}
       ELSE UNION { c.group : c \in via } \ (Covered(l, es) \cup UNION { c.blocks : c \in via })

\* A want is discharged by data or by a hole that acknowledges its loss.
TrimWants(ws, es, catalog) ==
    { w \in ws : Satisfying(es, catalog \cup Claims(es) \cup Claims(ws), w) = {} }

\* A hole is revoked by data that holds what it acknowledged as lost.
TrimHoles(hs, live, catalog) ==
    LET l == catalog \cup Claims(live \cup hs)
    IN { h \in hs :
           /\ \A e \in Data(live) : e.prefix # h.prefix /\ ~Subsumes(l, e, h)
           /\ JointlySatisfying(Data(live), l, h) = {} }

\* The claims the live set and the wants still derive through.
Reached(l, es) == UNION { Ancestors(l, e.blocks) : e \in es } \cup Claims(es)

\* RecordLineage and TrimCatalog: keep every claim ever carried, oldest unreached ones aside.
RecordLineage(catalog, es, limit) ==
    LET all == catalog \cup Claims(es)
        idle == all \ Reached(all, es)
        over == Cardinality(all) - limit
        older(c) == { d \in idle : Min(d.group) < Min(c.group) }
    IN all \ { c \in idle : Cardinality(older(c)) < over }

RealizeClaims(held, claims) ==
    LET all == Realize(claims, held)
    IN [held |-> all, rest |-> { c \in claims : ~Contains(all, c.group) }]

WidestClaim(claims) ==
    IF claims = {} THEN NoClaim
    ELSE CHOOSE c \in claims : \A d \in claims : Cardinality(d.blocks) <= Cardinality(c.blocks)

\* A mutant of PlanMerge: a fragment claims its inputs' blocks as its own.
PlanMergeWhole(src, n, next) ==
    [i \in 1 .. n |-> [blocks |-> Blocks(src), claim |-> NoClaim,
                       level |-> 1 + Max({ e.level : e \in src })]]

\* PlanMerge and Allocator.Assign: what each of a merge's n outputs is called, given the next
\* free block.  One output inherits the inputs' blocks; several take a fresh run and a claim.
PlanMerge(src, n, next) ==
    LET merged == RealizeClaims(Blocks(src), Claims(src))
        level == 1 + Max({ e.level : e \in src })
        run == next .. (next + n - 1)
    IN IF n = 1
       THEN << [blocks |-> merged.held, claim |-> WidestClaim(merged.rest), level |-> level] >>
       ELSE [i \in 1 .. n |-> [blocks |-> {next + i - 1}, level |-> level,
                               claim |-> [blocks |-> merged.held, group |-> run]]]

\* NextBlock: above every block ever allocated, carried in the index.
NextBlock(mark, es) == 1 + Max({mark} \cup Blocks(es) \cup UNION { c.group : c \in Claims(es) })

-----------------------------------------------------------------------------

VARIABLES part,      \* every part ever committed: identity and rows
          live,      \* the parts the index names
          wants,     \* parts the index owes
          holes,     \* parts acknowledged lost
          catalog,   \* claims kept after their members are gone
          mark,      \* the highest block allocated
          disk,      \* parts whose objects are readable here
          peer,      \* the other owner: parts its index names, claims it knows, parts it holds
          plan,      \* the units a pass came back with, until its commit
          evidence,  \* how often in a row each want was found absent
          tried,     \* the pass that last asked for each want
          pass, losses

vars == <<part, live, wants, holes, catalog, mark, disk, peer, plan, evidence, tried, pass, losses>>

Parts == DOMAIN part
Row == 1 .. MaxFlush

Entry(i) == [prefix |-> i, blocks |-> part[i].blocks, claim |-> part[i].claim,
             level |-> part[i].level, term |-> 0, hole |-> FALSE]
Entries(s) == { Entry(i) : i \in s }
Ids(es) == { e.prefix : e \in es }
Hole(i) == [Entry(i) EXCEPT !.hole = TRUE]
Member(b) == [prefix |-> 0, blocks |-> {b}, claim |-> NoClaim, level |-> 0, term |-> 0, hole |-> FALSE]
RowsOf(s) == UNION { part[i].rows : i \in s }

NoPlan == [units |-> {}, lost |-> {}, ready |-> FALSE]

Init ==
    /\ part = <<>> /\ live = {} /\ wants = {} /\ holes = {} /\ catalog = {} /\ mark = 0
    /\ disk = {} /\ peer = [named |-> {}, claims |-> {}, objs |-> {}]
    /\ plan = NoPlan /\ evidence = [i \in 1 .. MaxPart |-> 0] /\ tried = [i \in 1 .. MaxPart |-> 0]
    /\ pass = 0 /\ losses = 0

\* nextIndexLocked: the index a commit of the parts writes, with the holes and wants it owes.
Commit(parts, lost, owed) ==
    LET es(s) == { [prefix |-> i, blocks |-> part'[i].blocks, claim |-> part'[i].claim,
                    level |-> part'[i].level, term |-> 0, hole |-> FALSE] : i \in s }
        hs == TrimHoles({ [e EXCEPT !.hole = TRUE] : e \in es(holes) }, es(parts), catalog)
        entries == es(parts) \cup hs \cup { [e EXCEPT !.hole = TRUE] : e \in es(lost) }
        ws == TrimWants(es(owed \ lost), entries, catalog)
    IN /\ live' = parts
       /\ holes' = Ids(hs) \cup lost
       /\ wants' = Ids(ws)
       /\ catalog' = RecordLineage(catalog, entries \cup ws, MaxLineage)
       /\ mark' = Max({mark} \cup Blocks(es(parts)))

NextFree == NextBlock(mark, Entries(live \cup wants \cup holes))

Flush ==
    /\ Cardinality(RowsOf(Parts)) < MaxFlush /\ Len(part) < MaxPart
    /\ part' = Append(part, [blocks |-> {NextFree}, claim |-> NoClaim, level |-> 0,
                             rows |-> {Cardinality(RowsOf(Parts)) + 1}])
    /\ disk' = disk \cup {Len(part')}
    /\ Commit(live \cup {Len(part')}, {}, wants)
    /\ UNCHANGED <<peer, plan, evidence, tried, pass, losses>>

\* publishMerge: the sources give way to one part, or to fragments that share their rows out;
\* the sources' objects are then reclaimed.
MergeParts(src, split) ==
    LET out == PlanMerge(Entries(src), Len(split), NextFree)
        named == [k \in DOMAIN split |-> [blocks |-> out[k].blocks, claim |-> out[k].claim,
                                          level |-> out[k].level, rows |-> split[k]]]
    IN /\ src # {} /\ src \subseteq live \cap disk
       /\ Len(part) + Len(split) <= MaxPart
       /\ part' = part \o named
       /\ disk' = (disk \ src) \cup ((Len(part) + 1) .. Len(part'))
       /\ Commit((live \ src) \cup ((Len(part) + 1) .. Len(part')), {}, wants)
       /\ UNCHANGED <<peer, plan, evidence, tried, pass, losses>>

Splits(src) == { <<RowsOf(src)>> } \cup
               { <<a, RowsOf(src) \ a>> : a \in SUBSET RowsOf(src) \ {{}, RowsOf(src)} }

Merge == \E src \in SUBSET live : \E split \in Splits(src) :
            /\ Cardinality(src) > 1 \/ Len(split) > 1
            /\ MergeParts(src, split)

\* A part's objects vanish under the index.
Lose(i) ==
    /\ i \in disk /\ losses < MaxLoss
    /\ disk' = disk \ {i} /\ losses' = losses + 1
    /\ UNCHANGED <<part, live, wants, holes, catalog, mark, peer, plan, evidence, tried, pass>>

PeerLose(i) ==
    /\ i \in peer.objs /\ losses < MaxLoss
    /\ peer' = [peer EXCEPT !.objs = @ \ {i}] /\ losses' = losses + 1
    /\ UNCHANGED <<part, live, wants, holes, catalog, mark, disk, plan, evidence, tried, pass>>

\* readIndexLocked: entries whose objects are gone leave the part set and become wants.
Reload ==
    /\ live \ disk # {}
    /\ part' = part
    /\ Commit(live \cap disk, {}, wants \cup (live \ disk))
    /\ UNCHANGED <<part, disk, peer, plan, evidence, tried, pass, losses>>

\* The other owner mirrors this one's index once it has every object it names.
Mirror ==
    /\ live \subseteq disk
    /\ peer' = [named |-> live, claims |-> catalog, objs |-> peer.objs \cup live]
    /\ peer' # peer
    /\ UNCHANGED <<part, live, wants, holes, catalog, mark, disk, plan, evidence, tried, pass, losses>>

\* The other owner, holding the shard's claim for a while, compacts what it mirrored: the two
\* part sets now tell the same rows differently.
PeerMerge(src) ==
    /\ Cardinality(src) > 1 /\ src \subseteq peer.named \cap peer.objs /\ Len(part) < MaxPart
    /\ LET out == PlanMerge(Entries(src), 1, 0)[1]
           new == Len(part) + 1
       IN /\ part' = Append(part, [blocks |-> out.blocks, claim |-> out.claim,
                                   level |-> out.level, rows |-> RowsOf(src)])
          /\ peer' = [peer EXCEPT !.named = (@ \ src) \cup {new}, !.objs = (@ \ src) \cup {new}]
    /\ UNCHANGED <<live, wants, holes, catalog, mark, disk, plan, evidence, tried, pass, losses>>

-----------------------------------------------------------------------------
\* Syncer.FetchWants: the part that answers a want from the peer's index, or the part itself
\* from its listing, or nothing.
Source(w) ==
    LET found == Satisfying(Entries(peer.named), peer.claims \cup catalog, w)
    IN IF found # {} THEN found
       ELSE { e \in Entries(peer.objs) : e.prefix = w.prefix }

\* What a fetch answers: "got" a part, or how it failed.  A peer that cannot be reached makes
\* an unanswered want incomplete or failed, never absent.
Fetched(w, mode) ==
    LET src == Source(w)
    IN CASE mode = "down" -> [got |-> {}, as |-> "failed"]
         [] src # {} /\ Ids(src) \subseteq peer.objs -> [got |-> Ids(src), as |-> "got"]
         [] src # {} -> [got |-> {}, as |-> "failed"]
         [] mode = "whole" -> [got |-> {}, as |-> "absent"]
         [] mode = "partial" -> [got |-> {}, as |-> "incomplete"]

\* groupsNeeded: the split groups that must be whole before added joins base.
GroupsNeeded(base, w, added) ==
    LET all == base \cup added
        held == Covered(catalog \cup Claims(base), base)
        l == LineageOf(all) \cup catalog
        derived == UNION { Ancestors(l, e.blocks) : e \in added }
        need[n \in 0 .. Cardinality(derived)] ==
            IF n = 0 THEN { c \in derived : Meets(held, c.blocks) }
            ELSE need[n - 1] \cup { c \in derived : \E d \in need[n - 1] : Meets(d.group, c.blocks) }
    IN IF Satisfying(all, catalog \cup Claims(all), w) = {} THEN Claims(added)
       ELSE need[Cardinality(derived)]

Committable(base, w, added) ==
    LET all == base \cup added
        l == catalog \cup Claims(all)
    IN /\ Satisfying(all, l, w) # {}
       /\ \A c \in GroupsNeeded(base, w, added) : Contains(Covered(l, all), c.group)

\* The blocks a unit still has to ask for.
Lacking(base, w, got, asked) ==
    LET all == base \cup Entries(got)
        l == catalog \cup Claims(all)
    IN ((UNION { c.group : c \in GroupsNeeded(base, w, Entries(got)) } \ Covered(l, all))
          \cup Missing(all, l, w)) \ asked

\* What one round of member fetches adds to a unit, and how the refused ones were refused.
Joined(u, more, res) ==
    [got |-> u.got \cup UNION { r.got : r \in res },
     asked |-> u.asked \cup more,
     worst |-> u.worst \cup { r.as : r \in { x \in res : x.as # "got" } }]

AskFor(u, mode, more) == Joined(u, more, { Fetched(Member(b), mode) : b \in more })

\* Pass.complete: rounds of member fetches, until nothing more is asked or one was refused.
Completed(base, w, first, mode) ==
    LET round[n \in 0 .. MaxPart] ==
            IF n = 0 THEN [got |-> {first}, asked |-> {}, worst |-> {}]
            ELSE AskFor(round[n - 1], mode,
                        IF round[n - 1].worst # {} THEN {}
                        ELSE Lacking(base, w, round[n - 1].got, round[n - 1].asked))
    IN round[MaxPart]

Outstanding == wants \cup holes

Unanswered == { i \in Outstanding :
                  Satisfying(Entries(live), catalog \cup Claims(Entries(live)), Entry(i)) = {} }

\* A want's unit: the first part that answers it, and the members that complete its group.
Unit(i, first, done) ==
    [want |-> i, first |-> first, held |-> i \in disk, got |-> done.got,
     worst |-> done.worst,
     whole |-> Committable(Entries(live), Entry(i), Entries(done.got))]

Firsts(here, res) ==
    [i \in here \cup { j \in DOMAIN res : res[j].as = "got" } |->
        IF i \in here THEN i ELSE CHOOSE p \in res[i].got : TRUE]

Units(first, mode) ==
    { Unit(i, first[i], Completed(Entries(live), Entry(i), first[i], mode)) : i \in DOMAIN first }

\* A refused unit counts as absent only when a member was the only thing missing.
Gone(res, units) ==
    { i \in DOMAIN res : res[i].as = "absent" } \cup
    { u.want : u \in { x \in units :
        ~x.whole /\ x.worst = {"absent"} /\ Satisfying({Entry(x.first)}, catalog, Entry(x.want)) = {} } }

\* State.confirmLost: consecutive passes in which every owner answered and none had the part.
Counted(ask, here, gone) ==
    [i \in DOMAIN evidence |-> CASE i \notin wants -> 0
                                 [] i \in gone -> evidence[i] + 1
                                 [] i \in ask \cup here -> 0
                                 [] OTHER -> evidence[i]]

EndPass(units, counted) ==
    /\ evidence' = [i \in DOMAIN evidence |-> IF counted[i] >= HoleConfirmations THEN 0 ELSE counted[i]]
    /\ plan' = [ready |-> TRUE,
                units |-> { [want |-> u.want, held |-> u.held, got |-> u.got] : u \in { x \in units : x.whole } },
                lost |-> { i \in wants : counted[i] >= HoleConfirmations }]
    /\ disk' = disk \cup UNION { u.got : u \in units }

Judge(here, res, units) == EndPass(units, Counted(DOMAIN res, here, Gone(res, units)))

Gather(here, res, mode) == Judge(here, res, Units(Firsts(here, res), mode))

\* Drive up to its commit: what is held here needs no fetch, the rest is asked for, the least
\* recently asked first.
RunPass(mode, ask, away) ==
    /\ ~plan.ready /\ Outstanding # {} /\ pass < MaxPass
    /\ Cardinality(ask) = Min({FetchesPerCycle, Cardinality(away)})
    /\ \A i \in ask, j \in away \ ask : tried[i] <= tried[j]
    /\ pass' = pass + 1
    /\ tried' = [i \in DOMAIN tried |-> CASE i \in ask -> pass'
                                          [] i \in Outstanding -> tried[i]
                                          [] OTHER -> 0]
    /\ Gather(Unanswered \cap disk, [i \in ask |-> Fetched(Entry(i), mode)], mode)
    /\ UNCHANGED <<part, live, wants, holes, catalog, mark, peer, losses>>

RunPasses(away) == \E mode \in {"whole", "partial", "down"}, ask \in SUBSET away : RunPass(mode, ask, away)

-----------------------------------------------------------------------------
\* The parts a unit would add, and those it fetched that no longer open.
Unopened(u) == IF u.held THEN u.got \ (disk \cup live \cup {u.want}) ELSE u.got \ (disk \cup live)
Adds(u) == u.got \ (live \cup Unopened(u))

Admissible(base, u, added) ==
    LET all == base \cup added
    IN /\ \A i \in Unopened(u) : Satisfying(all, catalog \cup Claims(all), Entry(i)) # {}
       /\ Committable(base, Entry(u.want), added)

\* settle: drop units that the rest cannot carry, until the judgement stands.
Settle(units) ==
    LET judged[n \in 0 .. Cardinality(units)] ==
            IF n = 0 THEN units
            ELSE { u \in judged[n - 1] :
                     Admissible(Entries(live) \cup
                                  Entries(UNION { Adds(v) : v \in judged[n - 1] \ {u} }),
                                u, Entries(Adds(u))) }
    IN judged[Cardinality(units)]

Admitted(units) == Entries(UNION { Adds(u) : u \in units })

Published(l, now, admitted) == admitted \ Subsumed(l, admitted, now \cup admitted)

\* The units to drop: those left unanswered, else those sharing rows with a live part, else
\* those the first of a clashing pair clashes with.
Dropped(units, now, unanswered, own, clash) ==
    LET onLive == { u \in units : clash[u] \cap (now \cup own[u]) # {} }
        others(u) == { v \in units \ {u} : clash[u] \cap own[v] # {} }
        crossed == { u \in units : others(u) # {} }
    IN IF unanswered # {} THEN unanswered
       ELSE IF onLive # {} THEN onLive
       ELSE IF crossed = {} THEN {}
       ELSE others(CHOOSE u \in crossed : \A v \in crossed : u.want <= v.want)

Clashes(units, l, now, final, own) ==
    Dropped(units, now, { u \in units : ~Admissible(final \ own[u], u, own[u]) }, own,
            [u \in units |-> { x \in final : \E a \in own[u] : a # x /\ Overlaps(l, a, x) }])

PrunedTo(units, l, now, published, retired) ==
    [kept |-> Ids(published), retired |-> Ids(retired),
     drop |-> Clashes(units, l, now, (now \ retired) \cup published,
                      [u \in units |-> Entries(Adds(u)) \cap published])]

Retiring(units, l, now, published) == PrunedTo(units, l, now, published, Subsumed(l, now, published))

Pruning(units, l, now, admitted) == Retiring(units, l, now, Published(l, now, admitted))

\* A mutant of Pruned: rows that a published part shares with a live one are not looked for.
PrunedBlind(units) ==
    [Pruning({}, LineageOf(Entries(live) \cup Admitted(units)) \cup catalog, Entries(live), Admitted(units))
       EXCEPT !.drop = {}]

\* prune: leave out what is subsumed, retire what the published parts subsume, and drop a unit
\* that is then unanswered or would leave rows live twice.
Pruned(units) ==
    Pruning(units, LineageOf(Entries(live) \cup Admitted(units)) \cup catalog, Entries(live), Admitted(units))

\* Admit: judge and prune until neither drops a unit.
Admit(units) ==
    LET taken[n \in 0 .. Cardinality(units)] ==
            IF n = 0 THEN Settle(units)
            ELSE Settle(taken[n - 1] \ Pruned(taken[n - 1]).drop)
    IN Pruned(taken[Cardinality(units)])

\* publish: under the locks, against the part set as it is now; a failed commit leaves
\* everything for the next pass.
PublishPlan(p) ==
    /\ UNCHANGED <<part, peer, evidence, tried, pass, losses>>
    /\ Commit((live \ p.retired) \cup p.kept, plan.lost, wants)
    /\ disk' = disk \ p.retired
    /\ plan' = NoPlan

Publish == plan.ready /\ PublishPlan(Admit(plan.units))

PublishFails ==
    /\ plan.ready
    /\ plan' = NoPlan
    /\ UNCHANGED <<part, live, wants, holes, catalog, mark, disk, peer, evidence, tried, pass, losses>>

Next ==
    \/ Flush \/ Merge \/ Reload \/ Mirror \/ Publish \/ PublishFails
    \/ \E i \in Parts : Lose(i) \/ PeerLose(i)
    \/ \E src \in SUBSET peer.named : PeerMerge(src)
    \/ RunPasses(Unanswered \ disk)

Spec == Init /\ [][Next]_vars
-----------------------------------------------------------------------------
\* No row is served twice: a repaired part never joins one that holds some of its rows, however
\* merges moved them meanwhile (prune, Relater.Overlaps).
RowsOnce == \A i, j \in live : i # j => part[i].rows \cap part[j].rows = {}

\* No row is forgotten: what the parts do not hold is still owed or acknowledged lost
\* (TrimWants, TrimHoles, realized claims, group successors).
NothingForgotten == RowsOf(Parts) \subseteq RowsOf(live \cup wants \cup holes)
=============================================================================
