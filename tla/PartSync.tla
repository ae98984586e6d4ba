------------------------------ MODULE PartSync ------------------------------
(* Mirroring of flushed parts between two nodes that keep private backends     *)
(* (cluster/partsync): a pass reads the peer's index, lists and copies its      *)
(* objects, installs the index last and prunes what the peer dropped, while     *)
(* the owner goes on flushing, merging, expiring and reclaiming, ownership      *)
(* moves, and nodes lose power between any two steps.                           *)
EXTENDS Integers, Sequences, FiniteSets, FiniteSetsExt

CONSTANTS Node,             \* two nodes, each the other's only peer
          First,            \* the first owner
          None,
          MaxFlush, MaxPart, MaxTerm, MaxPass, MaxFault, MaxExpire,
          WantAfter,        \* wantAfterPasses
          PruneAfter        \* pruneAfterMisses

VARIABLES owner, term,
          part,     \* the parts written: the rows each holds, a row being the flush that wrote it
          ix,       \* per node, the stored index
          obj,      \* per node, the objects in its backend
          safe,     \* those of them a power loss keeps
          pass,     \* per node, the pass in flight
          seen,     \* per node, the syncer's memory: last listing, misses, unaccounted passes
          adopted,  \* wants the engine publishes with its next commit
          dropped,  \* rows retention dropped
          undone,   \* parts that a commit added or removed and an install of another index undid
          spent     \* passes and faults so far

vars == <<owner, term, part, ix, obj, safe, pass, seen, adopted, dropped, undone, spent>>

Part == 1 .. MaxPart
Kinds == {"column", "manifest"}
Objects(p) == { <<p, k>> : k \in Kinds }
Peer(n) == CHOOSE m \in Node : m # n
Empty == [term |-> 0, counter |-> 0, live |-> {}, want |-> {}, gone |-> {}]
Fresh == [listed |-> {}, known |-> FALSE, miss |-> [p \in Part |-> 0], odd |-> [p \in Part |-> 0]]

Init ==
    /\ owner = First /\ term = 1 /\ part = <<>>
    /\ ix = [n \in Node |-> Empty]
    /\ obj = [n \in Node |-> {}] /\ safe = [n \in Node |-> {}]
    /\ pass = [n \in Node |-> None] /\ seen = [n \in Node |-> Fresh]
    /\ adopted = [n \in Node |-> {}] /\ dropped = {} /\ undone = {}
    /\ spent = [pass |-> 0, fault |-> 0, expiry |-> 0]

RowsOf(s) == UNION { part[p] : p \in s }

-----------------------------------------------------------------------------
(* The owner's engine *)

\* Generation.Next
Next1(i, t) == IF t > i.term THEN [term |-> t, counter |-> 1]
               ELSE [term |-> i.term, counter |-> i.counter + 1]

\* A commit: the engine's parts, its removals and the wants nothing satisfies yet.
Commit(i, live, gone, more) ==
    LET g == Next1(i, term)
    IN [term |-> g.term, counter |-> g.counter, live |-> live,
        gone |-> (i.gone \cup gone) \ live,
        want |-> { p \in i.want \cup more : p \notin live /\ ~(part[p] \subseteq RowsOf(live)) }]

\* The maintenance loop mirrors, then merges and repairs; the pass of a notification runs beside it.
MayCommit(n) == n = owner /\ (pass[n] # None => ~pass[n].strict)

\* A flush of the maintenance loop, or of the pressure worker, which runs beside every pass.
Flush(n) ==
    /\ n = owner /\ Len(part) + spent.fault < MaxFlush
    /\ part' = Append(part, {Len(part) + 1})
    /\ LET p == Len(part) + 1 IN
       /\ obj' = [obj EXCEPT ![n] = @ \cup Objects(p)]
       /\ safe' = [safe EXCEPT ![n] = @ \cup Objects(p)]
       /\ ix' = [ix EXCEPT ![n] = Commit(@, @.live \cup {p}, {}, adopted[n])]
    /\ adopted' = [adopted EXCEPT ![n] = {}]
    /\ UNCHANGED <<owner, term, pass, seen, dropped, undone, spent>>

Merge(n) ==
    /\ MayCommit(n) /\ Len(part) < MaxPart
    /\ \E src \in SUBSET ix[n].live :
         /\ Cardinality(src) > 1
         /\ part' = Append(part, RowsOf(src))
         /\ LET p == Len(part) + 1 IN
            /\ obj' = [obj EXCEPT ![n] = @ \cup Objects(p)]
            /\ safe' = [safe EXCEPT ![n] = @ \cup Objects(p)]
            /\ ix' = [ix EXCEPT ![n] = Commit(@, (@.live \ src) \cup {p}, src, adopted[n])]
    /\ adopted' = [adopted EXCEPT ![n] = {}]
    /\ UNCHANGED <<owner, term, pass, seen, dropped, undone, spent>>

\* Retention drops a part.
Expire(n, p) ==
    /\ MayCommit(n) /\ p \in ix[n].live /\ spent.expiry < MaxExpire
    /\ ix' = [ix EXCEPT ![n] = Commit(@, @.live \ {p}, {p}, adopted[n])]
    /\ adopted' = [adopted EXCEPT ![n] = {}]
    /\ dropped' = dropped \cup part[p]
    /\ spent' = [spent EXCEPT !.expiry = @ + 1]
    /\ UNCHANGED <<owner, term, part, obj, safe, pass, seen, undone>>

\* The owner deletes the objects of a part its index removed.
Reclaim(n, p) ==
    /\ n = owner /\ p \in ix[n].gone /\ Objects(p) \cap obj[n] # {}
    /\ obj' = [obj EXCEPT ![n] = @ \ Objects(p)]
    /\ safe' = [safe EXCEPT ![n] = @ \ Objects(p)]
    /\ UNCHANGED <<owner, term, part, ix, pass, seen, adopted, dropped, undone, spent>>

\* The repair pass: a want's objects fetched from the peer and committed.
Repair(n, p) ==
    /\ MayCommit(n) /\ p \in ix[n].want /\ Objects(p) \subseteq obj[Peer(n)]
    /\ obj' = [obj EXCEPT ![n] = @ \cup Objects(p)]
    /\ safe' = [safe EXCEPT ![n] = @ \cup Objects(p)]
    /\ ix' = [ix EXCEPT ![n] = Commit(@, @.live \cup {p}, {}, adopted[n])]
    /\ adopted' = [adopted EXCEPT ![n] = {}]
    /\ UNCHANGED <<owner, term, part, pass, seen, dropped, undone, spent>>

\* The shard's claim moves: the next owner commits under a higher term.
Takeover(n) ==
    /\ n # owner /\ term < MaxTerm
    /\ owner' = n /\ term' = term + 1
    /\ UNCHANGED <<part, ix, obj, safe, pass, seen, adopted, dropped, undone, spent>>

-----------------------------------------------------------------------------
(* One pass *)

\* compareIndexes, of indexes that carry a generation.
Newer(a, b) == a.term > b.term \/ (a.term = b.term /\ a.counter > b.counter)
SameGen(a, b) == a.term = b.term /\ a.counter = b.counter

\* peerAccount.supersedes: live parts hold the rows of a merged one.
Supersedes(i, p) == \E q \in i.live : q # p /\ part[p] \subseteq part[q]

\* A mutant of AccountsFor: a part the index does not name counts as removed.
AccountsForAbsent(i, p) == TRUE

AccountsFor(i, p) ==
    \/ p \in i.live
    \/ SameGen(i, Empty)
    \/ p \in i.gone
    \/ Supersedes(i, p)

\* heldEntries: parts named here, present here, that the peer wants or does not account for.
Held(n, theirs) ==
    { p \in ix[n].live : (p \in theirs.want \/ ~AccountsFor(theirs, p)) /\ <<p, "manifest">> \in obj[n] }

\* retainHeld
Retained(theirs, held) ==
    [theirs EXCEPT !.live = @ \cup held, !.want = @ \cup (held \cap theirs.want), !.gone = @ \ held]

\* retentionHorizon: entries older than the oldest part held are not missed.  Rows are in time order.
Recent(i, p) == i.live # {} /\ Max(part[p]) >= Min(RowsOf(i.live))

\* confirmedWants: parts of an older peer index, unaccounted for in WantAfter passes running.
Odd(n, theirs) ==
    [p \in Part |-> IF p \in theirs.live /\ ~SameGen(ix[n], Empty) /\ ~AccountsFor(ix[n], p) /\ Recent(ix[n], p)
                    THEN Min({seen[n].odd[p] + 1, WantAfter}) ELSE 0]

\* sync up to the listing: both indexes read, what will be installed decided.
StartPass(n, strict) ==
    LET mine == ix[n]
        theirs == ix[Peer(n)]
        newer == Newer(theirs, mine)
        same == SameGen(theirs, mine)
        held == IF newer \/ same THEN Held(n, theirs) ELSE {}
        installed == Retained(theirs, held)
        lost == seen[n].known /\ ~(seen[n].listed \subseteq obj[n])
        go == newer \/ (same /\ ~strict /\ (installed # mine \/ ~seen[n].known \/ lost))
        odd == Odd(n, theirs)
    IN /\ pass[n] = None /\ spent.pass < MaxPass /\ theirs # Empty
       /\ strict => n = owner
       /\ spent' = [spent EXCEPT !.pass = @ + 1]
       /\ IF newer \/ same THEN UNCHANGED <<seen, adopted>>
          ELSE /\ seen' = [seen EXCEPT ![n].odd = odd]
               /\ adopted' = [adopted EXCEPT ![n] = IF n = owner THEN @ \cup { p \in Part : odd[p] >= WantAfter }
                                                    ELSE @]
       /\ pass' = IF ~go THEN pass
                  ELSE [pass EXCEPT ![n] = [pc |-> "list", strict |-> strict, theirs |-> theirs, mine |-> mine,
                                            to |-> installed, over |-> newer, listed |-> {}, unbacked |-> {}]]
       /\ UNCHANGED <<owner, term, part, ix, obj, safe, dropped, undone>>

At(n, pc) == pass[n] # None /\ pass[n].pc = pc

\* copyMissing: the listing, and the indexed parts it no longer shows (unbackedParts).
ListPeer(n) ==
    LET listed == obj[Peer(n)] IN
    /\ At(n, "list")
    /\ pass' = [pass EXCEPT ![n].pc = "columns", ![n].listed = listed,
                            ![n].unbacked = { p \in pass[n].theirs.live : Objects(p) \cap listed = {} }]
    /\ UNCHANGED <<owner, term, part, ix, obj, safe, seen, adopted, dropped, undone, spent>>

\* One group of the copy: what is missing here, less what the peer has reclaimed since.
Copy(n, kind, pc, then) ==
    LET todo == { o \in pass[n].listed \ obj[n] : o[2] = kind }
        got == todo \cap obj[Peer(n)]
    IN /\ At(n, pc)
       /\ obj' = [obj EXCEPT ![n] = @ \cup got]
       /\ pass' = [pass EXCEPT ![n].pc = then, ![n].unbacked = @ \cup { o[1] : o \in todo \ got }]
       /\ UNCHANGED <<owner, term, part, ix, safe, adopted, dropped, undone, spent, seen>>

\* A mutant of Installed: what the pass could not copy does not hold the index back.
InstalledAnyway(n) == pass[n].over /\ pass[n].to # pass[n].mine

Installed(n) == pass[n].over /\ pass[n].unbacked = {} /\ pass[n].to # pass[n].mine

\* The parts that one of two indexes names and the other does not.
Moved(i, j) == (i.live \ j.live) \cup (j.live \ i.live)

\* The copied parts and every part newly named are synced, then the index is written.
Install(n) ==
    LET synced == obj[n] \cap (UNION { Objects(p) : p \in pass[n].to.live } \cup pass[n].listed)
    IN /\ At(n, "install")
       /\ safe' = [safe EXCEPT ![n] = @ \cup synced]
       /\ ix' = [ix EXCEPT ![n] = IF Installed(n) THEN pass[n].to ELSE @]
       /\ undone' = IF Installed(n) THEN undone \cup Moved(pass[n].mine, ix[n]) ELSE undone
       /\ seen' = [seen EXCEPT ![n].listed = pass[n].listed, ![n].known = TRUE]
       /\ pass' = [pass EXCEPT ![n].pc = "prune", ![n].over = Installed(n) \/ (@ /\ pass[n].unbacked = {})]
       /\ UNCHANGED <<owner, term, part, obj, adopted, dropped, spent>>

\* livePartSet: the parts of the installed index, and the local one's if it was not superseded.
LiveParts(n) == pass[n].to.live \cup (IF pass[n].over THEN {} ELSE pass[n].mine.live)

\* deletion.authorizes: a part not live, and removed by an index that states its removals.
Authorized(n, p) == p \notin LiveParts(n) /\ (SameGen(pass[n].theirs, Empty) \/ p \in pass[n].theirs.gone)

\* prune: objects neither live nor listed go once absent PruneAfter passes running.
Prune(n) ==
    LET here == { o[1] : o \in obj[n] }
        listed == { o[1] : o \in seen[n].listed }
        miss == [p \in Part |-> IF p \in here /\ Authorized(n, p) /\ p \notin listed
                                THEN seen[n].miss[p] + 1 ELSE 0]
        doomed == { p \in Part : miss[p] >= PruneAfter }
        deleted == UNION { Objects(p) : p \in doomed }
    IN /\ At(n, "prune")
       /\ obj' = [obj EXCEPT ![n] = @ \ deleted]
       /\ safe' = [safe EXCEPT ![n] = @ \ deleted]
       /\ seen' = [seen EXCEPT ![n].miss = [p \in Part |-> IF p \in doomed THEN 0 ELSE miss[p]]]
       /\ pass' = [pass EXCEPT ![n] = None]
       /\ UNCHANGED <<owner, term, part, ix, adopted, dropped, undone, spent>>

\* The peer cannot be reached, or a local write fails.
PassFails(n) ==
    /\ pass[n] # None /\ spent.fault < MaxFault /\ Len(part) + spent.fault < MaxFlush
    /\ pass' = [pass EXCEPT ![n] = None]
    /\ spent' = [spent EXCEPT !.fault = @ + 1]
    /\ UNCHANGED <<owner, term, part, ix, obj, safe, seen, adopted, dropped, undone>>

\* Power is lost during a pass: what was not synced is gone, and so is everything in memory.
PowerLoss(n) ==
    /\ pass[n] # None /\ spent.fault < MaxFault /\ Len(part) + spent.fault < MaxFlush
    /\ obj' = [obj EXCEPT ![n] = safe[n]]
    /\ pass' = [pass EXCEPT ![n] = None]
    /\ seen' = [seen EXCEPT ![n] = Fresh]
    /\ adopted' = [adopted EXCEPT ![n] = {}]
    /\ spent' = [spent EXCEPT !.fault = @ + 1]
    /\ UNCHANGED <<owner, term, part, ix, safe, dropped, undone>>

Next ==
    \/ \E n \in Node : \/ Flush(n) \/ Merge(n) \/ Takeover(n)
                       \/ \E strict \in BOOLEAN : StartPass(n, strict)
                       \/ ListPeer(n) \/ Install(n) \/ Prune(n) \/ PassFails(n) \/ PowerLoss(n)
                       \/ Copy(n, "column", "columns", "manifests")
                       \/ Copy(n, "manifest", "manifests", "install")
    \/ \E n \in Node, p \in Part : Expire(n, p) \/ Reclaim(n, p) \/ Repair(n, p)

Spec == Init /\ [][Next]_vars
-----------------------------------------------------------------------------
\* A node's index names only parts whose objects it holds, all of them, past any power loss: the
\* local index "only ever references fully-copied parts" (copyMissing, syncAdopted, prune).  An
\* install is a plain write: a part that the owner's engine removed from its index while a
\* pass ran on it, and that the install names again, is not judged.
NamedBacked == \A n \in Node : \A p \in ix[n].live \ undone : Objects(p) \subseteq safe[n]

\* A row no retention dropped stays named by a node that holds it, although a new owner commits
\* without having mirrored its predecessor and both then mirror each other (heldEntries,
\* retainHeld, deletion.authorizes).  Rows are not judged that the owner's engine committed while
\* a pass ran on it whose install then wrote over that commit.
RowsNamed ==
    \A r \in RowsOf(DOMAIN part) \ (dropped \cup RowsOf(undone)) :
        \E n \in Node : \E p \in ix[n].live : r \in part[p] /\ Objects(p) \subseteq safe[n]

\* "A non-superseding index is not installed, and the local one goes on naming what this node
\* holds" (Syncer.sync), as judged when the pass began: a step that replaces a node's index by an
\* older one is an install over a commit made since its pass read the index.
InstallSupersedes == \A n \in Node : Newer(ix[n], ix'[n]) => pass[n] # None /\ ix[n] # pass[n].mine
=============================================================================
