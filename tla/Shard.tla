------------------------------- MODULE Shard -------------------------------
(* One shard of a clustered store whose nodes keep private backends: the       *)
(* primary's write and its replication quorum, the replicas' mirroring, crash, *)
(* restart and bootstrap, and reads that take one owner's answer as complete     *)
(* unless that owner knows it is short (cluster.go, cluster_completeness.go,   *)
(* cluster_bootstrap.go, cluster/replica, internal/retry).                     *)
EXTENDS Integers, Sequences, FiniteSets, FiniteSetsExt

CONSTANTS Node, None,
          Ring,         \* the shard's owners, primary first
          Time,         \* the timestamp of each row: rows 1 .. Len(Time) are written in order
          MaxFault,     \* crashes and losses
          MaxDrop       \* replication requests or answers lost

\* The ring names at least one owner, and a row's timestamp is after zero, which stands for none.
ASSUME ShardConstants ==
    /\ Ring \in Seq(Node) /\ Ring # <<>>
    /\ None \notin Node
    /\ Time \in Seq(Nat \ {0})

VARIABLES up,      \* nodes running
          eng,     \* nodes that hold an engine for the shard
          head,    \* unflushed rows in memory
          log,     \* rows in a node's own write-ahead log
          parts,   \* rows in a node's flushed parts
          gap,     \* the read gap of a node that came back without a head
          owed,    \* rows of parts its index names and it cannot read
          st,      \* what the client of each row was told
          sent,    \* replication requests on the wire
          reached, \* history: the rows each node has ever applied
          blind,   \* history: rows that reached a node, that it lost and has no record of losing
          read,    \* the read in progress
          faults

vars == <<up, eng, head, log, parts, gap, owed, st, sent, reached, blind, read, faults>>

Row == 1 .. Len(Time)
NoGap == [open |-> FALSE, after |-> 0]
Primary == Ring[1]
Owners == { Ring[i] : i \in DOMAIN Ring }
NewestOf(rows) == Max({0} \cup { Time[r] : r \in rows })
Idle == [pc |-> "idle", at |-> None, end |-> 0, due |-> {}, local |-> FALSE, guard |-> FALSE,
         asked |-> {}, absent |-> 0, short |-> 0, got |-> {}, knew |-> {}, miss |-> {}, as |-> ""]

Init ==
    /\ up = Node /\ eng = {}
    /\ head = [n \in Node |-> {}] /\ log = [n \in Node |-> {}] /\ parts = [n \in Node |-> {}]
    /\ gap = [n \in Node |-> NoGap] /\ owed = [n \in Node |-> {}]
    /\ st = [r \in Row |-> [as |-> "no", acks |-> 0, left |-> 0, need |-> 0]]
    /\ reached = [n \in Node |-> {}] /\ blind = [n \in Node |-> {}]
    /\ sent = {} /\ read = Idle
    /\ faults = [node |-> 0, drop |-> 0]

Acked == { r \in Row : st[r].as = "acked" }

\* engineFor and the append that follows: a write creates the engine of a node that has none,
\* and records no gap, so what that node held before is missing without a record.
Applied(r, n) ==
    /\ eng' = eng \cup {n}
    /\ head' = [head EXCEPT ![n] = @ \cup {r}]
    /\ reached' = [reached EXCEPT ![n] = @ \cup {r}]
    /\ blind' = [blind EXCEPT ![n] = IF n \in eng THEN @ ELSE reached[n]]

-----------------------------------------------------------------------------
\* primaryWrite: applied to the primary's engine, created on its first write, and its log, then
\* fanned out to the other owners; half the replication factor of them must answer.
Write(r) ==
    LET targets == Owners \ {Primary}
        need == Min({Len(Ring) \div 2, Cardinality(targets)})
    IN /\ st[r].as = "no" /\ \A q \in 1 .. (r - 1) : st[q].as # "no"
       /\ Primary \in up
       /\ Applied(r, Primary)
       /\ log' = [log EXCEPT ![Primary] = @ \cup {r}]
       /\ sent' = sent \cup { <<r, n>> : n \in targets }
       /\ st' = [st EXCEPT ![r] = [as |-> IF need = 0 THEN "acked" ELSE "waiting", acks |-> 0,
                                   left |-> Cardinality(targets), need |-> need]]
       /\ UNCHANGED <<up, parts, gap, owed, read, faults>>

\* ReplicateQuorum: one answer; acknowledged at the quorum, failed once it is out of reach, and
\* an answer after that is ignored.
Answered(r, ok) ==
    LET s == st[r]
        acks == IF ok THEN s.acks + 1 ELSE s.acks
        left == s.left - 1
        as == CASE acks >= s.need -> "acked"
                [] acks < s.need /\ acks + left < s.need -> "failed"
                [] OTHER -> "waiting"
    IN st' = IF s.as # "waiting" THEN st
             ELSE [st EXCEPT ![r] = [as |-> as, acks |-> acks, left |-> left, need |-> s.need]]

\* applyReplicated: the replica buffers the row, creating its engine if it has none.
Deliver(r, n) ==
    /\ <<r, n>> \in sent /\ n \in up
    /\ sent' = sent \ {<<r, n>>}
    /\ Applied(r, n)
    /\ Answered(r, TRUE)
    /\ UNCHANGED <<up, log, parts, gap, owed, read, faults>>

\* The same, but the answer is lost: the primary counts it as a failure.
DeliverUnheard(r, n) ==
    /\ <<r, n>> \in sent /\ n \in up /\ faults.drop < MaxDrop
    /\ sent' = sent \ {<<r, n>>}
    /\ Applied(r, n)
    /\ Answered(r, FALSE)
    /\ faults' = [faults EXCEPT !.drop = @ + 1]
    /\ UNCHANGED <<up, log, parts, gap, owed, read>>

\* A send times out or its node is down.
Drop(r, n) ==
    /\ <<r, n>> \in sent /\ (n \notin up \/ faults.drop < MaxDrop)
    /\ sent' = sent \ {<<r, n>>}
    /\ Answered(r, FALSE)
    /\ faults' = IF n \in up THEN [faults EXCEPT !.drop = @ + 1] ELSE faults
    /\ UNCHANGED <<up, eng, head, log, parts, gap, owed, reached, blind, read>>

-----------------------------------------------------------------------------
\* closeCoveredGaps: parts that reach past the gap close it.
Closed(g, rows) == IF g.open /\ NewestOf(rows) > g.after THEN NoGap ELSE g

\* The parts, and the owed ones, of the newest peer index beside this node's own (partsync).
Synced(n) == parts[n] \cup UNION { parts[m] : m \in (Owners \cap up) \ {n} }
Owing(n) == owed[n] \cup UNION { owed[m] : m \in (Owners \cap up) \ {n} }

\* head.trimBelowCovered: buffered rows no newer than what a part holds are dropped.
Trimmed(rows, flushed) == { r \in rows : Time[r] > NewestOf(flushed) }

\* maintainOneEngine on a replica: mirror the parts, load them, trim the head.
Mirror(n) ==
    LET all == Synced(n) IN
    /\ n \in up \cap eng /\ n # Primary
    /\ parts' = [parts EXCEPT ![n] = all]
    /\ owed' = [owed EXCEPT ![n] = Owing(n) \ all]
    /\ head' = [head EXCEPT ![n] = Trimmed(@, all)]
    /\ gap' = [gap EXCEPT ![n] = Closed(@, all)]
    /\ blind' = [blind EXCEPT ![n] = IF gap'[n] = gap[n] THEN @
                                     ELSE @ \cup (reached[n] \ (head'[n] \cup all \cup Owing(n)))]
    /\ <<parts, owed, head, gap>>' # <<parts, owed, head, gap>>
    /\ UNCHANGED <<up, eng, log, st, sent, reached, read, faults>>

\* maintainOneEngine on the owner: backfill from peers, loading what that installs, then flush
\* the head, which also empties the log.
Flush ==
    LET n == Primary
        all == Synced(n)
        rest == IF all = parts[n] THEN head[n] ELSE Trimmed(head[n], all)
        flushed == all \cup rest
    IN /\ n \in up \cap eng
       /\ parts' = [parts EXCEPT ![n] = flushed]
       /\ owed' = [owed EXCEPT ![n] = Owing(n) \ flushed]
       /\ head' = [head EXCEPT ![n] = {}]
       /\ log' = [log EXCEPT ![n] = {}]
       /\ gap' = [gap EXCEPT ![n] = Closed(@, flushed)]
       /\ <<parts, owed, head, log, gap>>' # <<parts, owed, head, log, gap>>
       /\ UNCHANGED <<up, eng, st, sent, reached, blind, read, faults>>

\* A load finds a part's objects gone: the part leaves the set and is owed.
Lose(n, r) ==
    /\ r \in parts[n] /\ n \in up \cap eng /\ faults.node < MaxFault
    /\ parts' = [parts EXCEPT ![n] = @ \ {r}]
    /\ owed' = [owed EXCEPT ![n] = @ \cup {r}]
    /\ faults' = [faults EXCEPT !.node = @ + 1]
    /\ UNCHANGED <<up, eng, head, log, gap, st, sent, reached, read, blind>>

Crash(n) ==
    /\ n \in up /\ faults.node < MaxFault
    /\ up' = up \ {n} /\ eng' = eng \ {n}
    /\ blind' = [blind EXCEPT ![n] = {}]
    /\ head' = [head EXCEPT ![n] = {}]
    /\ gap' = [gap EXCEPT ![n] = NoGap]
    /\ read' = IF read.at = n THEN Idle ELSE read
    /\ st' = [r \in Row |-> IF n = Primary /\ st[r].as = "waiting" THEN [st[r] EXCEPT !.as = "failed"]
                            ELSE st[r]]
    /\ faults' = [faults EXCEPT !.node = @ + 1]
    /\ UNCHANGED <<log, parts, owed, sent, reached>>

\* recover and noteRecoveryGaps: an engine per index or log found; a gap where no head came back.
Restart(n) ==
    LET held == parts[n] \cup owed[n] \cup log[n] # {} IN
    /\ n \notin up
    /\ up' = up \cup {n}
    /\ eng' = IF held THEN eng \cup {n} ELSE eng
    /\ head' = [head EXCEPT ![n] = log[n]]
    /\ gap' = [gap EXCEPT ![n] = IF held /\ log[n] = {} THEN [open |-> TRUE, after |-> NewestOf(parts[n])]
                                 ELSE NoGap]
    /\ UNCHANGED <<log, parts, owed, st, sent, reached, read, faults, blind>>

\* bootstrapShard: an owner with no engine mirrors the parts and, if there are any, loads them
\* and records a gap after them.
Bootstrap(n) ==
    LET all == Synced(n) IN
    /\ n \in up \ eng /\ n \in Owners /\ all # {}
    /\ parts' = [parts EXCEPT ![n] = all]
    /\ owed' = [owed EXCEPT ![n] = Owing(n) \ all]
    /\ eng' = eng \cup {n}
    /\ gap' = [gap EXCEPT ![n] = [open |-> TRUE, after |-> NewestOf(all)]]
    /\ UNCHANGED <<up, head, log, st, sent, reached, read, faults, blind>>

-----------------------------------------------------------------------------
Held(n) == head[n] \cup parts[n]
Within(rows, end) == { r \in rows : Time[r] <= end }

\* A mutant of CanAnswer: a window that ends just past the beginning of a gap counts as one before it.
CanAnswerAfter(n, end) ==
    IF n \notin eng THEN "absent"
    ELSE IF (gap[n].open /\ end > gap[n].after + 1) \/ \E r \in owed[n] : Time[r] <= end THEN "short"
    ELSE "whole"

\* canAnswer: absent, short for the window, or able to answer.
CanAnswer(n, end) ==
    IF n \notin eng THEN "absent"
    ELSE IF (gap[n].open /\ end >= gap[n].after) \/ \E r \in owed[n] : Time[r] <= end THEN "short"
    ELSE "whole"

\* Fetcher: where a read may go is decided when the fetcher is made, before the fetch; an owner
\* that holds the shard and misses nothing then hands out its engine unguarded.
StartRead(n, end) ==
    /\ read.pc = "idle" /\ n \in up
    /\ read' = [Idle EXCEPT !.pc = "planned", !.at = n, !.end = end, !.due = Within(Acked, end),
                            !.local = n \in Owners /\ n \in eng,
                            !.guard = gap[n].open \/ owed[n] # {}, !.knew = owed[n]]
    /\ UNCHANGED <<up, eng, head, log, parts, gap, owed, st, sent, reached, faults, blind>>

\* What the answer rests on: the rows held, and those the owner misses without knowing it,
\* because they never reached it, it lost them without a record, or it lost them since the plan.
Succeed(n) == [Idle EXCEPT !.pc = "done", !.as = "ok", !.due = read.due, !.got = Within(Held(n), read.end),
                           !.miss = (Row \ reached[n]) \cup blind[n] \cup (owed[n] \ read.knew)]

\* gapFetcher.Fetch: answered here unless the guard disclaims, then asked of the other owners.
FetchLocal ==
    LET can == CanAnswer(read.at, read.end) IN
    /\ read.pc = "planned"
    /\ read' = IF ~read.local THEN [read EXCEPT !.pc = "asking"]
               ELSE IF ~read.guard \/ can = "whole" THEN Succeed(read.at)
               ELSE [read EXCEPT !.pc = "asking", !.short = 1]
    /\ UNCHANGED <<up, eng, head, log, parts, gap, owed, st, sent, reached, faults, blind>>

\* One owner's answer to a hedged read.
Ask(n) ==
    LET can == CanAnswer(n, read.end) IN
    /\ read.pc = "asking" /\ n \in Owners \ (read.asked \cup {read.at})
    /\ read' = IF n \notin up THEN [read EXCEPT !.asked = @ \cup {n}]
               ELSE CASE can = "whole" -> Succeed(n)
                      [] can = "short" -> [read EXCEPT !.asked = @ \cup {n}, !.short = @ + 1]
                      [] can = "absent" -> [read EXCEPT !.asked = @ \cup {n}, !.absent = @ + 1]
    /\ UNCHANGED <<up, eng, head, log, parts, gap, owed, st, sent, reached, faults, blind>>

\* A mutant of Conclude: an owner that is short counts as one that holds nothing.
ConcludeEmpty ==
    LET remotes == Owners \ {read.at}
        owners == Cardinality(remotes) + (IF read.local THEN 1 ELSE 0)
    IN /\ read.pc = "asking" /\ remotes \subseteq read.asked
       /\ read' = IF read.short + read.absent >= owners THEN [Idle EXCEPT !.pc = "done", !.as = "ok", !.due = read.due]
                  ELSE [Idle EXCEPT !.pc = "done", !.as = "error"]
       /\ UNCHANGED <<up, eng, head, log, parts, gap, owed, st, sent, reached, faults, blind>>

\* Disclaims.Empty: no owner holds the shard, and none holds it short.
Empty(owners) == read.short = 0 /\ read.absent >= owners

\* hedgeOwners, all of them having disclaimed or failed: empty, or an error.
Conclude ==
    LET remotes == Owners \ {read.at}
        owners == Cardinality(remotes) + (IF read.local THEN 1 ELSE 0)
    IN /\ read.pc = "asking" /\ remotes \subseteq read.asked
       /\ read' = IF Empty(owners) THEN [Idle EXCEPT !.pc = "done", !.as = "ok", !.due = read.due]
                  ELSE [Idle EXCEPT !.pc = "done", !.as = "error"]
       /\ UNCHANGED <<up, eng, head, log, parts, gap, owed, st, sent, reached, faults, blind>>

EndRead ==
    /\ read.pc = "done" /\ read' = Idle
    /\ UNCHANGED <<up, eng, head, log, parts, gap, owed, st, sent, reached, faults, blind>>

Next ==
    \/ \E r \in Row : Write(r)
    \/ \E r \in Row, n \in Node : Deliver(r, n) \/ DeliverUnheard(r, n) \/ Drop(r, n) \/ Lose(n, r)
    \/ \E n \in Node : Mirror(n) \/ Crash(n) \/ Restart(n) \/ Bootstrap(n) \/ Ask(n)
    \/ \E n \in Node, r \in Row : StartRead(n, Time[r])
    \/ Flush \/ FetchLocal \/ Conclude \/ EndRead

Spec == Init /\ [][Next]_vars
-----------------------------------------------------------------------------
\* The rows that are newer than every row written before them.
OnTime == { r \in Row : \A q \in 1 .. (r - 1) : Time[q] < Time[r] }

\* A read that succeeds returns every row acknowledged before it began, whatever crashed,
\* restarted, was flushed, mirrored or lost meanwhile: an owner that knows it misses rows fails
\* over or fails the read (canAnswer, gapFetcher, Disclaims).  Exempt are a row no newer than one
\* written before it, and the rows the answering owner cannot know of: those that never reached it
\* (a quorum of three owners or more leaves some out), those it lost with an engine that a later
\* write made anew or behind a gap that closed early, and those it lost after the read was planned.
WholeAnswers == read.as = "ok" => read.due \cap OnTime \subseteq read.got \cup read.miss

\* A gap closes only when the node holds, or owes, what it lost: "a part carrying newer data than
\* this node ever had carries what this node lost" (cluster_completeness.go, closeCoveredGaps).
GapClosesCovered ==
    [][\A n \in up \cap up' :
         gap[n].open /\ ~gap'[n].open => reached[n] \cap Acked \cap OnTime \subseteq head'[n] \cup parts'[n] \cup owed'[n]]_vars
=============================================================================
