----------------------------- MODULE ShardProofs -----------------------------
(***************************************************************************)
(* A shard answers whole, for any number of owners, other nodes and rows,   *)
(* any timestamps, and any number of crashes, losses and lost messages.     *)
(***************************************************************************)
EXTENDS Shard, FiniteSetTheorems, WellFoundedInduction, NaturalsInduction, TLAPS

ReadType ==
    [pc : {"idle", "planned", "asking", "done"}, at : Node \cup {None}, end : Nat, due : SUBSET Row,
     local : BOOLEAN, guard : BOOLEAN, asked : SUBSET Node, absent : Nat, short : Nat, got : SUBSET Row,
     knew : SUBSET Row, miss : SUBSET Row, as : {"", "ok", "error"}]

StType == [as : {"no", "waiting", "acked", "failed"}, acks : Nat, left : Int, need : Nat]

TypeInv ==
    /\ up \subseteq Node /\ eng \subseteq up \cap Owners
    /\ head \in [Node -> SUBSET Row] /\ log \in [Node -> SUBSET Row]
    /\ parts \in [Node -> SUBSET Row] /\ owed \in [Node -> SUBSET Row]
    /\ reached \in [Node -> SUBSET Row] /\ blind \in [Node -> SUBSET Row]
    /\ gap \in [Node -> [open : BOOLEAN, after : Nat]]
    /\ st \in [Row -> StType]
    /\ sent \subseteq Row \X (Owners \ {Primary})
    /\ read \in ReadType

Written == { r \in Row : st[r].as # "no" }

\* Rows are written in order, and only written rows are sent and reach a node.
OrderInv ==
    /\ \A r \in Written : \A q \in Row : q < r => q \in Written
    /\ \A r \in Row, n \in Node : <<r, n>> \in sent => r \in Written
    /\ \A n \in Node : reached[n] \subseteq Written

\* What a node's index names, a row it owes included, has every row on time before its newest.
Down(n) == \A q \in parts[n] \cup owed[n] : \A r \in OnTime : r < q => r \in parts[n] \cup owed[n]

KeptAt(n) ==
    /\ head[n] \subseteq Written /\ log[n] \subseteq Written /\ parts[n] \cup owed[n] \subseteq Written
    /\ Down(n)
    /\ n # Primary => log[n] = {}
    /\ n \notin Owners => parts[n] \cup owed[n] = {}

\* The primary has every row written on time, in memory while it runs and on its disk at any time.
KeepPrimary ==
    /\ Written \cap OnTime \subseteq log[Primary] \cup parts[Primary] \cup owed[Primary]
    /\ Primary \in up => Written \cap OnTime \subseteq head[Primary] \cup parts[Primary] \cup owed[Primary]
    /\ Primary \in up /\ Written # {} => Primary \in eng

KeepInv == KeepPrimary /\ \A n \in Node : KeptAt(n)

\* Of the rows on time that reached it, an owner holds each, owes it, or knows of a gap that begins
\* before it, but for those it lost without a record.
Covered(n) ==
    \A r \in (reached[n] \cap OnTime) \ blind[n] :
        r \in head[n] \cup parts[n] \cup owed[n] \/ (gap[n].open /\ gap[n].after <= Time[r])

CoverInv == \A n \in eng : Covered(n)

\* A read planned on an engine that misses nothing still has that engine, without a gap; and the
\* primary is not among the owners found absent once a row is due.
ReadInv ==
    /\ read.pc \in {"planned", "asking"} => read.due \subseteq Within(Acked, read.end)
    /\ read.pc # "done" => read.as = ""
    /\ read.pc = "planned" => read.asked = {} /\ read.absent = 0 /\ read.short = 0
    /\ read.pc = "planned" /\ read.local => read.at \in eng
    /\ read.pc = "planned" /\ read.local /\ ~read.guard => ~gap[read.at].open /\ read.knew = {}
    /\ read.pc \in {"planned", "asking"} /\ ~read.local /\ read.due # {} => read.at # Primary
    /\ read.pc = "asking" /\ read.local => read.short >= 1
    /\ read.pc = "asking" /\ read.due # {} => read.absent <= Cardinality(read.asked \ {Primary})
    /\ read.asked \subseteq Owners \ {read.at}

IInv == TypeInv /\ OrderInv /\ KeepInv /\ CoverInv /\ ReadInv /\ WholeAnswers
-----------------------------------------------------------------------------
(* The owners, the newest of some rows, and the records.                   *)

LEMMA OwnersAre ==
    /\ Primary \in Node /\ Primary \in Owners /\ Owners \subseteq Node /\ None \notin Node
    /\ IsFiniteSet(Owners) /\ Len(Ring) \in Nat
<1>1. Ring \in Seq(Node) /\ Ring # <<>> /\ None \notin Node
  BY ShardConstants, Zenon
<1>2. Len(Ring) \in Nat /\ Len(Ring) >= 1 /\ Ring \in [1 .. Len(Ring) -> Node] /\ DOMAIN Ring = 1 .. Len(Ring)
  BY <1>1, SMTT(30)
<1>3. 1 \in DOMAIN Ring
  BY <1>2, SMTT(30)
<1>4. \A i \in DOMAIN Ring : Ring[i] \in Node
  BY <1>2, Zenon
<1>5. Primary \in Node /\ Primary \in Owners /\ Owners \subseteq Node
  BY <1>3, <1>4, Zenon DEF Primary, Owners
<1>6. IsFiniteSet(Owners)
  <2>1. IsFiniteSet(1 .. Len(Ring))
    BY <1>2, FS_Interval, SMTT(30)
  <2>2. Ring \in Surjection(1 .. Len(Ring), Owners)
    <3>1. Ring \in [1 .. Len(Ring) -> Owners]
      BY <1>2, Zenon DEF Owners
    <3>2. \A t \in Owners : \E s \in 1 .. Len(Ring) : Ring[s] = t
      BY <1>2, Zenon DEF Owners
    <3> QED BY <3>1, <3>2, Zenon DEF Surjection
  <2> QED BY <2>1, <2>2, FS_Surjection, Zenon
<1> QED BY <1>1, <1>2, <1>5, <1>6, Zenon

LEMMA Times ==
    /\ Len(Time) \in Nat /\ Row = 1 .. Len(Time) /\ Row \subseteq Nat
    /\ \A r \in Row : Time[r] \in Nat /\ Time[r] >= 1
    /\ OnTime \subseteq Row
    /\ \A r \in OnTime : \A q \in Row : q < r => Time[q] < Time[r]
<1>1. Len(Time) \in Nat /\ Row = 1 .. Len(Time)
  BY ShardConstants, SMTT(30) DEF Row
<1>2. \A r \in Row : Time[r] \in Nat \ {0}
  BY <1>1, ShardConstants, SMTT(30)
<1>3. OnTime \subseteq Row
  BY Zenon DEF OnTime
<1>4. ASSUME NEW r \in OnTime, NEW q \in Row, q < r PROVE Time[q] < Time[r]
  <2>1. q \in 1 .. (r - 1)
    BY <1>1, <1>3, <1>4, SMTT(30)
  <2> QED BY <2>1, Zenon DEF OnTime
<1> QED BY <1>1, <1>2, <1>3, <1>4, SMTT(30)

\* The first row is on time, and written if any is.
LEMMA First == ASSUME OrderInv, Written # {} PROVE \E r \in Row : r \in Written /\ r \in OnTime
<1>1. PICK w \in Row : w \in Written
  BY Zenon DEF Written
<1>2. 1 \in Row /\ (1 = w \/ 1 < w)
  BY <1>1, Times, SMTT(30)
<1>3. 1 \in Written
  BY <1>1, <1>2, Zenon DEF OrderInv
<1>4. 1 .. (1 - 1) = {}
  OBVIOUS
<1>5. 1 \in OnTime
  BY <1>2, <1>4, Zenon DEF OnTime
<1> QED BY <1>2, <1>3, <1>5, Zenon

\* A non-empty set of naturals has a least member.
LEMMA Least == ASSUME NEW S \in SUBSET Nat, S # {} PROVE \E m \in S : \A k \in S : m <= k
<1>1. IsWellFoundedOn(OpToRel(<, Nat), Nat)
  BY NatLessThanWellFounded, Zenon
<1>2. PICK x \in S : \A y \in S : ~(<<y, x>> \in OpToRel(<, Nat))
  BY <1>1, WFMin, Zenon
<1>3. \A y \in S : ~(y < x)
  BY <1>2, Zenon DEF OpToRel
<1> QED BY <1>3

\* The timestamps are bounded: no least number of rows can be without a bound.
LEMMA Bound == \E b \in Nat : \A r \in Row : Time[r] <= b
<1> DEFINE Has(k) == \E b \in Nat : \A r \in Row : r <= k => Time[r] <= b
           Bad == { k \in Nat : ~Has(k) }
<1>1. Bad = {}
  <2> SUFFICES ASSUME Bad # {} PROVE FALSE
    BY Zenon
  <2>1. PICK m \in Bad : \A k \in Bad : m <= k
    BY Least, Zenon
  <2>2. m \in Nat /\ ~Has(m)
    BY <2>1, Zenon
  <2>3. m # 0
    <3>1. \A r \in Row : ~(r <= 0)
      BY Times, SMTT(30)
    <3>2. Has(0)
      BY <3>1, SMTT(30)
    <3> QED BY <2>2, <3>2, Zenon
  <2>4. m - 1 \in Nat /\ ~(m <= m - 1)
    BY <2>2, <2>3, SMTT(30)
  <2>5. Has(m - 1)
    BY <2>1, <2>4, Zenon
  <2>6. PICK b \in Nat : \A r \in Row : r <= m - 1 => Time[r] <= b
    BY <2>5, Zenon
  <2>7. \A r \in Row : r <= m => r <= m - 1 \/ r = m
    BY <2>2, Times, SMTT(30)
  <2>8. CASE m \in Row
    <3> DEFINE t == Time[m]
               c == b + t
    <3>1. t \in Nat
      BY <2>8, Times, Zenon
    <3> HIDE DEF t
    <3>2. c \in Nat /\ t <= c /\ \A x \in Nat : x <= b => x <= c
      BY <3>1, SMTT(30)
    <3> HIDE DEF c
    <3>3. ASSUME NEW r \in Row, r <= m PROVE Time[r] <= c
      <4>1. CASE r <= m - 1
        BY <2>6, <3>2, <4>1, Times, Zenon
      <4>2. CASE r = m
        BY <3>2, <4>2, Zenon DEF t
      <4> QED BY <2>7, <3>3, <4>1, <4>2, Zenon
    <3> QED BY <2>2, <3>2, <3>3, Zenon
  <2>9. CASE m \notin Row
    BY <2>2, <2>6, <2>7, <2>9, Zenon
  <2> QED BY <2>8, <2>9, Zenon
<1>2. Has(Len(Time))
  BY <1>1, Times, Zenon
<1>3. \A r \in Row : r <= Len(Time)
  BY Times, SMTT(30)
<1> QED BY <1>2, <1>3, Zenon

\* The maximum of a bounded set of naturals is its least upper bound.
LEMMA Greatest ==
    ASSUME NEW S \in SUBSET Nat, 0 \in S, NEW b \in Nat, \A x \in S : x <= b
    PROVE  Max(S) \in S /\ \A x \in S : x <= Max(S)
<1> DEFINE U == { u \in Nat : \A x \in S : x <= u }
<1>1. PICK m \in U : \A k \in U : m <= k
  BY Least, Zenon
<1>2. m \in S
  <2> SUFFICES ASSUME m \notin S PROVE FALSE
    BY Zenon
  <2>1. m > 0 /\ m \in Nat /\ \A x \in S : x <= m
    BY <1>1
  <2>2. \A x \in S : x <= m - 1
    BY <2>1
  <2>3. m - 1 \in U
    BY <2>1, <2>2
  <2> QED BY <1>1, <2>1, <2>3
<1>3. \E x \in S : \A y \in S : x >= y
  BY <1>1, <1>2, Zenon
<1> QED BY <1>3, Zenon DEF Max

LEMMA Newest ==
    ASSUME NEW rows, rows \subseteq Row
    PROVE  /\ NewestOf(rows) \in Nat
           /\ \A r \in rows : Time[r] <= NewestOf(rows)
           /\ NewestOf(rows) # 0 => \E r \in rows : Time[r] = NewestOf(rows)
<1> DEFINE S == {0} \cup { Time[r] : r \in rows }
<1>1. S \in SUBSET Nat /\ 0 \in S
  BY Times, SMTT(30)
<1>2. PICK b \in Nat : \A r \in Row : Time[r] <= b
  BY Bound, Zenon
<1>3. \A x \in S : x <= b
  BY <1>2, SMTT(30)
<1>4. Max(S) \in S /\ \A x \in S : x <= Max(S)
  BY <1>1, <1>3, Greatest, Zenon
<1> QED BY <1>1, <1>4, Zenon DEF NewestOf

\* A row on time that is no newer than the newest of some rows is no later than one of them.
LEMMA Older ==
    ASSUME NEW rows, rows \subseteq Row, NEW r \in OnTime, ~(Time[r] > NewestOf(rows))
    PROVE  \E q \in rows : r <= q
<1>1. r \in Row /\ Time[r] >= 1 /\ Time[r] \in Nat /\ NewestOf(rows) \in Nat
  BY Newest, Times, Zenon
<1>2. NewestOf(rows) # 0
  BY <1>1, SMTT(30)
<1>3. PICK q \in rows : Time[q] = NewestOf(rows)
  BY <1>2, Newest, Zenon
<1>4. ~(q < r)
  BY <1>1, <1>3, Times, SMTT(30)
<1> QED BY <1>1, <1>3, <1>4, Times, SMTT(30)

\* A row on time after all of some rows is newer than they are.
LEMMA Newer ==
    ASSUME NEW rows, rows \subseteq Row, NEW r \in OnTime, \A q \in rows : ~(r <= q)
    PROVE  NewestOf(rows) <= Time[r]
<1>1. \A q \in rows : Time[q] <= Time[r]
  BY Times, SMTT(30)
<1>2. NewestOf(rows) \in Nat /\ Time[r] \in Nat
  BY Newest, Times, Zenon
<1>3. CASE NewestOf(rows) = 0
  BY <1>2, <1>3, SMTT(30)
<1>4. CASE NewestOf(rows) # 0
  BY <1>1, <1>4, Newest, Zenon
<1> QED BY <1>3, <1>4, Zenon
-----------------------------------------------------------------------------
(* What a step leaves alone.                                               *)

Same(m) ==
    /\ head'[m] = head[m] /\ log'[m] = log[m] /\ parts'[m] = parts[m] /\ owed'[m] = owed[m]
    /\ gap'[m] = gap[m] /\ reached'[m] = reached[m] /\ blind'[m] = blind[m]

LEMMA KeepBut ==
    ASSUME KeepInv, NEW n \in Node, \A m \in Node \ {n} : Same(m), Written \subseteq Written',
           KeptAt(n)', KeepPrimary'
    PROVE  KeepInv'
<1>1. ASSUME NEW m \in Node \ {n} PROVE KeptAt(m)'
  <2>1. KeptAt(m) /\ Same(m)
    BY Zenon DEF KeepInv
  <2> QED BY <2>1, Zenon DEF KeptAt, Down, Same
<1> QED BY <1>1, Zenon DEF KeepInv

LEMMA PrimaryFar ==
    ASSUME KeepInv, Same(Primary), Written' = Written, Primary \in up' => Primary \in up, up \cap eng \subseteq eng'
    PROVE  KeepPrimary'
BY Zenon DEF KeepInv, KeepPrimary, Same

LEMMA CoverBut ==
    ASSUME TypeInv, CoverInv, NEW n \in Node, \A m \in Node \ {n} : Same(m), eng' \subseteq eng \cup {n},
           n \in eng' => Covered(n)'
    PROVE  CoverInv'
<1> SUFFICES ASSUME NEW m \in eng' PROVE Covered(m)'
  BY Zenon DEF CoverInv
<1>1. CASE m = n
  BY <1>1, Zenon
<1>2. CASE m # n
  <2>1. m \in eng /\ m \in Node
    BY <1>2, Zenon DEF TypeInv
  <2>2. Same(m) /\ Covered(m)
    BY <1>2, <2>1, Zenon DEF CoverInv
  <2> QED BY <2>2, Zenon DEF Covered, Same
<1> QED BY <1>1, <1>2, Zenon

LEMMA ReadKept ==
    ASSUME ReadInv, WholeAnswers, read' = read, Acked \subseteq Acked',
           read.at \in eng => read.at \in eng' /\ (gap'[read.at].open => gap[read.at].open)
    PROVE  ReadInv' /\ WholeAnswers'
<1>1. read.pc \in {"planned", "asking"} => read.due \subseteq Within(Acked, read.end)'
  BY Zenon DEF ReadInv, Within
<1>2. read.pc = "planned" /\ read.local => read'.at \in eng'
  BY Zenon DEF ReadInv
<1>3. read.pc = "planned" /\ read.local /\ ~read.guard => ~gap'[read.at].open /\ read.knew = {}
  BY Zenon DEF ReadInv
<1> QED BY <1>1, <1>2, <1>3, ZenonT(30) DEF ReadInv, WholeAnswers

LEMMA ReadIdle == ASSUME read' = Idle PROVE ReadInv' /\ WholeAnswers'
BY Zenon DEF Idle, ReadInv, WholeAnswers, Within

LEMMA IdleType == Idle \in ReadType
BY Zenon DEF Idle, ReadType

LEMMA NoGapType == NoGap \in [open : BOOLEAN, after : Nat] /\ ~NoGap.open
BY Zenon DEF NoGap
-----------------------------------------------------------------------------
(* A row is written and replicated.                                        *)

\* The node a row is applied to has it in memory; an engine made anew knows nothing of the rest.
LEMMA AppliedRows ==
    ASSUME TypeInv, CoverInv, NEW r \in Row, NEW n \in Node, Applied(r, n), UNCHANGED <<parts, gap, owed>>
    PROVE  /\ eng' = eng \cup {n}
           /\ head' \in [Node -> SUBSET Row] /\ reached' \in [Node -> SUBSET Row] /\ blind' \in [Node -> SUBSET Row]
           /\ head'[n] = head[n] \cup {r} /\ reached'[n] = reached[n] \cup {r}
           /\ \A m \in Node \ {n} : head'[m] = head[m] /\ reached'[m] = reached[m] /\ blind'[m] = blind[m]
           /\ Covered(n)'
<1> DEFINE lost == IF n \in eng THEN blind[n] ELSE reached[n]
<1>1. /\ eng' = eng \cup {n} /\ head' = [head EXCEPT ![n] = head[n] \cup {r}]
      /\ reached' = [reached EXCEPT ![n] = reached[n] \cup {r}] /\ blind' = [blind EXCEPT ![n] = lost]
  BY Zenon DEF Applied
<1>2. head[n] \cup {r} \in SUBSET Row /\ reached[n] \cup {r} \in SUBSET Row /\ lost \in SUBSET Row
  BY Zenon DEF TypeInv
<1>3. lost = blind[n] \/ lost = reached[n]
  BY Zenon
<1>4. n \notin eng => lost = reached[n]
  BY Zenon
<1>5. n \in eng => lost = blind[n]
  BY Zenon
<1> HIDE DEF lost
<1>6. head' \in [Node -> SUBSET Row] /\ reached' \in [Node -> SUBSET Row] /\ blind' \in [Node -> SUBSET Row]
  BY <1>1, <1>2, Zenon DEF TypeInv
<1>7. head'[n] = head[n] \cup {r} /\ reached'[n] = reached[n] \cup {r} /\ blind'[n] = lost
  BY <1>1, Zenon DEF TypeInv
<1>8. \A m \in Node \ {n} : head'[m] = head[m] /\ reached'[m] = reached[m] /\ blind'[m] = blind[m]
  BY <1>1, Zenon DEF TypeInv
<1>9. Covered(n)'
  <2> SUFFICES ASSUME NEW q \in reached[n] \cup {r}, q \in OnTime, q \notin lost
               PROVE  q \in head'[n] \cup parts'[n] \cup owed'[n] \/ (gap'[n].open /\ gap'[n].after <= Time[q])
    BY <1>7, Zenon DEF Covered
  <2>1. CASE q = r
    BY <1>7, <2>1, Zenon
  <2>2. CASE q # r
    <3>1. q \in reached[n] /\ n \in eng /\ q \notin blind[n]
      BY <1>4, <1>5, <2>2, Zenon
    <3>2. q \in head[n] \cup parts[n] \cup owed[n] \/ (gap[n].open /\ gap[n].after <= Time[q])
      BY <3>1, Zenon DEF CoverInv, Covered
    <3> QED BY <1>7, <3>2, Zenon
  <2> QED BY <2>1, <2>2, Zenon
<1> QED BY <1>1, <1>6, <1>7, <1>8, <1>9, Zenon

\* The quorum and the number of targets are naturals.
LEMMA Quorum ==
    /\ Cardinality(Owners \ {Primary}) \in Nat
    /\ Min({Len(Ring) \div 2, Cardinality(Owners \ {Primary})}) \in Nat
<1> DEFINE x == Len(Ring) \div 2
           y == Cardinality(Owners \ {Primary})
<1>1. y \in Nat
  <2>1. IsFiniteSet(Owners \ {Primary})
    BY OwnersAre, FS_RemoveElement, Zenon
  <2> QED BY <2>1, FS_CardinalityType, Zenon
<1>2. x \in Nat
  BY OwnersAre, SMTT(30)
<1> HIDE DEF x, y
<1>3. x <= x /\ y <= y /\ (x <= y \/ y <= x)
  BY <1>1, <1>2, SMTT(30)
<1>4. \E u \in {x, y} : \A v \in {x, y} : u <= v
  BY <1>3, Zenon
<1>5. Min({x, y}) \in {x, y}
  BY <1>4, Zenon DEF Min
<1>6. Min({x, y}) \in Nat
  BY <1>1, <1>2, <1>5, Zenon
<1> QED BY <1>1, <1>6, Zenon DEF x, y

LEMMA WriteEffect ==
    ASSUME TypeInv, NEW r \in Row, Write(r)
    PROVE  /\ st' \in [Row -> StType] /\ Written' = Written \cup {r} /\ Acked \subseteq Acked'
           /\ \A q \in Row : q < r => q \in Written
<1> DEFINE c == Cardinality(Owners \ {Primary})
           N == Min({Len(Ring) \div 2, c})
           rec == [as |-> IF N = 0 THEN "acked" ELSE "waiting", acks |-> 0, left |-> c, need |-> N]
<1>1. st[r].as = "no" /\ (\A q \in 1 .. (r - 1) : st[q].as # "no") /\ st' = [st EXCEPT ![r] = rec]
  BY Zenon DEF Write
<1>2. c \in Nat /\ N \in Nat
  BY Quorum, Zenon
<1> HIDE DEF c, N
<1>3. rec \in StType /\ rec.as # "no"
  BY <1>2, SMTT(30) DEF StType
<1> HIDE DEF rec
<1>4. st' \in [Row -> StType] /\ st'[r] = rec /\ \A q \in Row \ {r} : st'[q] = st[q]
  BY <1>1, <1>3, Zenon DEF TypeInv
<1>5. Written' = Written \cup {r}
  BY <1>3, <1>4, Zenon DEF Written
<1>6. r \notin Acked
  BY <1>1, Zenon DEF Acked
<1>7. Acked \subseteq Acked'
  BY <1>4, <1>6, Zenon DEF Acked
<1>8. ASSUME NEW q \in Row, q < r PROVE q \in Written
  <2>1. q \in 1 .. (r - 1)
    BY <1>8, Times, SMTT(30)
  <2> QED BY <1>1, <2>1, Zenon DEF Written
<1> QED BY <1>4, <1>5, <1>7, <1>8, Zenon

LEMMA WriteStep ==
    ASSUME IInv, NEW r \in Row, Write(r)
    PROVE  IInv'
<1>1. TypeInv /\ OrderInv /\ KeepInv /\ CoverInv /\ ReadInv /\ WholeAnswers
  BY Zenon DEF IInv
<1>2. /\ Primary \in up /\ Applied(r, Primary) /\ log' = [log EXCEPT ![Primary] = @ \cup {r}]
      /\ sent' = sent \cup { <<r, n>> : n \in Owners \ {Primary} }
      /\ UNCHANGED <<up, parts, gap, owed, read>>
  BY Zenon DEF Write
<1>3. /\ st' \in [Row -> StType] /\ Written' = Written \cup {r} /\ Acked \subseteq Acked'
      /\ \A q \in Row : q < r => q \in Written
  BY <1>1, WriteEffect, Zenon
<1>4. Primary \in Node /\ Primary \in Owners
  BY OwnersAre, Zenon
<1>5. /\ eng' = eng \cup {Primary}
      /\ head' \in [Node -> SUBSET Row] /\ reached' \in [Node -> SUBSET Row] /\ blind' \in [Node -> SUBSET Row]
      /\ head'[Primary] = head[Primary] \cup {r} /\ reached'[Primary] = reached[Primary] \cup {r}
      /\ (\A m \in Node \ {Primary} : head'[m] = head[m] /\ reached'[m] = reached[m] /\ blind'[m] = blind[m])
      /\ Covered(Primary)'
  BY <1>1, <1>2, <1>4, AppliedRows, Zenon
<1>6. /\ log' \in [Node -> SUBSET Row] /\ log'[Primary] = log[Primary] \cup {r}
      /\ \A m \in Node \ {Primary} : log'[m] = log[m]
  BY <1>1, <1>2, <1>4, Zenon DEF TypeInv
<1>7. \A m \in Node \ {Primary} : Same(m)
  BY <1>2, <1>5, <1>6, Zenon DEF Same
<1>8. TypeInv'
  <2>1. sent' \subseteq Row \X (Owners \ {Primary})
    BY <1>1, <1>2, SMTT(30) DEF TypeInv
  <2>2. eng' \subseteq up' \cap Owners
    BY <1>1, <1>2, <1>4, <1>5, Zenon DEF TypeInv
  <2> QED BY <1>1, <1>2, <1>3, <1>5, <1>6, <2>1, <2>2, Zenon DEF TypeInv
<1>9. OrderInv'
  <2>1. \A p \in Written' : \A q \in Row : q < p => q \in Written'
    BY <1>1, <1>3, Zenon DEF OrderInv
  <2>2. \A q \in Row, n \in Node : <<q, n>> \in sent' => q \in Written'
    BY <1>1, <1>2, <1>3, Zenon DEF OrderInv
  <2>3. ASSUME NEW n \in Node PROVE reached'[n] \subseteq Written'
    <3>1. reached[n] \subseteq Written
      BY <1>1, Zenon DEF OrderInv
    <3>2. reached'[n] \subseteq reached[n] \cup {r}
      BY <1>5, Zenon
    <3> QED BY <1>3, <3>1, <3>2, Zenon
  <2> QED BY <2>1, <2>2, <2>3, Zenon DEF OrderInv
<1>10. KeptAt(Primary)'
  <2>1. KeptAt(Primary)
    BY <1>1, <1>4, Zenon DEF KeepInv
  <2> QED BY <1>2, <1>3, <1>4, <1>5, <1>6, <2>1, Zenon DEF KeptAt, Down
<1>11. KeepPrimary'
  BY <1>1, <1>2, <1>3, <1>5, <1>6, Zenon DEF KeepInv, KeepPrimary
<1>12. KeepInv'
  BY <1>1, <1>3, <1>4, <1>7, <1>10, <1>11, KeepBut, Zenon
<1>13. CoverInv'
  BY <1>1, <1>4, <1>5, <1>7, CoverBut, Zenon
<1>14. ReadInv' /\ WholeAnswers'
  BY <1>1, <1>2, <1>3, <1>5, ReadKept, Zenon
<1> QED BY <1>8, <1>9, <1>12, <1>13, <1>14, Zenon DEF IInv

\* An answer changes no row from acknowledged, and none to or from unwritten.
LEMMA Settled ==
    ASSUME TypeInv, NEW r \in Row, NEW ok \in BOOLEAN, Answered(r, ok)
    PROVE  st' \in [Row -> StType] /\ Written' = Written /\ Acked \subseteq Acked'
<1> DEFINE acks == IF ok THEN st[r].acks + 1 ELSE st[r].acks
           left == st[r].left - 1
           as == CASE acks >= st[r].need -> "acked"
                   [] acks < st[r].need /\ acks + left < st[r].need -> "failed"
                   [] OTHER -> "waiting"
           new == [as |-> as, acks |-> acks, left |-> left, need |-> st[r].need]
<1>1. (st[r].as # "waiting" /\ st' = st) \/ (st[r].as = "waiting" /\ st' = [st EXCEPT ![r] = new])
  BY Zenon DEF Answered
<1>2. st[r] \in StType
  BY Zenon DEF TypeInv
<1>3. st[r].need \in Nat /\ acks \in Nat /\ left \in Int
  BY <1>2, SMTT(30) DEF StType
<1>4. as \in {"acked", "failed", "waiting"}
  BY Zenon
<1> HIDE DEF as, acks, left
<1>5. new \in StType /\ new.as # "no"
  BY <1>3, <1>4, Zenon DEF StType
<1> HIDE DEF new
<1>6. CASE st' = st
  BY <1>6, Zenon DEF TypeInv, Written, Acked
<1>7. CASE st[r].as = "waiting" /\ st' = [st EXCEPT ![r] = new]
  <2>1. st' \in [Row -> StType] /\ st'[r] = new /\ \A q \in Row \ {r} : st'[q] = st[q]
    BY <1>5, <1>7, Zenon DEF TypeInv
  <2>2. r \in Written /\ r \notin Acked /\ r \in Written'
    BY <1>5, <1>7, <2>1, Zenon DEF Written, Acked
  <2>3. \A q \in Row \ {r} : (q \in Written <=> q \in Written') /\ (q \in Acked => q \in Acked')
    BY <2>1, Zenon DEF Written, Acked
  <2>4. Written' \subseteq Row /\ Written \subseteq Row /\ Acked \subseteq Row
    BY Zenon DEF Written, Acked
  <2>5. Written' = Written
    <3>1. \A q \in Row : q \in Written <=> q \in Written'
      BY <2>2, <2>3, Zenon
    <3> QED BY <2>4, <3>1, Zenon
  <2>6. Acked \subseteq Acked'
    BY <2>2, <2>3, <2>4, Zenon
  <2> QED BY <2>1, <2>5, <2>6, Zenon
<1> QED BY <1>1, <1>6, <1>7, Zenon

LEMMA DeliverStep ==
    ASSUME IInv, NEW r \in Row, NEW n \in Node, Deliver(r, n) \/ DeliverUnheard(r, n)
    PROVE  IInv'
<1>1. TypeInv /\ OrderInv /\ KeepInv /\ CoverInv /\ ReadInv /\ WholeAnswers
  BY Zenon DEF IInv
<1>2. /\ <<r, n>> \in sent /\ n \in up /\ sent' = sent \ {<<r, n>>} /\ Applied(r, n)
      /\ UNCHANGED <<up, log, parts, gap, owed, read>>
      /\ Answered(r, TRUE) \/ Answered(r, FALSE)
  BY Zenon DEF Deliver, DeliverUnheard
<1>3. n \in Owners /\ n # Primary /\ r \in Written /\ Primary \in Node
  BY <1>1, <1>2, OwnersAre, Zenon DEF TypeInv, OrderInv
<1>4. st' \in [Row -> StType] /\ Written' = Written /\ Acked \subseteq Acked'
  BY <1>1, <1>2, Settled, Zenon
<1>5. /\ eng' = eng \cup {n}
      /\ head' \in [Node -> SUBSET Row] /\ reached' \in [Node -> SUBSET Row] /\ blind' \in [Node -> SUBSET Row]
      /\ head'[n] = head[n] \cup {r} /\ reached'[n] = reached[n] \cup {r}
      /\ (\A m \in Node \ {n} : head'[m] = head[m] /\ reached'[m] = reached[m] /\ blind'[m] = blind[m])
      /\ Covered(n)'
  BY <1>1, <1>2, AppliedRows, Zenon
<1>6. \A m \in Node \ {n} : Same(m)
  BY <1>2, <1>5, Zenon DEF Same
<1>7. TypeInv'
  BY <1>1, <1>2, <1>3, <1>4, <1>5, Zenon DEF TypeInv
<1>8. OrderInv'
  <2>1. ASSUME NEW m \in Node PROVE reached'[m] \subseteq Written'
    <3>1. reached[m] \subseteq Written
      BY <1>1, Zenon DEF OrderInv
    <3>2. reached'[m] \subseteq reached[m] \cup {r}
      BY <1>5, Zenon
    <3> QED BY <1>3, <1>4, <3>1, <3>2, Zenon
  <2> QED BY <1>1, <1>2, <1>4, <2>1, Zenon DEF OrderInv
<1>9. KeptAt(n)'
  <2>1. KeptAt(n)
    BY <1>1, Zenon DEF KeepInv
  <2> QED BY <1>2, <1>3, <1>4, <1>5, <2>1, Zenon DEF KeptAt, Down
<1>10. KeepPrimary'
  BY <1>1, <1>2, <1>3, <1>4, <1>5, <1>6, PrimaryFar, Zenon
<1>11. KeepInv'
  BY <1>1, <1>4, <1>6, <1>9, <1>10, KeepBut, Zenon
<1>12. CoverInv'
  BY <1>1, <1>5, <1>6, CoverBut, Zenon
<1>13. ReadInv' /\ WholeAnswers'
  BY <1>1, <1>2, <1>4, <1>5, ReadKept, Zenon
<1> QED BY <1>7, <1>8, <1>11, <1>12, <1>13, Zenon DEF IInv

LEMMA DropStep ==
    ASSUME IInv, NEW r \in Row, NEW n \in Node, Drop(r, n)
    PROVE  IInv'
<1>1. TypeInv /\ OrderInv /\ KeepInv /\ CoverInv /\ ReadInv /\ WholeAnswers
  BY Zenon DEF IInv
<1>2. /\ sent' = sent \ {<<r, n>>} /\ Answered(r, FALSE)
      /\ UNCHANGED <<up, eng, head, log, parts, gap, owed, reached, blind, read>>
  BY Zenon DEF Drop
<1>3. st' \in [Row -> StType] /\ Written' = Written /\ Acked \subseteq Acked'
  BY <1>1, <1>2, Settled, Zenon
<1>4. TypeInv'
  BY <1>1, <1>2, <1>3, Zenon DEF TypeInv
<1>5. OrderInv'
  BY <1>1, <1>2, <1>3, Zenon DEF OrderInv
<1>6. KeepInv'
  <2>1. KeepPrimary'
    BY <1>1, <1>2, <1>3, Zenon DEF KeepInv, KeepPrimary
  <2>2. ASSUME NEW m \in Node PROVE KeptAt(m)'
    BY <1>1, <1>2, <1>3, Zenon DEF KeepInv, KeptAt, Down
  <2> QED BY <2>1, <2>2, Zenon DEF KeepInv
<1>7. CoverInv'
  BY <1>1, <1>2, Zenon DEF CoverInv, Covered
<1>8. ReadInv' /\ WholeAnswers'
  BY <1>1, <1>2, <1>3, ReadKept, Zenon
<1> QED BY <1>4, <1>5, <1>6, <1>7, <1>8, Zenon DEF IInv
-----------------------------------------------------------------------------
(* Parts are mirrored, flushed and lost.                                   *)

LEMMA OrderSame ==
    ASSUME OrderInv, st' = st, sent' = sent, reached' = reached
    PROVE  OrderInv' /\ Written' = Written /\ Acked' = Acked
BY Zenon DEF OrderInv, Written, Acked

\* What a node takes from its peers is written, holds what it had, and has every row on time
\* before its newest.
LEMMA SyncedRows ==
    ASSUME TypeInv, KeepInv, NEW n \in Node
    PROVE  /\ Synced(n) \subseteq Row /\ Owing(n) \subseteq Row
           /\ Synced(n) \cup Owing(n) \subseteq Written
           /\ parts[n] \subseteq Synced(n) /\ owed[n] \subseteq Owing(n)
           /\ \A q \in Synced(n) \cup Owing(n) : \A r \in OnTime : r <= q => r \in Synced(n) \cup Owing(n)
<1> DEFINE P == {n} \cup ((Owners \cap up) \ {n})
<1>1. P \subseteq Node
  BY Zenon DEF TypeInv
<1>2. \A q : (q \in Synced(n) <=> \E m \in P : q \in parts[m]) /\ (q \in Owing(n) <=> \E m \in P : q \in owed[m])
  BY Zenon DEF Synced, Owing
<1>3. \A m \in P : parts[m] \subseteq Row /\ owed[m] \subseteq Row /\ parts[m] \cup owed[m] \subseteq Written /\ Down(m)
  BY <1>1, Zenon DEF TypeInv, KeepInv, KeptAt
<1>4. ASSUME NEW q \in Synced(n) \cup Owing(n), NEW r \in OnTime, r <= q PROVE r \in Synced(n) \cup Owing(n)
  <2>1. PICK m \in P : q \in parts[m] \cup owed[m]
    BY <1>2, Zenon
  <2>2. q \in Row /\ Down(m)
    BY <1>3, <2>1, Zenon
  <2>3. r = q \/ r < q
    BY <1>4, <2>2, Times, SMTT(30)
  <2>4. r \in parts[m] \cup owed[m]
    BY <2>1, <2>2, <2>3, Zenon DEF Down
  <2> QED BY <1>2, <2>4, Zenon
<1>5. n \in P
  BY Zenon
<1> HIDE DEF P
<1> QED BY <1>2, <1>3, <1>4, <1>5, Zenon

\* A trimmed row that was on time is in the parts, or owed.
LEMMA TrimmedRows ==
    ASSUME TypeInv, KeepInv, NEW n \in Node, NEW r \in OnTime, r \in head[n], r \notin Trimmed(head[n], Synced(n))
    PROVE  r \in Synced(n) \cup Owing(n)
<1>1. Synced(n) \subseteq Row
  BY SyncedRows, Zenon
<1>2. ~(Time[r] > NewestOf(Synced(n)))
  BY Zenon DEF Trimmed
<1>3. \E q \in Synced(n) : r <= q
  BY <1>1, <1>2, Older, Zenon
<1> QED BY <1>3, SyncedRows, Zenon

LEMMA ClosedGap ==
    ASSUME NEW g \in [open : BOOLEAN, after : Nat], NEW rows
    PROVE  /\ Closed(g, rows) \in [open : BOOLEAN, after : Nat]
           /\ Closed(g, rows).open => Closed(g, rows) = g
BY NoGapType, Zenon DEF Closed

LEMMA MirrorStep ==
    ASSUME IInv, NEW n \in Node, Mirror(n)
    PROVE  IInv'
<1> DEFINE all == Synced(n)
           lost == IF gap'[n] = gap[n] THEN blind[n]
                   ELSE blind[n] \cup (reached[n] \ (head'[n] \cup all \cup Owing(n)))
<1>1. TypeInv /\ OrderInv /\ KeepInv /\ CoverInv /\ ReadInv /\ WholeAnswers
  BY Zenon DEF IInv
<1>2. /\ n \in up \cap eng /\ n # Primary
      /\ parts' = [parts EXCEPT ![n] = all] /\ owed' = [owed EXCEPT ![n] = Owing(n) \ all]
      /\ head' = [head EXCEPT ![n] = Trimmed(@, all)] /\ gap' = [gap EXCEPT ![n] = Closed(@, all)]
      /\ blind' = [blind EXCEPT ![n] = lost]
      /\ UNCHANGED <<up, eng, log, st, sent, reached, read>>
  BY Zenon DEF Mirror
<1>3. n \in Owners
  BY <1>1, <1>2, Zenon DEF TypeInv
<1>4. OrderInv' /\ Written' = Written /\ Acked' = Acked
  BY <1>1, <1>2, OrderSame, Zenon
<1>5. /\ all \subseteq Row /\ Owing(n) \subseteq Row /\ all \cup Owing(n) \subseteq Written
      /\ parts[n] \subseteq all /\ owed[n] \subseteq Owing(n)
      /\ \A q \in all \cup Owing(n) : \A r \in OnTime : r <= q => r \in all \cup Owing(n)
  BY <1>1, SyncedRows, Zenon
<1>6. /\ Trimmed(head[n], all) \subseteq head[n]
      /\ \A r \in OnTime : r \in head[n] => r \in Trimmed(head[n], all) \cup all \cup Owing(n)
  BY <1>1, TrimmedRows, Zenon DEF Trimmed
<1>7. /\ gap[n] \in [open : BOOLEAN, after : Nat]
      /\ Closed(gap[n], all) \in [open : BOOLEAN, after : Nat]
      /\ Closed(gap[n], all).open => Closed(gap[n], all) = gap[n]
  BY <1>1, ClosedGap, Zenon DEF TypeInv
<1>8. /\ lost \in SUBSET Row /\ blind[n] \subseteq lost
      /\ gap'[n] # gap[n] => reached[n] \ (head'[n] \cup all \cup Owing(n)) \subseteq lost
  BY <1>1, Zenon DEF TypeInv
<1> HIDE DEF all, lost
<1>9. /\ parts'[n] = all /\ owed'[n] = Owing(n) \ all /\ head'[n] = Trimmed(head[n], all)
      /\ gap'[n] = Closed(gap[n], all) /\ blind'[n] = lost /\ reached'[n] = reached[n]
  BY <1>1, <1>2, Zenon DEF TypeInv
<1>10. \A m \in Node \ {n} : Same(m)
  BY <1>1, <1>2, Zenon DEF Same, TypeInv
<1>11. TypeInv'
  <2>1. head' \in [Node -> SUBSET Row]
    BY <1>1, <1>2, <1>6, Zenon DEF TypeInv
  <2>2. parts' \in [Node -> SUBSET Row] /\ owed' \in [Node -> SUBSET Row]
    BY <1>1, <1>2, <1>5, Zenon DEF TypeInv
  <2>3. gap' \in [Node -> [open : BOOLEAN, after : Nat]]
    BY <1>1, <1>2, <1>7, Zenon DEF TypeInv
  <2>4. blind' \in [Node -> SUBSET Row]
    BY <1>1, <1>2, <1>8, Zenon DEF TypeInv
  <2> QED BY <1>1, <1>2, <2>1, <2>2, <2>3, <2>4, Zenon DEF TypeInv
<1>12. KeptAt(n)'
  <2>1. parts'[n] \cup owed'[n] = all \cup Owing(n)
    BY <1>9, Zenon
  <2>2. Down(n)'
    <3> SUFFICES ASSUME NEW q \in all \cup Owing(n), NEW r \in OnTime, r < q PROVE r \in all \cup Owing(n)
      BY <2>1, Zenon DEF Down
    <3>1. q \in Row
      BY <1>5, Zenon
    <3>2. r <= q
      BY <3>1, Times, SMTT(30)
    <3> QED BY <1>5, <3>2, Zenon
  <2>3. KeptAt(n)
    BY <1>1, Zenon DEF KeepInv
  <2>4. head'[n] \subseteq Written' /\ log'[n] \subseteq Written'
    BY <1>2, <1>4, <1>6, <1>9, <2>3, Zenon DEF KeptAt
  <2>5. parts'[n] \cup owed'[n] \subseteq Written'
    BY <1>4, <1>5, <2>1, Zenon
  <2>6. n # Primary => log'[n] = {}
    BY <1>2, <2>3, Zenon DEF KeptAt
  <2> QED BY <1>3, <2>2, <2>4, <2>5, <2>6, Zenon DEF KeptAt
<1>13. KeepPrimary'
  <2>1. Same(Primary)
    BY <1>2, <1>10, OwnersAre, Zenon
  <2> QED BY <1>1, <1>2, <1>4, <2>1, PrimaryFar, Zenon
<1>14. KeepInv'
  BY <1>1, <1>4, <1>10, <1>12, <1>13, KeepBut, Zenon
<1>15. Covered(n)'
  <2> SUFFICES ASSUME NEW q \in reached[n], q \in OnTime, q \notin lost
               PROVE  q \in head'[n] \cup parts'[n] \cup owed'[n] \/ (gap'[n].open /\ gap'[n].after <= Time[q])
    BY <1>9, Zenon DEF Covered
  <2>1. Covered(n) /\ q \notin blind[n]
    BY <1>1, <1>2, <1>8, Zenon DEF CoverInv
  <2>2. q \in head[n] \cup parts[n] \cup owed[n] \/ (gap[n].open /\ gap[n].after <= Time[q])
    BY <2>1, Zenon DEF Covered
  <2>3. CASE q \in head[n] \cup parts[n] \cup owed[n]
    BY <1>5, <1>6, <1>9, <2>3, Zenon
  <2>4. CASE gap[n].open /\ gap[n].after <= Time[q] /\ gap'[n] = gap[n]
    BY <2>4, Zenon
  <2>5. CASE gap'[n] # gap[n]
    <3>1. q \in head'[n] \cup all \cup Owing(n)
      BY <1>8, <2>5, Zenon
    <3> QED BY <1>9, <3>1, Zenon
  <2> QED BY <2>2, <2>3, <2>4, <2>5, Zenon
<1>16. CoverInv'
  BY <1>1, <1>2, <1>10, <1>15, CoverBut, Zenon
<1>17. ReadInv' /\ WholeAnswers'
  <2>1. \A m \in Node : gap'[m].open => gap[m].open
    BY <1>7, <1>9, <1>10, Zenon DEF Same
  <2>2. read.at \in eng => read.at \in Node
    BY <1>1, Zenon DEF TypeInv
  <2> QED BY <1>1, <1>2, <1>4, <2>1, <2>2, ReadKept, Zenon
<1> QED BY <1>4, <1>11, <1>14, <1>16, <1>17, Zenon DEF IInv

LEMMA FlushStep ==
    ASSUME IInv, Flush
    PROVE  IInv'
<1> DEFINE n == Primary
           all == Synced(n)
           rest == IF all = parts[n] THEN head[n] ELSE Trimmed(head[n], all)
           flushed == all \cup rest
<1>1. TypeInv /\ OrderInv /\ KeepInv /\ CoverInv /\ ReadInv /\ WholeAnswers
  BY Zenon DEF IInv
<1>2. /\ n \in up \cap eng
      /\ parts' = [parts EXCEPT ![n] = flushed] /\ owed' = [owed EXCEPT ![n] = Owing(n) \ flushed]
      /\ head' = [head EXCEPT ![n] = {}] /\ log' = [log EXCEPT ![n] = {}]
      /\ gap' = [gap EXCEPT ![n] = Closed(@, flushed)]
      /\ UNCHANGED <<up, eng, st, sent, reached, blind, read>>
  BY Zenon DEF Flush
<1>3. n \in Node /\ n \in Owners
  BY OwnersAre, Zenon
<1>4. OrderInv' /\ Written' = Written /\ Acked' = Acked
  BY <1>1, <1>2, OrderSame, Zenon
<1>5. /\ all \subseteq Row /\ Owing(n) \subseteq Row /\ all \cup Owing(n) \subseteq Written
      /\ parts[n] \subseteq all /\ owed[n] \subseteq Owing(n)
  BY <1>1, <1>3, SyncedRows, Zenon
<1>6. rest \subseteq head[n] /\ \A r \in OnTime : r \in head[n] => r \in rest \cup all \cup Owing(n)
  BY <1>1, <1>3, TrimmedRows, Zenon DEF Trimmed
<1>7. head[n] \subseteq Written /\ Written \cap OnTime \subseteq head[n] \cup parts[n] \cup owed[n]
  BY <1>1, <1>2, <1>3, Zenon DEF KeepInv, KeepPrimary, KeptAt
<1>8. flushed \cup Owing(n) \subseteq Written /\ Written \cap OnTime \subseteq flushed \cup Owing(n)
  BY <1>5, <1>6, <1>7, Zenon
<1>9. /\ gap[n] \in [open : BOOLEAN, after : Nat]
      /\ Closed(gap[n], flushed) \in [open : BOOLEAN, after : Nat]
      /\ Closed(gap[n], flushed).open => Closed(gap[n], flushed) = gap[n]
  BY <1>1, <1>3, ClosedGap, Zenon DEF TypeInv
<1>10. n = Primary
  BY Zenon
<1> HIDE DEF n, all, rest, flushed
<1>11. /\ parts'[n] = flushed /\ owed'[n] = Owing(n) \ flushed /\ head'[n] = {} /\ log'[n] = {}
       /\ gap'[n] = Closed(gap[n], flushed)
  BY <1>1, <1>2, <1>3, Zenon DEF TypeInv
<1>12. parts'[n] \cup owed'[n] \subseteq Written /\ Written \cap OnTime \subseteq parts'[n] \cup owed'[n]
  BY <1>8, <1>11, Zenon
<1>13. \A m \in Node \ {n} : Same(m)
  BY <1>1, <1>2, Zenon DEF Same, TypeInv
<1>14. TypeInv'
  <2>1. flushed \subseteq Row
    BY <1>8, Zenon DEF Written
  <2>2. parts' \in [Node -> SUBSET Row] /\ owed' \in [Node -> SUBSET Row]
    BY <1>1, <1>2, <1>5, <2>1, Zenon DEF TypeInv
  <2>3. head' \in [Node -> SUBSET Row] /\ log' \in [Node -> SUBSET Row]
    BY <1>1, <1>2, Zenon DEF TypeInv
  <2>4. gap' \in [Node -> [open : BOOLEAN, after : Nat]]
    BY <1>1, <1>2, <1>9, Zenon DEF TypeInv
  <2> QED BY <1>1, <1>2, <2>2, <2>3, <2>4, Zenon DEF TypeInv
<1>15. KeptAt(n)'
  <2>1. Down(n)'
    <3> SUFFICES ASSUME NEW q \in parts'[n] \cup owed'[n], NEW r \in OnTime, r < q PROVE r \in parts'[n] \cup owed'[n]
      BY Zenon DEF Down
    <3>1. q \in Written /\ r \in Row
      BY <1>12, Times, Zenon
    <3>2. r \in Written
      BY <1>1, <3>1, Zenon DEF OrderInv
    <3> QED BY <1>12, <3>2, Zenon
  <2> QED BY <1>3, <1>4, <1>10, <1>11, <1>12, <2>1, Zenon DEF KeptAt
<1>16. KeepPrimary'
  BY <1>2, <1>4, <1>10, <1>12, Zenon DEF KeepPrimary
<1>17. KeepInv'
  BY <1>1, <1>3, <1>4, <1>13, <1>15, <1>16, KeepBut, Zenon
<1>18. Covered(n)'
  <2>1. reached'[n] \subseteq Written
    BY <1>1, <1>2, <1>3, Zenon DEF OrderInv
  <2> QED BY <1>12, <2>1, Zenon DEF Covered
<1>19. CoverInv'
  BY <1>1, <1>2, <1>3, <1>13, <1>18, CoverBut, Zenon
<1>20. ReadInv' /\ WholeAnswers'
  <2>1. \A m \in Node : gap'[m].open => gap[m].open
    BY <1>9, <1>11, <1>13, Zenon DEF Same
  <2>2. read.at \in eng => read.at \in Node
    BY <1>1, Zenon DEF TypeInv
  <2> QED BY <1>1, <1>2, <1>4, <2>1, <2>2, ReadKept, Zenon
<1> QED BY <1>4, <1>14, <1>17, <1>19, <1>20, Zenon DEF IInv

LEMMA LoseStep ==
    ASSUME IInv, NEW n \in Node, NEW r \in Row, Lose(n, r)
    PROVE  IInv'
<1>1. TypeInv /\ OrderInv /\ KeepInv /\ CoverInv /\ ReadInv /\ WholeAnswers
  BY Zenon DEF IInv
<1>2. /\ r \in parts[n] /\ parts' = [parts EXCEPT ![n] = @ \ {r}] /\ owed' = [owed EXCEPT ![n] = @ \cup {r}]
      /\ UNCHANGED <<up, eng, head, log, gap, st, sent, reached, read, blind>>
  BY Zenon DEF Lose
<1>3. OrderInv' /\ Written' = Written /\ Acked' = Acked
  BY <1>1, <1>2, OrderSame, Zenon
<1>4. ASSUME NEW m \in Node PROVE parts'[m] \cup owed'[m] = parts[m] \cup owed[m]
  BY <1>1, <1>2, Zenon DEF TypeInv
<1>5. TypeInv'
  <2>1. parts' \in [Node -> SUBSET Row] /\ owed' \in [Node -> SUBSET Row]
    BY <1>1, <1>2, Zenon DEF TypeInv
  <2> QED BY <1>1, <1>2, <2>1, Zenon DEF TypeInv
<1>6. KeepInv'
  <2>1. ASSUME NEW m \in Node PROVE KeptAt(m)'
    <3>1. KeptAt(m) /\ parts'[m] \cup owed'[m] = parts[m] \cup owed[m]
      BY <1>1, <1>4, Zenon DEF KeepInv
    <3>2. Down(m)'
      BY <3>1, Zenon DEF KeptAt, Down
    <3> QED BY <1>2, <1>3, <3>1, <3>2, Zenon DEF KeptAt
  <2>2. KeepPrimary'
    <3>1. parts'[Primary] \cup owed'[Primary] = parts[Primary] \cup owed[Primary]
      BY <1>4, OwnersAre, Zenon
    <3> QED BY <1>1, <1>2, <1>3, <3>1, Zenon DEF KeepInv, KeepPrimary
  <2> QED BY <2>1, <2>2, Zenon DEF KeepInv
<1>7. CoverInv'
  <2> SUFFICES ASSUME NEW m \in eng PROVE Covered(m)'
    BY <1>2, Zenon DEF CoverInv
  <2>1. m \in Node /\ Covered(m)
    BY <1>1, Zenon DEF TypeInv, CoverInv
  <2>2. parts'[m] \cup owed'[m] = parts[m] \cup owed[m]
    BY <1>4, <2>1, Zenon
  <2> QED BY <1>2, <2>1, <2>2, Zenon DEF Covered
<1>8. ReadInv' /\ WholeAnswers'
  BY <1>1, <1>2, <1>3, ReadKept, Zenon
<1> QED BY <1>3, <1>5, <1>6, <1>7, <1>8, Zenon DEF IInv
-----------------------------------------------------------------------------
(* A node crashes, restarts and is given a shard.                          *)

LEMMA CrashStep ==
    ASSUME IInv, NEW n \in Node, Crash(n)
    PROVE  IInv'
<1>1. TypeInv /\ OrderInv /\ KeepInv /\ CoverInv /\ ReadInv /\ WholeAnswers
  BY Zenon DEF IInv
<1>2. /\ up' = up \ {n} /\ eng' = eng \ {n} /\ blind' = [blind EXCEPT ![n] = {}]
      /\ head' = [head EXCEPT ![n] = {}] /\ gap' = [gap EXCEPT ![n] = NoGap]
      /\ read' = (IF read.at = n THEN Idle ELSE read)
      /\ st' = [r \in Row |-> IF n = Primary /\ st[r].as = "waiting" THEN [st[r] EXCEPT !.as = "failed"] ELSE st[r]]
      /\ UNCHANGED <<log, parts, owed, sent, reached>>
  BY Zenon DEF Crash
<1>3. ASSUME NEW r \in Row
      PROVE  /\ st'[r] \in StType
             /\ st'[r] = st[r] \/ (st[r].as = "waiting" /\ st'[r].as = "failed")
  <2>1. st[r] \in StType
    BY <1>1, Zenon DEF TypeInv
  <2>2. [st[r] EXCEPT !.as = "failed"] \in StType /\ [st[r] EXCEPT !.as = "failed"].as = "failed"
    BY <2>1, Zenon DEF StType
  <2> QED BY <1>2, <2>1, <2>2, Zenon
<1>4. st' \in [Row -> StType]
  BY <1>2, <1>3, Zenon
<1>5. Written' = Written /\ Acked' = Acked
  BY <1>3, Zenon DEF Written, Acked
<1>6. OrderInv'
  BY <1>1, <1>2, <1>5, Zenon DEF OrderInv
<1>7. head'[n] = {} /\ gap'[n] = NoGap /\ \A m \in Node \ {n} : Same(m)
  BY <1>1, <1>2, Zenon DEF Same, TypeInv
<1>8. TypeInv'
  <2>1. head' \in [Node -> SUBSET Row] /\ blind' \in [Node -> SUBSET Row]
    BY <1>1, <1>2, Zenon DEF TypeInv
  <2>2. gap' \in [Node -> [open : BOOLEAN, after : Nat]]
    BY <1>1, <1>2, NoGapType, Zenon DEF TypeInv
  <2>3. read' \in ReadType
    BY <1>1, <1>2, IdleType, Zenon DEF TypeInv
  <2> QED BY <1>1, <1>2, <1>4, <2>1, <2>2, <2>3, Zenon DEF TypeInv
<1>9. KeepInv'
  <2>1. KeptAt(n)'
    <3>1. KeptAt(n)
      BY <1>1, Zenon DEF KeepInv
    <3> QED BY <1>2, <1>5, <1>7, <3>1, Zenon DEF KeptAt, Down
  <2>2. CASE n = Primary
    <3>1. KeepPrimary'
      BY <1>1, <1>2, <1>5, <2>2, Zenon DEF KeepInv, KeepPrimary
    <3> QED BY <1>1, <1>5, <1>7, <2>1, <3>1, KeepBut, Zenon
  <2>3. CASE n # Primary
    <3>1. Same(Primary)
      BY <1>7, <2>3, OwnersAre, Zenon
    <3>2. KeepPrimary'
      BY <1>1, <1>2, <1>5, <2>3, <3>1, Zenon DEF KeepInv, KeepPrimary, Same
    <3> QED BY <1>1, <1>5, <1>7, <2>1, <3>2, KeepBut, Zenon
  <2> QED BY <2>2, <2>3, Zenon
<1>10. CoverInv'
  BY <1>1, <1>2, <1>7, CoverBut, Zenon
<1>11. ReadInv' /\ WholeAnswers'
  <2>1. CASE read.at = n
    BY <1>2, <2>1, ReadIdle, Zenon
  <2>2. CASE read.at # n
    <3>1. read.at \in eng => read.at \in eng' /\ (gap'[read.at].open => gap[read.at].open)
      <4>1. read.at \in eng => read.at \in Node \ {n} /\ read.at \in eng'
        BY <1>1, <1>2, <2>2, Zenon DEF TypeInv
      <4> QED BY <1>7, <4>1, Zenon DEF Same
    <3> QED BY <1>1, <1>2, <1>5, <2>2, <3>1, ReadKept, Zenon
  <2> QED BY <2>1, <2>2, Zenon
<1> QED BY <1>6, <1>8, <1>9, <1>10, <1>11, Zenon DEF IInv

\* A gap after the newest of some rows begins no later than a row on time they leave out.
LEMMA GapBefore ==
    ASSUME NEW rows, rows \subseteq Row, NEW more, rows \subseteq more, NEW r \in OnTime, r \notin more,
           \A q \in more : \A p \in OnTime : p <= q => p \in more
    PROVE  NewestOf(rows) <= Time[r]
<1>1. \A q \in rows : ~(r <= q)
  BY Zenon
<1> QED BY <1>1, Newer, Zenon

LEMMA RestartStep ==
    ASSUME IInv, NEW n \in Node, Restart(n)
    PROVE  IInv'
<1> DEFINE held == parts[n] \cup owed[n] \cup log[n] # {}
           g == [open |-> TRUE, after |-> NewestOf(parts[n])]
<1>1. TypeInv /\ OrderInv /\ KeepInv /\ CoverInv /\ ReadInv /\ WholeAnswers
  BY Zenon DEF IInv
<1>2. /\ n \notin up /\ up' = up \cup {n} /\ eng' = (IF held THEN eng \cup {n} ELSE eng)
      /\ head' = [head EXCEPT ![n] = log[n]]
      /\ gap' = [gap EXCEPT ![n] = IF held /\ log[n] = {} THEN g ELSE NoGap]
      /\ UNCHANGED <<log, parts, owed, st, sent, reached, read, blind>>
  BY Zenon DEF Restart
<1>3. OrderInv' /\ Written' = Written /\ Acked' = Acked
  BY <1>1, <1>2, OrderSame, Zenon
<1>4. parts[n] \subseteq Row /\ NewestOf(parts[n]) \in Nat
  <2>1. parts[n] \subseteq Row
    BY <1>1, Zenon DEF TypeInv
  <2> QED BY <2>1, Newest, Zenon
<1>5. KeptAt(n) /\ n \notin eng /\ (held => n \in Owners)
  <2>1. KeptAt(n)
    BY <1>1, Zenon DEF KeepInv
  <2> QED BY <1>1, <1>2, <2>1, OwnersAre, Zenon DEF KeptAt, TypeInv
<1>6. g \in [open : BOOLEAN, after : Nat] /\ g.open /\ g.after = NewestOf(parts[n])
  BY <1>4, Zenon
<1> HIDE DEF g
<1>7. /\ head'[n] = log[n] /\ gap'[n] = (IF held /\ log[n] = {} THEN g ELSE NoGap)
      /\ \A m \in Node \ {n} : Same(m)
  BY <1>1, <1>2, Zenon DEF Same, TypeInv
<1>8. TypeInv'
  <2>1. head' \in [Node -> SUBSET Row]
    BY <1>1, <1>2, Zenon DEF TypeInv
  <2>2. gap' \in [Node -> [open : BOOLEAN, after : Nat]]
    BY <1>1, <1>2, <1>6, NoGapType, Zenon DEF TypeInv
  <2> QED BY <1>1, <1>2, <1>5, <2>1, <2>2, Zenon DEF TypeInv
<1>9. KeepInv'
  <2>1. KeptAt(n)'
    BY <1>2, <1>3, <1>5, <1>7, Zenon DEF KeptAt, Down
  <2>2. CASE n = Primary
    <3>1. Written \cap OnTime \subseteq log[n] \cup parts[n] \cup owed[n]
      BY <1>1, <2>2, Zenon DEF KeepInv, KeepPrimary
    <3>2. Written # {} => held
      BY <1>1, <3>1, First, Zenon
    <3> HIDE DEF held
    <3>3. KeepPrimary'
      BY <1>2, <1>3, <1>7, <2>2, <3>1, <3>2, Zenon DEF KeepPrimary
    <3> QED BY <1>1, <1>3, <1>7, <2>1, <3>3, KeepBut, Zenon
  <2>3. CASE n # Primary
    <3>1. Same(Primary)
      BY <1>7, <2>3, OwnersAre, Zenon
    <3>2. KeepPrimary'
      BY <1>1, <1>2, <1>3, <2>3, <3>1, PrimaryFar, Zenon
    <3> QED BY <1>1, <1>3, <1>7, <2>1, <3>2, KeepBut, Zenon
  <2> QED BY <2>2, <2>3, Zenon
<1>10. ASSUME held PROVE Covered(n)'
  <2> SUFFICES ASSUME NEW q \in reached[n], q \in OnTime
               PROVE  q \in head'[n] \cup parts'[n] \cup owed'[n] \/ (gap'[n].open /\ gap'[n].after <= Time[q])
    BY <1>2, Zenon DEF Covered
  <2>1. CASE log[n] # {}
    <3>1. n = Primary /\ q \in Written
      BY <1>1, <1>5, <2>1, Zenon DEF KeptAt, OrderInv
    <3>2. q \in log[n] \cup parts[n] \cup owed[n]
      BY <1>1, <3>1, Zenon DEF KeepInv, KeepPrimary
    <3> QED BY <1>2, <1>7, <3>2, Zenon
  <2>2. CASE log[n] = {} /\ q \in parts[n] \cup owed[n]
    BY <1>2, <2>2, Zenon
  <2>3. CASE log[n] = {} /\ q \notin parts[n] \cup owed[n]
    <3>1. ASSUME NEW s \in parts[n] \cup owed[n], NEW p \in OnTime, p <= s PROVE p \in parts[n] \cup owed[n]
      <4>1. s \in Row
        BY <1>1, Zenon DEF TypeInv
      <4>2. p = s \/ p < s
        BY <3>1, <4>1, Times, SMTT(30)
      <4> QED BY <1>5, <4>2, Zenon DEF KeptAt, Down
    <3>2. NewestOf(parts[n]) <= Time[q]
      BY <1>4, <2>3, <3>1, GapBefore, Zenon
    <3>3. gap'[n] = g
      BY <1>7, <1>10, <2>3, Zenon
    <3> QED BY <1>6, <3>2, <3>3, Zenon
  <2> QED BY <2>1, <2>2, <2>3, Zenon
<1>11. CoverInv'
  <2>1. eng' \subseteq eng \cup {n} /\ (n \in eng' => Covered(n)')
    BY <1>2, <1>5, <1>10, Zenon
  <2> QED BY <1>1, <1>7, <2>1, CoverBut, Zenon
<1>12. ReadInv' /\ WholeAnswers'
  <2>1. read.at \in eng => read.at \in Node \ {n} /\ read.at \in eng'
    BY <1>1, <1>2, <1>5, Zenon DEF TypeInv
  <2>2. read.at \in eng => read.at \in eng' /\ (gap'[read.at].open => gap[read.at].open)
    BY <1>7, <2>1, Zenon DEF Same
  <2> QED BY <1>1, <1>2, <1>3, <2>2, ReadKept, Zenon
<1> QED BY <1>3, <1>8, <1>9, <1>11, <1>12, Zenon DEF IInv

LEMMA BootstrapStep ==
    ASSUME IInv, NEW n \in Node, Bootstrap(n)
    PROVE  IInv'
<1> DEFINE all == Synced(n)
           g == [open |-> TRUE, after |-> NewestOf(all)]
<1>1. TypeInv /\ OrderInv /\ KeepInv /\ CoverInv /\ ReadInv /\ WholeAnswers
  BY Zenon DEF IInv
<1>2. /\ n \in up /\ n \notin eng /\ n \in Owners /\ all # {}
      /\ parts' = [parts EXCEPT ![n] = all] /\ owed' = [owed EXCEPT ![n] = Owing(n) \ all]
      /\ eng' = eng \cup {n} /\ gap' = [gap EXCEPT ![n] = g]
      /\ UNCHANGED <<up, head, log, st, sent, reached, read, blind>>
  BY Zenon DEF Bootstrap
<1>3. OrderInv' /\ Written' = Written /\ Acked' = Acked
  BY <1>1, <1>2, OrderSame, Zenon
<1>4. /\ all \subseteq Row /\ Owing(n) \subseteq Row /\ all \cup Owing(n) \subseteq Written
      /\ \A q \in all \cup Owing(n) : \A r \in OnTime : r <= q => r \in all \cup Owing(n)
  BY <1>1, SyncedRows, Zenon
<1>5. n # Primary
  BY <1>1, <1>2, <1>4, Zenon DEF KeepInv, KeepPrimary
<1>6. g \in [open : BOOLEAN, after : Nat] /\ g.open /\ g.after = NewestOf(all)
  <2>1. NewestOf(all) \in Nat
    BY <1>4, Newest, Zenon
  <2> QED BY <2>1, Zenon
<1> HIDE DEF all, g
<1>7. /\ parts'[n] = all /\ owed'[n] = Owing(n) \ all /\ gap'[n] = g
      /\ \A m \in Node \ {n} : Same(m)
  BY <1>1, <1>2, Zenon DEF Same, TypeInv
<1>8. TypeInv'
  <2>1. parts' \in [Node -> SUBSET Row] /\ owed' \in [Node -> SUBSET Row]
    BY <1>1, <1>2, <1>4, Zenon DEF TypeInv
  <2>2. gap' \in [Node -> [open : BOOLEAN, after : Nat]]
    BY <1>1, <1>2, <1>6, Zenon DEF TypeInv
  <2> QED BY <1>1, <1>2, <2>1, <2>2, ZenonT(30) DEF TypeInv
<1>9. KeptAt(n)'
  <2>1. parts'[n] \cup owed'[n] = all \cup Owing(n)
    BY <1>7, Zenon
  <2>2. Down(n)'
    <3> SUFFICES ASSUME NEW q \in all \cup Owing(n), NEW r \in OnTime, r < q PROVE r \in all \cup Owing(n)
      BY <2>1, Zenon DEF Down
    <3>1. q \in Row
      BY <1>4, Zenon
    <3>2. r <= q
      BY <3>1, Times, SMTT(30)
    <3> QED BY <1>4, <3>2, Zenon
  <2>3. KeptAt(n)
    BY <1>1, Zenon DEF KeepInv
  <2> QED BY <1>2, <1>3, <1>4, <2>1, <2>2, <2>3, Zenon DEF KeptAt
<1>10. KeepInv'
  <2>1. Same(Primary)
    BY <1>5, <1>7, OwnersAre, Zenon
  <2>2. KeepPrimary'
    BY <1>1, <1>2, <1>3, <2>1, PrimaryFar, Zenon
  <2> QED BY <1>1, <1>3, <1>7, <1>9, <2>2, KeepBut, Zenon
<1>11. Covered(n)'
  <2> SUFFICES ASSUME NEW q \in OnTime
               PROVE  q \in parts'[n] \cup owed'[n] \/ (gap'[n].open /\ gap'[n].after <= Time[q])
    BY Zenon DEF Covered
  <2>1. CASE q \in all \cup Owing(n)
    BY <1>7, <2>1, Zenon
  <2>2. CASE q \notin all \cup Owing(n)
    <3>1. NewestOf(all) <= Time[q]
      BY <1>4, <2>2, GapBefore, Zenon
    <3> QED BY <1>6, <1>7, <3>1, Zenon
  <2> QED BY <2>1, <2>2, Zenon
<1>12. CoverInv'
  BY <1>1, <1>2, <1>7, <1>11, CoverBut, Zenon
<1>13. ReadInv' /\ WholeAnswers'
  <2>1. read.at \in eng => read.at \in Node \ {n} /\ read.at \in eng'
    BY <1>1, <1>2, Zenon DEF TypeInv
  <2>2. read.at \in eng => read.at \in eng' /\ (gap'[read.at].open => gap[read.at].open)
    BY <1>7, <2>1, Zenon DEF Same
  <2> QED BY <1>1, <1>2, <1>3, <2>2, ReadKept, Zenon
<1> QED BY <1>3, <1>8, <1>10, <1>12, <1>13, Zenon DEF IInv
-----------------------------------------------------------------------------
(* A read is planned, answered or failed over.                             *)

LEMMA ReadOnly ==
    ASSUME IInv, UNCHANGED <<up, eng, head, log, parts, gap, owed, st, sent, reached, blind>>,
           read' \in ReadType, ReadInv', WholeAnswers'
    PROVE  IInv'
<1>1. TypeInv /\ OrderInv /\ KeepInv /\ CoverInv
  BY Zenon DEF IInv
<1>2. OrderInv' /\ Written' = Written /\ Acked' = Acked
  BY <1>1, OrderSame, Zenon
<1>3. TypeInv'
  BY <1>1, Zenon DEF TypeInv
<1>4. KeepInv'
  <2>1. KeepPrimary'
    BY <1>1, <1>2, Zenon DEF KeepInv, KeepPrimary
  <2>2. ASSUME NEW m \in Node PROVE KeptAt(m)'
    BY <1>1, <1>2, Zenon DEF KeepInv, KeptAt, Down
  <2> QED BY <2>1, <2>2, Zenon DEF KeepInv
<1>5. CoverInv'
  BY <1>1, <1>2, Zenon DEF CoverInv, Covered
<1> QED BY <1>2, <1>3, <1>4, <1>5, Zenon DEF IInv

Unknown(n) == (Row \ reached[n]) \cup blind[n] \cup (owed[n] \ read.knew)

\* An owner may answer: its guard says so now, or nothing was missing when the read was planned.
LEMMA AnswerWhole ==
    ASSUME IInv, NEW n \in eng, read.pc \in {"planned", "asking"},
           \/ CanAnswer(n, read.end) = "whole"
           \/ ~gap[n].open /\ read.knew = {}
    PROVE  read.due \cap OnTime \subseteq Within(Held(n), read.end) \cup Unknown(n)
<1>1. TypeInv /\ ReadInv /\ CoverInv
  BY Zenon DEF IInv
<1>2. read.due \subseteq Row /\ read.due \subseteq Within(Acked, read.end) /\ read.end \in Nat
  BY <1>1, Zenon DEF TypeInv, ReadType, ReadInv
<1> SUFFICES ASSUME NEW q \in read.due, q \in OnTime, q \in reached[n], q \notin blind[n]
             PROVE  q \in Within(Held(n), read.end) \cup (owed[n] \ read.knew)
  BY <1>2, Zenon DEF Unknown
<1>3. q \in Row /\ Time[q] <= read.end /\ Time[q] \in Nat
  BY <1>2, Times, Zenon DEF Within
<1>4. q \in Held(n) \/ q \in owed[n] \/ (gap[n].open /\ gap[n].after <= Time[q])
  BY <1>1, Zenon DEF CoverInv, Covered, Held
<1>5. CASE CanAnswer(n, read.end) = "whole"
  <2>1. n \in Node /\ gap[n].after \in Nat
    BY <1>1, Zenon DEF TypeInv
  <2>2. ~(gap[n].open /\ read.end >= gap[n].after) /\ ~(\E r \in owed[n] : Time[r] <= read.end)
    BY <1>5, Zenon DEF CanAnswer
  <2>3. q \in Held(n)
    BY <1>2, <1>3, <1>4, <2>1, <2>2, SMTT(30)
  <2> QED BY <1>3, <2>3, Zenon DEF Within
<1>6. CASE ~gap[n].open /\ read.knew = {}
  BY <1>3, <1>4, <1>6, Zenon DEF Within
<1> QED BY <1>5, <1>6, Zenon

LEMMA SucceedStep ==
    ASSUME IInv, NEW n \in eng, read.pc \in {"planned", "asking"}, read' = Succeed(n),
           UNCHANGED <<up, eng, head, log, parts, gap, owed, st, sent, reached, blind>>,
           \/ CanAnswer(n, read.end) = "whole"
           \/ ~gap[n].open /\ read.knew = {}
    PROVE  IInv'
<1> DEFINE got == Within(Held(n), read.end)
           miss == Unknown(n)
           due == read.due
<1>1. TypeInv /\ n \in Node
  BY Zenon DEF IInv, TypeInv
<1>2. got \in SUBSET Row /\ miss \in SUBSET Row /\ due \in SUBSET Row
  BY <1>1, Zenon DEF TypeInv, Held, Within, ReadType, Unknown
<1>3. due \cap OnTime \subseteq got \cup miss
  BY AnswerWhole, Zenon
<1>4. read' = [Idle EXCEPT !.pc = "done", !.as = "ok", !.due = due, !.got = got, !.miss = miss]
  BY Zenon DEF Succeed, Unknown
<1> HIDE DEF got, miss, due
<1>5. /\ read'.pc = "done" /\ read'.as = "ok" /\ read'.got = got /\ read'.miss = miss
      /\ read'.due = due /\ read'.asked = {}
  BY <1>4, Zenon DEF Idle
<1>6. read' \in ReadType
  BY <1>2, <1>4, IdleType, ZenonT(30) DEF ReadType
<1>7. WholeAnswers'
  BY <1>3, <1>5, Zenon DEF WholeAnswers
<1>8. ReadInv'
  BY <1>5, Zenon DEF ReadInv
<1> QED BY <1>6, <1>7, <1>8, ReadOnly, Zenon

\* What it takes for the invariant of reads to hold of a read that asks the other owners.
LEMMA Asking ==
    ASSUME read'.pc = "asking", read'.due \subseteq Within(Acked, read'.end), Acked' = Acked, read'.as = "",
           ~read'.local /\ read'.due # {} => read'.at # Primary,
           read'.local => read'.short >= 1,
           read'.due # {} => read'.absent <= Cardinality(read'.asked \ {Primary}),
           read'.asked \subseteq Owners \ {read'.at}
    PROVE  ReadInv' /\ WholeAnswers'
<1>1. Within(Acked, read.end)' = Within(Acked, read'.end)
  BY Zenon DEF Within
<1>2. ReadInv'
  BY <1>1, Zenon DEF ReadInv
<1> QED BY <1>2, Zenon DEF WholeAnswers

LEMMA StartReadStep ==
    ASSUME IInv, NEW n \in Node, NEW r \in Row, StartRead(n, Time[r])
    PROVE  IInv'
<1> DEFINE end == Time[r]
<1>1. TypeInv /\ KeepInv
  BY Zenon DEF IInv
<1>2. /\ n \in up
      /\ read' = [Idle EXCEPT !.pc = "planned", !.at = n, !.end = end, !.due = Within(Acked, end),
                              !.local = n \in Owners /\ n \in eng,
                              !.guard = gap[n].open \/ owed[n] # {}, !.knew = owed[n]]
      /\ UNCHANGED <<up, eng, head, log, parts, gap, owed, st, sent, reached, blind>>
  BY Zenon DEF StartRead
<1>3. end \in Nat
  BY Times, Zenon
<1>4. Within(Acked, end) \in SUBSET Row /\ owed[n] \in SUBSET Row /\ gap[n].open \in BOOLEAN
  BY <1>1, Zenon DEF Within, Acked, TypeInv
<1> HIDE DEF end
<1>5. /\ read'.pc = "planned" /\ read'.at = n /\ read'.end = end /\ read'.due = Within(Acked, end)
      /\ read'.local = (n \in Owners /\ n \in eng) /\ read'.guard = (gap[n].open \/ owed[n] # {})
      /\ read'.knew = owed[n] /\ read'.as = "" /\ read'.asked = {} /\ read'.absent = 0 /\ read'.short = 0
  BY <1>2, Zenon DEF Idle
<1>6. read' \in ReadType
  BY <1>2, <1>3, <1>4, ZenonT(30) DEF Idle, ReadType
<1>7. Acked' = Acked
  BY <1>2, Zenon DEF Acked
<1>8. ~(n \in Owners /\ n \in eng) /\ Within(Acked, end) # {} => n # Primary
  <2> SUFFICES ASSUME n = Primary, n \notin eng, NEW q \in Acked PROVE FALSE
    BY OwnersAre, Zenon DEF Within
  <2>1. q \in Written
    BY Zenon DEF Acked, Written
  <2> QED BY <1>1, <1>2, <2>1, Zenon DEF KeepInv, KeepPrimary
<1>9. ReadInv'
  <2>1. Within(Acked, read.end)' = Within(Acked, end)
    BY <1>5, <1>7, Zenon DEF Within
  <2>2. read'.local => n \in eng'
    BY <1>2, <1>5, Zenon
  <2>3. ~read'.guard => ~gap'[n].open /\ read'.knew = {}
    BY <1>2, <1>4, <1>5, Zenon
  <2>4. ~read'.local /\ read'.due # {} => n # Primary
    BY <1>5, <1>8, Zenon
  <2> QED BY <1>5, <2>1, <2>2, <2>3, <2>4, Zenon DEF ReadInv
<1>10. WholeAnswers'
  BY <1>5, Zenon DEF WholeAnswers
<1> QED BY <1>2, <1>6, <1>9, <1>10, ReadOnly, Zenon

\* How many of the owners asked are not the primary.
LEMMA AskedCount ==
    ASSUME NEW asked \in SUBSET Owners
    PROVE  /\ IsFiniteSet(asked) /\ Cardinality(asked) \in Nat
           /\ IsFiniteSet(asked \ {Primary}) /\ Cardinality(asked \ {Primary}) \in Nat
           /\ Cardinality({} \ {Primary}) = 0
<1>1. IsFiniteSet(asked)
  BY OwnersAre, FS_Subset, Zenon
<1>2. IsFiniteSet(asked \ {Primary})
  BY <1>1, FS_RemoveElement, Zenon
<1>3. Cardinality({} \ {Primary}) = 0
  <2>1. {} \ {Primary} = {}
    BY Zenon
  <2> QED BY <2>1, FS_EmptySet, Zenon
<1> QED BY <1>1, <1>2, <1>3, FS_CardinalityType, Zenon

LEMMA FetchLocalStep ==
    ASSUME IInv, FetchLocal
    PROVE  IInv'
<1>1. TypeInv /\ ReadInv /\ WholeAnswers
  BY Zenon DEF IInv
<1>2. /\ read.pc = "planned" /\ UNCHANGED <<up, eng, head, log, parts, gap, owed, st, sent, reached, blind>>
      /\ \/ read.local /\ (~read.guard \/ CanAnswer(read.at, read.end) = "whole") /\ read' = Succeed(read.at)
         \/ read.local /\ read' = [read EXCEPT !.pc = "asking", !.short = 1]
         \/ ~read.local /\ read' = [read EXCEPT !.pc = "asking"]
  BY Zenon DEF FetchLocal
<1>3. read \in ReadType /\ Acked' = Acked
  BY <1>1, <1>2, Zenon DEF TypeInv, Acked
<1>4. /\ read.due \subseteq Within(Acked, read.end) /\ read.as = "" /\ read.asked = {} /\ read.absent = 0
      /\ (~read.local /\ read.due # {} => read.at # Primary)
  BY <1>1, <1>2, Zenon DEF ReadInv
<1>5. read.absent <= Cardinality(read.asked \ {Primary}) /\ read.asked \subseteq Owners \ {read.at}
  <2>1. Cardinality({} \ {Primary}) = 0
    BY AskedCount, Zenon
  <2>2. Cardinality(read.asked \ {Primary}) = 0
    BY <1>4, <2>1, Zenon
  <2>3. 0 <= 0
    OBVIOUS
  <2> QED BY <1>4, <2>2, <2>3, Zenon
<1>6. CASE read.local /\ (~read.guard \/ CanAnswer(read.at, read.end) = "whole") /\ read' = Succeed(read.at)
  <2>1. read.at \in eng /\ (~read.guard => ~gap[read.at].open /\ read.knew = {})
    BY <1>1, <1>2, <1>6, Zenon DEF ReadInv
  <2> QED BY <1>2, <1>6, <2>1, SucceedStep, Zenon
<1>7. CASE read.local /\ read' = [read EXCEPT !.pc = "asking", !.short = 1]
  <2>1. /\ read' \in ReadType /\ read'.pc = "asking" /\ read'.short = 1 /\ read'.at = read.at
        /\ read'.end = read.end /\ read'.due = read.due /\ read'.local = read.local
        /\ read'.asked = read.asked /\ read'.absent = read.absent /\ read'.as = read.as
    BY <1>3, <1>7, ZenonT(30) DEF ReadType
  <2>2. read'.short >= 1
    BY <2>1, SMTT(30)
  <2>3. ReadInv' /\ WholeAnswers'
    BY <1>3, <1>4, <1>5, <2>1, <2>2, Asking, Zenon
  <2> QED BY <1>2, <2>1, <2>3, ReadOnly, Zenon
<1>8. CASE ~read.local /\ read' = [read EXCEPT !.pc = "asking"]
  <2>1. /\ read' \in ReadType /\ read'.pc = "asking" /\ read'.short = read.short /\ read'.at = read.at
        /\ read'.end = read.end /\ read'.due = read.due /\ read'.local = read.local
        /\ read'.asked = read.asked /\ read'.absent = read.absent /\ read'.as = read.as
    BY <1>3, <1>8, Zenon DEF ReadType
  <2>2. ReadInv' /\ WholeAnswers'
    BY <1>3, <1>4, <1>5, <1>8, <2>1, Asking, Zenon
  <2> QED BY <1>2, <2>1, <2>2, ReadOnly, Zenon
<1> QED BY <1>2, <1>6, <1>7, <1>8, Zenon

LEMMA AskStep ==
    ASSUME IInv, NEW n \in Node, Ask(n)
    PROVE  IInv'
<1> DEFINE can == CanAnswer(n, read.end)
           more == read.asked \cup {n}
<1>1. TypeInv /\ KeepInv /\ ReadInv /\ WholeAnswers
  BY Zenon DEF IInv
<1>2. /\ read.pc = "asking" /\ n \in Owners \ (read.asked \cup {read.at})
      /\ UNCHANGED <<up, eng, head, log, parts, gap, owed, st, sent, reached, blind>>
  BY Zenon DEF Ask
<1>3. /\ can \in {"whole", "short", "absent"} /\ (can = "absent" => n \notin eng)
      /\ (can = "whole" => n \in eng)
  BY Zenon DEF CanAnswer
<1>4. \/ n \notin up /\ read' = [read EXCEPT !.asked = @ \cup {n}]
      \/ can = "whole" /\ read' = Succeed(n)
      \/ can = "short" /\ read' = [read EXCEPT !.asked = @ \cup {n}, !.short = @ + 1]
      \/ n \in up /\ can = "absent" /\ read' = [read EXCEPT !.asked = @ \cup {n}, !.absent = @ + 1]
  <2>1. read' = IF n \notin up THEN [read EXCEPT !.asked = @ \cup {n}]
                ELSE CASE can = "whole" -> Succeed(n)
                       [] can = "short" -> [read EXCEPT !.asked = @ \cup {n}, !.short = @ + 1]
                       [] can = "absent" -> [read EXCEPT !.asked = @ \cup {n}, !.absent = @ + 1]
    BY Zenon DEF Ask
  <2> HIDE DEF can
  <2> QED BY <1>3, <2>1, Zenon
<1>5. /\ read \in ReadType /\ Acked' = Acked /\ read.absent \in Nat /\ read.short \in Nat
      /\ more \subseteq Node /\ more \subseteq Owners \ {read.at} /\ read.asked \subseteq Owners /\ n \notin read.asked
  BY <1>1, <1>2, ZenonT(30) DEF TypeInv, ReadType, Acked, ReadInv
<1>6. /\ read.due \subseteq Within(Acked, read.end) /\ read.as = ""
      /\ (~read.local /\ read.due # {} => read.at # Primary) /\ (read.local => read.short >= 1)
      /\ (read.due # {} => read.absent <= Cardinality(read.asked \ {Primary}))
  BY <1>1, <1>2, Zenon DEF ReadInv
<1>7. /\ Cardinality(read.asked \ {Primary}) \in Nat
      /\ n = Primary => Cardinality(more \ {Primary}) = Cardinality(read.asked \ {Primary})
      /\ n # Primary => Cardinality(more \ {Primary}) = Cardinality(read.asked \ {Primary}) + 1
  <2> DEFINE old == read.asked \ {Primary}
  <2>1. IsFiniteSet(old) /\ Cardinality(old) \in Nat /\ n \notin old
    BY <1>5, AskedCount, Zenon
  <2>2. n = Primary => more \ {Primary} = old
    BY Zenon
  <2>3. n # Primary => more \ {Primary} = old \cup {n}
    BY Zenon
  <2> HIDE DEF old, more
  <2>4. Cardinality(old \cup {n}) = Cardinality(old) + 1
    BY <2>1, FS_AddElement, Zenon
  <2>5. n = Primary => Cardinality(more \ {Primary}) = Cardinality(old)
    BY <2>2, Zenon
  <2>6. n # Primary => Cardinality(more \ {Primary}) = Cardinality(old) + 1
    BY <2>3, <2>4, Zenon
  <2> QED BY <2>1, <2>5, <2>6, Zenon DEF old
<1>8. read.due # {} => read.absent <= Cardinality(more \ {Primary})
  <2> DEFINE x == Cardinality(more \ {Primary})
             y == Cardinality(read.asked \ {Primary})
  <2>1. y \in Nat /\ (x = y \/ x = y + 1) /\ (read.due # {} => read.absent <= y)
    BY <1>6, <1>7, Zenon
  <2> HIDE DEF x, y
  <2>2. read.due # {} => read.absent <= x
    BY <1>5, <2>1, SMTT(30)
  <2> QED BY <2>2, Zenon DEF x
<1> HIDE DEF can
<1>9. CASE can = "whole" /\ read' = Succeed(n)
  <2>1. n \in eng /\ CanAnswer(n, read.end) = "whole"
    BY <1>3, <1>9, Zenon DEF can
  <2> QED BY <1>2, <1>9, <2>1, SucceedStep, Zenon
<1>10. CASE n \notin up /\ read' = [read EXCEPT !.asked = @ \cup {n}]
  <2>1. /\ read' \in ReadType /\ read'.pc = read.pc /\ read'.short = read.short /\ read'.at = read.at
        /\ read'.end = read.end /\ read'.due = read.due /\ read'.local = read.local
        /\ read'.asked = more /\ read'.absent = read.absent /\ read'.as = read.as
    BY <1>5, <1>10, Zenon DEF ReadType
  <2> HIDE DEF more
  <2>2. ReadInv' /\ WholeAnswers'
    BY <1>2, <1>5, <1>6, <1>8, <2>1, Asking, Zenon
  <2> QED BY <1>2, <2>1, <2>2, ReadOnly, Zenon
<1>11. CASE can = "short" /\ read' = [read EXCEPT !.asked = @ \cup {n}, !.short = @ + 1]
  <2> DEFINE k == read.short + 1
  <2>1. k \in Nat /\ k >= 1
    BY <1>5, SMTT(30)
  <2>2. read' = [read EXCEPT !.asked = more, !.short = k]
    BY <1>11, Zenon
  <2> HIDE DEF more, k
  <2>3. /\ read' \in ReadType /\ read'.pc = read.pc /\ read'.short = k /\ read'.at = read.at
        /\ read'.end = read.end /\ read'.due = read.due /\ read'.local = read.local
        /\ read'.asked = more /\ read'.absent = read.absent /\ read'.as = read.as
    BY <1>5, <2>1, <2>2, Zenon DEF ReadType
  <2>4. ReadInv' /\ WholeAnswers'
    BY <1>2, <1>5, <1>6, <1>8, <2>1, <2>3, Asking, Zenon
  <2> QED BY <1>2, <2>3, <2>4, ReadOnly, Zenon
<1>12. CASE n \in up /\ can = "absent" /\ read' = [read EXCEPT !.asked = @ \cup {n}, !.absent = @ + 1]
  <2> DEFINE k == read.absent + 1
             x == Cardinality(more \ {Primary})
             y == Cardinality(read.asked \ {Primary})
  <2>1. k \in Nat
    BY <1>5, SMTT(30)
  <2>2. read' = [read EXCEPT !.asked = more, !.absent = k]
    BY <1>12, Zenon
  <2>3. read.due # {} => n # Primary
    <3> SUFFICES ASSUME NEW q \in read.due PROVE n # Primary
      BY Zenon
    <3>1. q \in Written
      BY <1>6, Zenon DEF Within, Acked, Written
    <3> QED BY <1>1, <1>3, <1>12, <3>1, Zenon DEF KeepInv, KeepPrimary
  <2>4. y \in Nat /\ (read.due # {} => x = y + 1 /\ read.absent <= y)
    BY <1>6, <1>7, <2>3, Zenon
  <2> HIDE DEF x, y
  <2>5. read.due # {} => k <= x
    BY <1>5, <2>4, SMTT(30)
  <2>6. read.due # {} => k <= Cardinality(more \ {Primary})
    BY <2>5, Zenon DEF x
  <2> HIDE DEF more, k
  <2>7. /\ read' \in ReadType /\ read'.pc = read.pc /\ read'.short = read.short /\ read'.at = read.at
        /\ read'.end = read.end /\ read'.due = read.due /\ read'.local = read.local
        /\ read'.asked = more /\ read'.absent = k /\ read'.as = read.as
    BY <1>5, <2>1, <2>2, Zenon DEF ReadType
  <2>8. ReadInv' /\ WholeAnswers'
    BY <1>2, <1>5, <1>6, <2>6, <2>7, Asking, Zenon
  <2> QED BY <1>2, <2>7, <2>8, ReadOnly, Zenon
<1> QED BY <1>4, <1>9, <1>10, <1>11, <1>12, Zenon

\* The owners asked are more than those that may be absent: the primary is one of them.
LEMMA AskedAll ==
    ASSUME IInv, read.pc = "asking", Owners \ {read.at} \subseteq read.asked,
           Empty(Cardinality(Owners \ {read.at}) + (IF read.local THEN 1 ELSE 0))
    PROVE  read.due = {}
<1> DEFINE remotes == Owners \ {read.at}
           x == Cardinality(remotes)
           y == Cardinality(read.asked \ {Primary})
<1>1. TypeInv /\ ReadInv
  BY Zenon DEF IInv
<1> SUFFICES ASSUME read.due # {} PROVE FALSE
  BY Zenon
<1>2. read.absent \in Nat /\ read.short \in Nat
  BY <1>1, Zenon DEF TypeInv, ReadType
<1>3. read.short = 0 /\ ~read.local
  <2>1. read.short = 0
    BY Zenon DEF Empty
  <2>2. read.local => read.short >= 1
    BY <1>1, Zenon DEF ReadInv
  <2> QED BY <1>2, <2>1, <2>2, SMTT(30)
<1>4. read.at # Primary /\ read.absent <= y /\ read.asked = remotes
  BY <1>1, <1>3, Zenon DEF ReadInv
<1>5. read.absent >= x + 0
  BY <1>3, Zenon DEF Empty
<1>6. remotes \in SUBSET Owners /\ Primary \in remotes
  BY <1>4, OwnersAre, Zenon
<1>7. x \in Nat /\ IsFiniteSet(remotes)
  BY <1>6, AskedCount, Zenon
<1>8. y = Cardinality(remotes \ {Primary})
  BY <1>4, Zenon
<1> HIDE DEF remotes, y
<1>9. y = Cardinality(remotes) - 1
  BY <1>6, <1>7, <1>8, FS_RemoveElement, Zenon
<1> HIDE DEF x
<1>10. y = x - 1
  BY <1>9, Zenon DEF x
<1> QED BY <1>2, <1>4, <1>5, <1>7, <1>10, SMTT(30)

LEMMA ConcludeStep ==
    ASSUME IInv, Conclude
    PROVE  IInv'
<1> DEFINE owners == Cardinality(Owners \ {read.at}) + (IF read.local THEN 1 ELSE 0)
           due == read.due
<1>1. TypeInv /\ ReadInv
  BY Zenon DEF IInv
<1>2. /\ read.pc = "asking" /\ Owners \ {read.at} \subseteq read.asked
      /\ UNCHANGED <<up, eng, head, log, parts, gap, owed, st, sent, reached, blind>>
      /\ \/ Empty(owners) /\ read' = [Idle EXCEPT !.pc = "done", !.as = "ok", !.due = due]
         \/ read' = [Idle EXCEPT !.pc = "done", !.as = "error"]
  BY Zenon DEF Conclude
<1>3. Empty(owners) => due = {}
  BY <1>2, AskedAll, Zenon
<1>4. due \in SUBSET Row
  BY <1>1, Zenon DEF TypeInv, ReadType
<1> HIDE DEF owners, due
<1>5. /\ read' \in ReadType /\ read'.pc = "done" /\ read'.asked = {}
      /\ read'.as = "error" \/ (read'.as = "ok" /\ read'.due = {})
  <2>1. CASE Empty(owners) /\ read' = [Idle EXCEPT !.pc = "done", !.as = "ok", !.due = due]
    <3>1. read' \in ReadType
      BY <1>4, <2>1, IdleType, ZenonT(30) DEF ReadType
    <3> QED BY <1>3, <2>1, <3>1, Zenon DEF Idle
  <2>2. CASE read' = [Idle EXCEPT !.pc = "done", !.as = "error"]
    <3>1. read' \in ReadType
      BY <2>2, IdleType, Zenon DEF ReadType
    <3> QED BY <2>2, <3>1, Zenon DEF Idle
  <2> QED BY <1>2, <2>1, <2>2, Zenon
<1>6. ReadInv'
  BY <1>5, Zenon DEF ReadInv
<1>7. WholeAnswers'
  BY <1>5, Zenon DEF WholeAnswers
<1> QED BY <1>2, <1>5, <1>6, <1>7, ReadOnly, Zenon

LEMMA EndReadStep ==
    ASSUME IInv, EndRead
    PROVE  IInv'
<1>1. read' = Idle /\ UNCHANGED <<up, eng, head, log, parts, gap, owed, st, sent, reached, blind>>
  BY Zenon DEF EndRead
<1>2. read' \in ReadType
  BY <1>1, IdleType, Zenon
<1> QED BY <1>1, <1>2, ReadIdle, ReadOnly, Zenon
-----------------------------------------------------------------------------
LEMMA InitHolds == ASSUME Init PROVE IInv
<1>1. st \in [Row -> StType] /\ \A r \in Row : st[r].as = "no"
  BY SMTT(30) DEF Init, StType
<1>2. Written = {} /\ Acked = {}
  BY <1>1, Zenon DEF Written, Acked
<1>3. TypeInv
  BY <1>1, IdleType, NoGapType, Zenon DEF Init, TypeInv
<1>4. OrderInv
  BY <1>1, <1>2, Zenon DEF OrderInv, Init
<1>5. KeepInv
  <2>1. Primary \in Node
    BY OwnersAre, Zenon
  <2>2. KeepPrimary
    BY <1>2, Zenon DEF KeepPrimary
  <2> QED BY <1>2, <2>1, <2>2, Zenon DEF KeepInv, KeptAt, Down, Init
<1>6. CoverInv
  BY Zenon DEF CoverInv, Init
<1>7. ReadInv /\ WholeAnswers
  BY Zenon DEF Init, Idle, ReadInv, WholeAnswers, Within
<1> QED BY <1>3, <1>4, <1>5, <1>6, <1>7, Zenon DEF IInv

LEMMA NextHolds == ASSUME IInv, [Next]_vars PROVE IInv'
<1>1. ASSUME NEW r \in Row, Write(r) PROVE IInv'
  BY <1>1, WriteStep, Zenon
<1>2. ASSUME NEW r \in Row, NEW n \in Node, Deliver(r, n) \/ DeliverUnheard(r, n) PROVE IInv'
  BY <1>2, DeliverStep, Zenon
<1>3. ASSUME NEW r \in Row, NEW n \in Node, Drop(r, n) PROVE IInv'
  BY <1>3, DropStep, Zenon
<1>4. ASSUME NEW r \in Row, NEW n \in Node, Lose(n, r) PROVE IInv'
  BY <1>4, LoseStep, Zenon
<1>5. ASSUME NEW n \in Node, Mirror(n) PROVE IInv'
  BY <1>5, MirrorStep, Zenon
<1>6. ASSUME NEW n \in Node, Crash(n) PROVE IInv'
  BY <1>6, CrashStep, Zenon
<1>7. ASSUME NEW n \in Node, Restart(n) PROVE IInv'
  BY <1>7, RestartStep, Zenon
<1>8. ASSUME NEW n \in Node, Bootstrap(n) PROVE IInv'
  BY <1>8, BootstrapStep, Zenon
<1>9. ASSUME NEW n \in Node, Ask(n) PROVE IInv'
  BY <1>9, AskStep, Zenon
<1>10. ASSUME NEW n \in Node, NEW r \in Row, StartRead(n, Time[r]) PROVE IInv'
  BY <1>10, StartReadStep, Zenon
<1>11. CASE UNCHANGED vars
  <2>1. /\ UNCHANGED <<up, eng, head, log, parts, gap, owed, st, sent, reached, blind>> /\ read' = read
        /\ TypeInv /\ ReadInv /\ WholeAnswers
    BY <1>11, Zenon DEF vars, IInv
  <2>2. read' \in ReadType /\ Acked' = Acked
    BY <2>1, Zenon DEF TypeInv, Acked
  <2>3. ReadInv' /\ WholeAnswers'
    BY <2>1, <2>2, ReadKept, Zenon
  <2> QED BY <2>1, <2>2, <2>3, ReadOnly, Zenon
<1> QED
  BY Zenon, <1>1, <1>2, <1>3, <1>4, <1>5, <1>6, <1>7, <1>8, <1>9, <1>10, <1>11,
     FlushStep, FetchLocalStep, ConcludeStep, EndReadStep DEF Next

\* A read that succeeds returns every row acknowledged before it began, but for late rows and for
\* what its owner cannot know it misses: for any number of owners and rows, any timestamps, and any
\* crashes, restarts, bootstraps, flushes, mirrorings, losses and lost replication requests or
\* answers (cluster.go Fetcher, gapFetcher, canAnswer; cluster_completeness.go noteRecoveryGaps,
\* closeCoveredGaps).
THEOREM AnswersWhole == Spec => []WholeAnswers
<1>1. Init => IInv
  BY InitHolds, Zenon
<1>2. IInv /\ [Next]_vars => IInv'
  BY NextHolds, Zenon
<1>3. IInv => WholeAnswers
  BY Zenon DEF IInv
<1> QED BY <1>1, <1>2, <1>3, PTL DEF Spec
=============================================================================
