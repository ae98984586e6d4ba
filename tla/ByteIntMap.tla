----------------------------- MODULE ByteIntMap -----------------------------
(* pool.ByteIntMap: the open-addressing map from byte keys to numbers that the  *)
(* dictionary encoders and the symbol table intern through.  A slot is a key,   *)
(* its value and its cached hash; a hash of zero marks an empty slot.  Slots    *)
(* are numbered from zero as the mask does.                                     *)
EXTENDS Integers, FiniteSets

CONSTANTS Key, Value,
          Hash,      \* the key's hash: several keys may share one, or a slot
          Initial,   \* the slots of a new map
          MaxSlots,  \* the widest map explored
          MaxPooled, \* maxPooledSlots
          MaxReuse   \* the times a map goes through the pool

VARIABLES slots,  \* slot -> [k, v, h]
          count, used, growAt,
          truth,  \* what was put and not deleted since: key -> value
          reuse

vars == <<slots, count, used, growAt, truth, reuse>>

Empty == [k |-> 0, v |-> 0, h |-> 0]

Slots == DOMAIN slots

HashKey(b) == IF Hash[b] = 0 THEN 1 ELSE Hash[b]

Home(t, h) == h % Cardinality(DOMAIN t)

Vacant(t) == { j \in DOMAIN t : t[j].h = 0 }

\* A probe visits the slots from i on, up to the first one in stops.
Probe(t, i, stops) ==
    LET n == Cardinality(DOMAIN t)
        d == CHOOSE d \in 0 .. (n - 1) :
                 (i + d) % n \in stops /\ \A e \in 0 .. (d - 1) : (i + e) % n \notin stops
    IN (i + d) % n

Holds(s, b) == s.h = HashKey(b) /\ s.k = b

\* The slot that holds the key, else the empty one where it would go.
Find(t, b) == Probe(t, Home(t, HashKey(b)), Vacant(t) \cup { j \in DOMAIN t : Holds(t[j], b) })

Get(b) == LET s == slots[Find(slots, b)] IN IF s.h = 0 THEN 0 ELSE s.v

With(t, i, s) == [j \in DOMAIN t |-> IF j = i THEN s ELSE t[j]]

PutRaw(t, s) == With(t, Probe(t, Home(t, s.h), Vacant(t)), s)

\* Every slot of the old table, in its order, into one twice as wide.
Rehashed(old) ==
    LET n == Cardinality(DOMAIN old)
        moved[i \in 0 .. n] ==
            IF i = 0 THEN [j \in 0 .. (2 * n - 1) |-> Empty]
            ELSE IF old[i - 1].h = 0 THEN moved[i - 1] ELSE PutRaw(moved[i - 1], old[i - 1])
    IN moved[n]

Grown == IF used + 1 > growAt THEN Rehashed(slots) ELSE slots

Filled(t) == Cardinality({ i \in DOMAIN t : t[i].h # 0 })

\* A map that grows counts its slots anew.
Insert(t, i, b, v) ==
    /\ slots' = With(t, i, [k |-> b, v |-> v, h |-> HashKey(b)])
    /\ count' = (IF t = slots THEN count ELSE Filled(t)) + 1
    /\ used' = (IF t = slots THEN used ELSE Filled(t)) + 1
    /\ growAt' = (Cardinality(DOMAIN t) * 3) \div 4

Overwrite(t, i, v) ==
    /\ slots' = With(t, i, [t[i] EXCEPT !.v = v])
    /\ count' = (IF t = slots THEN count ELSE Filled(t))
    /\ used' = (IF t = slots THEN used ELSE Filled(t))
    /\ growAt' = (Cardinality(DOMAIN t) * 3) \div 4

Fits == used + 1 > growAt => 2 * Cardinality(Slots) <= MaxSlots

PutIn(t, b, v) == IF t[Find(t, b)].h = 0 THEN Insert(t, Find(t, b), b, v) ELSE Overwrite(t, Find(t, b), v)

Put(b, v) ==
    /\ Fits
    /\ PutIn(Grown, b, v)
    /\ truth' = [truth EXCEPT ![b] = v]
    /\ UNCHANGED reuse

PutOrGetIn(t, b, v) ==
    IF t[Find(t, b)].h = 0 THEN Insert(t, Find(t, b), b, v) ELSE Overwrite(t, Find(t, b), t[Find(t, b)].v)

\* The encoders' call: a key seen before keeps its value.
PutOrGet(b, v) ==
    /\ Fits
    /\ PutOrGetIn(Grown, b, v)
    /\ truth' = [truth EXCEPT ![b] = IF @ = 0 THEN v ELSE @]
    /\ UNCHANGED reuse

Moved(t, j) == PutRaw(With(t, j, Empty), t[j])

\* A mutant of Closed: only the slot after the hole is moved.
ClosedOne(t, i) ==
    LET j == (i + 1) % Cardinality(DOMAIN t) IN IF t[j].h = 0 THEN t ELSE Moved(t, j)

\* Delete's tail: every slot of the run after the hole is taken out and put again.
Closed(t, i) ==
    LET n == Cardinality(DOMAIN t)
        end == Probe(t, (i + 1) % n, Vacant(t))
        run[d \in 0 .. ((end - i - 1) % n)] == IF d = 0 THEN t ELSE Moved(run[d - 1], (i + d) % n)
    IN run[(end - i - 1) % n]

Delete(b) ==
    /\ slots[Find(slots, b)].h # 0
    /\ slots' = Closed(With(slots, Find(slots, b), Empty), Find(slots, b))
    /\ count' = count - 1 /\ used' = used - 1
    /\ truth' = [truth EXCEPT ![b] = 0]
    /\ UNCHANGED <<growAt, reuse>>

Cleared(n) ==
    /\ slots' = [i \in 0 .. (n - 1) |-> Empty]
    /\ count' = 0 /\ used' = 0 /\ growAt' = (n * 3) \div 4
    /\ truth' = [b \in Key |-> 0]

\* Reset, and PutBack with the next NewByteIntMap: a map too wide for the pool starts again.
Reuse ==
    /\ reuse < MaxReuse
    /\ Cleared(IF Cardinality(Slots) > MaxPooled THEN Initial ELSE Cardinality(Slots))
    /\ reuse' = reuse + 1

Init ==
    /\ slots = [i \in 0 .. (Initial - 1) |-> Empty]
    /\ count = 0 /\ used = 0 /\ growAt = (Initial * 3) \div 4
    /\ truth = [b \in Key |-> 0]
    /\ reuse = 0

Next ==
    \/ \E b \in Key, v \in Value : Put(b, v) \/ PutOrGet(b, v)
    \/ \E b \in Key : Delete(b)
    \/ Reuse

Spec == Init /\ [][Next]_vars

\* Every key reads back what was last put under it, or nothing, after growth, after deletions that
\* split a run of colliding keys and after a trip through the pool (ByteIntMap.Get).
LookupExact == \A b \in Key : Get(b) = truth[b]

\* A probe always ends: a slot is empty, and the counts are those of the slots (the load bound).
ProbesEnd ==
    /\ \E i \in Slots : slots[i].h = 0
    /\ count = Filled(slots) /\ used = count
    /\ count = Cardinality({ b \in Key : truth[b] # 0 })
=============================================================================
