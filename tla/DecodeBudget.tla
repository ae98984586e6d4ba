---------------------------- MODULE DecodeBudget ----------------------------
(***************************************************************************)
(* engine.DecodeBudget: the decoded bytes all queries together may hold,   *)
(* with a soft ceiling, and fetch.Scope, which makes the reads of one      *)
(* query one owner.  Every method of either is a critical section of its   *)
(* own mutex; a read keeps its scope's mutex from Enter to Charge or       *)
(* Abort, so through the whole wait for admission.                         *)
(***************************************************************************)
EXTENDS Naturals, Sequences, SequencesExt, FiniteSetsExt

CONSTANTS
    Reads,      \* fetches
    ScopeOf,    \* the scope each read carries, Nil for none
    Nil,
    MaxBytes,   \* DecodeBudget.maxBytes
    Sizes       \* estimates

Scopes == {ScopeOf[r] : r \in Reads} \ {Nil}

VARIABLES
    used,       \* DecodeBudget.used
    waiters,    \* DecodeBudget.waiters
    admitted,   \* budgetWaiter.admitted
    moved,      \* DecodeBudget.releases differs from what the waiter has seen
    held,       \* Scope.held
    lock,       \* Scope.mu: the read in its Enter section, Nil when free
    need,       \* what the read asks for
    pc

vars == <<used, waiters, admitted, moved, held, lock, need, pc>>

Init ==
    /\ used = 0 /\ waiters = <<>>
    /\ admitted = [r \in Reads |-> FALSE] /\ moved = [r \in Reads |-> FALSE]
    /\ held = [s \in Scopes |-> 0] /\ lock = [s \in Scopes |-> Nil]
    /\ need = [r \in Reads |-> 0] /\ pc = [r \in Reads |-> "idle"]

Scoped(r) == ScopeOf[r] # Nil

Unlocked(r) == Scoped(r) => lock[ScopeOf[r]] = Nil

\* Scope.mu taken by r, or given back.
Locked(r, by) == lock' = IF Scoped(r) THEN [lock EXCEPT ![ScopeOf[r]] = by] ELSE lock

Holding(r) == Scoped(r) /\ held[ScopeOf[r]] > 0

fitsLocked(u, n) == u = 0 \/ u + n <= MaxBytes

To(r, where) == pc' = [pc EXCEPT ![r] = where]

\* acquireFor up to Scope.Enter: the read has the scope and knows whether the
\* scope holds a reservation.
Enter(r, n) ==
    /\ pc[r] = "idle" /\ Unlocked(r)
    /\ need' = [need EXCEPT ![r] = n]
    /\ Locked(r, r)
    /\ To(r, IF Holding(r) THEN "grow" ELSE "acquire")
    /\ UNCHANGED <<used, waiters, admitted, moved, held>>

\* The scope holds a reservation already: charged without queueing.
Grow(r) ==
    /\ pc[r] = "grow"
    /\ used' = used + need[r]
    /\ To(r, "charge")
    /\ UNCHANGED <<waiters, admitted, moved, held, lock, need>>

\* acquire, up to its select.
Acquire(r) ==
    /\ pc[r] = "acquire"
    /\ IF waiters = <<>> /\ fitsLocked(used, need[r])
       THEN used' = used + need[r] /\ To(r, "charge") /\ UNCHANGED <<waiters, moved>>
       ELSE /\ waiters' = Append(waiters, r)
            /\ moved' = [moved EXCEPT ![r] = FALSE]
            /\ To(r, "waiting") /\ UNCHANGED used
    /\ UNCHANGED <<admitted, held, lock, need>>

\* tryAcquireFor: one attempt that never queues.
TryAcquire(r, n) ==
    /\ pc[r] = "idle" /\ Unlocked(r)
    /\ Holding(r) \/ (waiters = <<>> /\ fitsLocked(used, n))
    /\ need' = [need EXCEPT ![r] = n]
    /\ Locked(r, r)
    /\ used' = used + n
    /\ To(r, "charge")
    /\ UNCHANGED <<waiters, admitted, moved, held>>

\* Scope.Charge.
Charge(r) ==
    /\ pc[r] = "charge"
    /\ held' = IF Scoped(r) THEN [held EXCEPT ![ScopeOf[r]] = @ + need[r]] ELSE held
    /\ Locked(r, Nil)
    /\ To(r, "holding")
    /\ UNCHANGED <<used, waiters, admitted, moved, need>>

Demand(q) == FoldSeq(LAMBDA r, sum : sum + need[r], 0, q)

\* How many waiters wakeLocked serves when u bytes are in use: each is admitted
\* with those before it, up to the first that does not fit.
Woken(q, u) ==
    CHOOSE k \in 0 .. Len(q) :
        /\ \A i \in 1 .. k : fitsLocked(u + Demand(SubSeq(q, 1, i - 1)), need[q[i]])
        /\ k < Len(q) => ~fitsLocked(u + Demand(SubSeq(q, 1, k)), need[q[k + 1]])

\* releaseLocked by r, which leaves with nothing.
releaseLocked(r) ==
    LET u == IF need[r] > used THEN 0 ELSE used - need[r]
        k == Woken(waiters, u)
        got == {waiters[i] : i \in 1 .. k}
    IN  /\ used' = u + Demand(SubSeq(waiters, 1, k))
        /\ waiters' = SubSeq(waiters, k + 1, Len(waiters))
        /\ admitted' = [w \in Reads |-> w # r /\ (admitted[w] \/ w \in got)]
        /\ moved' = [w \in Reads |-> w # r /\ pc[w] = "waiting"]

Without(r) == SelectSeq(waiters, LAMBDA w : w # r)

\* The budgetWaiter of r is dropped when its wait ends.
Leave(r) ==
    /\ admitted' = [admitted EXCEPT ![r] = FALSE]
    /\ moved' = [moved EXCEPT ![r] = FALSE]

\* acquire's select sees w.ready.
Ready(r) ==
    /\ pc[r] = "waiting" /\ admitted[r]
    /\ Leave(r) /\ To(r, "charge")
    /\ UNCHANGED <<used, waiters, held, lock, need>>

\* acquire's select sees the context's end: abandon, then Scope.Abort.
Abandon(r) ==
    /\ pc[r] = "waiting"
    /\ IF admitted[r]
       THEN releaseLocked(r)
       ELSE waiters' = Without(r) /\ Leave(r) /\ UNCHANGED used
    /\ need' = [need EXCEPT ![r] = 0] /\ Locked(r, Nil) /\ To(r, "idle")
    /\ UNCHANGED held

\* forceAdmit sends r to wait for another interval.
WaitsAgain(r) == moved[r] /\ Head(waiters) # r

\* acquire's select sees the force timer: forceAdmit.
Force(r) ==
    /\ pc[r] = "waiting"
    /\ \/ /\ admitted[r]
          /\ Leave(r) /\ To(r, "charge") /\ UNCHANGED <<used, waiters>>
       \/ /\ ~admitted[r] /\ WaitsAgain(r)
          /\ moved' = [moved EXCEPT ![r] = FALSE]
          /\ UNCHANGED <<used, waiters, admitted, pc>>
       \/ /\ ~admitted[r] /\ ~WaitsAgain(r)
          /\ waiters' = Without(r) /\ used' = used + need[r]
          /\ Leave(r) /\ To(r, "charge")
    /\ UNCHANGED <<held, lock, need>>

\* releaseFor: Scope.Release, then release.
ScopeRelease(r) ==
    /\ pc[r] = "holding" /\ Unlocked(r)
    /\ held' = IF Scoped(r)
               THEN [held EXCEPT ![ScopeOf[r]] = IF need[r] > @ THEN 0 ELSE @ - need[r]]
               ELSE held
    /\ To(r, "release")
    /\ UNCHANGED <<used, waiters, admitted, moved, lock, need>>

Release(r) ==
    /\ pc[r] = "release"
    /\ releaseLocked(r)
    /\ need' = [need EXCEPT ![r] = 0] /\ To(r, "idle")
    /\ UNCHANGED <<held, lock>>

Next ==
    \E r \in Reads :
        \/ \E n \in Sizes : Enter(r, n) \/ TryAcquire(r, n)
        \/ Grow(r) \/ Acquire(r) \/ Charge(r) \/ Ready(r) \/ Abandon(r) \/ Force(r)
        \/ ScopeRelease(r) \/ Release(r)

\* The timer always fires, and a step that waits for nothing is taken.  No read
\* is ever required to end: what holds a reservation may hold it for ever.
Driven(r) == Grow(r) \/ Acquire(r) \/ Charge(r) \/ Ready(r) \/ Force(r)

Spec == Init /\ [][Next]_vars /\ \A r \in Reads : WF_vars(Driven(r))

Sum(R) == MapThenSumSet(LAMBDA r : need[r], R)

\* The reads whose bytes are reserved.
Owners ==
    {r \in Reads : pc[r] \in {"charge", "holding", "release"} \/ (pc[r] = "waiting" /\ admitted[r])}

\* The budget counts exactly the reads that hold a reservation, and a scope
\* exactly the bytes of its reads, whether admission met a cancelled context, a
\* force timer, or a read of the same query (acquire, abandon, forceAdmit,
\* acquireFor).
BytesAccounted ==
    /\ used = Sum(Owners)
    /\ \A s \in Scopes : held[s] = Sum({r \in Reads : ScopeOf[r] = s /\ pc[r] = "holding"})

\* No read waits while nothing is reserved, and no read waits for bytes its own
\* query holds: the last release always wakes the queue, and a scope that holds
\* a reservation is never queued (wakeLocked, Scope.Enter).
NoneStranded ==
    \A i \in DOMAIN waiters :
        /\ used > 0
        /\ Scoped(waiters[i]) => held[ScopeOf[waiters[i]]] = 0

\* Every wait for admission ends, even when no reservation is ever returned: the
\* head of the queue is never told to wait again (forceAdmit).
WaitsEnd == \A r \in Reads : pc[r] = "waiting" ~> pc[r] # "waiting"

=============================================================================
