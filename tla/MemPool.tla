------------------------------- MODULE MemPool -------------------------------
(***************************************************************************)
(* memlimit.Pool: the bytes all merges together may hold, and the queue of *)
(* callers waiting for some.  Every method is one critical section; what   *)
(* interleaves is a grant made by one caller's release with the wake-up or *)
(* the cancellation of another.                                            *)
(***************************************************************************)
EXTENDS Naturals, Sequences, SequencesExt

CONSTANTS
    Caller,     \* goroutines
    Total,      \* the pool's size
    Ask         \* what callers ask for, before the clamp

VARIABLES
    free,       \* Pool.free
    waiters,    \* Pool.waiters
    need,       \* waiter.n, and what the release function hands back
    state       \* idle, waiting, granted (ready is closed, not seen yet), holding

vars == <<free, waiters, need, state>>

Init ==
    /\ free = Total /\ waiters = <<>>
    /\ need = [c \in Caller |-> 0] /\ state = [c \in Caller |-> "idle"]

Demand(q) == FoldSeq(LAMBDA c, sum : sum + need[c], 0, q)


\* How many of the queue's first callers grantLocked serves with f bytes: it
\* stops at the first that does not fit.
Served(q, f) ==
    CHOOSE k \in 0 .. Len(q) :
        /\ Demand(SubSeq(q, 1, k)) <= f
        /\ k = Len(q) \/ Demand(SubSeq(q, 1, k + 1)) > f

\* grantLocked, over the queue q with f bytes free; c leaves with state s.
Grant(q, f, c, s) ==
    LET k == Served(q, f)
        got == {q[i] : i \in 1 .. k}
    IN  /\ waiters' = SubSeq(q, k + 1, Len(q))
        /\ free' = f - Demand(SubSeq(q, 1, k))
        /\ state' = [d \in Caller |-> IF d \in got THEN "granted" ELSE IF d = c THEN s ELSE state[d]]

\* min(max(n, 1), total)
Clamp(n) == IF n = 0 THEN 1 ELSE IF n > Total THEN Total ELSE n

AcquireJumping(c, n) ==
    /\ state[c] = "idle"
    /\ need' = [need EXCEPT ![c] = Clamp(n)]
    /\ IF free >= Clamp(n)
       THEN free' = free - Clamp(n) /\ state' = [state EXCEPT ![c] = "holding"] /\ UNCHANGED waiters
       ELSE waiters' = Append(waiters, c) /\ state' = [state EXCEPT ![c] = "waiting"] /\ UNCHANGED free

Acquire(c, n) ==
    /\ state[c] = "idle"
    /\ need' = [need EXCEPT ![c] = Clamp(n)]
    /\ IF waiters = <<>> /\ free >= Clamp(n)
       THEN free' = free - Clamp(n) /\ state' = [state EXCEPT ![c] = "holding"] /\ UNCHANGED waiters
       ELSE waiters' = Append(waiters, c) /\ state' = [state EXCEPT ![c] = "waiting"] /\ UNCHANGED free

\* TryAcquire yields to a queue; one that declines changes nothing.
TryAcquire(c, n) ==
    /\ state[c] = "idle" /\ waiters = <<>> /\ free >= Clamp(n)
    /\ need' = [need EXCEPT ![c] = Clamp(n)]
    /\ free' = free - Clamp(n)
    /\ state' = [state EXCEPT ![c] = "holding"]
    /\ UNCHANGED waiters

\* The select sees ready.
Wake(c) ==
    /\ state[c] = "granted"
    /\ state' = [state EXCEPT ![c] = "holding"]
    /\ UNCHANGED <<free, waiters, need>>

\* put: the release function, once.
Put(c) ==
    /\ state[c] = "holding"
    /\ Grant(waiters, free + need[c], c, "idle")
    /\ UNCHANGED need

AbandonQuietly(c) ==
    \/ /\ state[c] = "granted"
       /\ Grant(waiters, free + need[c], c, "idle")
       /\ UNCHANGED need
    \/ /\ state[c] = "waiting"
       /\ waiters' = Remove(waiters, c)
       /\ state' = [state EXCEPT ![c] = "idle"]
       /\ UNCHANGED <<need, free>>

AbandonLeaking(c) ==
    \/ /\ state[c] = "granted"
       /\ state' = [state EXCEPT ![c] = "idle"]
       /\ UNCHANGED <<free, waiters, need>>
    \/ /\ state[c] = "waiting"
       /\ Grant(Remove(waiters, c), free, c, "idle")
       /\ UNCHANGED need

\* abandon: the context is done.  A grant that won the race is handed back; a
\* waiter that leaves may have been what held the queue up.
Abandon(c) ==
    \/ /\ state[c] = "granted"
       /\ Grant(waiters, free + need[c], c, "idle")
       /\ UNCHANGED need
    \/ /\ state[c] = "waiting"
       /\ Grant(Remove(waiters, c), free, c, "idle")
       /\ UNCHANGED need

Next ==
    \E c \in Caller :
        \/ \E n \in Ask : Acquire(c, n) \/ TryAcquire(c, n)
        \/ Wake(c) \/ Put(c) \/ Abandon(c)

Spec == Init /\ [][Next]_vars

\* Merges end and release, and a goroutine whose channel is closed runs; nobody
\* has to ask again or to give up.
FairSpec == Spec /\ \A c \in Caller : WF_vars(Wake(c)) /\ WF_vars(Put(c))
-----------------------------------------------------------------------------
Owners == {c \in Caller : state[c] \in {"granted", "holding"}}

\* The bytes handed out and the free ones always make up the pool: no race of a
\* grant with a cancellation loses or mints any.
Conserved == free + FoldSeq(LAMBDA c, sum : sum + need[c], 0, SetToSeq(Owners)) = Total

\* Nobody waits for bytes that are there: the head of the queue never fits.
NoIdleBytes == waiters # <<>> => free < need[Head(waiters)]

Position(q, c) == CHOOSE i \in 1 .. Len(q) : q[i] = c

\* Arrival order decides: whoever is served from the queue was behind nobody
\* who is left waiting, and nobody is served past a queue.
InOrder ==
    /\ \A c \in ToSet(waiters), d \in ToSet(waiters') :
         state[c] = "waiting" /\ state'[c] = "granted" => Position(waiters, c) < Position(waiters, d)
    /\ \A c \in Caller : state[c] = "idle" /\ state'[c] = "holding" => waiters = <<>>

Waiting(c) == state[c] = "waiting"

\* Every caller that waits is served or gives up, however large its request.
Answered == \A c \in Caller : Waiting(c) ~> ~Waiting(c)
=============================================================================
