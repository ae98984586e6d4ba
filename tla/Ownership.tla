------------------------------ MODULE Ownership ------------------------------
(***************************************************************************)
(* Who may act as a shard's primary: cluster/etcd.  A node registers under *)
(* an etcd lease (Membership), claims a shard with a key bound to that     *)
(* lease (Ownership), and stops trusting the lease some time before it can *)
(* have expired (fence.go).  Answers of etcd are late or lost, leases run  *)
(* out, nodes restart under the same id, rejoin under a new lease, see     *)
(* different rings and shut down.                                          *)
(*                                                                         *)
(* One shard: shards share nothing but the lock.  Time is counted in ticks *)
(* and kept as what is left of each lease and of each fence window, so the *)
(* state stays finite however long the system runs.                        *)
(***************************************************************************)
EXTENDS Naturals, FiniteSets

CONSTANTS
    Node,       \* ring ids
    None,       \* no owner
    TTL,        \* of a membership lease, in ticks
    Margin,     \* fenceMargin
    Delay,      \* bound on the time between etcd answering and the node noticing
    MaxLease,   \* bound on the leases granted
    MaxFault,   \* bound on lost answers, late renewals, evictions and restarts
    MaxRing,    \* bound on changes of the nodes' ring views
    Shutdown,   \* whether a node may be shut down
    LostAcquire \* whether the answer to an acquire may be lost too

ASSUME NodeType == None \notin Node
ASSUME TimeType == TTL \in Nat /\ Delay \in Nat /\ Margin \in 1 .. TTL - 1
\* fenceMargin is there to outlast what an answer of etcd takes to be noticed.
ASSUME FenceType == Delay <= Margin
ASSUME BoundType == {MaxLease, MaxFault, MaxRing} \subseteq Nat /\ {LostAcquire, Shutdown} \subseteq BOOLEAN

Lease == 1 .. MaxLease
Never == Delay + 1
NoClaim == [owner |-> None, lease |-> 0, term |-> 0]

VARIABLES
    \* ---- etcd
    granted,    \* leases granted so far
    live,       \* leases not expired or revoked
    left,       \* ticks until a lease may expire
    claim,      \* the shard's key under owners/: [owner, lease, term]
    rev,        \* the revision of the last claim created
    \* ---- Membership of each node
    mem,        \* where maintain is: out, granted, rebind, in, closing, down
    lease,      \* leaseID
    other,      \* the lease being registered, then the one it supersedes
    age,        \* ticks since etcd sent the answer in flight; Never if there is none
    window,     \* ticks until the fence deadline
    \* ---- Ownership of each node
    oid,        \* leaseID, as last set by SetLease
    held,       \* the term recorded for the shard, 0 for none
    pending,    \* the shard is in pendingRelease
    op,         \* the call holding mu: [pc, by, res]
    call,       \* a call waiting for mu, past the checks made before it: ensure, or
                \* a Reconcile that is to acquire or to release by its ring
    wants,      \* the node's ring names it primary
    \* ---- bounds
    faults, turns

etcdVars == <<granted, live, left, claim, rev>>
memVars == <<mem, lease, other, age, window>>
ownVars == <<oid, held, pending, op, call>>
boundVars == <<faults, turns>>
vars == <<etcdVars, memVars, ownVars, wants, boundVars>>

Idle == [pc |-> "idle", by |-> "none", res |-> 0]
Locked(n) == op[n] # Idle
Fault(k) == faults' = faults + k /\ faults' \in 0 .. MaxFault

\* FenceDeadline and Fenced.
Fenced(n) == mem[n] \notin {"in", "closing", "revoked"} \/ window[n] = 0
Closing(n) == mem[n] \in {"closing", "revoked"}

\* What Ownership.Term reports.
Reads(n) == ~Fenced(n) /\ held[n] # 0

Init ==
    /\ granted = 0 /\ live = {} /\ left = [l \in Lease |-> 0]
    /\ claim = NoClaim /\ rev = 0
    /\ mem = [n \in Node |-> "out"]
    /\ lease = [n \in Node |-> 0] /\ other = [n \in Node |-> 0]
    /\ age = [n \in Node |-> Never] /\ window = [n \in Node |-> 0]
    /\ oid = [n \in Node |-> 0] /\ held = [n \in Node |-> 0]
    /\ pending = [n \in Node |-> FALSE] /\ op = [n \in Node |-> Idle]
    /\ call = [n \in Node |-> "none"]
    /\ wants \in [Node -> BOOLEAN]
    /\ faults = 0 /\ turns = 0
-----------------------------------------------------------------------------
(* Time and leases.                                                        *)

\* Time passes.  An answer not noticed within Delay is lost, and a tick that
\* fences a registered node is a late renewal; both are faults.
Tick ==
    LET unheard == {n \in Node : mem[n] = "in" /\ age[n] = Delay}
        fenced == {n \in Node : mem[n] \in {"rebind", "in"} /\ window[n] = 1}
    IN  /\ \A n \in Node : mem[n] = "granted" => age[n] < Delay
        /\ Fault(Cardinality(unheard) + Cardinality(fenced))
        /\ left' = [l \in Lease |-> IF left[l] > 0 THEN left[l] - 1 ELSE 0]
        /\ window' = [n \in Node |-> IF window[n] > 0 THEN window[n] - 1 ELSE 0]
        /\ age' = [n \in Node |-> IF age[n] = Never THEN Never ELSE age[n] + 1]
        /\ UNCHANGED <<granted, live, claim, rev, mem, lease, other, ownVars, wants, turns>>

\* etcd drops a lease and the keys bound to it.
End(l) ==
    /\ live' = live \ {l}
    /\ left' = [k \in Lease |-> IF k = l THEN 0 ELSE left[k]]
    /\ claim' = IF claim.lease = l THEN NoClaim ELSE claim

Expire(l) ==
    /\ l \in live /\ left[l] = 0
    /\ End(l)
    /\ UNCHANGED <<granted, rev, memVars, ownVars, wants, boundVars>>

\* etcd renews the lease, some time after the last renewal; the answer is on its
\* way.
KeepAlive(n) ==
    /\ mem[n] = "in" /\ lease[n] \in live /\ age[n] = Never /\ window[n] < TTL - Margin
    /\ left' = [left EXCEPT ![lease[n]] = TTL]
    /\ age' = [age EXCEPT ![n] = 0]
    /\ UNCHANGED <<granted, live, claim, rev, mem, lease, other, window, ownVars, wants, boundVars>>

\* noteKeepAlive: the deadline counts from the moment the answer is noticed.
NoteKeepAlive(n) == window' = [window EXCEPT ![n] = TTL - Margin]

\* follow: an answer arrives on the keep-alive channel.
Follow(n) ==
    /\ mem[n] = "in" /\ age[n] # Never
    /\ NoteKeepAlive(n)
    /\ age' = [age EXCEPT ![n] = Never]
    /\ UNCHANGED <<etcdVars, mem, lease, other, ownVars, wants, boundVars>>

\* follow ends: the keep-alive channel closed on a lease that is gone, or the
\* watch saw the node's own key deleted from under a healthy one.
Lost(n) ==
    /\ mem[n] = "in"
    /\ \/ lease[n] \notin live /\ UNCHANGED faults
       \/ lease[n] \in live /\ Fault(1)
    /\ mem' = [mem EXCEPT ![n] = "out"]
    /\ age' = [age EXCEPT ![n] = Never]
    /\ UNCHANGED <<etcdVars, lease, other, window, ownVars, wants, turns>>
-----------------------------------------------------------------------------
(* Registration: Join and rejoin.                                          *)

\* register: a fresh lease, and the member key under it.
Register(n) ==
    /\ mem[n] = "out" /\ granted < MaxLease
    /\ granted' = granted + 1
    /\ live' = live \cup {granted + 1}
    /\ left' = [left EXCEPT ![granted + 1] = TTL]
    /\ mem' = [mem EXCEPT ![n] = "granted"]
    /\ other' = [other EXCEPT ![n] = granted + 1]
    /\ age' = [age EXCEPT ![n] = 0]
    /\ UNCHANGED <<claim, rev, lease, window, ownVars, wants, boundVars>>

\* register answers an error: retried with another lease.
RegisterFails(n) ==
    /\ mem[n] = "granted" /\ Fault(1)
    /\ mem' = [mem EXCEPT ![n] = "out"]
    /\ age' = [age EXCEPT ![n] = Never]
    /\ UNCHANGED <<etcdVars, lease, other, window, ownVars, wants, turns>>

\* register returns and the lease is stored.
Registered(n) ==
    /\ mem[n] = "granted"
    /\ mem' = [mem EXCEPT ![n] = "rebind"]
    /\ NoteKeepAlive(n)
    /\ lease' = [lease EXCEPT ![n] = other[n]] /\ other' = [other EXCEPT ![n] = lease[n]]
    /\ age' = [age EXCEPT ![n] = Never]
    /\ UNCHANGED <<etcdVars, ownVars, wants, boundVars>>

SetLeaseUnbound(n) ==
    /\ oid' = [oid EXCEPT ![n] = IF @ = 0 THEN lease[n] ELSE @]
    /\ held' = [held EXCEPT ![n] = 0]
    /\ pending' = [pending EXCEPT ![n] = FALSE]

SetLeaseKeeping(n) ==
    /\ oid' = [oid EXCEPT ![n] = lease[n]]
    /\ pending' = [pending EXCEPT ![n] = FALSE]
    /\ UNCHANGED held

\* SetLease, and NewOwnership for a process that has just joined.
SetLease(n) ==
    /\ oid' = [oid EXCEPT ![n] = lease[n]]
    /\ held' = [held EXCEPT ![n] = 0]
    /\ pending' = [pending EXCEPT ![n] = FALSE]

\* rejoin's end: the hook, which waits for the lock, then the fence is lifted and
\* the superseded lease revoked if etcd can be reached.
Rejoined(n) ==
    /\ mem[n] = "rebind" /\ ~Locked(n)
    /\ SetLease(n)
    /\ mem' = [mem EXCEPT ![n] = "in"]
    /\ \/ End(other[n]) /\ UNCHANGED faults
       \/ other[n] \in live /\ Fault(1) /\ UNCHANGED <<live, left, claim>>
    /\ other' = [other EXCEPT ![n] = 0]
    /\ UNCHANGED <<granted, rev, lease, age, window, op, call, wants, turns>>
-----------------------------------------------------------------------------
(* Transactions on the shard's key, as etcd executes them, and what the     *)
(* call that holds the lock makes of the answer.                           *)

Mine(c, n) == c.owner = n /\ c.lease = oid[n]
Stale(c, n) == c.owner = n /\ c.lease # oid[n]

Lock(n, pc, by) == op' = [op EXCEPT ![n] = [pc |-> pc, by |-> by, res |-> 0]]
Unlock(n) == op' = [op EXCEPT ![n] = Idle]

\* tryAcquire: create the key if it is absent and the lease still exists.
Created(n) ==
    IF claim = NoClaim /\ oid[n] \in live
    THEN claim' = [owner |-> n, lease |-> oid[n], term |-> rev + 1] /\ rev' = rev + 1
    ELSE UNCHANGED <<claim, rev>>

AnswerById(n) ==
    \/ /\ claim'.owner = n
       /\ op' = [op EXCEPT ![n].pc = "got", ![n].res = claim'.term]
    \/ claim' = NoClaim /\ Unlock(n)
    \/ claim'.owner \notin {n, None} /\ Unlock(n)

\* Acquire: the claim is held, or a dead incarnation's and dropped in the first
\* pass, or another node's, after which Reconcile goes on to a pending release;
\* with the lease gone the transaction fails.
Answer(n) ==
    \/ /\ Mine(claim', n)
       /\ op' = [op EXCEPT ![n].pc = "got", ![n].res = claim'.term]
    \/ Stale(claim', n) /\ op[n].pc = "try" /\ Lock(n, "stale", op[n].by)
    \/ claim' = NoClaim /\ Unlock(n)
    \/ /\ (Stale(claim', n) /\ op[n].pc = "retry") \/ claim'.owner \notin {n, None}
       /\ IF op[n].by = "reconcile" /\ pending[n] THEN Lock(n, "release", "reconcile") ELSE Unlock(n)

Try(n) ==
    /\ op[n].pc \in {"try", "retry"}
    /\ Created(n)
    /\ \/ Answer(n) /\ UNCHANGED faults
       \/ LostAcquire /\ Fault(1) /\ Unlock(n)
    /\ UNCHANGED <<granted, live, left, memVars, oid, held, pending, call, wants, turns>>

\* dropStale.
DropStale(n) ==
    /\ op[n].pc = "stale"
    /\ claim' = IF Stale(claim, n) THEN NoClaim ELSE claim
    /\ \/ Lock(n, "retry", op[n].by) /\ UNCHANGED faults
       \/ Fault(1) /\ Unlock(n)
    /\ UNCHANGED <<granted, live, left, rev, memVars, oid, held, pending, call, wants, turns>>

\* release: one that failed may or may not have been executed and stays pending.
Release(n) ==
    /\ op[n].pc = "release"
    /\ \E answered, executed \in BOOLEAN :
        /\ answered => executed
        /\ claim' = IF executed /\ Mine(claim, n) THEN NoClaim ELSE claim
        /\ pending' = [pending EXCEPT ![n] = ~answered]
        /\ IF answered THEN UNCHANGED faults ELSE Fault(1)
    /\ Unlock(n)
    /\ UNCHANGED <<granted, live, left, rev, memVars, oid, held, call, wants, turns>>
-----------------------------------------------------------------------------
(* Ensure and Reconcile.                                                   *)

\* requirePrimaryClaim, up to Ensure.
EnsureCall(n) ==
    /\ call[n] = "none" /\ ~Fenced(n) /\ wants[n] /\ held[n] = 0
    /\ call' = [call EXCEPT ![n] = "ensure"]
    /\ UNCHANGED <<etcdVars, memVars, oid, held, pending, op, wants, boundVars>>

\* Ensure, once it has the lock.
EnsureRun(n) ==
    /\ call[n] = "ensure" /\ ~Locked(n)
    /\ call' = [call EXCEPT ![n] = "none"]
    /\ IF Fenced(n) \/ held[n] # 0 THEN UNCHANGED op ELSE Lock(n, "try", "ensure")
    /\ UNCHANGED <<etcdVars, memVars, oid, held, pending, wants, boundVars>>

\* Reconcile's fence check, and the ring it works with.
ReconcileCall(n) ==
    /\ call[n] = "none" /\ ~Fenced(n)
    /\ call' = [call EXCEPT ![n] = IF wants[n] THEN "acquire" ELSE "release"]
    /\ UNCHANGED <<etcdVars, memVars, oid, held, pending, op, wants, boundVars>>

\* Reconcile with the lock: acquire what is wanted and not held, release what
\* is held and not wanted, else retry a release that failed.
ReconcileRun(n) ==
    /\ call[n] \in {"acquire", "release"} /\ ~Locked(n)
    /\ call' = [call EXCEPT ![n] = "none"]
    /\ \/ call[n] = "acquire" /\ held[n] = 0 /\ Lock(n, "try", "reconcile") /\ UNCHANGED held
       \/ call[n] = "release" /\ held[n] # 0 /\ Lock(n, "release", "reconcile") /\ held' = [held EXCEPT ![n] = 0]
       \/ call[n] = "release" /\ held[n] = 0 /\ pending[n] /\ Lock(n, "release", "reconcile")
          /\ UNCHANGED held
       \/ (IF call[n] = "acquire" THEN held[n] # 0 ELSE held[n] = 0 /\ ~pending[n])
          /\ UNCHANGED <<op, held>>
    /\ UNCHANGED <<etcdVars, memVars, oid, pending, wants, boundVars>>

\* Acquire returned a claim: recorded, but for an Ensure that finds itself
\* fenced by now.
Acquired(n) ==
    /\ op[n].pc = "got"
    /\ IF op[n].by = "ensure" /\ Fenced(n)
       THEN UNCHANGED <<held, pending>>
       ELSE held' = [held EXCEPT ![n] = op[n].res] /\ pending' = [pending EXCEPT ![n] = FALSE]
    /\ Unlock(n)
    /\ UNCHANGED <<etcdVars, memVars, oid, call, wants, boundVars>>
-----------------------------------------------------------------------------
(* The node's environment and its end.                                     *)

\* The watch moves the node's ring (consume, resync, rebuild).
RingChange(n) ==
    /\ turns < MaxRing /\ turns' = turns + 1
    /\ wants' = [wants EXCEPT ![n] = ~@]
    /\ UNCHANGED <<etcdVars, memVars, ownVars, faults>>

Blank(n) ==
    /\ held' = [held EXCEPT ![n] = 0] /\ pending' = [pending EXCEPT ![n] = FALSE]
    /\ op' = [op EXCEPT ![n] = Idle]
    /\ call' = [call EXCEPT ![n] = "none"]

\* The process dies, its lease lives on, and a new one starts under the same id.
Restart(n) ==
    /\ mem[n] # "down" /\ Fault(1)
    /\ mem' = [mem EXCEPT ![n] = "out"]
    /\ lease' = [lease EXCEPT ![n] = 0] /\ other' = [other EXCEPT ![n] = 0]
    /\ age' = [age EXCEPT ![n] = Never] /\ window' = [window EXCEPT ![n] = 0]
    /\ oid' = [oid EXCEPT ![n] = 0]
    /\ Blank(n)
    /\ UNCHANGED <<etcdVars, wants, turns>>

\* Storage.Close: the maintenance has stopped, the engines have drained, and the
\* membership stops following its lease (a node absent when it closes holds
\* nothing).
CloseDrained(n) ==
    /\ Shutdown /\ mem[n] = "in" /\ Fault(1)
    /\ mem' = [mem EXCEPT ![n] = "closing"]
    /\ age' = [age EXCEPT ![n] = Never]
    /\ UNCHANGED <<etcdVars, lease, other, window, ownVars, wants, turns>>

\* Membership.Close revokes the lease, and with it the claim ...
CloseRevoke(n) ==
    /\ mem[n] = "closing"
    /\ mem' = [mem EXCEPT ![n] = "revoked"]
    /\ End(lease[n])
    /\ UNCHANGED <<granted, rev, lease, other, age, window, ownVars, wants, boundVars>>

\* ... and clusterNode.close forgets what was held, even when the revoke failed.
CloseForget(n) ==
    /\ Closing(n) /\ ~Locked(n)
    /\ mem' = [mem EXCEPT ![n] = "down"]
    /\ Blank(n)
    /\ UNCHANGED <<etcdVars, lease, other, age, window, oid, wants, boundVars>>
-----------------------------------------------------------------------------
Membership(n) ==
    \/ KeepAlive(n) \/ Follow(n) \/ Lost(n)
    \/ Register(n) \/ RegisterFails(n) \/ Registered(n) \/ Rejoined(n)

Call(n) ==
    \/ EnsureCall(n) \/ EnsureRun(n) \/ ReconcileCall(n) \/ ReconcileRun(n)
    \/ Try(n) \/ DropStale(n) \/ Release(n) \/ Acquired(n)

Next ==
    \/ Tick
    \/ \E l \in Lease : Expire(l)
    \/ \E n \in Node :
        \/ Membership(n) \/ Call(n) \/ RingChange(n) \/ Restart(n)
        \/ CloseDrained(n) \/ CloseRevoke(n) \/ CloseForget(n)

Spec == Init /\ [][Next]_vars

\* A process that can go on does, the maintenance loop reconciles every cycle, a
\* mutex starves nobody, etcd answers and lets leases run out.
FairSpec ==
    /\ Spec /\ WF_vars(Tick) /\ WF_vars(\E l \in Lease : Expire(l))
    /\ \A n \in Node :
        /\ WF_vars(\/ KeepAlive(n) \/ Follow(n) \/ (lease[n] \notin live /\ Lost(n))
                   \/ Register(n) \/ Registered(n))
        /\ WF_vars(Rejoined(n))
        /\ WF_vars(ReconcileCall(n) \/ EnsureRun(n) \/ ReconcileRun(n))
        /\ WF_vars(Try(n) \/ DropStale(n) \/ Release(n) \/ Acquired(n))
-----------------------------------------------------------------------------
\* The type of the state.
TypeOK ==
    /\ granted \in 0 .. MaxLease /\ live \subseteq 1 .. granted /\ left \in [Lease -> 0 .. TTL]
    /\ claim \in {NoClaim} \cup [owner : Node, lease : Lease, term : Nat \ {0}] /\ rev \in Nat
    /\ mem \in [Node -> {"out", "granted", "rebind", "in", "closing", "revoked", "down"}]
    /\ lease \in [Node -> 0 .. granted] /\ other \in [Node -> 0 .. granted]
    /\ age \in [Node -> 0 .. Never] /\ window \in [Node -> 0 .. TTL - Margin]
    /\ oid \in [Node -> 0 .. granted] /\ held \in [Node -> Nat] /\ pending \in [Node -> BOOLEAN]
    /\ op \in [Node -> [pc : {"idle", "try", "retry", "got", "stale", "release"},
                        by : {"none", "ensure", "reconcile"}, res : Nat]]
    /\ call \in [Node -> {"none", "ensure", "acquire", "release"}]
    /\ wants \in [Node -> BOOLEAN]
    /\ faults \in 0 .. MaxFault /\ turns \in 0 .. MaxRing

\* A term a node reads is backed by a claim that etcd still holds for it, under
\* a lease that has not run out: the fence closes before the lease can.
ClaimBacked ==
    \A n \in Node : Reads(n) /\ ~Closing(n) =>
        claim = [owner |-> n, lease |-> lease[n], term |-> held[n]] /\ lease[n] \in live

\* To the engines the protocol is a claim with terms that only rise.  A node that
\* is closing has stopped its maintenance and drained before it leaves
\* (Storage.Close), so nobody asks it for a term any more.
C == INSTANCE Claim WITH owner <- claim.owner, lastTerm <- rev,
                         term <- [n \in Node |-> IF Reads(n) /\ ~Closing(n) THEN held[n] ELSE 0]
Claimed == C!Spec

SolePrimary(n) == wants[n] /\ ~Fenced(n) /\ \A m \in Node \ {n} : ~wants[m]

\* A claim its owner does not know of: granted, and neither recorded nor marked
\* for release (an Ensure that found itself fenced by the time it was answered).
Untracked(m) == Mine(claim, m) /\ held[m] = 0 /\ ~pending[m] /\ ~Locked(m)

\* A node that stays registered and that every ring names primary ends up holding
\* the claim: whoever else claimed the shard during a disagreement releases it, if
\* it knows that it did.
Settles ==
    \A n \in Node :
        <>[](SolePrimary(n) /\ \A m \in Node \ {n} : ~Untracked(m)) => <>[]Reads(n)
=============================================================================
