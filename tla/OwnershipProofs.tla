--------------------------- MODULE OwnershipProofs ---------------------------
(***************************************************************************)
(* Ownership is safe for any number of nodes, any lease time and any margin *)
(* that outlasts the delay of etcd's answers, and it implements Claim.      *)
(***************************************************************************)
EXTENDS Ownership, TLAPS

Uses(n, l) == l # 0 /\ (lease[n] = l \/ other[n] = l \/ oid[n] = l)

\* A lease is one node's alone; a fresh one is neither the one it replaces nor
\* the one the claims are bound to; a registered node claims under its lease.
LeaseInv ==
    /\ \A m, n \in Node : \A l \in Lease : Uses(m, l) /\ Uses(n, l) => m = n
    /\ \A n \in Node :
        /\ mem[n] = "granted" => other[n] \notin {0, lease[n], oid[n]}
        /\ mem[n] = "rebind" => lease[n] \notin {0, other[n], oid[n]}
        /\ mem[n] \in {"in", "closing", "revoked"} => lease[n] # 0 /\ oid[n] = lease[n]

\* A node's fence closes before its lease can run out, and an answer on its way
\* was sent no longer ago than the lease has run since.
FenceAt(n) ==
    /\ mem[n] \in {"rebind", "in"} /\ window[n] > 0 => lease[n] \in live /\ left[lease[n]] >= window[n]
    /\ mem[n] = "rebind" => age[n] = Never
    /\ mem[n] = "in" /\ age[n] # Never => lease[n] \in live /\ left[lease[n]] + age[n] >= TTL
    /\ mem[n] = "granted" => age[n] # Never /\ other[n] \in live /\ left[other[n]] + age[n] >= TTL

FenceInv == \A n \in Node : FenceAt(n)

\* While its lease lives, what a node recorded, or is about to record, is the claim.
HeldAt(n) ==
    /\ Locked(n) => held[n] = 0
    /\ held[n] # 0 /\ oid[n] \in live => claim = [owner |-> n, lease |-> oid[n], term |-> held[n]]
    /\ op[n].pc = "got" /\ oid[n] \in live => claim = [owner |-> n, lease |-> oid[n], term |-> op[n].res]

HeldInv == \A n \in Node : HeldAt(n)

\* The claim is the last one created.
TermInv == claim # NoClaim => claim.term = rev

IInv == TypeOK /\ LeaseInv /\ FenceInv /\ HeldInv /\ TermInv
-----------------------------------------------------------------------------
(* Types.                                                                  *)

LEMMA ConstTypes ==
    /\ TTL \in Nat /\ Delay \in Nat /\ Margin \in Nat /\ MaxLease \in Nat /\ MaxFault \in Nat /\ MaxRing \in Nat
    /\ 1 <= Margin /\ Margin < TTL /\ Delay <= Margin /\ None \notin Node /\ Never = Delay + 1
    /\ Lease = 1 .. MaxLease
BY TimeType, BoundType, FenceType, NodeType DEF Never, Lease

LEMMA Bounds ==
    /\ 0 \in 0 .. TTL /\ TTL \in 0 .. TTL /\ 0 \in 0 .. TTL - Margin /\ TTL - Margin \in 0 .. TTL - Margin
    /\ 0 \in 0 .. Never /\ Never \in 0 .. Never
BY ConstTypes

LEMMA LiveLeases == ASSUME TypeOK PROVE granted \in Nat /\ live \subseteq Lease /\ 0 \notin live
<1>1. granted \in Nat /\ granted <= MaxLease /\ live \subseteq 1 .. granted
  BY ConstTypes DEF TypeOK
<1>2. \A l \in 1 .. granted : l \in Lease /\ l # 0
  BY <1>1, ConstTypes
<1> QED BY <1>1, <1>2, Zenon

LEMMA InitTypes == ASSUME Init PROVE TypeOK
BY ConstTypes DEF Init, TypeOK, Idle

OpType == [pc : {"idle", "try", "retry", "got", "stale", "release"}, by : {"none", "ensure", "reconcile"}, res : Nat]
ClaimType == {NoClaim} \cup [owner : Node, lease : Lease, term : Nat \ {0}]

LEMMA FaultTypes == ASSUME TypeOK, Fault(1) \/ UNCHANGED faults PROVE faults' \in 0 .. MaxFault
BY Zenon DEF Fault, TypeOK

LEMMA TickTypes == ASSUME TypeOK, Tick PROVE TypeOK'
<1>1. \A x \in 0 .. TTL : x > 0 => x - 1 \in 0 .. TTL
  BY ConstTypes
<1>2. \A x \in 0 .. TTL - Margin : x > 0 => x - 1 \in 0 .. TTL - Margin
  BY ConstTypes
<1>3. 0 \in 0 .. TTL /\ 0 \in 0 .. TTL - Margin
  BY ConstTypes
<1>4. faults' \in 0 .. MaxFault
  BY Zenon DEF Tick, Fault
<1>5. left' \in [Lease -> 0 .. TTL] /\ window' \in [Node -> 0 .. TTL - Margin]
  <2>1. \A l \in Lease : left[l] \in 0 .. TTL
    BY Zenon DEF TypeOK
  <2>2. \A n \in Node : window[n] \in 0 .. TTL - Margin
    BY Zenon DEF TypeOK
  <2>3. left' \in [Lease -> 0 .. TTL]
    BY <1>1, <1>3, <2>1, Zenon DEF Tick
  <2>4. window' \in [Node -> 0 .. TTL - Margin]
    BY <1>2, <1>3, <2>2, Zenon DEF Tick
  <2> QED BY <2>3, <2>4, Zenon
<1>6. age' \in [Node -> 0 .. Never]
  <2>1. \A x \in 0 .. Never : x # Never => x + 1 \in 0 .. Never
    BY ConstTypes
  <2> QED BY <2>1, Zenon DEF Tick, TypeOK
<1> QED BY <1>4, <1>5, <1>6, Zenon DEF Tick, TypeOK, ownVars

LEMMA EndTypes ==
    ASSUME TypeOK, NEW l, End(l)
    PROVE  live' \subseteq 1 .. granted /\ left' \in [Lease -> 0 .. TTL] /\ claim' \in ClaimType
<1>1. left' \in [Lease -> 0 .. TTL]
  BY Bounds, Zenon DEF End, TypeOK
<1>2. live' \subseteq 1 .. granted
  BY Zenon DEF End, TypeOK
<1>3. claim' \in ClaimType
  BY Zenon DEF End, TypeOK, ClaimType
<1> QED BY <1>1, <1>2, <1>3, Zenon

LEMMA ExpireTypes == ASSUME TypeOK, NEW l \in Lease, Expire(l) PROVE TypeOK'
BY EndTypes, Zenon DEF Expire, TypeOK, memVars, ownVars, boundVars, ClaimType

LEMMA MembershipTypes == ASSUME TypeOK, NEW n \in Node, Membership(n) PROVE TypeOK'
<1>1. CASE KeepAlive(n)
  <2>1. left' \in [Lease -> 0 .. TTL] /\ age' \in [Node -> 0 .. Never]
    BY <1>1, Bounds, Zenon DEF KeepAlive, TypeOK
  <2> QED BY <1>1, <2>1, Zenon DEF KeepAlive, TypeOK, ownVars, boundVars
<1>2. CASE Follow(n)
  <2>1. window' \in [Node -> 0 .. TTL - Margin] /\ age' \in [Node -> 0 .. Never]
    BY <1>2, Bounds, Zenon DEF Follow, NoteKeepAlive, TypeOK
  <2> QED BY <1>2, <2>1, Zenon DEF Follow, TypeOK, etcdVars, ownVars, boundVars
<1>3. CASE Lost(n) \/ RegisterFails(n)
  <2>1. age' \in [Node -> 0 .. Never] /\ faults' \in 0 .. MaxFault
    <3>1. age' = [age EXCEPT ![n] = Never] /\ Never \in 0 .. Never
      BY <1>3, ConstTypes DEF Lost, RegisterFails
    <3>2. age' \in [Node -> 0 .. Never]
      BY <3>1, Zenon DEF TypeOK
    <3> QED BY <1>3, <3>2, FaultTypes, Zenon DEF Lost, RegisterFails
  <2>2. mem' \in [Node -> {"out", "granted", "rebind", "in", "closing", "revoked", "down"}]
    BY <1>3, SMTT(30) DEF Lost, RegisterFails, TypeOK
  <2> QED BY <1>3, <2>1, <2>2, ZenonT(30) DEF Lost, RegisterFails, TypeOK, etcdVars, ownVars
<1>4. CASE Register(n)
  <2>1. granted' \in 0 .. MaxLease /\ granted + 1 \in Lease /\ live' \subseteq 1 .. granted'
    <3>1. granted' = granted + 1 /\ granted \in Nat /\ granted < MaxLease /\ live' = live \cup {granted + 1}
      BY <1>4, LiveLeases, Zenon DEF Register
    <3>2. live \subseteq 1 .. granted
      BY Zenon DEF TypeOK
    <3> QED BY <3>1, <3>2, ConstTypes
  <2>2. lease' \in [Node -> 0 .. granted'] /\ other' \in [Node -> 0 .. granted'] /\ oid' \in [Node -> 0 .. granted']
    <3>1. granted' = granted + 1 /\ granted \in Nat
      BY <1>4, ConstTypes DEF Register, TypeOK
    <3>2. \A i \in 0 .. granted : i \in 0 .. granted'
      BY <3>1
    <3>3. granted + 1 \in 0 .. granted'
      BY <3>1
    <3> QED BY <1>4, <3>2, <3>3, Zenon DEF Register, TypeOK, ownVars
  <2>3. left' \in [Lease -> 0 .. TTL] /\ age' \in [Node -> 0 .. Never]
    BY <1>4, <2>1, Bounds, Zenon DEF Register, TypeOK
  <2>4. mem' \in [Node -> {"out", "granted", "rebind", "in", "closing", "revoked", "down"}]
    BY <1>4, Zenon DEF Register, TypeOK
  <2> QED BY <1>4, <2>1, <2>2, <2>3, <2>4, Zenon DEF Register, TypeOK, ownVars, boundVars
<1>5. CASE Registered(n)
  <2>1. window' \in [Node -> 0 .. TTL - Margin] /\ age' \in [Node -> 0 .. Never]
    BY <1>5, Bounds, Zenon DEF Registered, NoteKeepAlive, TypeOK
  <2>2. /\ lease' \in [Node -> 0 .. granted] /\ other' \in [Node -> 0 .. granted]
        /\ mem' \in [Node -> {"out", "granted", "rebind", "in", "closing", "revoked", "down"}]
    BY <1>5, Zenon DEF Registered, TypeOK
  <2> QED BY <1>5, <2>1, <2>2, Zenon DEF Registered, TypeOK, etcdVars, ownVars, boundVars
<1>6. CASE Rejoined(n)
  <2>1. live' \subseteq 1 .. granted /\ left' \in [Lease -> 0 .. TTL] /\ claim' \in ClaimType
    BY <1>6, EndTypes, Zenon DEF Rejoined, TypeOK, ClaimType
  <2>2. faults' \in 0 .. MaxFault
    BY <1>6, FaultTypes, Zenon DEF Rejoined
  <2>3. other' \in [Node -> 0 .. granted]
    BY <1>6, ConstTypes DEF Rejoined, TypeOK
  <2>4. /\ oid' \in [Node -> 0 .. granted] /\ held' \in [Node -> Nat] /\ pending' \in [Node -> BOOLEAN]
        /\ mem' \in [Node -> {"out", "granted", "rebind", "in", "closing", "revoked", "down"}]
    BY <1>6, Zenon DEF Rejoined, SetLease, TypeOK
  <2> QED BY <1>6, <2>1, <2>2, <2>3, <2>4, Zenon DEF Rejoined, TypeOK, ClaimType
<1> QED BY <1>1, <1>2, <1>3, <1>4, <1>5, <1>6, Zenon DEF Membership

LEMMA LockTypes ==
    ASSUME TypeOK, NEW n \in Node, NEW pc \in {"try", "retry", "got", "stale", "release"},
           NEW by \in {"none", "ensure", "reconcile"}
    PROVE  /\ Lock(n, pc, by) => op' \in [Node -> OpType]
           /\ Unlock(n) => op' \in [Node -> OpType]
<1>1. [pc |-> pc, by |-> by, res |-> 0] \in OpType /\ Idle \in OpType
  BY Zenon DEF Idle, OpType
<1>2. op \in [Node -> OpType]
  BY Zenon DEF TypeOK, OpType
<1> QED BY <1>1, <1>2, Zenon DEF Lock, Unlock

LEMMA CreatedTypes ==
    ASSUME TypeOK, NEW n \in Node, Created(n)
    PROVE  claim' \in ClaimType /\ rev' \in Nat
<1>1. rev' \in Nat
  BY DEF Created, TypeOK
<1>2. oid[n] \in live => oid[n] \in Lease
  BY LiveLeases, Zenon
<1>3. claim' \in ClaimType
  BY <1>2 DEF Created, TypeOK, ClaimType
<1> QED BY <1>1, <1>3, Zenon

LEMMA AnswerTypes ==
    ASSUME TypeOK, NEW n \in Node, claim' \in ClaimType, Answer(n)
    PROVE  op' \in [Node -> OpType]
<1>1. CASE Mine(claim', n) /\ op' = [op EXCEPT ![n].pc = "got", ![n].res = claim'.term]
  <2>1. claim'.term \in Nat
    BY <1>1, NodeType DEF Mine, ClaimType, NoClaim
  <2>2. op \in [Node -> OpType]
    BY Zenon DEF TypeOK, OpType
  <2>3. [op[n] EXCEPT !.pc = "got", !.res = claim'.term] \in OpType
    BY <2>1, <2>2, Zenon DEF OpType
  <2>4. op' = [op EXCEPT ![n] = [op[n] EXCEPT !.pc = "got", !.res = claim'.term]]
    BY <1>1, <2>2, Zenon DEF OpType
  <2> QED BY <2>2, <2>3, <2>4, Zenon
<1>2. op[n].by \in {"none", "ensure", "reconcile"}
  BY Zenon DEF TypeOK
<1> QED BY <1>1, <1>2, LockTypes, Zenon DEF Answer

LEMMA CallTypes == ASSUME TypeOK, NEW n \in Node, Call(n) PROVE TypeOK'
<1> DEFINE CallT == [Node -> {"none", "ensure", "acquire", "release"}]
<1>1. CASE EnsureCall(n) \/ ReconcileCall(n)
  <2>1. call' \in CallT
    BY <1>1, SMTT(30) DEF EnsureCall, ReconcileCall, TypeOK
  <2> QED BY <1>1, <2>1, ZenonT(30) DEF EnsureCall, ReconcileCall, TypeOK, etcdVars, memVars, boundVars
<1>2. CASE EnsureRun(n)
  <2>1. call' \in CallT
    BY <1>2, Zenon DEF EnsureRun, TypeOK
  <2>2. op' \in [Node -> OpType]
    BY <1>2, LockTypes, Zenon DEF EnsureRun, TypeOK, OpType
  <2> QED BY <1>2, <2>1, <2>2, Zenon DEF EnsureRun, TypeOK, etcdVars, memVars, boundVars, OpType
<1>3. CASE ReconcileRun(n)
  <2>1. call' \in CallT
    BY <1>3, Zenon DEF ReconcileRun, TypeOK
  <2>2. op' \in [Node -> OpType]
    BY <1>3, LockTypes, Zenon DEF ReconcileRun, TypeOK, OpType
  <2>3. held' \in [Node -> Nat]
    BY <1>3 DEF ReconcileRun, TypeOK
  <2> QED BY <1>3, <2>1, <2>2, <2>3, Zenon DEF ReconcileRun, TypeOK, etcdVars, memVars, boundVars, OpType
<1>4. CASE Try(n)
  <2>1. claim' \in ClaimType /\ rev' \in Nat
    BY <1>4, CreatedTypes, Zenon DEF Try
  <2>2. faults' \in 0 .. MaxFault
    BY <1>4, FaultTypes, Zenon DEF Try
  <2>3. op' \in [Node -> OpType]
    BY <1>4, <2>1, AnswerTypes, LockTypes, Zenon DEF Try
  <2> QED BY <1>4, <2>1, <2>2, <2>3, Zenon DEF Try, TypeOK, memVars, OpType, ClaimType
<1>5. CASE DropStale(n)
  <2>1. claim' \in ClaimType
    BY <1>5, Zenon DEF DropStale, TypeOK, ClaimType
  <2>2. faults' \in 0 .. MaxFault
    BY <1>5, FaultTypes, Zenon DEF DropStale
  <2>3. op' \in [Node -> OpType]
    <3>1. op[n].by \in {"none", "ensure", "reconcile"}
      BY Zenon DEF TypeOK
    <3> QED BY <1>5, <3>1, LockTypes, Zenon DEF DropStale
  <2> QED BY <1>5, <2>1, <2>2, <2>3, Zenon DEF DropStale, TypeOK, memVars, OpType, ClaimType
<1>6. CASE Release(n)
  <2>1. PICK answered, executed \in BOOLEAN :
          /\ claim' = IF executed /\ Mine(claim, n) THEN NoClaim ELSE claim
          /\ pending' = [pending EXCEPT ![n] = ~answered]
          /\ IF answered THEN UNCHANGED faults ELSE Fault(1)
    BY <1>6, Zenon DEF Release
  <2>2. claim' \in ClaimType /\ pending' \in [Node -> BOOLEAN]
    BY <2>1, Zenon DEF TypeOK, ClaimType
  <2>3. faults' \in 0 .. MaxFault
    BY <2>1, FaultTypes, Zenon
  <2>4. op' \in [Node -> OpType]
    BY <1>6, LockTypes, Zenon DEF Release
  <2> QED BY <1>6, <2>2, <2>3, <2>4, Zenon DEF Release, TypeOK, memVars, OpType, ClaimType
<1>7. CASE Acquired(n)
  <2>1. held' \in [Node -> Nat] /\ pending' \in [Node -> BOOLEAN]
    BY <1>7, ZenonT(30) DEF Acquired, TypeOK
  <2>2. op' \in [Node -> OpType]
    BY <1>7, LockTypes, Zenon DEF Acquired
  <2> QED BY <1>7, <2>1, <2>2, Zenon DEF Acquired, TypeOK, etcdVars, memVars, boundVars, OpType
<1> QED BY <1>1, <1>2, <1>3, <1>4, <1>5, <1>6, <1>7, Zenon DEF Call

LEMMA BlankTypes ==
    ASSUME TypeOK, NEW n \in Node, Blank(n)
    PROVE  /\ held' \in [Node -> Nat] /\ pending' \in [Node -> BOOLEAN] /\ op' \in [Node -> OpType]
           /\ call' \in [Node -> {"none", "ensure", "acquire", "release"}]
BY Zenon DEF Blank, Idle, TypeOK, OpType

LEMMA OtherTypes ==
    ASSUME TypeOK, NEW n \in Node,
           RingChange(n) \/ Restart(n) \/ CloseDrained(n) \/ CloseRevoke(n) \/ CloseForget(n)
    PROVE  TypeOK'
<1> DEFINE MemT == [Node -> {"out", "granted", "rebind", "in", "closing", "revoked", "down"}]
<1>1. CASE RingChange(n)
  <2>1. turns' \in 0 .. MaxRing /\ wants' \in [Node -> BOOLEAN]
    BY <1>1, ConstTypes DEF RingChange, TypeOK
  <2> QED BY <1>1, <2>1, Zenon DEF RingChange, TypeOK, etcdVars, memVars, ownVars
<1>2. CASE Restart(n)
  <2>1. lease' \in [Node -> 0 .. granted] /\ other' \in [Node -> 0 .. granted] /\ oid' \in [Node -> 0 .. granted]
    BY <1>2, ConstTypes, SMTT(30) DEF Restart, TypeOK
  <2>2. /\ age' \in [Node -> 0 .. Never] /\ window' \in [Node -> 0 .. TTL - Margin]
        /\ faults' \in 0 .. MaxFault
    BY <1>2, ConstTypes, SMTT(30) DEF Restart, Fault, TypeOK
  <2>3. mem' \in MemT
    BY <1>2, Zenon DEF Restart, TypeOK
  <2> QED BY <1>2, <2>1, <2>2, <2>3, BlankTypes, Zenon DEF Restart, TypeOK, etcdVars, OpType
<1>3. CASE CloseDrained(n)
  <2>1. age' \in [Node -> 0 .. Never] /\ faults' \in 0 .. MaxFault
    BY <1>3, ConstTypes DEF CloseDrained, Fault, TypeOK
  <2>2. mem' \in MemT
    BY <1>3, Zenon DEF CloseDrained, TypeOK
  <2> QED BY <1>3, <2>1, <2>2, Zenon DEF CloseDrained, TypeOK, etcdVars, ownVars
<1>4. CASE CloseRevoke(n)
  <2>1. mem' \in MemT
    BY <1>4, Zenon DEF CloseRevoke, TypeOK
  <2> QED BY <1>4, <2>1, EndTypes, Zenon DEF CloseRevoke, TypeOK, ownVars, boundVars, ClaimType
<1>5. CASE CloseForget(n)
  <2>1. mem' \in MemT
    BY <1>5, Zenon DEF CloseForget, TypeOK
  <2> QED BY <1>5, <2>1, BlankTypes, Zenon DEF CloseForget, TypeOK, etcdVars, boundVars, OpType
<1> QED BY <1>1, <1>2, <1>3, <1>4, <1>5, Zenon

LEMMA TypeStep == ASSUME TypeOK, [Next]_vars PROVE TypeOK'
<1>1. CASE UNCHANGED vars
  BY <1>1, Zenon DEF vars, etcdVars, memVars, ownVars, boundVars, TypeOK
<1> QED BY <1>1, TickTypes, ExpireTypes, MembershipTypes, CallTypes, OtherTypes, Zenon DEF Next
-----------------------------------------------------------------------------
(* Leases.                                                                 *)

\* What the actions that touch neither leases nor the membership leave alone.
LEMMA Frames ==
    ASSUME NEW n \in Node
    PROVE  /\ Call(n) \/ RingChange(n) => UNCHANGED <<memVars, granted, live, left, oid>>
           /\ Tick => UNCHANGED <<mem, lease, other, granted, live, claim, rev, ownVars>>
           /\ \A l : Expire(l) => UNCHANGED <<granted, rev, memVars, ownVars>>
BY Zenon DEF Call, EnsureCall, EnsureRun, ReconcileCall, ReconcileRun, Try, DropStale, Release, Acquired, RingChange,
       Tick, Expire, etcdVars, memVars, ownVars, boundVars

LEMMA LeaseStep == ASSUME IInv, [Next]_vars PROVE LeaseInv'
<1> USE DEF IInv
<1>1. CASE UNCHANGED <<mem, lease, other, oid>>
  BY <1>1, ZenonT(30) DEF LeaseInv, Uses
<1>2. ASSUME NEW n \in Node, KeepAlive(n) \/ Follow(n) PROVE LeaseInv'
  BY <1>1, <1>2, Zenon DEF KeepAlive, Follow, ownVars
<1>3. ASSUME NEW n \in Node, Lost(n) \/ RegisterFails(n) \/ CloseDrained(n) \/ CloseRevoke(n) \/ CloseForget(n)
      PROVE  LeaseInv'
  <2>1. UNCHANGED <<lease, other, oid>>
    BY <1>3, Zenon DEF Lost, RegisterFails, CloseDrained, CloseRevoke, CloseForget, ownVars
  <2>2. \A m \in Node : mem'[m] = mem[m] \/ mem'[m] \in {"out", "down"} \/
            (mem[m] \in {"in", "closing"} /\ mem'[m] \in {"closing", "revoked"})
    <3>1. CASE Lost(n) \/ RegisterFails(n)
      BY <3>1, ZenonT(30) DEF Lost, RegisterFails, TypeOK
    <3>2. CASE CloseDrained(n) \/ CloseRevoke(n) \/ CloseForget(n)
      BY <3>2, ZenonT(30) DEF CloseDrained, CloseRevoke, CloseForget, TypeOK
    <3> QED BY <1>3, <3>1, <3>2, Zenon
  <2> QED BY <2>1, <2>2 DEF LeaseInv, Uses
<1>4. ASSUME NEW n \in Node, Register(n) PROVE LeaseInv'
  <2>1. /\ UNCHANGED <<lease, oid>> /\ mem' = [mem EXCEPT ![n] = "granted"]
        /\ other' = [other EXCEPT ![n] = granted + 1]
    BY <1>4, Zenon DEF Register, ownVars
  <2>2. \A m \in Node : lease[m] # granted + 1 /\ other[m] # granted + 1 /\ oid[m] # granted + 1
    <3>1. granted \in Nat
      BY ConstTypes DEF TypeOK
    <3>2. \A i \in 0 .. granted : i # granted + 1
      BY <3>1
    <3> QED BY <3>2, Zenon DEF TypeOK
  <2>3. granted + 1 # 0
    BY ConstTypes DEF TypeOK
  <2> QED BY <2>1, <2>2, <2>3 DEF LeaseInv, Uses, TypeOK
<1>5. ASSUME NEW n \in Node, Registered(n) PROVE LeaseInv'
  <2>1. /\ UNCHANGED oid /\ mem[n] = "granted" /\ mem' = [mem EXCEPT ![n] = "rebind"]
        /\ lease' = [lease EXCEPT ![n] = other[n]] /\ other' = [other EXCEPT ![n] = lease[n]]
    BY <1>5, Zenon DEF Registered, ownVars
  <2> QED BY <2>1 DEF LeaseInv, Uses, TypeOK
<1>6. ASSUME NEW n \in Node, Rejoined(n) PROVE LeaseInv'
  <2>1. /\ UNCHANGED lease /\ mem[n] = "rebind" /\ mem' = [mem EXCEPT ![n] = "in"]
        /\ oid' = [oid EXCEPT ![n] = lease[n]] /\ other' = [other EXCEPT ![n] = 0]
    BY <1>6, Zenon DEF Rejoined, SetLease
  <2> QED BY <2>1 DEF LeaseInv, Uses, TypeOK
<1>7. ASSUME NEW n \in Node, Restart(n) PROVE LeaseInv'
  <2>1. /\ mem' = [mem EXCEPT ![n] = "out"] /\ oid' = [oid EXCEPT ![n] = 0]
        /\ lease' = [lease EXCEPT ![n] = 0] /\ other' = [other EXCEPT ![n] = 0]
    BY <1>7, Zenon DEF Restart
  <2> QED BY <2>1 DEF LeaseInv, Uses, TypeOK
<1>8. ASSUME NEW n \in Node, Call(n) \/ RingChange(n) PROVE LeaseInv'
  BY <1>1, <1>8, Frames, Zenon DEF memVars
<1>9. CASE Tick \/ \E l \in Lease : Expire(l)
  <2>1. UNCHANGED <<mem, lease, other, oid>>
    BY <1>9, Zenon DEF Tick, Expire, memVars, ownVars
  <2> QED BY <2>1, <1>1, Zenon
<1>10. CASE UNCHANGED vars
  BY <1>1, <1>10, Zenon DEF vars, memVars, ownVars
<1> QED BY <1>2, <1>3, <1>4, <1>5, <1>6, <1>7, <1>8, <1>9, <1>10, Zenon DEF Next, Membership
-----------------------------------------------------------------------------
(* The fence.                                                              *)

\* A lease that may expire is trusted by nobody: its time is up.
LEMMA ExpiredUntrusted ==
    ASSUME IInv, NEW l \in Lease, left[l] = 0, NEW n \in Node
    PROVE  /\ mem[n] \in {"rebind", "in"} /\ lease[n] = l => window[n] = 0 /\ (mem[n] = "in" => age[n] = Never)
           /\ mem[n] = "granted" => other[n] # l
<1>1. window[n] \in Nat /\ age[n] \in 0 .. Never
  BY ConstTypes DEF IInv, TypeOK
<1>2. age[n] # Never => 0 + age[n] < TTL
  BY <1>1, ConstTypes
<1> QED BY <1>1, <1>2, ConstTypes DEF IInv, FenceInv, FenceAt

LEMMA ExpireFence == ASSUME IInv, NEW l \in Lease, Expire(l) PROVE FenceInv'
<1>1. End(l) /\ UNCHANGED memVars /\ left[l] = 0
  BY Zenon DEF Expire
<1>2. ASSUME NEW n \in Node PROVE
        /\ mem[n] \in {"rebind", "in"} /\ lease[n] = l => window[n] = 0 /\ (mem[n] = "in" => age[n] = Never)
        /\ mem[n] = "granted" => other[n] # l
  BY <1>1, ExpiredUntrusted, Zenon
<1>3. UNCHANGED <<mem, lease, other, age, window>> /\ \A k \in Lease : k \in live /\ k # l => k \in live' /\ left'[k] = left[k]
  BY <1>1, Zenon DEF End, memVars
<1>4. \A n \in Node : lease[n] \in live => lease[n] \in Lease
  BY LiveLeases, Zenon DEF IInv
<1>5. \A n \in Node : other[n] \in live => other[n] \in Lease
  BY LiveLeases, Zenon DEF IInv
<1>6. ASSUME NEW n \in Node PROVE FenceAt(n)'
  <2>1. FenceAt(n) /\ ~(0 > 0)
    BY DEF IInv, FenceInv
  <2> QED BY <1>2, <1>3, <1>4, <1>5, <2>1, Zenon DEF FenceAt
<1> QED BY <1>6, Zenon DEF FenceInv

LEMMA TickFence == ASSUME IInv, Tick PROVE FenceInv'
<1> SUFFICES ASSUME NEW n \in Node
    PROVE FenceAt(n)'
  BY Zenon DEF FenceInv
<1>1. /\ mem' = mem /\ lease' = lease /\ live' = live /\ other' = other
      /\ window'[n] = (IF window[n] > 0 THEN window[n] - 1 ELSE 0)
      /\ age'[n] = (IF age[n] = Never THEN Never ELSE age[n] + 1)
      /\ \A l \in Lease : left'[l] = (IF left[l] > 0 THEN left[l] - 1 ELSE 0)
      /\ mem[n] = "granted" => age[n] < Delay
  BY Zenon DEF Tick
<1>2. window[n] \in Nat /\ age[n] \in Nat /\ Never \in Nat /\ TTL \in Nat /\ Delay \in Nat
  BY ConstTypes DEF IInv, TypeOK
<1>3. \A l \in live : l \in Lease /\ left[l] \in Nat
  BY ConstTypes DEF IInv, TypeOK
<1>4. window'[n] > 0 => window[n] > 0 /\ window'[n] = window[n] - 1
  BY <1>1, <1>2
<1>5. \A l \in live : left[l] >= window[n] /\ window'[n] > 0 => left'[l] >= window'[n]
  BY <1>1, <1>2, <1>3, <1>4
<1>6. \A l \in live : left[l] + age[n] >= TTL /\ age[n] # Never => left'[l] + age'[n] >= TTL
  BY <1>1, <1>2, <1>3
<1>7. age'[n] # Never => age[n] # Never
  BY <1>1, Zenon
<1>8. mem[n] = "granted" => age'[n] # Never
  BY <1>1, <1>2, ConstTypes
<1> QED BY <1>1, <1>4, <1>5, <1>6, <1>7, <1>8, Zenon DEF IInv, FenceInv, FenceAt

LEMMA FollowWindow ==
    ASSUME TypeOK, NEW n \in Node, NEW l \in live, age[n] # Never, left[l] + age[n] >= TTL
    PROVE  left[l] >= TTL - Margin
<1>0. age[n] \in 0 .. Never /\ left[l] \in 0 .. TTL
  BY LiveLeases, Zenon DEF TypeOK
<1>1. age[n] \in Nat /\ age[n] <= Delay /\ left[l] \in Nat
  BY <1>0, ConstTypes
<1> QED BY <1>1, ConstTypes

\* A lease that runs no shorter still covers what it covered.
LEMMA LeftGrows ==
    ASSUME NEW was \in Nat, NEW is \in Nat, NEW aged \in Nat, TTL \in Nat, was + aged >= TTL, is >= was
    PROVE  is + aged >= TTL
OBVIOUS

\* A node that is left alone keeps its fence while its leases run no shorter.
LEMMA FenceFrame ==
    ASSUME IInv, NEW m \in Node,
           mem'[m] = mem[m], lease'[m] = lease[m], other'[m] = other[m], age'[m] = age[m], window'[m] = window[m],
           \A l \in live : l \in {lease[m], other[m]} =>
               l \in live' /\ left[l] \in Nat /\ left'[l] \in Nat /\ left'[l] >= left[l]
    PROVE  FenceAt(m)'
<1>1. FenceAt(m) /\ age[m] \in Nat /\ window[m] \in Nat /\ TTL \in Nat
  BY ConstTypes DEF IInv, FenceInv, TypeOK
<1>2. (mem[m] \in {"rebind", "in"} /\ window[m] > 0 => lease[m] \in live /\ left[lease[m]] >= window[m])'
  <2>1. SUFFICES ASSUME mem[m] \in {"rebind", "in"}, window[m] > 0
                 PROVE  lease[m] \in live' /\ left'[lease[m]] >= window[m]
    BY Zenon
  <2>2. lease[m] \in live /\ left[lease[m]] >= window[m]
    BY <1>1, <2>1, Zenon DEF FenceAt
  <2> QED BY <1>1, <2>2
<1>3. (mem[m] = "in" /\ age[m] # Never => lease[m] \in live /\ left[lease[m]] + age[m] >= TTL)'
  <2>1. SUFFICES ASSUME mem[m] = "in", age[m] # Never PROVE lease[m] \in live' /\ left'[lease[m]] + age[m] >= TTL
    BY Zenon
  <2>2. lease[m] \in live /\ left[lease[m]] + age[m] >= TTL
    BY <1>1, <2>1, Zenon DEF FenceAt
  <2> QED BY <1>1, <2>2
<1>4. (mem[m] = "granted" => age[m] # Never /\ other[m] \in live /\ left[other[m]] + age[m] >= TTL)'
  <2>1. SUFFICES ASSUME mem[m] = "granted"
                 PROVE  age[m] # Never /\ other[m] \in live' /\ left'[other[m]] + age[m] >= TTL
    BY Zenon
  <2>2. age[m] # Never /\ other[m] \in live /\ left[other[m]] + age[m] >= TTL
    BY <1>1, <2>1, Zenon DEF FenceAt
  <2>3. other[m] \in live' /\ left[other[m]] \in Nat /\ left'[other[m]] \in Nat /\ left'[other[m]] >= left[other[m]]
    BY <2>2, Zenon
  <2>4. left'[other[m]] + age[m] >= TTL
    BY <1>1, <2>2, <2>3, LeftGrows, Zenon
  <2> QED BY <2>2, <2>3, <2>4, Zenon
<1>5. (mem[m] = "rebind" => age[m] = Never)'
  BY <1>1, Zenon DEF FenceAt
<1> QED BY <1>2, <1>3, <1>4, <1>5, Zenon DEF FenceAt

LEMMA LeftTypes == ASSUME TypeOK PROVE \A l \in live : l \in Lease /\ left[l] \in Nat /\ left[l] <= TTL
BY LiveLeases, ConstTypes DEF TypeOK

LEMMA FenceStep == ASSUME IInv, [Next]_vars PROVE FenceInv'
<1> USE DEF IInv
<1>0. SUFFICES ASSUME NEW m \in Node PROVE FenceAt(m)'
  BY Zenon DEF FenceInv
<1>1. CASE UNCHANGED <<live, left, memVars>>
  BY <1>1, Zenon DEF FenceInv, FenceAt, memVars
<1>2. ASSUME NEW n \in Node, KeepAlive(n) PROVE FenceAt(m)'
  <2>1. /\ UNCHANGED <<live, mem, lease, other, window>> /\ lease[n] \in live /\ mem[n] = "in"
        /\ left' = [left EXCEPT ![lease[n]] = TTL] /\ age' = [age EXCEPT ![n] = 0]
    BY <1>2, Zenon DEF KeepAlive
  <2>2. \A l \in live : left'[l] = IF l = lease[n] THEN TTL ELSE left[l]
    BY <2>1, LeftTypes, Zenon DEF TypeOK
  <2>3. CASE m # n
    <3>1. age'[m] = age[m]
      BY <2>1, <2>3, Zenon DEF TypeOK
    <3>2. \A l \in live : left[l] \in Nat /\ left'[l] \in Nat /\ left'[l] >= left[l]
      BY <2>2, LeftTypes, ConstTypes
    <3> QED BY <2>1, <3>1, <3>2, FenceFrame, Zenon
  <2>4. CASE m = n
    <3>1. mem'[m] = "in" /\ lease'[m] \in live' /\ left'[lease'[m]] = TTL /\ age'[m] = 0 /\ window'[m] = window[m]
      BY <2>1, <2>2, <2>4, ZenonT(30) DEF TypeOK
    <3>2. window[m] \in 0 .. TTL - Margin
      BY Zenon DEF TypeOK
    <3>3. TTL >= window[m] /\ TTL + 0 >= TTL
      BY <3>2, ConstTypes
    <3> QED BY <3>1, <3>3, Zenon DEF FenceAt
  <2> QED BY <2>3, <2>4, Zenon
<1>3. ASSUME NEW n \in Node, Follow(n) PROVE FenceAt(m)'
  <2>1. /\ UNCHANGED <<live, left, mem, lease, other>> /\ mem[n] = "in" /\ age[n] # Never
        /\ window' = [window EXCEPT ![n] = TTL - Margin] /\ age' = [age EXCEPT ![n] = Never]
    BY <1>3, Zenon DEF Follow, NoteKeepAlive, etcdVars
  <2>2. CASE m # n
    <3>1. age'[m] = age[m] /\ window'[m] = window[m]
      BY <2>1, <2>2, Zenon DEF TypeOK
    <3> QED BY <2>1, <3>1, LeftTypes, FenceFrame
  <2>3. CASE m = n
    <3>1. lease[m] \in live /\ left[lease[m]] + age[m] >= TTL
      BY <2>1, <2>3, Zenon DEF FenceInv, FenceAt
    <3>2. left[lease[m]] >= TTL - Margin
      BY <2>1, <2>3, <3>1, FollowWindow, Zenon
    <3>3. window'[m] = TTL - Margin /\ age'[m] = Never /\ mem'[m] = "in"
      BY <2>1, <2>3, Zenon DEF TypeOK
    <3> QED BY <2>1, <3>1, <3>2, <3>3, Zenon DEF FenceAt
  <2> QED BY <2>2, <2>3, Zenon
<1>4. ASSUME NEW n \in Node, Lost(n) \/ RegisterFails(n) \/ CloseDrained(n) \/ CloseForget(n) \/ Restart(n)
      PROVE  FenceAt(m)'
  <2>1. UNCHANGED <<live, left>> /\ mem'[n] \in {"out", "closing", "down"}
    BY <1>4, ZenonT(30) DEF Lost, RegisterFails, CloseDrained, CloseForget, Restart, etcdVars, TypeOK
  <2>2. m # n => /\ mem'[m] = mem[m] /\ lease'[m] = lease[m] /\ other'[m] = other[m]
                 /\ age'[m] = age[m] /\ window'[m] = window[m]
    <3>1. CASE Lost(n) \/ RegisterFails(n) \/ CloseDrained(n) \/ CloseForget(n)
      BY <3>1, ZenonT(30) DEF Lost, RegisterFails, CloseDrained, CloseForget, TypeOK
    <3>2. CASE Restart(n)
      BY <3>2, ZenonT(30) DEF Restart, TypeOK
    <3> QED BY <1>4, <3>1, <3>2, Zenon
  <2>3. CASE m # n
    BY <2>1, <2>2, <2>3, LeftTypes, FenceFrame
  <2>4. CASE m = n
    BY <2>1, <2>4, Zenon DEF FenceAt
  <2> QED BY <2>3, <2>4, Zenon
<1>5. ASSUME NEW n \in Node, Register(n) PROVE FenceAt(m)'
  <2>1. /\ UNCHANGED <<lease, window>> /\ mem' = [mem EXCEPT ![n] = "granted"] /\ live' = live \cup {granted + 1}
        /\ other' = [other EXCEPT ![n] = granted + 1] /\ age' = [age EXCEPT ![n] = 0]
        /\ left' = [left EXCEPT ![granted + 1] = TTL]
    BY <1>5, Zenon DEF Register
  <2>2. granted + 1 \in Lease
    BY <1>5, LiveLeases, ConstTypes DEF Register
  <2>3. \A l \in live : l # granted + 1
    <3>1. \A l \in 1 .. granted : l # granted + 1
      BY LiveLeases
    <3> QED BY <3>1, Zenon DEF TypeOK
  <2>4. left'[granted + 1] = TTL /\ \A l \in live : left'[l] = left[l]
    BY <2>1, <2>2, <2>3, LiveLeases, Zenon DEF TypeOK
  <2>5. CASE m # n
    <3>1. mem'[m] = mem[m] /\ other'[m] = other[m] /\ age'[m] = age[m]
      BY <2>1, <2>5, Zenon DEF TypeOK
    <3>2. \A l \in live : l \in live' /\ left[l] \in Nat /\ left'[l] \in Nat /\ left'[l] >= left[l]
      BY <2>1, <2>4, LeftTypes
    <3> QED BY <2>1, <3>1, <3>2, FenceFrame, Zenon
  <2>6. CASE m = n
    <3>1. mem'[m] = "granted" /\ other'[m] = granted + 1 /\ age'[m] = 0 /\ granted + 1 \in live'
      BY <2>1, <2>6, Zenon DEF TypeOK
    <3>2. 0 # Never /\ TTL + 0 >= TTL
      BY ConstTypes
    <3> QED BY <2>4, <3>1, <3>2, Zenon DEF FenceAt
  <2> QED BY <2>5, <2>6, Zenon
<1>6. ASSUME NEW n \in Node, Registered(n) PROVE FenceAt(m)'
  <2>1. /\ UNCHANGED <<live, left>> /\ mem[n] = "granted" /\ mem' = [mem EXCEPT ![n] = "rebind"]
        /\ lease' = [lease EXCEPT ![n] = other[n]] /\ other' = [other EXCEPT ![n] = lease[n]]
        /\ window' = [window EXCEPT ![n] = TTL - Margin] /\ age' = [age EXCEPT ![n] = Never]
    BY <1>6, Zenon DEF Registered, NoteKeepAlive, etcdVars
  <2>2. CASE m # n
    <3>1. /\ mem'[m] = mem[m] /\ lease'[m] = lease[m] /\ other'[m] = other[m]
          /\ age'[m] = age[m] /\ window'[m] = window[m]
      BY <2>1, <2>2, Zenon DEF TypeOK
    <3> QED BY <2>1, <3>1, LeftTypes, FenceFrame
  <2>3. CASE m = n
    <3>1. other[m] \in live /\ left[other[m]] + age[m] >= TTL /\ age[m] # Never
      BY <2>1, <2>3, Zenon DEF FenceInv, FenceAt
    <3>2. left[other[m]] >= TTL - Margin
      BY <3>1, FollowWindow, Zenon
    <3>3. window'[m] = TTL - Margin /\ age'[m] = Never /\ mem'[m] = "rebind" /\ lease'[m] = other[m]
      BY <2>1, <2>3, Zenon DEF TypeOK
    <3> QED BY <2>1, <3>1, <3>2, <3>3 DEF FenceAt
  <2> QED BY <2>2, <2>3, Zenon
<1>7. ASSUME NEW n \in Node, Rejoined(n) PROVE FenceAt(m)'
  <2>1. /\ UNCHANGED <<lease, age, window>> /\ mem[n] = "rebind" /\ mem' = [mem EXCEPT ![n] = "in"]
        /\ other' = [other EXCEPT ![n] = 0] /\ (End(other[n]) \/ UNCHANGED <<live, left>>)
    BY <1>7, Zenon DEF Rejoined
  <2>2. \A l \in live : l # other[n] => l \in live' /\ left'[l] = left[l]
    <3>1. CASE End(other[n])
      BY <3>1, LiveLeases, Zenon DEF End
    <3>2. CASE UNCHANGED <<live, left>>
      BY <3>2, Zenon
    <3> QED BY <2>1, <3>1, <3>2, Zenon
  <2>3. CASE m # n
    <3>1. mem'[m] = mem[m] /\ other'[m] = other[m] /\ lease'[m] = lease[m] /\ age'[m] = age[m] /\ window'[m] = window[m]
      BY <2>1, <2>3, Zenon DEF TypeOK
    <3>2. \A l \in live : l \in {lease[m], other[m]} => l # other[n]
      BY <2>3, LiveLeases, ZenonT(30) DEF LeaseInv, Uses
    <3> QED BY <2>2, <3>1, <3>2, LeftTypes, FenceFrame
  <2>4. CASE m = n
    <3>1. other[m] # lease[m] /\ age[m] = Never /\ (window[m] > 0 => lease[m] \in live /\ left[lease[m]] >= window[m])
      BY <2>1, <2>4, Zenon DEF LeaseInv, FenceInv, FenceAt
    <3>2. mem'[m] = "in" /\ lease'[m] = lease[m] /\ age'[m] = age[m] /\ window'[m] = window[m]
      BY <2>1, <2>4, Zenon DEF TypeOK
    <3> QED BY <2>2, <2>4, <3>1, <3>2, Zenon DEF FenceAt
  <2> QED BY <2>3, <2>4, Zenon
<1>8. ASSUME NEW n \in Node, CloseRevoke(n) PROVE FenceAt(m)'
  <2>1. /\ mem[n] = "closing" /\ mem' = [mem EXCEPT ![n] = "revoked"] /\ End(lease[n])
        /\ UNCHANGED <<lease, other, age, window>>
    BY <1>8, Zenon DEF CloseRevoke
  <2>2. \A l \in live : l # lease[n] => l \in live' /\ left'[l] = left[l]
    BY <2>1, LiveLeases, Zenon DEF End
  <2>3. CASE m # n
    <3>1. mem'[m] = mem[m]
      BY <2>1, <2>3, Zenon DEF TypeOK
    <3>2. \A l \in live : l \in {lease[m], other[m]} => l # lease[n]
      BY <2>3, LiveLeases, ZenonT(30) DEF LeaseInv, Uses
    <3> QED BY <2>1, <2>2, <3>1, <3>2, LeftTypes, FenceFrame
  <2>4. CASE m = n
    <3>1. mem'[m] = "revoked"
      BY <2>1, <2>4, Zenon DEF TypeOK
    <3> QED BY <3>1, Zenon DEF FenceAt
  <2> QED BY <2>3, <2>4, Zenon
<1>9. ASSUME NEW n \in Node, Call(n) \/ RingChange(n) PROVE FenceAt(m)'
  BY <1>1, <1>9, Frames, Zenon
<1>10. CASE UNCHANGED vars
  BY <1>1, <1>10, Zenon DEF vars, etcdVars
<1>11. CASE Tick \/ \E l \in Lease : Expire(l)
  BY <1>11, TickFence, ExpireFence, Zenon DEF FenceInv
<1> QED BY <1>2, <1>3, <1>4, <1>5, <1>6, <1>7, <1>8, <1>9, <1>10, <1>11, Zenon DEF Next, Membership
-----------------------------------------------------------------------------
(* The claim.                                                              *)

LEMMA ClaimMoves ==
    ASSUME TypeOK, [Next]_vars
    PROVE  \/ claim' = claim /\ rev' = rev
           \/ claim' = NoClaim /\ rev' = rev
           \/ \E n \in Node : /\ claim = NoClaim /\ rev' = rev + 1 /\ UNCHANGED <<mem, window, held>>
                              /\ claim' = [owner |-> n, lease |-> oid[n], term |-> rev + 1]
<1>1. ASSUME NEW l \in Lease, Expire(l) PROVE (claim' = claim \/ claim' = NoClaim) /\ rev' = rev
  BY <1>1, Zenon DEF Expire, End
<1>2. ASSUME NEW n \in Node, Membership(n) PROVE (claim' = claim \/ claim' = NoClaim) /\ rev' = rev
  BY <1>2, Zenon DEF Membership, KeepAlive, Follow, Lost, Register, RegisterFails, Registered, Rejoined, End, etcdVars
<1>3. ASSUME NEW n \in Node, DropStale(n) \/ Release(n) PROVE (claim' = claim \/ claim' = NoClaim) /\ rev' = rev
  BY <1>3, Zenon DEF DropStale, Release
<1>4. ASSUME NEW n \in Node, EnsureCall(n) \/ EnsureRun(n) \/ ReconcileCall(n) \/ ReconcileRun(n) \/ Acquired(n)
      PROVE  claim' = claim /\ rev' = rev
  BY <1>4, Zenon DEF EnsureCall, EnsureRun, ReconcileCall, ReconcileRun, Acquired, etcdVars
<1>5. ASSUME NEW n \in Node, CloseRevoke(n) PROVE (claim' = claim \/ claim' = NoClaim) /\ rev' = rev
  BY <1>5, Zenon DEF CloseRevoke, End
<1>6. ASSUME NEW n \in Node, RingChange(n) \/ Restart(n) \/ CloseDrained(n) \/ CloseForget(n)
      PROVE  claim' = claim /\ rev' = rev
  BY <1>6, Zenon DEF RingChange, Restart, CloseDrained, CloseForget, etcdVars
<1>7. ASSUME NEW n \in Node, Try(n)
      PROVE  \/ claim' = claim /\ rev' = rev
             \/ /\ claim = NoClaim /\ rev' = rev + 1 /\ UNCHANGED <<mem, window, held>>
                /\ claim' = [owner |-> n, lease |-> oid[n], term |-> rev + 1]
  BY <1>7, Zenon DEF Try, Created, memVars
<1>8. CASE Tick
  BY <1>8, Zenon DEF Tick
<1>9. CASE UNCHANGED vars
  BY <1>9, Zenon DEF vars, etcdVars
<1> QED BY <1>1, <1>2, <1>3, <1>4, <1>5, <1>6, <1>7, <1>8, <1>9, Zenon DEF Next, Call

LEMMA TermStep == ASSUME TypeOK, TermInv, [Next]_vars PROVE TermInv'
<1>1. CASE claim' = claim /\ rev' = rev
  BY <1>1, Zenon DEF TermInv
<1>2. CASE claim' = NoClaim /\ rev' = rev
  BY <1>2, Zenon DEF TermInv
<1>3. ASSUME NEW n \in Node, rev' = rev + 1, claim' = [owner |-> n, lease |-> oid[n], term |-> rev + 1]
      PROVE  TermInv'
  BY <1>3, Zenon DEF TermInv
<1> QED BY <1>1, <1>2, <1>3, ClaimMoves, Zenon

\* What another node does to the claim, the leases or itself leaves a holder alone.
LEMMA HeldFrame ==
    ASSUME TypeOK, HeldInv, NEW m \in Node,
           oid'[m] = oid[m], held'[m] = held[m], op'[m] = op[m],
           oid[m] \in live' => oid[m] \in live,
           oid[m] \in live' /\ Mine(claim, m) => claim' = claim
    PROVE  HeldAt(m)'
<1>1. HeldAt(m)
  BY Zenon DEF HeldInv
<1>2. (Locked(m) => held[m] = 0)'
  BY <1>1, Zenon DEF HeldAt, Locked
<1>3. ASSUME NEW t, claim = [owner |-> m, lease |-> oid[m], term |-> t], oid[m] \in live'
      PROVE  claim' = [owner |-> m, lease |-> oid'[m], term |-> t]
  <2>1. Mine(claim, m)
    BY <1>3, Zenon DEF Mine
  <2> QED BY <1>3, <2>1, Zenon
<1>4. (held[m] # 0 /\ oid[m] \in live => claim = [owner |-> m, lease |-> oid[m], term |-> held[m]])'
  BY <1>1, <1>3, Zenon DEF HeldAt
<1>5. (op[m].pc = "got" /\ oid[m] \in live => claim = [owner |-> m, lease |-> oid[m], term |-> op[m].res])'
  BY <1>1, <1>3, Zenon DEF HeldAt
<1> QED BY <1>2, <1>4, <1>5, Zenon DEF HeldAt

LEMMA LockedHoldsNothing == ASSUME HeldInv, NEW n \in Node, op[n].pc # "idle" PROVE held[n] = 0
<1>1. Idle.pc = "idle"
  BY Zenon DEF Idle
<1>2. Locked(n)
  BY <1>1, Zenon DEF Locked
<1> QED BY <1>2, Zenon DEF HeldInv, HeldAt

LEMMA EndHeld ==
    ASSUME TypeOK, HeldInv, NEW l, End(l), NEW m \in Node,
           oid'[m] = oid[m], held'[m] = held[m], op'[m] = op[m]
    PROVE  HeldAt(m)'
<1>1. oid[m] \in live' => oid[m] \in live /\ oid[m] # l
  BY Zenon DEF End
<1>2. oid[m] \in live' /\ Mine(claim, m) => claim' = claim
  BY <1>1, Zenon DEF End, Mine
<1> QED BY <1>1, <1>2, HeldFrame, Zenon

LEMMA NowLocked ==
    ASSUME TypeOK, NEW n \in Node, NEW pc \in {"try", "release"}, NEW by \in {"ensure", "reconcile"}, Lock(n, pc, by)
    PROVE  op'[n].pc # "got" /\ \A k \in Node : k # n => op'[k] = op[k]
BY Zenon DEF Lock, TypeOK

LEMMA TryHeld == ASSUME TypeOK, HeldInv, NEW n \in Node, Try(n), NEW m \in Node PROVE HeldAt(m)'
<1>1. /\ UNCHANGED <<live, oid, held>> /\ op[n].pc \in {"try", "retry"}
      /\ \A k \in Node : k # n => op'[k] = op[k]
  BY ZenonT(30) DEF Try, Answer, Lock, Unlock, TypeOK
<1>2. \A k \in Node : Mine(claim, k) => claim' = claim
  <2>1. \A k \in Node : ~Mine(NoClaim, k)
    BY NodeType, Zenon DEF Mine, NoClaim
  <2>2. claim # NoClaim => claim' = claim
    BY Zenon DEF Try, Created
  <2> QED BY <2>1, <2>2, Zenon
<1>3. CASE m # n
  BY <1>1, <1>2, <1>3, HeldFrame, Zenon
<1>4. CASE m = n
  <2>1. held[n] = 0 /\ held'[n] = 0
    BY <1>1, LockedHoldsNothing, Zenon
  <2>2. op'[n].pc = "got" => Mine(claim', n) /\ op'[n].res = claim'.term
    BY <1>1 DEF Try, Answer, Lock, Unlock, Idle, TypeOK
  <2>3. claim' \in ClaimType
    BY CreatedTypes, Zenon DEF Try
  <2>4. Mine(claim', n) => claim' = [owner |-> n, lease |-> oid[n], term |-> claim'.term]
    BY <2>3, NodeType DEF ClaimType, Mine, NoClaim
  <2> QED BY <1>1, <1>4, <2>1, <2>2, <2>4, Zenon DEF HeldAt
<1> QED BY <1>3, <1>4, Zenon

LEMMA HeldStep == ASSUME IInv, [Next]_vars PROVE HeldInv'
<1> USE DEF IInv
<1>0. SUFFICES ASSUME NEW m \in Node PROVE HeldAt(m)'
  BY Zenon DEF HeldInv
<1>1. CASE UNCHANGED <<live, claim, oid, held, op>>
  BY <1>1, HeldFrame, Zenon
<1>2. ASSUME NEW l \in Lease, Expire(l) PROVE HeldAt(m)'
  BY <1>2, EndHeld, Zenon DEF Expire, ownVars
<1>3. ASSUME NEW n \in Node, Register(n) PROVE HeldAt(m)'
  <2>1. UNCHANGED <<claim, oid, held, op>> /\ live' = live \cup {granted + 1}
    BY <1>3, Zenon DEF Register, ownVars
  <2>2. granted \in Nat /\ oid[m] \in 0 .. granted
    BY ConstTypes DEF TypeOK
  <2>3. oid[m] # granted + 1
    BY <2>2
  <2> QED BY <2>1, <2>3, HeldFrame, Zenon
<1>4. ASSUME NEW n \in Node, Rejoined(n) PROVE HeldAt(m)'
  <2>1. /\ ~Locked(n) /\ op' = op /\ held' = [held EXCEPT ![n] = 0] /\ oid' = [oid EXCEPT ![n] = lease[n]]
        /\ (End(other[n]) \/ UNCHANGED <<live, claim>>)
    BY <1>4, Zenon DEF Rejoined, SetLease
  <2>2. CASE m = n
    <3>1. held'[n] = 0 /\ op'[n] = Idle /\ Idle.pc # "got"
      BY <2>1, Zenon DEF Locked, Idle, TypeOK
    <3> QED BY <2>2, <3>1, Zenon DEF HeldAt
  <2>3. CASE m # n
    <3>1. oid'[m] = oid[m] /\ held'[m] = held[m] /\ op'[m] = op[m]
      BY <2>1, <2>3, Zenon DEF TypeOK
    <3> QED BY <2>1, <3>1, EndHeld, HeldFrame, Zenon
  <2> QED BY <2>2, <2>3, Zenon
<1>5. ASSUME NEW n \in Node, CloseRevoke(n) PROVE HeldAt(m)'
  BY <1>5, EndHeld, Zenon DEF CloseRevoke, ownVars
<1>6. ASSUME NEW n \in Node, DropStale(n) PROVE HeldAt(m)'
  <2>0. \/ op' = [op EXCEPT ![n] = [pc |-> "retry", by |-> op[n].by, res |-> 0]]
        \/ op' = [op EXCEPT ![n] = Idle]
    BY <1>6, Zenon DEF DropStale, Lock, Unlock
  <2>1. /\ UNCHANGED <<live, oid, held>> /\ op[n].pc = "stale" /\ op'[n].pc # "got"
        /\ \A k \in Node : k # n => op'[k] = op[k]
        /\ claim' = IF Stale(claim, n) THEN NoClaim ELSE claim
    <3>1. op \in [Node -> OpType]
      BY Zenon DEF TypeOK, OpType
    <3>2. op'[n].pc # "got"
      BY <2>0, <3>1 DEF Idle
    <3>3. \A k \in Node : k # n => op'[k] = op[k]
      BY <2>0, <3>1, Zenon
    <3> QED BY <1>6, <3>2, <3>3, Zenon DEF DropStale
  <2>2. \A k \in Node : Mine(claim, k) => claim' = claim
    BY <2>1, Zenon DEF Mine, Stale
  <2>3. held[n] = 0
    BY <2>1, LockedHoldsNothing, Zenon
  <2>4. CASE m = n
    BY <2>1, <2>3, <2>4, Zenon DEF HeldAt
  <2>5. CASE m # n
    BY <2>1, <2>2, <2>5, HeldFrame, Zenon
  <2> QED BY <2>4, <2>5, Zenon
<1>7. ASSUME NEW n \in Node, Release(n) PROVE HeldAt(m)'
  <2>1. /\ UNCHANGED <<live, oid, held>> /\ op[n].pc = "release" /\ op' = [op EXCEPT ![n] = Idle]
        /\ (claim' = claim \/ Mine(claim, n))
    BY <1>7, Zenon DEF Release, Unlock
  <2>2. held[n] = 0
    BY <2>1, LockedHoldsNothing, Zenon
  <2>3. CASE m = n
    BY <2>1, <2>2, <2>3, Zenon DEF HeldAt, Idle, TypeOK
  <2>4. CASE m # n
    BY <2>1, <2>4, HeldFrame, Zenon DEF Mine, TypeOK
  <2> QED BY <2>3, <2>4, Zenon
<1>8. ASSUME NEW n \in Node, EnsureRun(n) \/ ReconcileRun(n) PROVE HeldAt(m)'
  <2>1. /\ UNCHANGED <<live, claim, oid>>
        /\ \/ UNCHANGED <<op, held>>
           \/ /\ held'[n] = 0 /\ op'[n].pc # "got"
              /\ \A k \in Node : k # n => op'[k] = op[k] /\ held'[k] = held[k]
    <3>1. CASE EnsureRun(n)
      <4>1. UNCHANGED op \/ (held[n] = 0 /\ Lock(n, "try", "ensure"))
        BY <3>1, Zenon DEF EnsureRun
      <4>2. UNCHANGED <<live, claim, oid, held>>
        BY <3>1, Zenon DEF EnsureRun, etcdVars
      <4> QED BY <4>1, <4>2, NowLocked, Zenon
    <3>2. CASE ReconcileRun(n)
      <4>1. \/ UNCHANGED <<op, held>>
            \/ held[n] = 0 /\ held' = held /\ (Lock(n, "try", "reconcile") \/ Lock(n, "release", "reconcile"))
            \/ held' = [held EXCEPT ![n] = 0] /\ Lock(n, "release", "reconcile")
        BY <3>2, Zenon DEF ReconcileRun
      <4>2. UNCHANGED <<live, claim, oid>>
        BY <3>2, Zenon DEF ReconcileRun, etcdVars
      <4>3. held' = [held EXCEPT ![n] = 0] => held'[n] = 0 /\ \A k \in Node : k # n => held'[k] = held[k]
        BY ZenonT(30) DEF TypeOK
      <4> QED BY <4>1, <4>2, <4>3, NowLocked, Zenon
    <3> QED BY <1>8, <3>1, <3>2, Zenon
  <2>2. CASE m = n
    BY <2>1, <2>2, <1>1, Zenon DEF HeldAt
  <2>3. CASE m # n
    BY <2>1, <2>3, HeldFrame, Zenon
  <2> QED BY <2>2, <2>3, Zenon
<1>9. ASSUME NEW n \in Node, Acquired(n) PROVE HeldAt(m)'
  <2>1. /\ UNCHANGED <<live, claim, oid>> /\ op[n].pc = "got" /\ op' = [op EXCEPT ![n] = Idle]
        /\ (held' = held \/ held' = [held EXCEPT ![n] = op[n].res])
    BY <1>9, Zenon DEF Acquired, Unlock, etcdVars
  <2>2. HeldAt(n) /\ held[n] = 0
    BY <2>1, LockedHoldsNothing, Zenon DEF HeldInv
  <2>3. CASE m = n
    BY <2>1, <2>2, <2>3, ZenonT(30) DEF HeldAt, Locked, Idle, TypeOK
  <2>4. CASE m # n
    BY <2>1, <2>4, HeldFrame, ZenonT(30) DEF TypeOK
  <2> QED BY <2>3, <2>4, Zenon
<1>10. ASSUME NEW n \in Node, Restart(n) \/ CloseForget(n) PROVE HeldAt(m)'
  <2>1. /\ UNCHANGED <<live, claim>> /\ held' = [held EXCEPT ![n] = 0] /\ op' = [op EXCEPT ![n] = Idle]
        /\ \A k \in Node : k # n => oid'[k] = oid[k]
    BY <1>10, ZenonT(30) DEF Restart, CloseForget, Blank, etcdVars, TypeOK
  <2>2. CASE m = n
    BY <2>1, <2>2, ZenonT(30) DEF HeldAt, Locked, Idle, TypeOK
  <2>3. CASE m # n
    BY <2>1, <2>3, HeldFrame, ZenonT(30) DEF TypeOK
  <2> QED BY <2>2, <2>3, Zenon
<1>11. ASSUME NEW n \in Node, \/ KeepAlive(n) \/ Follow(n) \/ Lost(n) \/ RegisterFails(n) \/ Registered(n)
                              \/ EnsureCall(n) \/ ReconcileCall(n) \/ RingChange(n) \/ CloseDrained(n)
       PROVE  HeldAt(m)'
  BY Zenon, <1>1, <1>11 DEF KeepAlive, Follow, Lost, RegisterFails, Registered, EnsureCall, ReconcileCall, RingChange,
                     CloseDrained, etcdVars, ownVars
<1>12. CASE Tick
  BY <1>1, <1>12, Zenon DEF Tick, ownVars
<1>13. CASE UNCHANGED vars
  BY <1>1, <1>13, Zenon DEF vars, etcdVars, ownVars
<1> QED BY <1>2, <1>3, <1>4, <1>5, <1>6, <1>7, <1>8, <1>9, <1>10, <1>11, <1>12, <1>13, TryHeld, Zenon
        DEF Next, Membership, Call
-----------------------------------------------------------------------------
(* The theorems.                                                           *)

LEMMA InitInv == ASSUME Init PROVE IInv
<1>1. TypeOK
  BY InitTypes, Zenon
<1>2. LeaseInv
  BY Zenon DEF Init, LeaseInv, Uses
<1>3. FenceInv
  BY Zenon DEF Init, FenceInv, FenceAt
<1>4. HeldInv
  BY Zenon DEF Init, HeldInv, HeldAt, Locked, Idle
<1>5. TermInv
  BY Zenon DEF Init, TermInv
<1> QED BY <1>1, <1>2, <1>3, <1>4, <1>5, Zenon DEF IInv

LEMMA InvStep == ASSUME IInv, [Next]_vars PROVE IInv'
BY TypeStep, LeaseStep, FenceStep, HeldStep, TermStep, Zenon DEF IInv

LEMMA InvHolds == Spec => []IInv
BY InitInv, InvStep, PTL DEF Spec

\* The state of etcd and of every node's membership and ownership stays well typed.
THEOREM OwnershipTypes == Spec => []TypeOK
<1>1. IInv => TypeOK
  BY Zenon DEF IInv
<1> QED BY <1>1, InvHolds, PTL

\* A node that is registered and inside its fence window.
Trusting(n) == mem[n] = "in" /\ window[n] # 0

LEMMA ReadsTrusting == ASSUME NEW n \in Node PROVE Reads(n) /\ ~Closing(n) <=> Trusting(n) /\ held[n] # 0
BY Zenon DEF Reads, Fenced, Closing, Trusting

LEMMA TrustedClaim ==
    ASSUME IInv, NEW n \in Node, Trusting(n), held[n] # 0
    PROVE  /\ claim = [owner |-> n, lease |-> lease[n], term |-> held[n]] /\ lease[n] \in live /\ oid[n] = lease[n]
           /\ held[n] = rev
<1> USE DEF IInv
<1>1. window[n] > 0
  BY ConstTypes, SMTT(30) DEF Trusting, TypeOK
<1>2. lease[n] \in live
  BY <1>1, Zenon DEF FenceInv, FenceAt, Trusting
<1>3. oid[n] = lease[n]
  BY Zenon DEF LeaseInv, Trusting
<1>4. claim = [owner |-> n, lease |-> lease[n], term |-> held[n]]
  BY <1>2, <1>3, Zenon DEF HeldInv, HeldAt
<1>5. claim # NoClaim
  BY <1>4, NodeType, Zenon DEF NoClaim
<1> QED BY <1>2, <1>3, <1>4, <1>5, Zenon DEF TermInv

\* Whatever etcd delays, whatever leases run out and whoever restarts, a term that
\* Ownership.Term reports is backed by a live claim of that node and that term.
THEOREM ClaimBackedHolds == Spec => []ClaimBacked
<1>1. IInv => ClaimBacked
  BY ReadsTrusting, TrustedClaim, Zenon DEF ClaimBacked
<1> QED BY <1>1, InvHolds, PTL

\* A claim that goes away is one nobody was reading.
LEMMA FreedUnread ==
    ASSUME IInv, [Next]_vars, claim # NoClaim, claim' = NoClaim, NEW m \in Node, claim.owner = m
    PROVE  ~(Trusting(m) /\ held[m] # 0)
<1> USE DEF IInv
<1>0. SUFFICES ASSUME Trusting(m), held[m] # 0 PROVE FALSE
  BY Zenon
<1>1. claim.owner = m /\ claim.lease = lease[m] /\ lease[m] \in live /\ oid[m] = lease[m]
  BY <1>0, TrustedClaim
<1>2. lease[m] \in Lease /\ lease[m] # 0 /\ Uses(m, lease[m])
  BY <1>1, LiveLeases, Zenon DEF Uses
<1>3. ASSUME NEW l \in Lease, Expire(l) PROVE FALSE
  <2>1. claim.lease = l /\ left[l] = 0
    BY <1>3, Zenon DEF Expire, End
  <2>2. window[m] = 0
    BY <1>0, <1>1, <2>1, ExpiredUntrusted, Zenon DEF Trusting
  <2> QED BY <1>0, <2>2, Zenon DEF Trusting
<1>4. ASSUME NEW n \in Node, Rejoined(n) PROVE FALSE
  <2>1. mem[n] = "rebind" /\ claim.lease = other[n]
    BY <1>4, Zenon DEF Rejoined, End
  <2>2. Uses(n, lease[m])
    BY <1>1, <1>2, <2>1, Zenon DEF Uses
  <2>3. m = n
    BY <1>2, <2>2, Zenon DEF LeaseInv
  <2> QED BY <1>0, <2>1, <2>3, Zenon DEF Trusting
<1>5. ASSUME NEW n \in Node, CloseRevoke(n) PROVE FALSE
  <2>1. mem[n] = "closing" /\ claim.lease = lease[n]
    BY <1>5, Zenon DEF CloseRevoke, End
  <2>2. Uses(n, lease[m])
    BY <1>1, <1>2, <2>1, Zenon DEF Uses
  <2>3. m = n
    BY <1>2, <2>2, Zenon DEF LeaseInv
  <2> QED BY <1>0, <2>1, <2>3, Zenon DEF Trusting
<1>6. ASSUME NEW n \in Node, DropStale(n) PROVE FALSE
  <2>1. claim.owner = n /\ claim.lease # oid[n]
    BY <1>6, Zenon DEF DropStale, Stale
  <2> QED BY <1>1, <2>1, Zenon
<1>7. ASSUME NEW n \in Node, Release(n) PROVE FALSE
  <2>1. op[n].pc = "release" /\ claim.owner = n
    BY <1>7, Zenon DEF Release, Mine
  <2>2. held[n] = 0
    BY <2>1, LockedHoldsNothing, Zenon
  <2> QED BY <1>0, <2>1, <2>2, Zenon
<1>8. ASSUME NEW n \in Node, Try(n) PROVE FALSE
  BY <1>8, Zenon DEF Try, Created
<1>9. ASSUME NEW n \in Node, EnsureCall(n) \/ EnsureRun(n) \/ ReconcileCall(n) \/ ReconcileRun(n) \/ Acquired(n)
      PROVE  FALSE
  BY <1>9, Zenon DEF EnsureCall, EnsureRun, ReconcileCall, ReconcileRun, Acquired, etcdVars
<1>10. ASSUME NEW n \in Node, RingChange(n) \/ Restart(n) \/ CloseDrained(n) \/ CloseForget(n) PROVE FALSE
  BY <1>10, Zenon DEF RingChange, Restart, CloseDrained, CloseForget, etcdVars
<1>11. ASSUME NEW n \in Node, KeepAlive(n) \/ Follow(n) \/ Lost(n) \/ Register(n) \/ RegisterFails(n) \/ Registered(n)
       PROVE  FALSE
  BY <1>11, Zenon DEF KeepAlive, Follow, Lost, Register, RegisterFails, Registered, etcdVars
<1>12. CASE Tick
  BY <1>12, Zenon DEF Tick
<1>13. CASE UNCHANGED vars
  BY <1>13, Zenon DEF vars, etcdVars
<1> QED BY <1>3, <1>4, <1>5, <1>6, <1>7, <1>8, <1>9, <1>10, <1>11, <1>12, <1>13, Zenon DEF Next, Membership, Call

\* The term the refinement gives each node.
Seen == [n \in Node |-> IF Reads(n) /\ ~Closing(n) THEN held[n] ELSE 0]

Backed == Seen \in [Node -> Nat] /\ \A n \in Node : Seen[n] # 0 => claim.owner = n /\ Seen[n] = rev

LEMMA SeenBacked == ASSUME IInv PROVE Backed
<1>1. Seen \in [Node -> Nat]
  BY Zenon DEF Seen, IInv, TypeOK
<1>2. ASSUME NEW n \in Node, Seen[n] # 0 PROVE claim.owner = n /\ Seen[n] = rev
  <2>1. Trusting(n) /\ held[n] # 0 /\ Seen[n] = held[n]
    BY <1>2, ReadsTrusting, Zenon DEF Seen
  <2> QED BY <2>1, TrustedClaim
<1> QED BY <1>1, <1>2, Zenon DEF Backed

LEMMA ClaimStep == ASSUME IInv, Backed, Backed', [Next]_vars PROVE [C!Next]_<<claim.owner, rev, Seen>>
<1> USE NodeType
<1>0. /\ Seen \in [Node -> Nat] /\ \A n \in Node : Seen[n] # 0 => claim.owner = n /\ Seen[n] = rev
      /\ Seen' \in [Node -> Nat] /\ \A n \in Node : Seen'[n] # 0 => claim'.owner = n /\ Seen'[n] = rev'
  BY Zenon DEF Backed
<1>1. CASE claim' = claim /\ rev' = rev
  <2>1. CASE Seen' = Seen
    BY <1>1, <2>1, Zenon
  <2>2. ASSUME NEW n \in Node, Seen'[n] # Seen[n] PROVE C!Read(n) \/ C!Fence(n)
    <3>1. claim.owner = n /\ \A k \in Node : k # n => Seen[k] = 0 /\ Seen'[k] = 0
      BY <1>0, <1>1, <2>2, Zenon
    <3>2. CASE Seen[n] = 0
      <4>1. Seen' = [Seen EXCEPT ![n] = rev]
        BY <1>0, <1>1, <2>2, <3>1, <3>2, Zenon
      <4> QED BY <1>1, <3>1, <3>2, <4>1, Zenon DEF C!Read, Seen
    <3>3. CASE Seen[n] # 0
      <4>1. Seen' = [Seen EXCEPT ![n] = 0]
        BY <1>0, <1>1, <2>2, <3>1, <3>3, ZenonT(30)
      <4> QED BY <1>1, <3>1, <3>3, <4>1, Zenon DEF C!Fence, Seen
    <3> QED BY <3>2, <3>3, Zenon
  <2>3. Seen' = Seen \/ \E n \in Node : Seen'[n] # Seen[n]
    BY <1>0
  <2> QED BY <2>1, <2>2, <2>3, Zenon DEF C!Next
<1>2. CASE claim' = NoClaim /\ rev' = rev /\ claim # NoClaim
  <2>1. claim.owner \in Node
    BY <1>2, Zenon DEF IInv, TypeOK
  <2>2. Seen[claim.owner] = 0
    BY <1>2, <2>1, FreedUnread, ReadsTrusting, Zenon DEF Seen
  <2>3. Seen' = Seen
    <3>1. \A n \in Node : Seen[n] = 0 /\ Seen'[n] = 0
      BY <1>0, <1>2, <2>2, Zenon DEF NoClaim
    <3> QED BY <1>0, <3>1
  <2>4. C!Free
    BY <1>2, <2>1, <2>2, <2>3, Zenon DEF C!Free, NoClaim, Seen
  <2> QED BY <2>4, Zenon DEF C!Next
<1>3. ASSUME NEW n \in Node, claim = NoClaim, rev' = rev + 1, UNCHANGED <<mem, window, held>>,
             claim' = [owner |-> n, lease |-> oid[n], term |-> rev + 1]
      PROVE  C!Next
  <2>1. Seen' = Seen
    BY <1>3, Zenon DEF Seen, Reads, Fenced, Closing
  <2>2. rev \in Nat
    BY Zenon DEF IInv, TypeOK
  <2>3. claim.owner = None /\ claim'.owner = n /\ rev' \in Nat /\ rev' > rev
    BY <1>3, <2>2 DEF NoClaim
  <2>4. C!Grant(n)
    BY <2>1, <2>3, Zenon DEF C!Grant, Seen
  <2> QED BY <2>4, Zenon DEF C!Next
<1>4. TypeOK
  BY Zenon DEF IInv
<1> QED BY <1>1, <1>2, <1>3, <1>4, ClaimMoves, Zenon

\* To whoever reads Ownership.Term, the leases, the fences and the transactions on
\* the owners/ key are one claim, granted to one node at a time under rising terms
\* and freed only when nobody reads it.
THEOREM ImplementsClaim == Spec => Claimed
<1>1. Init => C!Init
  BY DEF Init, C!Init, NoClaim, Reads
<1>2. IInv => Backed
  BY SeenBacked, Zenon
<1>3. IInv /\ Backed /\ Backed' /\ [Next]_vars => [C!Next]_<<claim.owner, rev, Seen>>
  BY ClaimStep, Zenon
<1> QED BY <1>1, <1>2, <1>3, InvHolds, PTL DEF Spec, Claimed, C!Spec, Seen
=============================================================================
