-------------------------------- MODULE Claim --------------------------------
(***************************************************************************)
(* What the ownership of a shard promises the engines that commit under    *)
(* it: terms are granted to one node at a time and never go back, a node   *)
(* reads a term only while the claim is its own, and it may stop and       *)
(* resume reading it.  Ownership implements it; SharedIndex relies on it.  *)
(***************************************************************************)
EXTENDS Naturals

CONSTANTS Node, None

VARIABLES
    owner,      \* whose claim the coordination service holds
    lastTerm,   \* the term of the last claim granted
    term        \* what each node reads as its term, 0 for none

Init == owner = None /\ lastTerm = 0 /\ term = [n \in Node |-> 0]

Grant(n) ==
    /\ owner = None /\ owner' = n
    /\ lastTerm' \in Nat /\ lastTerm' > lastTerm
    /\ UNCHANGED term

Read(n) ==
    /\ owner = n /\ term[n] = 0
    /\ term' = [term EXCEPT ![n] = lastTerm]
    /\ UNCHANGED <<owner, lastTerm>>

Fence(n) ==
    /\ term[n] # 0
    /\ term' = [term EXCEPT ![n] = 0]
    /\ UNCHANGED <<owner, lastTerm>>

Free ==
    /\ owner # None /\ term[owner] = 0
    /\ owner' = None
    /\ UNCHANGED <<lastTerm, term>>

Next == Free \/ \E n \in Node : Grant(n) \/ Read(n) \/ Fence(n)

Spec == Init /\ [][Next]_<<owner, lastTerm, term>>
=============================================================================
