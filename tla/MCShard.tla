------------------------------ MODULE MCShard ------------------------------
(* Shard for TLC.  Three small shards: one with two owners, as the cfg gives   *)
(* it; one with three, the default replication factor; and one with two owners *)
(* and a late third row.  `which` says which one a behaviour is of.            *)
EXTENDS Shard, TLC

CONSTANTS a, b, c, d, Shards

VARIABLE which

TwoOwners == <<a, d>>
TwoTimes == <<1, 2>>
ThreeTimes == <<1, 2, 3>>

\* Three owners, of which two must have the one row.
Triple == INSTANCE Shard WITH Node <- {a, b, c}, Ring <- <<a, b, c>>, Time <- <<1>>, MaxFault <- 2, MaxDrop <- 1

\* A third row as old as the first.  WholeAnswers says nothing of it, so for the first two rows it
\* is what it is for a shard that writes no third.
Late == INSTANCE Shard WITH Node <- {a, d}, Ring <- <<a, d>>, Time <- <<1, 2, 1>>, MaxFault <- 1, MaxDrop <- 0

MCInit ==
    /\ which \in Shards
    /\ CASE which = "pair" -> Init [] which = "triple" -> Triple!Init [] which = "late" -> Late!Init

MCNext ==
    /\ \/ which = "pair" /\ Next
       \/ which = "triple" /\ Triple!Next
       \/ which = "late" /\ Late!Next
    /\ UNCHANGED which

MCSpec == MCInit /\ [][MCNext]_<<vars, which>>

\* Nothing tells the two replicas of the three, or the two nodes that own nothing, apart.
Replicas == Permutations({b, c})
=============================================================================
