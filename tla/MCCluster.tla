------------------------------ MODULE MCCluster ------------------------------
(* Instances of Cluster.  Two peers share a hash value, and one of their   *)
(* virtual nodes is the first of the ring and another the last.            *)
EXTENDS Cluster

MCVHash == (1 :> <<0, 3>> @@ 2 :> <<3, 5>> @@ 3 :> <<2, 4>>)

(* Three peers that fill the ring, memory being short; two that come and   *)
(* go; one that comes and goes while this node may leave; two joins, of    *)
(* which parts may fail.                                                   *)
MCNets ==
  { [peers |-> {1, 2, 3}, joins |-> 1, leaves |-> FALSE, fails |-> {"alloc"}, cap |-> 3,
     aging |-> FALSE],
    [peers |-> {1, 2}, joins |-> 1, leaves |-> FALSE, fails |-> {}, cap |-> 2, aging |-> TRUE],
    [peers |-> {1}, joins |-> 1, leaves |-> TRUE, fails |-> {"alloc"}, cap |-> 1, aging |-> TRUE],
    [peers |-> {1}, joins |-> 2, leaves |-> TRUE, fails |-> {"thread", "socket"}, cap |-> 1,
     aging |-> FALSE] }

Spec == Safe /\ Fairness(4)

(* SilentForgotten for one of the peers: they differ in their hashes,      *)
(* which the member list does not look at (gossip.c mb_gossip_tick).       *)
Forgotten == SilentForgotten({1})
=============================================================================
