----------------------------- MODULE MCForkPools -----------------------------
(* Instances of ForkPools for TLC. *)
EXTENDS ForkPools, TLC

CONSTANTS worker, child1, child2, i1, i2, c1, c2, c3

Processes    == {worker, child1, child2}
TwoInstances == {i1, i2}
Connections  == {c1, c2, c3}

Interchangeable ==
    Permutations({child1, child2}) \cup Permutations(TwoInstances) \cup Permutations(Connections)
=============================================================================
