------------------------------ MODULE MCFleet ------------------------------
(* Two hosts with room for two instances each and a hub group of at most   *)
(* three instances: with one host drained the other one can be full.       *)
EXTENDS Fleet, TLC

MCRequest == [cpu |-> 1, memory |-> 2]
MCSizes == {[cpu |-> 2, memory |-> 5]}
Symmetry == Permutations(Hosts) \cup Permutations(Instances)
=============================================================================
