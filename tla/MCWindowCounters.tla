-------------------------- MODULE MCWindowCounters --------------------------
(* Constants for model-checking WindowCounters. *)
EXTENDS WindowCounters, TLC

MCLimit == [s \in Scopes |-> 2]
ClientSymmetry == Permutations(Clients)
=============================================================================
