------------------------------- MODULE MCMac -------------------------------
(* Mac on small instances. *)
EXTENDS Mac, TLC

CONSTANTS a, b

NodeIdSymmetry == Permutations(Nodes) \union Permutations(Ids)

\* Frames each node may send.
TwoEach  == [n \in Nodes |-> 2]
OnlyA    == [n \in Nodes |-> IF n = a THEN 2 ELSE 0]
=============================================================================
