----------------------------- MODULE MCHandoff -----------------------------
(* Small instances of Handoff for TLC. *)
EXTENDS Handoff, TLC

MCSender == [t \in Turns |-> CHOOSE k \in Customers : TRUE]

Symmetry == Permutations(Turns) \cup Permutations(Requests) \cup Permutations(Convs)
=============================================================================
