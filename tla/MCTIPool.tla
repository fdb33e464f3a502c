------------------------------ MODULE MCTIPool ------------------------------
(* The thread item pool on small instances.                                *)
EXTENDS TIPool, TLC

\* The behaviour does not depend on which thread or which address is which.
Symmetry == Permutations(Threads) \cup Permutations(Items)

\* Every thread asks for an interpreter twice.
TwiceEach == [t \in Threads |-> 2]

=============================================================================
