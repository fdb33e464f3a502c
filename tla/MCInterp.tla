------------------------------ MODULE MCInterp ------------------------------
(* Interpreter selection on small instances, where threads are numbers.    *)
EXTENDS Interp, TLC

\* The behaviour does not depend on which address is which.
Symmetry == Permutations(Items)

\* One thread goes deep, and the other one competes with it.
OneDeep == [t \in Threads |-> IF t = 1 THEN 6 ELSE 2]

=============================================================================
