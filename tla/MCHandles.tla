------------------------------ MODULE MCHandles ------------------------------
(* Handles on small instances; handles, flags and call slots are alike.     *)
EXTENDS Handles, TLC

\* Every method; of the two generations the one with a sink to tell.
Everything == ({"open"} \cup Methods) \ {"generate"}

\* Generations alone: every cancel comes from the drop of a future.
Dropping == {"open", "generate"}

Symmetry == Permutations(Handles) \cup Permutations(Cores)
                \cup Permutations(Calls)
=============================================================================
