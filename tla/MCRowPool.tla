----------------------------- MODULE MCRowPool -----------------------------
(* RowPool for TLC: small pools, with one slow core.                       *)
EXTENDS RowPool, TLC

CONSTANTS c1, c2

(* Worker 1 sits on a slow core and claims half a chunk.                   *)
MCWeight == [t \in 0 .. NumThreads - 1 |-> IF t = 1 THEN 1 ELSE 2]

CallerSymmetry == Permutations(Callers)
=============================================================================
