--------------------------- MODULE MCKeyedExecutor ---------------------------
(* Two users and a handful of database jobs.                               *)
EXTENDS KeyedExecutor, TLC

CONSTANTS alice, bob

Symmetry == Permutations({alice, bob})
=============================================================================
