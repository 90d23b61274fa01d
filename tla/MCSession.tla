------------------------------ MODULE MCSession ------------------------------
(* A session with a backlog of two messages and two outside closers.       *)
EXTENDS Session, TLC

CONSTANTS manager, shutdown

Symmetry == Permutations(Callers)
=============================================================================
