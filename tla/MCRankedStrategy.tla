--------------------------- MODULE MCRankedStrategy --------------------------
(* Four users and four buckets of two rating points, 4 .. 9 and above.     *)
EXTENDS RankedStrategy, TLC

CONSTANTS u1, u2, u3, u4

Symmetry == Permutations(Users)
=============================================================================
