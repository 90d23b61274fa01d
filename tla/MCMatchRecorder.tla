--------------------------- MODULE MCMatchRecorder ---------------------------
(* Two ranked matches of the same two users, the second with the sides     *)
(* swapped, and a casual match.                                            *)
EXTENDS MatchRecorder, TLC

CONSTANTS alice, bob, first, second, casual

UserIds == [m \in Matches |-> IF m = second THEN <<bob, alice>> ELSE <<alice, bob>>]
=============================================================================
