--------------------------- MODULE MCMatchInstance ---------------------------
(* Small instances of MatchInstance for TLC.                               *)
EXTENDS MatchInstance
=============================================================================
