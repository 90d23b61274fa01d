---------------------------- MODULE MatchOutcome -----------------------------
(***************************************************************************)
(* What a match promises to the rest of the server: players leave and do   *)
(* not come back, each one takes the lowest place that is still free, the  *)
(* phases only go forward, and when at most one player is left a complete  *)
(* ranking is published, once.  Nothing is said of turns, clocks, commands *)
(* or threads.                                                             *)
(***************************************************************************)
EXTENDS Integers, Sequences, FiniteSets

CONSTANT Players

VARIABLES phase, alive, place, published

outcome == <<phase, alive, place, published>>

Gone == Players \ alive

Init ==
    /\ phase = "Setup"
    /\ alive = Players
    /\ place = [p \in {} |-> 0]
    /\ published = <<>>

\* The players in S leave and share out the next free places.
Leave(S) ==
    /\ S \subseteq alive
    /\ alive' = alive \ S
    /\ DOMAIN place' = Gone \cup S
    /\ \A p \in Gone : place'[p] = place[p]
    /\ \A p \in S : place'[p] \in Cardinality(Gone) .. Cardinality(Gone \cup S) - 1
    /\ \A p, q \in S : p # q => place'[p] # place'[q]

\* The survivor, if there is one, comes last.
Ranking == [p \in Players |-> IF p \in alive' THEN Cardinality(Gone') ELSE place'[p]]

Continue ==
    /\ phase # "Concluded"
    /\ phase' \in {"Play", phase}
    /\ \E S \in SUBSET alive : Leave(S)
    /\ published' = published

Conclude ==
    /\ phase # "Concluded"
    /\ phase' = "Concluded"
    /\ \E S \in SUBSET alive : Leave(S)
    /\ Cardinality(alive') <= 1
    /\ published' = Append(published, Ranking)

Next == Continue \/ Conclude

Spec == Init /\ [][Next]_outcome

=============================================================================
