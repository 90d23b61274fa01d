---------------------------- MODULE MCMatchMaker -----------------------------
(* A few users, one of them with two connections, and one or two queues.   *)
EXTENDS MatchMaker, TLC

CONSTANTS u1, u2, u3, s1, s2, s3, t1, duel, trio

TwoUsers == {u1, u2}
ThreeUsers == {u1, u2, u3}

\* One connection each.
OneEachOfThree == (s1 :> u1) @@ (s2 :> u2) @@ (s3 :> u3)

\* The first user connects a second time.
SecondConnection == (s1 :> u1) @@ (s2 :> u2) @@ (t1 :> u1)

\* Users with one connection are alike: swap them together with their connections.
Single == {u \in Users : Cardinality({s \in Sessions : Owner[s] = u}) = 1}
Symmetry ==
    {p @@ [s \in {x \in Sessions : Owner[x] \in Single} |->
                CHOOSE r \in Sessions : Owner[r] = p[Owner[s]]] :
        p \in Permutations(Single)}

Sizes == [m \in Modes |-> IF m = trio THEN 3 ELSE 2]
=============================================================================
