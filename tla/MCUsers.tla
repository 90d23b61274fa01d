------------------------------ MODULE MCUsers -------------------------------
(* Two users and three connections, one of them from an address whose ban   *)
(* has run out.                                                             *)
EXTENDS Users, TLC

CONSTANTS a, b, s1, s2, s3, home, away, m1, m2

MCIp == (s1 :> home) @@ (s2 :> home) @@ (s3 :> away)

Start(online, friends, requests, blocked, expired, forfeited) ==
    [online |-> online, forfeited |-> forfeited,
     db |-> [accounts |-> Range(online), friends |-> friends, requests |-> requests,
             blocked |-> blocked, bans |-> {},
             ips |-> [i \in IPs |-> IF i \in expired THEN "expired" ELSE "none"]]]

\* Friends, who have given up a match; a request that waits; a block; and a name
\* that is free, with an address whose ban has run out.
MCStarts ==
    LET both == (s1 :> a) @@ (s2 :> b)
    IN  {Start(both, {{a, b}}, {}, {}, {}, {m1}),
         Start(both, {}, {<<a, b>>}, {}, {}, {}),
         Start(both, {}, {}, {<<a, b>>}, {}, {}),
         Start(s1 :> a, {}, {}, {}, {away}, {})}
=============================================================================
