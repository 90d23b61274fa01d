----------------------------- MODULE MatchMaker ------------------------------
(***************************************************************************)
(* The match maker of the server (match-maker.h, .cpp) with its casual     *)
(* queues (CasualTwo/Three/FivePlayerStrategy of match-strategy.cpp).      *)
(*                                                                         *)
(* Three kinds of thread of control meet here:                             *)
(*   - Server::on_message calls enqueue() and cancel() on the strand of    *)
(*     the session the request came from, and remove_session calls         *)
(*     cancel() on the server's strand; both read and write the            *)
(*     uuid_to_gamemode_ and uuid_to_match_ maps there and then;           *)
(*   - each strategy handles its queue on a strand of its own;             *)
(*   - matches are made, forfeited and forgotten on global_strand_.        *)
(* A strand is a FIFO queue of handlers.  Matches are abstracted to who is *)
(* in them: MatchInstance.tla says what they do.                           *)
(***************************************************************************)
EXTENDS Integers, Sequences, FiniteSets

CONSTANTS
    Users,
    Sessions,           \* connections
    Owner,              \* Owner[s] is the user that logs in on session s
    Modes, NoMode,      \* casual game modes, and GameMode::NO_MODE
    Size,               \* Size[mode] is players_for_gamemode
    MaxMatches,         \* bound: matches made
    MaxRequests,        \* bound: requests handled
    MayCancel,          \* whether users send CancelMatch
    MayForfeit,         \* whether users send ForfeitMatch
    MayClose            \* whether connections are lost or replaced

ASSUME MatchMakerAssumption ==
    /\ Owner \in [Sessions -> Users]
    /\ NoMode \notin Modes
    /\ Size \in [Modes -> Nat \ {0, 1}]
    /\ MaxMatches \in Nat /\ MaxRequests \in Nat
    /\ MayCancel \in BOOLEAN /\ MayForfeit \in BOOLEAN /\ MayClose \in BOOLEAN

Matches == 1 .. MaxMatches
None == 0                   \* no match mapped

VARIABLES
    session,            \* "new", "live" (logged in) or "closed"
    removals,           \* sessions whose remove_session waits on the server strand
    checked,            \* the mode of an enqueue() that has passed its first check
    uuid_to_gamemode_,
    uuid_to_match_,
    queue_, lookup_,    \* per mode: the strategy's deque and lookup set
    strategy_strand,    \* per mode: handlers of the strategy
    global_strand_,
    live_matches_,
    players_,           \* per match: the users it was made for
    playing,            \* per match: those of them that have not forfeited it
    concluded,          \* matches that have called results_callback_
    next_match_id_,
    requests

maps == <<uuid_to_gamemode_, uuid_to_match_>>
strategies == <<queue_, lookup_, strategy_strand>>
games == <<live_matches_, players_, playing, concluded, next_match_id_>>
vars == <<session, removals, checked, maps, strategies, global_strand_, games, requests>>

-----------------------------------------------------------------------------

Init ==
    /\ session = [s \in Sessions |-> "new"]
    /\ removals = {}
    /\ checked = [s \in Sessions |-> NoMode]
    /\ uuid_to_gamemode_ = [u \in Users |-> NoMode]
    /\ uuid_to_match_ = [u \in Users |-> None]
    /\ queue_ = [mode \in Modes |-> <<>>]
    /\ lookup_ = [mode \in Modes |-> {}]
    /\ strategy_strand = [mode \in Modes |-> <<>>]
    /\ global_strand_ = <<>>
    /\ live_matches_ = {}
    /\ players_ = [m \in Matches |-> {}]
    /\ playing = [m \in Matches |-> {}]
    /\ concluded = {}
    /\ next_match_id_ = 0
    /\ requests = 0

\* Slip: keyed by connection.
sessions_of(players) == {players[i] : i \in 1 .. Len(players)}

users_of(players) == {Owner[players[i]] : i \in 1 .. Len(players)}

\* Handlers of global_strand_: make a match of `players`, forfeit for the user of
\* players[1], or take the results of match m.
handler(op, players, m) == [op |-> op, players |-> players, m |-> m]

-----------------------------------------------------------------------------
(* Sessions.                                                               *)

\* A user logs in; UserManager::on_login closes the session it replaces.
Login(s) ==
    LET replaced == {r \in Sessions : Owner[r] = Owner[s] /\ session[r] = "live"}
    IN  /\ session[s] = "new"
        /\ replaced # {} => MayClose
        /\ session' = [r \in Sessions |-> IF r = s THEN "live"
                                          ELSE IF r \in replaced THEN "closed"
                                          ELSE session[r]]
        /\ removals' = removals \cup replaced
        /\ UNCHANGED <<checked, maps, strategies, global_strand_, games, requests>>

\* Session::close_session: is_live() is false from here on.
CloseSession(s) ==
    /\ MayClose /\ session[s] = "live"
    /\ session' = [session EXCEPT ![s] = "closed"]
    /\ removals' = removals \cup {s}
    /\ UNCHANGED <<checked, maps, strategies, global_strand_, games, requests>>

\* Server::remove_session: cancel() for every mode, whoever of the user's sessions
\* had queued.
RemoveSession(s) ==
    /\ s \in removals
    /\ removals' = removals \ {s}
    /\ uuid_to_gamemode_' = [uuid_to_gamemode_ EXCEPT ![Owner[s]] = NoMode]
    /\ strategy_strand' = [mode \in Modes |->
                            Append(strategy_strand[mode], [op |-> "cancel", s |-> s])]
    /\ UNCHANGED <<session, checked, uuid_to_match_, queue_, lookup_,
                   global_strand_, games, requests>>

-----------------------------------------------------------------------------
(* Requests, on the session's strand.                                      *)

Request(s) ==
    /\ session[s] = "live" /\ checked[s] = NoMode
    /\ requests < MaxRequests
    /\ requests' = requests + 1

\* enqueue(): the user is not in a match (the answer is BadQueue otherwise) ...
EnqueueCheck(s, mode) ==
    /\ Request(s)
    /\ checked' = [checked EXCEPT ![s] = IF uuid_to_match_[Owner[s]] = None
                                         THEN mode ELSE NoMode]
    /\ UNCHANGED <<session, removals, maps, strategies, global_strand_, games>>

\* ... nor in a queue; then remember the mode and hand over to the strategy.
Enqueue(s) ==
    LET u == Owner[s]
        mode == checked[s]
    IN  /\ mode # NoMode
        /\ checked' = [checked EXCEPT ![s] = NoMode]
        /\ IF uuid_to_gamemode_[u] # NoMode
           THEN UNCHANGED <<uuid_to_gamemode_, strategy_strand>>
           ELSE /\ uuid_to_gamemode_' = [uuid_to_gamemode_ EXCEPT ![u] = mode]
                /\ strategy_strand' = [strategy_strand EXCEPT
                        ![mode] = Append(@, [op |-> "enqueue", s |-> s])]
        /\ UNCHANGED <<session, removals, uuid_to_match_, queue_, lookup_,
                       global_strand_, games, requests>>

\* cancel(): the mode is the one the request names.  The BadCancel answer posted to
\* global_strand_ changes nothing.
Cancel(s, mode) ==
    /\ MayCancel /\ Request(s)
    /\ uuid_to_gamemode_' = [uuid_to_gamemode_ EXCEPT ![Owner[s]] = NoMode]
    /\ strategy_strand' = [strategy_strand EXCEPT
                            ![mode] = Append(@, [op |-> "cancel", s |-> s])]
    /\ UNCHANGED <<session, removals, checked, uuid_to_match_, queue_, lookup_,
                   global_strand_, games>>

Forfeit(s) ==
    /\ MayForfeit /\ Request(s)
    /\ global_strand_' = Append(global_strand_, handler("forfeit", <<s>>, None))
    /\ UNCHANGED <<session, removals, checked, maps, strategies, games>>

-----------------------------------------------------------------------------
(* The strategies, on their strands.                                       *)

\* Slip: a queue of just enough players forms no match.
group_count_strict(q, n) == (Len(q) - 1) \div n

\* try_form_match: groups of Size[mode] are popped from the front of the queue.
group_count(q, n) == Len(q) \div n
groups(q, n) == [i \in 1 .. group_count(q, n) |-> SubSeq(q, (i - 1) * n + 1, i * n)]

\* Slip: the players of a match are not popped.
rest_all(q, n) == q

rest(q, n) == SubSeq(q, group_count(q, n) * n + 1, Len(q))

\* Slip: the lookup is not consulted.
never_queued(u, mode) == FALSE

queued(u, mode) == u \in lookup_[mode]

\* Slip: cancel() forgets the deque.
keep_all(q, u) == q

\* The queue without the entries of user u: the n-th of those kept moves to place n.
without(q, u) ==
    LET kept == {i \in 1 .. Len(q) : Owner[q[i]] # u}
        nth(n) == CHOOSE i \in kept : Cardinality({h \in kept : h <= i}) = n
    IN  [n \in 1 .. Cardinality(kept) |-> q[nth(n)]]

StrategyEnqueue(mode) ==
    LET h == Head(strategy_strand[mode])
        u == Owner[h.s]
        q == Append(queue_[mode], h.s)
        formed == groups(q, Size[mode])
        left == rest(q, Size[mode])
    IN  /\ strategy_strand[mode] # <<>> /\ h.op = "enqueue"
        /\ strategy_strand' = [strategy_strand EXCEPT ![mode] = Tail(@)]
        /\ IF queued(u, mode)
           THEN UNCHANGED <<queue_, lookup_, global_strand_>>
           ELSE /\ queue_' = [queue_ EXCEPT ![mode] = left]
                /\ lookup_' = [lookup_ EXCEPT ![mode] = (@ \cup {u})
                                \ UNION {users_of(formed[i]) : i \in 1 .. Len(formed)}]
                /\ global_strand_' = global_strand_ \o
                        [i \in 1 .. Len(formed) |-> handler("make", formed[i], None)]
        /\ UNCHANGED <<session, removals, checked, maps, games, requests>>

StrategyCancel(mode) ==
    LET h == Head(strategy_strand[mode])
        u == Owner[h.s]
    IN  /\ strategy_strand[mode] # <<>> /\ h.op = "cancel"
        /\ strategy_strand' = [strategy_strand EXCEPT ![mode] = Tail(@)]
        /\ lookup_' = [lookup_ EXCEPT ![mode] = @ \ {u}]
        /\ queue_' = IF queued(u, mode)
                     THEN [queue_ EXCEPT ![mode] = without(@, u)]
                     ELSE queue_
        /\ UNCHANGED <<session, removals, checked, maps, global_strand_, games, requests>>

-----------------------------------------------------------------------------
(* global_strand_.                                                         *)

AtGlobal(op) == global_strand_ # <<>> /\ Head(global_strand_).op = op
group == Head(global_strand_).players

IsLive(s) == session[s] = "live"

\* Slip: the players of a match keep their entry.
unqueued_none == {}

\* The users that make_match_on_strand takes off uuid_to_gamemode_: it stops at the
\* first session that is no longer live.
unqueued ==
    {Owner[group[i]] : i \in
        {n \in 1 .. Len(group) : \A h \in 1 .. n - 1 : IsLive(group[h])}}

Unqueue ==
    uuid_to_gamemode_' = [u \in Users |->
                            IF u \in unqueued THEN NoMode ELSE uuid_to_gamemode_[u]]

MakeMatch ==
    /\ AtGlobal("make")
    /\ \A i \in 1 .. Len(group) : IsLive(group[i])
    /\ next_match_id_ < MaxMatches
    /\ Unqueue
    /\ global_strand_' = Tail(global_strand_)
    /\ next_match_id_' = next_match_id_ + 1
    /\ uuid_to_match_' = [u \in Users |-> IF u \in users_of(group) THEN next_match_id_'
                                          ELSE uuid_to_match_[u]]
    /\ players_' = [players_ EXCEPT ![next_match_id_'] = users_of(group)]
    /\ playing' = [playing EXCEPT ![next_match_id_'] = users_of(group)]
    /\ live_matches_' = live_matches_ \cup {next_match_id_'}
    /\ UNCHANGED <<session, removals, checked, strategies, concluded, requests>>

\* The match is dropped for a dead session (QueueDropped to the players before it), or
\* the instance cannot be made (MatchCreationError).
DropMatch ==
    /\ AtGlobal("make")
    /\ Unqueue
    /\ global_strand_' = Tail(global_strand_)
    /\ UNCHANGED <<session, removals, checked, uuid_to_match_, strategies, games, requests>>

\* forfeit_impl
ForfeitImpl ==
    LET u == Owner[group[1]]
        m == uuid_to_match_[u]
    IN  /\ AtGlobal("forfeit")
        /\ global_strand_' = Tail(global_strand_)
        /\ uuid_to_match_' = [uuid_to_match_ EXCEPT ![u] = None]
        /\ playing' = [x \in Matches |-> IF x = m THEN playing[x] \ {u} ELSE playing[x]]
        /\ UNCHANGED <<session, removals, checked, uuid_to_gamemode_, strategies,
                       live_matches_, players_, concluded, next_match_id_, requests>>

\* The match is over: MatchInstance::conclude_game calls results_callback_, which
\* posts to global_strand_.
ConcludeMatch(m) ==
    /\ m \in live_matches_ \ concluded
    /\ concluded' = concluded \cup {m}
    /\ global_strand_' = Append(global_strand_, handler("results", <<>>, m))
    /\ UNCHANGED <<session, removals, checked, maps, strategies, live_matches_,
                   players_, playing, next_match_id_, requests>>

\* Slip: the entries stay in the map.
released_none(m) == {}

\* The users that the results callback unmaps: all of the result.
released(m) == players_[m]

\* The results callback.
TakeResults ==
    LET m == Head(global_strand_).m
    IN  /\ AtGlobal("results")
        /\ global_strand_' = Tail(global_strand_)
        /\ uuid_to_match_' = [u \in Users |->
                IF u \in released(m) THEN None ELSE uuid_to_match_[u]]
        /\ live_matches_' = live_matches_ \ {m}
        /\ playing' = [playing EXCEPT ![m] = {}]
        /\ UNCHANGED <<session, removals, checked, uuid_to_gamemode_, strategies,
                       players_, concluded, next_match_id_, requests>>

-----------------------------------------------------------------------------

SessionStep(s) ==
    \/ Login(s) \/ CloseSession(s) \/ RemoveSession(s)
    \/ Enqueue(s) \/ Forfeit(s)
    \/ \E mode \in Modes : EnqueueCheck(s, mode) \/ Cancel(s, mode)

\* Nothing is left to handle.
Rest ==
    /\ global_strand_ = <<>> /\ removals = {}
    /\ \A mode \in Modes : strategy_strand[mode] = <<>>
    /\ \A s \in Sessions : checked[s] = NoMode

Idle == Rest /\ UNCHANGED vars

Next ==
    \/ \E s \in Sessions : SessionStep(s)
    \/ \E mode \in Modes : StrategyEnqueue(mode) \/ StrategyCancel(mode)
    \/ MakeMatch
    \/ DropMatch
    \/ ForfeitImpl
    \/ TakeResults
    \/ \E m \in Matches : ConcludeMatch(m)
    \/ Idle

Spec == Init /\ [][Next]_vars

-----------------------------------------------------------------------------
(* Properties.                                                             *)

TypeOK ==
    /\ session \in [Sessions -> {"new", "live", "closed"}]
    /\ removals \subseteq Sessions
    /\ checked \in [Sessions -> Modes \cup {NoMode}]
    /\ uuid_to_gamemode_ \in [Users -> Modes \cup {NoMode}]
    /\ uuid_to_match_ \in [Users -> Matches \cup {None}]
    /\ queue_ \in [Modes -> Seq(Sessions)]
    /\ lookup_ \in [Modes -> SUBSET Users]
    /\ strategy_strand \in [Modes -> Seq([op : {"enqueue", "cancel"}, s : Sessions])]
    /\ global_strand_ \in Seq([op : {"make", "forfeit", "results"},
                              players : Seq(Sessions), m : Matches \cup {None}])
    /\ live_matches_ \subseteq Matches
    /\ players_ \in [Matches -> SUBSET Users]
    /\ playing \in [Matches -> SUBSET Users]
    /\ concluded \subseteq Matches
    /\ next_match_id_ \in 0 .. MaxMatches
    /\ requests \in 0 .. MaxRequests

\* The deque and the lookup set of a strategy are updated separately (enqueue, cancel,
\* try_form_match): they name the same users, and no user has two places in a
\* queue, even with two sessions.
LookupMatchesQueue ==
    \A mode \in Modes :
        /\ lookup_[mode] = users_of(queue_[mode])
        /\ Len(queue_[mode]) = Cardinality(lookup_[mode])

\* No match is missed: between two handlers a strategy never holds enough players
\* for one.
NoMissedMatch == \A mode \in Modes : Len(queue_[mode]) < Size[mode]

\* A match has as many different users as its mode asks for, however often they
\* cancelled, reconnected and queued again before it was made.
FullMatches ==
    \A m \in 1 .. next_match_id_ : \E mode \in Modes :
        Cardinality(players_[m]) = Size[mode]

\* uuid_to_match_ never routes a user to a match that is gone or not the user's:
\* commands, forfeits and match messages are sent through that entry.
MappedToOwnMatch ==
    \A u \in Users : uuid_to_match_[u] # None =>
        uuid_to_match_[u] \in live_matches_ /\ u \in players_[uuid_to_match_[u]]

InQueue(u, mode) ==
    \/ u \in lookup_[mode]
    \/ \E i \in 1 .. Len(strategy_strand[mode]) :
            Owner[strategy_strand[mode][i].s] = u
    \/ \E i \in 1 .. Len(global_strand_) : u \in users_of(global_strand_[i].players)

\* Nobody is locked out of matchmaking: enqueue() turns away whoever has an entry in
\* uuid_to_gamemode_, so such a user is in that queue, on the way there, or about to
\* be put in a match.  (It holds as long as no connection is lost: the loop that
\* stops at a dead session leaves the entries of the players behind it.)
QueuedUsersAreQueued ==
    \A u \in Users : uuid_to_gamemode_[u] # NoMode => InQueue(u, uuid_to_gamemode_[u])

-----------------------------------------------------------------------------
(* What the documentation says of the maps, and the code does not keep.    *)

\* README.md:383 "to prevent the user from playing in more than one match".
OneMatchPerUser ==
    \A u \in Users : \A m, n \in Matches :
        u \in playing[m] /\ u \in playing[n] => m = n

=============================================================================
