------------------------- MODULE MatchInstanceProofs -------------------------
(***************************************************************************)
(* What holds of a match for any number of players, tanks and turns.       *)
(*                                                                         *)
(* The handlers are compositions of the object's member functions, so each *)
(* invariant is stated of an object and carried through one member         *)
(* function at a time; the theorems about Spec only put them together.     *)
(*   Good      types, the roster and the results: TypeOK, RosterConsistent,*)
(*             PublishedRanking                                            *)
(*   Timely    timers, callbacks and the end: ThrowsOnlyWhenOver           *)
(*   Advances  what a handler shows the server: ImplementsOutcome          *)
(*   Goes      the game loop: NoStall                                      *)
(*   Fits      the rounds of Setup: FullRosterFits                         *)
(*   SameGame  a claimed turn: ClaimedTurnIsClosed                         *)
(***************************************************************************)
EXTENDS MatchInstance, FiniteSetTheorems, TLAPS

-----------------------------------------------------------------------------
(* The roster.                                                             *)

LEMMA PlayersFinite ==
    /\ IsFiniteSet(Players)
    /\ Cardinality(Players) = n_players_
    /\ 0 \in Players
    /\ \A S \in SUBSET Players : IsFiniteSet(S) /\ Cardinality(S) \in Nat
  <1>1. 0 \in Int /\ n_players_ - 1 \in Int /\ n_players_ \in Nat \ {0, 1}
    BY MatchAssumption
  <1>2. IsFiniteSet(Players) /\ Cardinality(Players) = n_players_
    <2>1. /\ IsFiniteSet(0 .. n_players_ - 1)
          /\ Cardinality(0 .. n_players_ - 1)
                = IF 0 > n_players_ - 1 THEN 0 ELSE (n_players_ - 1) - 0 + 1
      BY <1>1, FS_Interval
    <2> QED BY <1>1, <2>1 DEF Players
  <1>3. \A S \in SUBSET Players : IsFiniteSet(S) /\ Cardinality(S) \in Nat
    BY <1>2, FS_Subset, FS_CardinalityType
  <1> QED BY <1>1, <1>2, <1>3 DEF Players

\* Dropping any set of living players keeps the counters and the places right.
LEMMA DropKeepsRoster ==
    ASSUME NEW r \in Roster, RosterOK(r), NEW lost \in SUBSET r.alive
    PROVE  drop(r, lost) \in Roster /\ RosterOK(drop(r, lost))
  <1> DEFINE d == drop(r, lost)
             c == Cardinality(lost)
  <1>1. r.alive \subseteq Players /\ lost \subseteq Players
    BY DEF Roster
  <1>2. /\ IsFiniteSet(r.alive) /\ IsFiniteSet(lost) /\ c \in Nat
        /\ Cardinality(r.alive) \in Nat
        /\ r.elim_counter_ \in Nat
        /\ r.elimination_order \in [Players -> Nat]
    BY <1>1, PlayersFinite DEF Roster
  <1>3. \A p \in lost : /\ IsFiniteSet(ahead(lost, p))
                        /\ Cardinality(ahead(lost, p)) \in Nat
                        /\ Cardinality(ahead(lost, p)) < c
    <2> SUFFICES ASSUME NEW p \in lost
                 PROVE  /\ IsFiniteSet(ahead(lost, p))
                        /\ Cardinality(ahead(lost, p)) \in Nat
                        /\ Cardinality(ahead(lost, p)) < c
      OBVIOUS
    <2>1. ahead(lost, p) \subseteq lost
      BY DEF ahead
    <2>2. p \notin ahead(lost, p)
      BY <1>1 DEF Players, ahead
    <2> QED BY <1>2, <2>1, <2>2, FS_Subset, FS_CardinalityType
  <1>4. \A p, q \in lost : p < q => Cardinality(ahead(lost, p)) < Cardinality(ahead(lost, q))
    <2> SUFFICES ASSUME NEW p \in lost, NEW q \in lost, p < q
                 PROVE  Cardinality(ahead(lost, p)) < Cardinality(ahead(lost, q))
      OBVIOUS
    <2>1. p \in Int /\ q \in Int /\ lost \subseteq Int
      BY <1>1 DEF Players
    <2>2. ahead(lost, p) \subseteq ahead(lost, q)
      <3>1. \A x \in lost : x < p => x < q
        BY <2>1
      <3> QED BY <3>1 DEF ahead
    <2>3. p \in ahead(lost, q) /\ p \notin ahead(lost, p)
      BY <2>1 DEF ahead
    <2> QED BY <1>3, <2>2, <2>3, FS_Subset
  <1>5. c <= Cardinality(r.alive) /\ Cardinality(r.alive \ lost) = Cardinality(r.alive) - c
    <2>1. r.alive \cap lost = lost
      OBVIOUS
    <2> QED BY <1>2, <2>1, FS_Difference, FS_Subset
  <1>6. d.elimination_order \in [Players -> Nat]
    BY <1>2, <1>3 DEF drop
  <1>7. d \in Roster
    BY <1>1, <1>2, <1>6 DEF drop, Roster
  <1>8. d.remaining_players = Cardinality(d.alive)
    BY <1>2, <1>5 DEF drop, RosterOK, Roster
  <1>9. d.elim_counter_ = n_players_ - d.remaining_players
    BY <1>2, MatchAssumption DEF drop, RosterOK, Roster
  <1>10. \A p \in Players : d.elimination_order[p] =
            IF p \in lost THEN r.elim_counter_ + Cardinality(ahead(lost, p))
            ELSE r.elimination_order[p]
    BY DEF drop
  <1>11. Players \ d.alive = (Players \ r.alive) \cup lost
    BY <1>1 DEF drop
  <1>12. \A p \in Players \ d.alive : d.elimination_order[p] < d.elim_counter_
    <2> SUFFICES ASSUME NEW p \in Players \ d.alive
                 PROVE  d.elimination_order[p] < d.elim_counter_
      OBVIOUS
    <2>1. d.elim_counter_ = r.elim_counter_ + c
      BY DEF drop
    <2>2. CASE p \in lost
      BY <1>2, <1>3, <1>10, <2>1, <2>2
    <2>3. CASE p \in Players \ r.alive /\ p \notin lost
      <3>1. r.elimination_order[p] < r.elim_counter_
        BY <2>3 DEF RosterOK
      <3>2. r.elimination_order[p] \in Nat
        BY <1>2
      <3> QED BY <1>2, <1>10, <2>1, <2>3, <3>1, <3>2
    <2> QED BY <1>11, <2>2, <2>3
  <1>13. \A p, q \in Players \ d.alive :
            p # q => d.elimination_order[p] # d.elimination_order[q]
    <2> SUFFICES ASSUME NEW p \in Players \ d.alive, NEW q \in Players \ d.alive, p # q
                 PROVE  d.elimination_order[p] # d.elimination_order[q]
      OBVIOUS
    <2>1. p \in Int /\ q \in Int
      BY DEF Players
    <2>2. CASE p \in lost /\ q \in lost
      BY <1>2, <1>3, <1>4, <1>10, <2>1, <2>2
    <2>3. \A x \in lost : d.elimination_order[x] >= r.elim_counter_
      BY <1>1, <1>2, <1>3, <1>10
    <2>4. \A x \in Players \ r.alive : x \notin lost
            => d.elimination_order[x] < r.elim_counter_
      BY <1>10 DEF RosterOK
    <2>5. CASE p \in lost /\ q \notin lost
      BY <1>2, <1>6, <1>11, <2>3, <2>4, <2>5
    <2>6. CASE q \in lost /\ p \notin lost
      BY <1>2, <1>6, <1>11, <2>3, <2>4, <2>6
    <2>7. CASE p \notin lost /\ q \notin lost
      BY <1>10, <1>11, <2>7 DEF RosterOK
    <2> QED BY <2>2, <2>5, <2>6, <2>7
  <1> QED BY <1>7, <1>8, <1>9, <1>12, <1>13 DEF RosterOK

\* With at most one survivor the published order ranks all players.
LEMMA FinalOrderRanks ==
    ASSUME NEW r \in Roster, RosterOK(r), r.remaining_players <= 1
    PROVE  final_order(r) \in [Players -> Nat] /\ IsRanking(final_order(r))
  <1> DEFINE f == final_order(r)
  <1>1. /\ r.alive \subseteq Players /\ IsFiniteSet(r.alive)
        /\ r.elim_counter_ \in Nat
        /\ r.elimination_order \in [Players -> Nat]
        /\ n_players_ \in Nat
    BY PlayersFinite, MatchAssumption DEF Roster
  <1>2. f \in [Players -> Nat]
    BY <1>1 DEF final_order
  <1>3. \A p \in Players : f[p] = IF p \in r.alive THEN r.elim_counter_
                                   ELSE r.elimination_order[p]
    BY DEF final_order
  <1>4. \A p, q \in r.alive : p = q
    <2>1. Cardinality(r.alive) <= 1 /\ Cardinality(r.alive) \in Nat
      BY <1>1, FS_CardinalityType DEF RosterOK
    <2>2. CASE Cardinality(r.alive) = 0
      BY <1>1, <2>2, FS_EmptySet
    <2>3. CASE Cardinality(r.alive) = 1
      BY <1>1, <2>3, FS_Singleton
    <2> QED BY <2>1, <2>2, <2>3
  <1>5. \A p \in Players : f[p] \in 0 .. n_players_ - 1
    <2> SUFFICES ASSUME NEW p \in Players
                 PROVE  f[p] \in 0 .. n_players_ - 1
      OBVIOUS
    <2>1. CASE p \in r.alive
      <3>1. Cardinality(r.alive) # 0 /\ Cardinality(r.alive) \in Nat
        BY <1>1, <2>1, FS_EmptySet, FS_CardinalityType
      <3> QED BY <1>1, <1>3, <2>1, <3>1 DEF RosterOK
    <2>2. CASE p \notin r.alive
      <3>1. Cardinality(r.alive) \in Nat
        BY <1>1, FS_CardinalityType
      <3>2. r.elimination_order[p] \in Nat /\ r.elimination_order[p] < r.elim_counter_
        BY <1>1, <2>2 DEF RosterOK
      <3>3. r.elim_counter_ <= n_players_
        BY <1>1, <3>1 DEF RosterOK
      <3> QED BY <1>1, <1>3, <2>2, <3>2, <3>3
    <2> QED BY <2>1, <2>2
  <1>6. \A p, q \in Players : p # q => f[p] # f[q]
    <2> SUFFICES ASSUME NEW p \in Players, NEW q \in Players, p # q
                 PROVE  f[p] # f[q]
      OBVIOUS
    <2>1. \A x \in Players \ r.alive : f[x] \in Nat /\ f[x] < r.elim_counter_
      BY <1>1, <1>3 DEF RosterOK
    <2>2. CASE p \in r.alive /\ q \in r.alive
      BY <1>4, <2>2
    <2>3. CASE p \notin r.alive /\ q \notin r.alive
      BY <1>3, <2>3 DEF RosterOK
    <2>4. CASE p \in r.alive /\ q \notin r.alive
      BY <1>1, <1>3, <2>1, <2>4
    <2>5. CASE p \notin r.alive /\ q \in r.alive
      BY <1>1, <1>3, <2>1, <2>5
    <2> QED BY <2>2, <2>3, <2>4, <2>5
  <1> QED BY <1>2, <1>5, <1>6 DEF IsRanking

-----------------------------------------------------------------------------
(* The object.                                                             *)

\* The invariant of one object: types, roster, and a result only once the
\* callbacks are gone.
Good(m) ==
    /\ m \in Match
    /\ RosterOK(m.roster)
    /\ m.callbacks_ => m.results = <<>>
    /\ Len(m.results) <= 1
    /\ \A i \in 1 .. Len(m.results) : IsRanking(m.results[i])

LEMMA StartTask == task("start_turn", 0, 0) \in Task
  BY PlayersFinite DEF task, Task

LEMMA PostGood ==
    ASSUME NEW m, Good(m), NEW t \in Task
    PROVE  Good(post(m, t))
  <1>1. Append(m.strand_, t) \in Seq(Task)
    BY DEF Good, Match
  <1>2. post(m, t) = [m EXCEPT !.strand_ = Append(m.strand_, t)]
    BY DEF post
  <1> DEFINE longer == Append(m.strand_, t)
  <1> HIDE DEF longer
  <1> QED BY <1>1, <1>2 DEF Good, Match, longer

LEMMA StartTurnStrandGood ==
    ASSUME NEW m, Good(m)
    PROVE  Good(start_turn_strand(m))
  BY PostGood, StartTask DEF start_turn_strand

LEMMA SendGood ==
    ASSUME NEW m, Good(m)
    PROVE  Good(send(m))
  BY DEF Good, send, Match

LEMMA ComputeAllViewsGood ==
    ASSUME NEW m, Good(m)
    PROVE  Good(compute_all_views(m))
  <1> DEFINE lost == IF m.current_state = "Setup" THEN {}
                     ELSE {i \in m.roster.alive : m.live_tanks[i] = 0}
             seen == [m EXCEPT !.roster = drop(@, lost)]
  <1>1. lost \in SUBSET m.roster.alive
    OBVIOUS
  <1>2. m.roster \in Roster
    BY DEF Good, Match
  <1>3. drop(m.roster, lost) \in Roster /\ RosterOK(drop(m.roster, lost))
    BY <1>1, <1>2, DropKeepsRoster DEF Good
  <1>4. Good(seen)
    <2> HIDE DEF lost
    <2> QED BY <1>3 DEF Good, Match
  <1>5. Good(send(seen))
    BY <1>4, SendGood
  <1> QED BY <1>5 DEF compute_all_views

LEMMA NextPlayerType ==
    ASSUME NEW m \in Match
    PROVE  next_player(m) \in Players
  <1>1. \A a \in Int, b \in Nat \ {0} : a % b \in 0 .. b - 1
    OBVIOUS
  <1>2. m.current_player + 1 \in Int /\ n_players_ \in Nat \ {0}
    BY MatchAssumption DEF Match, Players
  <1> QED BY <1>1, <1>2 DEF next_player, Players

LEMMA HandleEliminationGood ==
    ASSUME NEW m, Good(m), NEW p \in Players
    PROVE  Good(handle_elimination(m, p))
  <1>1. CASE p \in m.roster.alive
    <2> DEFINE cut == [m EXCEPT
                        !.command_queues_[p] = 0,
                        !.roster = drop(@, {p}),
                        !.time_left_[p] = NoClock,
                        !.tanks_placed = IF m.current_state = "Setup"
                                         THEN @ - m.placed[p] ELSE @,
                        !.live_tanks[p] = 0]
               removed == send(cut)
               viewed == compute_all_views(removed)
               passed == IF p = m.current_player
                         THEN [viewed EXCEPT !.current_player = next_player(m),
                                             !.current_fuel = TURN_PLAYER_FUEL,
                                             !.timer_ = {}]
                         ELSE viewed
    <2>1. drop(m.roster, {p}) \in Roster /\ RosterOK(drop(m.roster, {p}))
      BY <1>1, DropKeepsRoster DEF Good, Match
    <2>2. Good(cut)
      <3> DEFINE queues == [m.command_queues_ EXCEPT ![p] = 0]
                 times == [m.time_left_ EXCEPT ![p] = NoClock]
                 tanks == IF m.current_state = "Setup"
                          THEN m.tanks_placed - m.placed[p] ELSE m.tanks_placed
                 lives == [m.live_tanks EXCEPT ![p] = 0]
                 roster == drop(m.roster, {p})
      <3>1. queues \in [Players -> 0 .. MAX_QUEUE_SIZE]
        BY MatchAssumption DEF Good, Match
      <3>2. times \in [Players -> Players \cup {NoClock}]
        BY DEF Good, Match
      <3>3. tanks \in Int
        BY DEF Good, Match
      <3>4. lives \in [Players -> Nat]
        BY DEF Good, Match
      <3>5. cut = [m EXCEPT !.command_queues_ = queues, !.roster = roster,
                            !.time_left_ = times, !.tanks_placed = tanks,
                            !.live_tanks = lives]
        BY DEF Good, Match
      <3>6. roster \in Roster /\ RosterOK(roster)
        BY <2>1
      <3> HIDE DEF queues, times, tanks, lives, roster, cut
      <3> QED BY <3>1, <3>2, <3>3, <3>4, <3>5, <3>6 DEF Good, Match
    <2>3. Good(viewed)
      BY <2>2, SendGood, ComputeAllViewsGood
    <2>4. Good(passed)
      <3>1. next_player(m) \in Players
        BY NextPlayerType DEF Good
      <3>2. TURN_PLAYER_FUEL \in 1 .. TURN_PLAYER_FUEL
        BY MatchAssumption
      <3> HIDE DEF viewed
      <3> QED BY <2>3, <3>1, <3>2 DEF Good, Match
    <2>5. Good(start_turn_strand(passed))
      BY <2>4, StartTurnStrandGood
    <2> QED BY <1>1, <2>5 DEF handle_elimination
  <1>2. CASE p \notin m.roster.alive
    BY <1>2 DEF handle_elimination
  <1> QED BY <1>1, <1>2

LEMMA PlaceTankGood ==
    ASSUME NEW m, Good(m), NEW p \in Players, NEW destroyed \in BOOLEAN
    PROVE  Good(place_tank(m, p, destroyed))
  <1> DEFINE placed == [m.placed EXCEPT ![p] = @ + 1]
             total == m.tanks_placed + 1
             lives == [m.live_tanks EXCEPT ![p] = IF destroyed THEN @ ELSE @ + 1]
             status == IF m.placed[p] >= num_tanks_ THEN "overrun" ELSE m.status
  <1>1. placed \in [Players -> Nat] /\ lives \in [Players -> Nat]
    <2>1. m.placed \in [Players -> Nat] /\ m.live_tanks \in [Players -> Nat]
      BY DEF Good, Match
    <2>2. CASE destroyed
      BY <2>1, <2>2
    <2>3. CASE ~destroyed
      BY <2>1, <2>3
    <2> QED BY <2>2, <2>3
  <1>2. total \in Int /\ status \in {"running", "thrown", "overrun"}
    BY DEF Good, Match
  <1>3. place_tank(m, p, destroyed) =
            [m EXCEPT !.placed = placed, !.tanks_placed = total,
                      !.live_tanks = lives, !.status = status]
    BY DEF Good, Match, place_tank
  <1> HIDE DEF placed, total, lives, status
  <1> QED BY <1>1, <1>2, <1>3 DEF Good, Match

LEMMA ApplyCommandGood ==
    ASSUME NEW m, Good(m)
    PROVE  \A x \in apply_command(m) : Good(x)
  <1>1. m.current_player \in Players
    BY DEF Good, Match
  <1>2. CASE m.current_state = "Setup"
    BY <1>1, <1>2, PlaceTankGood DEF apply_command
  <1>3. CASE m.current_state # "Setup"
    <2>1. \A q \in Players : m.live_tanks[q] > 0
                => Good([m EXCEPT !.live_tanks[q] = @ - 1])
      <3> SUFFICES ASSUME NEW q \in Players, m.live_tanks[q] > 0
                   PROVE  Good([m EXCEPT !.live_tanks[q] = @ - 1])
        OBVIOUS
      <3> DEFINE lives == [m.live_tanks EXCEPT ![q] = @ - 1]
      <3>1. lives \in [Players -> Nat]
        BY DEF Good, Match
      <3>2. [m EXCEPT !.live_tanks[q] = @ - 1] = [m EXCEPT !.live_tanks = lives]
        BY DEF Good, Match
      <3> HIDE DEF lives
      <3> QED BY <3>1, <3>2 DEF Good, Match
    <2> QED BY <1>3, <2>1 DEF apply_command
  <1> QED BY <1>2, <1>3

LEMMA EndMoveGood ==
    ASSUME NEW m, Good(m)
    PROVE  Good(end_move(m))
  <1> DEFINE spent == IF m.current_state = "Setup"
                      THEN [m EXCEPT !.current_player = next_player(m)]
                      ELSE IF m.current_fuel > 1
                      THEN [m EXCEPT !.current_fuel = @ - 1]
                      ELSE [m EXCEPT !.current_player = next_player(m),
                                     !.current_fuel = TURN_PLAYER_FUEL]
  <1>1. next_player(m) \in Players
    BY NextPlayerType DEF Good
  <1>2. TURN_PLAYER_FUEL \in 1 .. TURN_PLAYER_FUEL
    BY MatchAssumption
  <1>3. m.current_fuel > 1 => m.current_fuel - 1 \in 1 .. TURN_PLAYER_FUEL
    BY MatchAssumption DEF Good, Match
  <1>4. Good(spent)
    BY <1>1, <1>2, <1>3 DEF Good, Match
  <1>5. Good(start_turn_strand(compute_all_views(spent)))
    BY <1>4, ComputeAllViewsGood, StartTurnStrandGood
  <1> QED BY <1>5 DEF end_move

LEMMA MoveArrivedGood ==
    ASSUME NEW m, Good(m)
    PROVE  \A x \in on_player_move_arrived(m) : Good(x)
  <1> DEFINE p == m.current_player
             claimed == [m EXCEPT !.turn_claimed_ = TRUE]
             taken == [claimed EXCEPT !.timer_ = {},
                                      !.command_queues_[p] = @ - 1,
                                      !.time_left_[p] = m.expiry_time_]
  <1>1. Good(claimed)
    BY DEF Good, Match
  <1>2. m.command_queues_[p] # 0 => Good(taken)
    <2> SUFFICES ASSUME m.command_queues_[p] # 0
                 PROVE  Good(taken)
      OBVIOUS
    <2> DEFINE queues == [m.command_queues_ EXCEPT ![p] = @ - 1]
               times == [m.time_left_ EXCEPT ![p] = m.expiry_time_]
    <2>1. queues \in [Players -> 0 .. MAX_QUEUE_SIZE]
      BY MatchAssumption DEF Good, Match
    <2>2. times \in [Players -> Players \cup {NoClock}]
      BY DEF Good, Match
    <2>3. taken = [m EXCEPT !.turn_claimed_ = TRUE, !.timer_ = {},
                            !.command_queues_ = queues, !.time_left_ = times]
      BY DEF Good, Match
    <2> HIDE DEF queues, times, taken
    <2> QED BY <2>1, <2>2, <2>3 DEF Good, Match
  <1>3. m.command_queues_[p] # 0 => Good(start_turn_strand(send(taken)))
    BY <1>2, SendGood, StartTurnStrandGood
  <1>4. m.command_queues_[p] # 0 => \A x \in apply_command(taken) : Good(end_move(x))
    <2> HIDE DEF taken
    <2> QED BY <1>2, ApplyCommandGood, EndMoveGood
  <1>5. on_player_move_arrived(m) =
            IF m.turn_claimed_ THEN {m}
            ELSE IF m.current_state = "Concluded" \/ m.command_queues_[p] = 0
            THEN {claimed}
            ELSE {start_turn_strand(send(taken))}
                    \cup {end_move(x) : x \in apply_command(taken)}
    BY DEF on_player_move_arrived
  <1> HIDE DEF taken, claimed
  <1> QED BY <1>1, <1>3, <1>4, <1>5

LEMMA ConcludeGameGood ==
    ASSUME NEW m, Good(m), m.roster.remaining_players <= 1
    PROVE  Good(conclude_game(m))
  <1> DEFINE order == final_order(m.roster)
             roster == [m.roster EXCEPT !.elimination_order = order]
             over == [m EXCEPT !.current_state = "Concluded",
                               !.roster.elimination_order = order,
                               !.results = Append(@, order),
                               !.timer_ = {},
                               !.callbacks_ = FALSE]
  <1>1. m.roster \in Roster
    BY DEF Good, Match
  <1>2. order \in [Players -> Nat] /\ IsRanking(order)
    BY <1>1, FinalOrderRanks DEF Good
  <1>3. roster \in Roster /\ RosterOK(roster)
    <2>1. roster \in Roster
      BY <1>1, <1>2 DEF Roster
    <2>2. /\ roster.alive = m.roster.alive
          /\ roster.remaining_players = m.roster.remaining_players
          /\ roster.elim_counter_ = m.roster.elim_counter_
          /\ roster.elimination_order = order
      BY <1>1 DEF Roster
    <2>3. \A p \in Players \ m.roster.alive : order[p] = m.roster.elimination_order[p]
      BY DEF final_order
    <2> HIDE DEF roster, order
    <2> QED BY <2>1, <2>2, <2>3 DEF RosterOK, Good
  <1>4. ASSUME m.callbacks_
        PROVE  Good(over)
    <2> DEFINE results == <<order>>
    <2>1. m.results = <<>>
      BY <1>4 DEF Good
    <2>2. Append(m.results, order) = results
      BY <2>1
    <2>3. over = [m EXCEPT !.current_state = "Concluded", !.roster = roster,
                           !.results = results, !.timer_ = {}, !.callbacks_ = FALSE]
      BY <2>2 DEF Good, Match
    <2>4. results \in Seq([Players -> Nat]) /\ Len(results) = 1 /\ results[1] = order
      BY <1>2
    <2> HIDE DEF roster, order, over, results
    <2>5. over \in Match /\ over.roster = roster /\ over.results = results
            /\ ~over.callbacks_
      BY <1>3, <2>3, <2>4 DEF Good, Match
    <2>6. \A i \in 1 .. Len(over.results) : IsRanking(over.results[i])
      <3>1. Len(over.results) = 1 /\ over.results[1] = order
        BY <2>4, <2>5
      <3>2. 1 .. 1 = {1}
        OBVIOUS
      <3> QED BY <1>2, <3>1, <3>2
    <2>7. Len(over.results) <= 1
      <3>1. Len(over.results) = 1
        BY <2>4, <2>5
      <3> QED BY <3>1
    <2> QED BY <1>3, <2>5, <2>6, <2>7 DEF Good
  <1>5. Good([m EXCEPT !.current_state = "Concluded", !.status = "thrown"])
    BY DEF Good, Match
  <1> HIDE DEF over
  <1>6. conclude_game(m) = IF m.shutdown THEN m ELSE IF ~m.callbacks_
            THEN [m EXCEPT !.current_state = "Concluded", !.status = "thrown"]
            ELSE over
    BY DEF conclude_game, over
  <1> QED BY <1>4, <1>5, <1>6

LEMMA StartTurnGood ==
    ASSUME NEW m, Good(m)
    PROVE  \A x \in start_turn(m) : Good(x)
  <1> DEFINE opened == [m EXCEPT !.turn_ID_ = @ + 1, !.turn_claimed_ = FALSE]
             begun == IF setup_over(opened) THEN begin_play(opened) ELSE opened
             armed == arm_timer(begun)
  <1>1. Good(opened)
    <2>1. m.turn_ID_ + 1 \in Nat
      BY DEF Good, Match
    <2> QED BY <2>1 DEF Good, Match
  <1>2. Good(begin_play(opened))
    <2> HIDE DEF opened
    <2>1. TURN_PLAYER_FUEL \in 1 .. TURN_PLAYER_FUEL /\ 0 \in Players
      BY MatchAssumption, PlayersFinite
    <2>2. Good([opened EXCEPT !.current_state = "Play", !.current_player = 0,
                              !.current_fuel = TURN_PLAYER_FUEL])
      BY <1>1, <2>1 DEF Good, Match
    <2> QED BY <2>2, ComputeAllViewsGood DEF begin_play
  <1>3. Good(begun)
    BY <1>1, <1>2
  <1> HIDE DEF begun
  <1>4. Good(skip_eliminated(begun))
    <2>1. next_player(begun) \in Players
      BY <1>3, NextPlayerType DEF Good
    <2>2. Good([begun EXCEPT !.current_player = next_player(begun)])
      BY <1>3, <2>1 DEF Good, Match
    <2> QED BY <2>2, ComputeAllViewsGood, StartTurnStrandGood DEF skip_eliminated
  <1>5. Good(armed)
    <2>1. begun.time_left_[begun.current_player] \in Players \cup {NoClock}
      BY <1>3 DEF Good, Match
    <2>2. task("timer", begun.current_player, begun.turn_ID_) \in Task
      BY <1>3 DEF Good, Match, task, Task
    <2> QED BY <1>3, <2>1, <2>2 DEF Good, Match, arm_timer
  <1>6. begun.roster.remaining_players <= 1 => Good(conclude_game(begun))
    BY <1>3, ConcludeGameGood
  <1> HIDE DEF armed
  <1>7. start_turn(m) =
            IF begun.roster.remaining_players <= 1 THEN {conclude_game(begun)}
            ELSE IF begun.current_player \notin begun.roster.alive
            THEN {skip_eliminated(begun)}
            ELSE IF armed.command_queues_[armed.current_player] > 0
            THEN on_player_move_arrived(armed)
            ELSE {armed}
    BY DEF start_turn, begun, armed
  <1> QED BY <1>4, <1>5, <1>6, <1>7, MoveArrivedGood

-----------------------------------------------------------------------------
(* The handlers.                                                           *)

LEMMA ReceiveCommandGood ==
    ASSUME NEW m, Good(m), NEW p \in Players, NEW t \in Nat
    PROVE  \A x \in receive_command(m, p, t) : Good(x)
  <1> DEFINE pushed == [m EXCEPT !.command_queues_[p] = @ + 1]
  <1>1. ASSUME ~(m.command_queues_[p] >= MAX_QUEUE_SIZE)
        PROVE  Good(pushed)
    <2> DEFINE queues == [m.command_queues_ EXCEPT ![p] = @ + 1]
    <2>1. queues \in [Players -> 0 .. MAX_QUEUE_SIZE]
      BY <1>1, MatchAssumption DEF Good, Match
    <2>2. pushed = [m EXCEPT !.command_queues_ = queues]
      BY DEF Good, Match
    <2> HIDE DEF queues, pushed
    <2> QED BY <2>1, <2>2 DEF Good, Match
  <1>2. Good(send(m))
    BY SendGood
  <1>3. receive_command(m, p, t) =
            IF m.current_state = "Concluded" \/ t # m.turn_ID_ THEN {send(m)}
            ELSE IF m.command_queues_[p] >= MAX_QUEUE_SIZE THEN {m}
            ELSE IF p = m.current_player THEN on_player_move_arrived(pushed)
            ELSE {pushed}
    BY DEF receive_command
  <1> HIDE DEF pushed
  <1> QED BY <1>1, <1>2, <1>3, MoveArrivedGood

LEMMA ForfeitGood ==
    ASSUME NEW m, Good(m), NEW p \in Players
    PROVE  Good(forfeit(m, p))
  BY SendGood, HandleEliminationGood DEF forfeit

LEMMA SyncGood ==
    ASSUME NEW m, Good(m), NEW p \in Players
    PROVE  Good(sync_player(m, p))
  <1> DEFINE queues == [m.command_queues_ EXCEPT ![p] = 0]
             dumped == [m EXCEPT !.command_queues_[p] = 0]
  <1>1. queues \in [Players -> 0 .. MAX_QUEUE_SIZE]
    BY MatchAssumption DEF Good, Match
  <1>2. dumped = [m EXCEPT !.command_queues_ = queues]
    BY DEF Good, Match
  <1>3. Good(dumped)
    <2> HIDE DEF queues, dumped
    <2> QED BY <1>1, <1>2 DEF Good, Match
  <1> QED BY <1>3, SendGood DEF sync_player

LEMMA ShutdownGood ==
    ASSUME NEW m, Good(m)
    PROVE  Good(async_shutdown(m))
  BY DEF Good, Match, async_shutdown

LEMMA TimerGood ==
    ASSUME NEW m, Good(m), NEW t \in Nat
    PROVE  Good(timer_handler(m, t))
  <1>1. Good([m EXCEPT !.turn_claimed_ = TRUE]) /\ m.current_player \in Players
    BY DEF Good, Match
  <1> QED BY <1>1, HandleEliminationGood DEF timer_handler, handle_timeout

\* Taking a handler off the strand leaves a good object, and the handler names a
\* player and a turn.
LEMMA PopGood ==
    ASSUME Good(self), self.strand_ # <<>>
    PROVE  Good(popped) /\ head.player \in Players /\ head.t_id \in Nat
  <1>1. self.strand_ \in Seq(Task)
    BY DEF Good, Match
  <1>2. Tail(self.strand_) \in Seq(Task) /\ head \in Task
    BY <1>1 DEF head
  <1>3. head.player \in Players /\ head.t_id \in Nat
    BY <1>2 DEF Task
  <1> DEFINE rest == Tail(self.strand_)
  <1>4. popped = [self EXCEPT !.strand_ = rest]
    BY DEF popped
  <1>5. Good(popped)
    <2> HIDE DEF rest
    <2>1. rest \in Seq(Task)
      BY <1>2 DEF rest
    <2> QED BY <1>4, <2>1 DEF Good, Match
  <1> QED BY <1>3, <1>5

-----------------------------------------------------------------------------
(* The specification.                                                      *)

Surroundings ==
    /\ routed \subseteq Players
    /\ live \in BOOLEAN
    /\ logins \in 0 .. MaxLogins

\* The inductive invariant: a good object in well-typed surroundings.
Inv == Good(self) /\ Surroundings

LEMMA InitInv == Init => Inv
  <1> SUFFICES ASSUME Init
               PROVE  Inv
    OBVIOUS
  <1>1. PICK claimed \in BOOLEAN : self = NewMatch(claimed)
    BY DEF Init
  <1> DEFINE zero == [p \in Players |-> 0]
             own == [p \in Players |-> p]
             strand == <<task("start_turn", 0, 0)>>
  <1>2. FullRoster \in Roster /\ RosterOK(FullRoster)
    <2>1. FullRoster \in Roster
      BY PlayersFinite, MatchAssumption DEF FullRoster, Roster
    <2> QED BY <2>1, PlayersFinite, MatchAssumption DEF FullRoster, RosterOK
  <1>3. /\ zero \in [Players -> Nat]
        /\ zero \in [Players -> 0 .. MAX_QUEUE_SIZE]
        /\ own \in [Players -> Players \cup {NoClock}]
        /\ strand \in Seq(Task)
        /\ 0 \in Players
        /\ TURN_PLAYER_FUEL \in 1 .. TURN_PLAYER_FUEL
    BY PlayersFinite, StartTask, MatchAssumption
  <1>4. self = [strand_ |-> strand, timer_ |-> {}, current_state |-> "Setup",
                current_player |-> 0, current_fuel |-> TURN_PLAYER_FUEL,
                roster |-> FullRoster, tanks_placed |-> 0, placed |-> zero,
                live_tanks |-> zero, turn_ID_ |-> 0, turn_claimed_ |-> claimed,
                expiry_time_ |-> NoClock, time_left_ |-> own,
                command_queues_ |-> zero, callbacks_ |-> TRUE,
                shutdown |-> FALSE, status |-> "running", results |-> <<>>]
    BY <1>1 DEF NewMatch
  <1> HIDE DEF zero, own, strand
  <1>5. self \in Match
    BY <1>2, <1>3, <1>4 DEF Match
  <1>6. /\ self.roster = FullRoster /\ self.results = <<>>
    BY <1>4
  <1>7. Good(self)
    BY <1>2, <1>5, <1>6 DEF Good
  <1>8. Surroundings
    BY MatchAssumption DEF Init, Surroundings
  <1> QED BY <1>7, <1>8 DEF Inv

LEMMA StepInv == Inv /\ [Next]_vars => Inv'
  <1> SUFFICES ASSUME Inv, [Next]_vars
               PROVE  Inv'
    OBVIOUS
  <1> USE DEF Inv
  <1>1. ASSUME StartTurn PROVE Inv'
    <2>1. Good(popped)
      BY <1>1, PopGood DEF StartTurn, At
    <2>2. Good(self)'
      BY <1>1, <2>1, StartTurnGood DEF StartTurn, Good
    <2> QED BY <1>1, <2>2 DEF StartTurn, Surroundings
  <1>2. ASSUME Command PROVE Inv'
    <2>1. Good(popped) /\ head.player \in Players /\ head.t_id \in Nat
      BY <1>2, PopGood DEF Command, At
    <2>2. Good(self)'
      BY <1>2, <2>1, ReceiveCommandGood DEF Command, Good
    <2> QED BY <1>2, <2>2 DEF Command, Surroundings
  <1>3. ASSUME Forfeit PROVE Inv'
    <2>1. Good(popped) /\ head.player \in Players
      BY <1>3, PopGood DEF Forfeit, At
    <2>2. Good(self)'
      BY <1>3, <2>1, ForfeitGood DEF Forfeit, Good
    <2> QED BY <1>3, <2>2 DEF Forfeit, Surroundings
  <1>4. ASSUME SyncPlayer PROVE Inv'
    <2>1. Good(popped) /\ head.player \in Players
      BY <1>4, PopGood DEF SyncPlayer, At
    <2>2. Good(self)'
      BY <1>4, <2>1, SyncGood DEF SyncPlayer, Good
    <2> QED BY <1>4, <2>2 DEF SyncPlayer, Surroundings
  <1>5. ASSUME Shutdown PROVE Inv'
    <2>1. Good(popped)
      BY <1>5, PopGood DEF Shutdown, At
    <2>2. Good(self)'
      BY <1>5, <2>1, ShutdownGood DEF Shutdown, Good
    <2> QED BY <1>5, <2>2 DEF Shutdown, Surroundings
  <1>6. ASSUME Timer PROVE Inv'
    <2>1. Good(popped) /\ head.t_id \in Nat
      BY <1>6, PopGood DEF Timer, At
    <2>2. Good(self)'
      BY <1>6, <2>1, TimerGood DEF Timer, Good
    <2> QED BY <1>6, <2>2 DEF Timer, Surroundings
  <1>7. ASSUME NEW p \in Players, RouteCommand(p) PROVE Inv'
    <2>1. PICK t \in {self.turn_ID_, self.turn_ID_ - 1} \cap Nat :
                self' = post(self, task("command", p, t))
      BY <1>7 DEF RouteCommand
    <2>2. task("command", p, t) \in Task
      BY DEF task, Task
    <2>3. Good(self)'
      BY <2>1, <2>2, PostGood DEF Good
    <2> QED BY <1>7, <2>3 DEF RouteCommand, Surroundings
  <1>8. ASSUME NEW p \in Players, RouteForfeit(p) PROVE Inv'
    <2>1. task("forfeit", p, 0) \in Task
      BY DEF task, Task
    <2>2. Good(self)'
      BY <1>8, <2>1, PostGood DEF RouteForfeit, Good
    <2> QED BY <1>8, <2>2 DEF RouteForfeit, Surroundings
  <1>9. ASSUME NEW p \in Players, Relogin(p) PROVE Inv'
    <2>1. task("sync", p, 0) \in Task
      BY DEF task, Task
    <2>2. Good(self)'
      BY <1>9, <2>1, PostGood DEF Relogin, Good
    <2>3. logins' \in 0 .. MaxLogins
      BY <1>9, MatchAssumption DEF Relogin, Surroundings
    <2> QED BY <1>9, <2>2, <2>3 DEF Relogin, Surroundings
  <1>10. ASSUME RequestShutdown PROVE Inv'
    <2>1. task("shutdown", 0, 0) \in Task
      BY PlayersFinite DEF task, Task
    <2>2. Good(self)'
      BY <1>10, <2>1, PostGood DEF RequestShutdown, Good
    <2> QED BY <1>10, <2>2 DEF RequestShutdown, Surroundings
  <1>11. ASSUME ForgetMatch PROVE Inv'
    BY <1>11 DEF ForgetMatch, Surroundings, Good
  <1>12. ASSUME ExpireTimer PROVE Inv'
    <2>1. PICK t \in self.timer_ : self' = [post(self, t) EXCEPT !.timer_ = {}]
      BY <1>12 DEF ExpireTimer
    <2>2. t \in Task
      BY DEF Good, Match
    <2>3. Good(post(self, t))
      BY <2>2, PostGood
    <2>4. Good([post(self, t) EXCEPT !.timer_ = {}])
      BY <2>3 DEF Good, Match
    <2>5. Good(self)'
      BY <2>1, <2>4 DEF Good
    <2> QED BY <1>12, <2>5 DEF ExpireTimer, Surroundings
  <1>13. ASSUME UNCHANGED vars PROVE Inv'
    BY <1>13 DEF vars, Surroundings, Good
  <1>14. ASSUME Ended PROVE Inv'
    BY <1>13, <1>14 DEF Ended
  <1> QED BY <1>1, <1>2, <1>3, <1>4, <1>5, <1>6, <1>7, <1>8, <1>9, <1>10, <1>11,
             <1>12, <1>13, <1>14 DEF Next

LEMMA InvImplies == Inv => TypeOK /\ RosterConsistent /\ PublishedRanking
  BY DEF Inv, Good, Surroundings, TypeOK, RosterConsistent, PublishedRanking

\* The members of a match keep their types, whatever order the strand runs the
\* commands, forfeits, syncs, timeouts and the shutdown in.
THEOREM TypeCorrect == Spec => []TypeOK
  BY InitInv, StepInv, InvImplies, PTL DEF Spec

\* remaining_players, elim_counter_ and elimination_order, which are updated in
\* handle_elimination and in compute_all_views, always agree with the alive flags.
THEOREM RosterCorrect == Spec => []RosterConsistent
  BY InitInv, StepInv, InvImplies, PTL DEF Spec

\* conclude_game hands over at most one result, and it ranks all players.
THEOREM RankingCorrect == Spec => []PublishedRanking
  BY InitInv, StepInv, InvImplies, PTL DEF Spec

-----------------------------------------------------------------------------
(* What the member functions leave alone.                                  *)

\* Roster s comes after roster r: players have left, and those took places that
\* were free.
Follows(r, s) ==
    /\ s.alive \subseteq r.alive
    /\ r.elim_counter_ <= s.elim_counter_
    /\ \A p \in Players \ r.alive : s.elimination_order[p] = r.elimination_order[p]
    /\ \A p \in r.alive \ s.alive : s.elimination_order[p] >= r.elim_counter_

LEMMA DropFollows ==
    ASSUME NEW r \in Roster, NEW lost \in SUBSET r.alive
    PROVE  Follows(r, drop(r, lost))
  <1>1. r.alive \subseteq Players /\ r.elim_counter_ \in Nat
    BY DEF Roster
  <1>2. /\ Cardinality(lost) \in Nat
        /\ \A p \in lost : Cardinality(ahead(lost, p)) \in Nat
    BY <1>1, PlayersFinite DEF ahead
  <1>3. /\ drop(r, lost).alive = r.alive \ lost
        /\ drop(r, lost).elim_counter_ = r.elim_counter_ + Cardinality(lost)
        /\ \A p \in Players : drop(r, lost).elimination_order[p] =
                IF p \in lost THEN r.elim_counter_ + Cardinality(ahead(lost, p))
                ELSE r.elimination_order[p]
    BY DEF drop
  <1>4. \A p \in lost : drop(r, lost).elimination_order[p] >= r.elim_counter_
    BY <1>1, <1>2, <1>3
  <1> QED BY <1>1, <1>2, <1>3, <1>4 DEF Follows

LEMMA FollowsTransitive ==
    ASSUME NEW r \in Roster, NEW s \in Roster, NEW t \in Roster,
           Follows(r, s), Follows(s, t)
    PROVE  Follows(r, t)
  <1>1. /\ r.elim_counter_ \in Nat /\ s.elim_counter_ \in Nat /\ t.elim_counter_ \in Nat
        /\ \A p \in Players : t.elimination_order[p] \in Nat
        /\ r.alive \subseteq Players
    BY DEF Roster
  <1> QED BY <1>1 DEF Follows

\* Fewer players are left in a roster that follows.
LEMMA FollowsRemaining ==
    ASSUME NEW r \in Roster, NEW s \in Roster, RosterOK(r), RosterOK(s), Follows(r, s)
    PROVE  s.remaining_players <= r.remaining_players
  <1>1. r.alive \in SUBSET Players /\ s.alive \in SUBSET r.alive
    BY DEF Roster, Follows
  <1>2. IsFiniteSet(r.alive)
    BY <1>1, PlayersFinite
  <1>3. Cardinality(s.alive) <= Cardinality(r.alive)
    BY <1>1, <1>2, FS_Subset
  <1> QED BY <1>3 DEF RosterOK

\* The timer handlers on the strand.
Timers(m) ==
    {m.strand_[i] : i \in {j \in 1 .. Len(m.strand_) : m.strand_[j].kind = "timer"}}

\* What every member function but start_turn and conclude_game does to the match: at
\* most it takes players out, posts a start_turn, cancels the timer, or throws.
Carries(m, x) ==
    /\ x.turn_ID_ = m.turn_ID_ /\ x.results = m.results
    /\ x.callbacks_ = m.callbacks_ /\ x.shutdown = m.shutdown
    /\ x.current_state = m.current_state
    /\ Follows(m.roster, x.roster)
    /\ x.timer_ \subseteq m.timer_ /\ Timers(x) \subseteq Timers(m)
    /\ x.status = "thrown" => ~m.callbacks_ \/ m.status = "thrown"

LEMMA CarriesTransitive ==
    ASSUME NEW m, NEW x, NEW y, Good(m), Good(x), Good(y), Carries(m, x), Carries(x, y)
    PROVE  Carries(m, y)
  <1>1. m.roster \in Roster /\ x.roster \in Roster /\ y.roster \in Roster
    BY DEF Good, Match
  <1>2. Follows(m.roster, y.roster)
    BY <1>1, FollowsTransitive DEF Carries
  <1> QED BY <1>2 DEF Carries

LEMMA CarriesSame ==
    ASSUME NEW m, NEW x, Good(m), Good(x),
           x.turn_ID_ = m.turn_ID_, x.results = m.results,
           x.callbacks_ = m.callbacks_, x.shutdown = m.shutdown,
           x.current_state = m.current_state, x.roster = m.roster,
           x.timer_ \subseteq m.timer_, x.strand_ = m.strand_,
           x.status = "thrown" => ~m.callbacks_ \/ m.status = "thrown"
    PROVE  Carries(m, x)
  <1>1. m.roster \in Roster
    BY DEF Good, Match
  <1>2. Follows(m.roster, x.roster)
    BY <1>1 DEF Follows, Roster
  <1> QED BY <1>2 DEF Carries, Timers

LEMMA PostStrand ==
    ASSUME NEW m, Good(m), NEW t \in Task
    PROVE  LET x == post(m, t)
           IN  /\ Len(x.strand_) = Len(m.strand_) + 1 /\ Len(m.strand_) \in Nat
               /\ \A i \in 1 .. Len(m.strand_) : x.strand_[i] = m.strand_[i]
               /\ x.strand_[Len(m.strand_) + 1] = t
               /\ x = [m EXCEPT !.strand_ = x.strand_]
  <1> DEFINE s == m.strand_
  <1>1. s \in Seq(Task)
    BY DEF Good, Match
  <1>2. post(m, t) = [m EXCEPT !.strand_ = Append(s, t)]
    BY DEF post
  <1>3. post(m, t).strand_ = Append(s, t)
    BY <1>2 DEF Good, Match
  <1> HIDE DEF s
  <1>4. /\ Len(Append(s, t)) = Len(s) + 1 /\ Len(s) \in Nat
        /\ \A i \in 1 .. Len(s) : Append(s, t)[i] = s[i]
        /\ Append(s, t)[Len(s) + 1] = t
    BY <1>1
  <1> QED BY <1>2, <1>3, <1>4 DEF s

\* Posting a handler adds it to the timers if it is one, and to nothing else.
LEMMA PostTimers ==
    ASSUME NEW m, Good(m), NEW t \in Task
    PROVE  Timers(post(m, t)) = IF t.kind = "timer" THEN Timers(m) \cup {t} ELSE Timers(m)
  <1> DEFINE x == post(m, t)
             n == Len(m.strand_)
  <1>1. /\ Len(x.strand_) = n + 1 /\ n \in Nat
        /\ \A i \in 1 .. n : x.strand_[i] = m.strand_[i]
        /\ x.strand_[n + 1] = t
    BY PostStrand
  <1> HIDE DEF x, n
  <1>2. 1 .. n + 1 = (1 .. n) \cup {n + 1}
    BY <1>1
  <1>3. Timers(m) = {m.strand_[i] : i \in {j \in 1 .. n : m.strand_[j].kind = "timer"}}
    BY DEF Timers, n
  <1>4. Timers(x) = {x.strand_[i] : i \in {j \in 1 .. n + 1 : x.strand_[j].kind = "timer"}}
    BY <1>1 DEF Timers
  <1> QED BY <1>1, <1>2, <1>3, <1>4 DEF x

LEMMA StartTurnStrandCarries ==
    ASSUME NEW m, Good(m)
    PROVE  Carries(m, start_turn_strand(m))
  <1> DEFINE t == task("start_turn", 0, 0)
             x == post(m, t)
  <1>1. t \in Task /\ t.kind # "timer" /\ start_turn_strand(m) = x
    BY StartTask DEF task, start_turn_strand
  <1>2. Timers(x) = Timers(m)
    BY <1>1, PostTimers
  <1>3. x = [m EXCEPT !.strand_ = x.strand_]
    BY <1>1, PostStrand
  <1>4. m \in Match /\ m.roster \in Roster
    BY DEF Good, Match
  <1>5. Follows(m.roster, m.roster)
    BY <1>4 DEF Follows, Roster
  <1> DEFINE s == x.strand_
  <1> HIDE DEF t, x, s
  <1>6. x = [m EXCEPT !.strand_ = s]
    BY <1>3 DEF s
  <1>7. /\ x.turn_ID_ = m.turn_ID_ /\ x.results = m.results
        /\ x.callbacks_ = m.callbacks_ /\ x.shutdown = m.shutdown
        /\ x.current_state = m.current_state /\ x.roster = m.roster
        /\ x.timer_ = m.timer_ /\ x.status = m.status
    BY <1>4, <1>6 DEF Match
  <1> QED BY <1>1, <1>2, <1>5, <1>7 DEF Carries

LEMMA SendCarries ==
    ASSUME NEW m, Good(m)
    PROVE  Carries(m, send(m))
  <1>1. Good(send(m))
    BY SendGood
  <1> QED BY <1>1, CarriesSame DEF send, Good, Match

LEMMA ComputeAllViewsCarries ==
    ASSUME NEW m, Good(m)
    PROVE  Carries(m, compute_all_views(m))
  <1> DEFINE lost == IF m.current_state = "Setup" THEN {}
                     ELSE {i \in m.roster.alive : m.live_tanks[i] = 0}
             r == drop(m.roster, lost)
             seen == [m EXCEPT !.roster = r]
  <1>1. lost \in SUBSET m.roster.alive /\ m.roster \in Roster
    BY DEF Good, Match
  <1>2. r \in Roster /\ RosterOK(r) /\ Follows(m.roster, r)
    BY <1>1, DropKeepsRoster, DropFollows DEF Good
  <1>3. compute_all_views(m) = IF m.roster.alive = {} THEN m ELSE send(seen)
    BY DEF compute_all_views
  <1> HIDE DEF lost, r
  <1>4. Good(seen)
    BY <1>2 DEF Good, Match
  <1>5. Carries(m, seen)
    BY <1>2 DEF Carries, Timers, Good, Match
  <1>6. Carries(m, send(seen))
    BY <1>4, <1>5, SendCarries, SendGood, CarriesTransitive
  <1>7. Carries(m, m)
    BY CarriesSame
  <1> QED BY <1>3, <1>6, <1>7

LEMMA HandleEliminationCarries ==
    ASSUME NEW m, Good(m), NEW p \in m.roster.alive
    PROVE  Carries(m, handle_elimination(m, p))
  <1> DEFINE queues == [m.command_queues_ EXCEPT ![p] = 0]
             times == [m.time_left_ EXCEPT ![p] = NoClock]
             tanks == IF m.current_state = "Setup"
                      THEN m.tanks_placed - m.placed[p] ELSE m.tanks_placed
             lives == [m.live_tanks EXCEPT ![p] = 0]
             r == drop(m.roster, {p})
             cut == [m EXCEPT !.command_queues_ = queues, !.roster = r,
                              !.time_left_ = times, !.tanks_placed = tanks,
                              !.live_tanks = lives]
             viewed == compute_all_views(send(cut))
             passed == IF p = m.current_player
                       THEN [viewed EXCEPT !.current_player = next_player(m),
                                           !.current_fuel = TURN_PLAYER_FUEL,
                                           !.timer_ = {}]
                       ELSE viewed
  <1>1. /\ m \in Match /\ m.roster \in Roster /\ RosterOK(m.roster) /\ p \in Players
    BY DEF Good, Match, Roster
  <1>2. r \in Roster /\ RosterOK(r) /\ Follows(m.roster, r)
    BY <1>1, DropKeepsRoster, DropFollows
  <1>3. /\ queues \in [Players -> 0 .. MAX_QUEUE_SIZE]
        /\ times \in [Players -> Players \cup {NoClock}]
        /\ tanks \in Int /\ lives \in [Players -> Nat]
    BY <1>1, MatchAssumption DEF Match
  <1>4. handle_elimination(m, p) = start_turn_strand(passed)
    BY <1>1 DEF handle_elimination, Match
  <1>5. next_player(m) \in Players /\ TURN_PLAYER_FUEL \in 1 .. TURN_PLAYER_FUEL
    BY <1>1, NextPlayerType, MatchAssumption
  <1> HIDE DEF queues, times, tanks, lives, r
  <1>6. Good(cut)
    BY <1>1, <1>2, <1>3 DEF Good, Match
  <1>7. Carries(m, cut)
    BY <1>1, <1>2 DEF Carries, Timers, Match
  <1> HIDE DEF cut
  <1>8. Good(viewed) /\ Carries(m, viewed)
    BY <1>6, <1>7, SendGood, SendCarries, ComputeAllViewsGood, ComputeAllViewsCarries,
       CarriesTransitive
  <1> HIDE DEF viewed
  <1>9. Good(passed)
    BY <1>5, <1>8 DEF Good, Match
  <1>10. Carries(viewed, passed)
    <2>1. viewed \in Match
      BY <1>8 DEF Good
    <2> QED BY <1>8, <1>9, <2>1, CarriesSame DEF Match
  <1> HIDE DEF passed
  <1> QED BY <1>4, <1>8, <1>9, <1>10, StartTurnStrandGood, StartTurnStrandCarries,
             CarriesTransitive

LEMMA PlaceTankCarries ==
    ASSUME NEW m, Good(m), NEW p \in Players, NEW destroyed \in BOOLEAN
    PROVE  Carries(m, place_tank(m, p, destroyed))
  <1>1. Good(place_tank(m, p, destroyed))
    BY PlaceTankGood
  <1> DEFINE placed == [m.placed EXCEPT ![p] = @ + 1]
             total == m.tanks_placed + 1
             lives == [m.live_tanks EXCEPT ![p] = IF destroyed THEN @ ELSE @ + 1]
             status == IF m.placed[p] >= num_tanks_ THEN "overrun" ELSE m.status
  <1>2. place_tank(m, p, destroyed) =
            [m EXCEPT !.placed = placed, !.tanks_placed = total,
                      !.live_tanks = lives, !.status = status]
    BY DEF Good, Match, place_tank
  <1>3. status = "thrown" => m.status = "thrown"
    OBVIOUS
  <1> HIDE DEF placed, total, lives, status
  <1> QED BY <1>1, <1>2, <1>3, CarriesSame DEF Good, Match

LEMMA ApplyCommandCarries ==
    ASSUME NEW m, Good(m)
    PROVE  \A x \in apply_command(m) : Carries(m, x)
  <1>1. m.current_player \in Players
    BY DEF Good, Match
  <1>2. CASE m.current_state = "Setup"
    BY <1>1, <1>2, PlaceTankCarries DEF apply_command
  <1>3. CASE m.current_state # "Setup"
    <2>1. \A q \in Players : m.live_tanks[q] > 0
                => Carries(m, [m EXCEPT !.live_tanks[q] = @ - 1])
      <3> SUFFICES ASSUME NEW q \in Players, m.live_tanks[q] > 0
                   PROVE  Carries(m, [m EXCEPT !.live_tanks[q] = @ - 1])
        OBVIOUS
      <3> DEFINE lives == [m.live_tanks EXCEPT ![q] = @ - 1]
                 x == [m EXCEPT !.live_tanks = lives]
      <3>1. lives \in [Players -> Nat]
        BY DEF Good, Match
      <3>2. [m EXCEPT !.live_tanks[q] = @ - 1] = x
        BY DEF Good, Match
      <3> HIDE DEF lives
      <3>3. Good(x)
        BY <3>1 DEF Good, Match
      <3>4. Carries(m, x)
        BY <3>3, CarriesSame DEF Good, Match
      <3> QED BY <3>2, <3>4
    <2>2. Carries(m, m)
      BY CarriesSame
    <2> QED BY <1>3, <2>1, <2>2 DEF apply_command
  <1> QED BY <1>2, <1>3

LEMMA EndMoveCarries ==
    ASSUME NEW m, Good(m)
    PROVE  Carries(m, end_move(m))
  <1> DEFINE spent == IF m.current_state = "Setup"
                      THEN [m EXCEPT !.current_player = next_player(m)]
                      ELSE IF m.current_fuel > 1
                      THEN [m EXCEPT !.current_fuel = @ - 1]
                      ELSE [m EXCEPT !.current_player = next_player(m),
                                     !.current_fuel = TURN_PLAYER_FUEL]
  <1>1. m \in Match /\ next_player(m) \in Players
    BY NextPlayerType DEF Good
  <1>2. /\ TURN_PLAYER_FUEL \in 1 .. TURN_PLAYER_FUEL
        /\ m.current_fuel > 1 => m.current_fuel - 1 \in 1 .. TURN_PLAYER_FUEL
    BY <1>1, MatchAssumption DEF Match
  <1>3. Good(spent) /\ Carries(m, spent)
    <2>1. Good(spent)
      BY <1>1, <1>2 DEF Good, Match
    <2>2. /\ spent.turn_ID_ = m.turn_ID_ /\ spent.results = m.results
          /\ spent.callbacks_ = m.callbacks_ /\ spent.shutdown = m.shutdown
          /\ spent.current_state = m.current_state /\ spent.roster = m.roster
          /\ spent.timer_ = m.timer_ /\ spent.strand_ = m.strand_
          /\ spent.status = m.status
      BY <1>1 DEF Match
    <2> HIDE DEF spent
    <2> QED BY <2>1, <2>2, CarriesSame
  <1>4. end_move(m) = start_turn_strand(compute_all_views(spent))
    BY DEF end_move
  <1> HIDE DEF spent
  <1> QED BY <1>3, <1>4, ComputeAllViewsGood, ComputeAllViewsCarries,
             StartTurnStrandGood, StartTurnStrandCarries, CarriesTransitive

LEMMA MoveArrivedCarries ==
    ASSUME NEW m, Good(m)
    PROVE  \A x \in on_player_move_arrived(m) : Carries(m, x)
  <1> DEFINE p == m.current_player
             claimed == [m EXCEPT !.turn_claimed_ = TRUE]
             queues == [m.command_queues_ EXCEPT ![p] = @ - 1]
             times == [m.time_left_ EXCEPT ![p] = m.expiry_time_]
             taken == [m EXCEPT !.turn_claimed_ = TRUE, !.timer_ = {},
                                !.command_queues_ = queues, !.time_left_ = times]
  <1>1. on_player_move_arrived(m) =
            IF m.turn_claimed_ THEN {m}
            ELSE IF m.current_state = "Concluded" \/ m.command_queues_[p] = 0
            THEN {claimed}
            ELSE {start_turn_strand(send(taken))}
                    \cup {end_move(x) : x \in apply_command(taken)}
    BY DEF on_player_move_arrived, Good, Match
  <1>2. Good(claimed)
    BY DEF Good, Match
  <1>3. Carries(m, claimed) /\ Carries(m, m)
    BY <1>2, CarriesSame DEF Good, Match
  <1>4. ASSUME m.command_queues_[p] # 0
        PROVE  Good(taken) /\ Carries(m, taken)
    <2>1. queues \in [Players -> 0 .. MAX_QUEUE_SIZE]
      BY <1>4, MatchAssumption DEF Good, Match
    <2>2. times \in [Players -> Players \cup {NoClock}]
      BY DEF Good, Match
    <2> HIDE DEF queues, times
    <2>3. Good(taken)
      BY <2>1, <2>2 DEF Good, Match
    <2>4. Carries(m, taken)
      BY <2>3, CarriesSame DEF Good, Match
    <2> QED BY <2>3, <2>4
  <1> HIDE DEF taken, claimed
  <1>5. ASSUME m.command_queues_[p] # 0
        PROVE  Carries(m, start_turn_strand(send(taken)))
    BY <1>4, <1>5, SendGood, SendCarries, StartTurnStrandGood, StartTurnStrandCarries,
       CarriesTransitive
  <1>6. ASSUME m.command_queues_[p] # 0, NEW x \in apply_command(taken)
        PROVE  Carries(m, end_move(x))
    <2>1. Good(x) /\ Carries(m, x)
      BY <1>4, <1>6, ApplyCommandGood, ApplyCommandCarries, CarriesTransitive
    <2> QED BY <2>1, EndMoveGood, EndMoveCarries, CarriesTransitive
  <1> QED BY <1>1, <1>3, <1>5, <1>6

-----------------------------------------------------------------------------

\* Timers belong to turns that were opened, there is at most one wait, and none for a
\* match that is over; the callbacks are set unless it is over or shut down.
Timely(m) ==
    /\ \A t \in m.timer_ : t.kind = "timer" /\ t.t_id <= m.turn_ID_
    /\ \A s, t \in m.timer_ : s = t
    /\ \A t \in Timers(m) : t.t_id <= m.turn_ID_
    /\ m.current_state = "Concluded" =>
            /\ m.timer_ = {} /\ \A t \in Timers(m) : t.t_id < m.turn_ID_
            /\ m.roster.remaining_players <= 1 /\ ~m.callbacks_
    /\ ~m.callbacks_ \/ m.status = "thrown" =>
            m.shutdown \/ m.current_state = "Concluded"

LEMMA CarriesTimely ==
    ASSUME NEW m, NEW x, Good(m), Good(x), Carries(m, x), Timely(m)
    PROVE  Timely(x)
  <1>1. /\ m.roster \in Roster /\ x.roster \in Roster
        /\ m.roster.remaining_players \in Int /\ x.roster.remaining_players \in Int
    BY DEF Good, Match, Roster
  <1>2. x.roster.remaining_players <= m.roster.remaining_players
    BY <1>1, FollowsRemaining DEF Good, Carries
  <1>3. m.roster.remaining_players <= 1 => x.roster.remaining_players <= 1
    BY <1>1, <1>2
  <1> QED BY <1>3 DEF Timely, Carries

\* The relation of an object and what a handler leaves of it that the rest of the
\* server sees: nothing changes, the match goes on, or it is concluded.
Advances(m, x) ==
    \/ /\ x.current_state = m.current_state /\ x.roster = m.roster /\ x.results = m.results
    \/ /\ m.current_state # "Concluded"
       /\ Follows(m.roster, x.roster)
       /\ \/ /\ x.current_state \in {"Play", m.current_state}
             /\ x.results = m.results
          \/ /\ x.current_state = "Concluded"
             /\ x.roster.remaining_players <= 1
             /\ x.results = Append(m.results, final_order(x.roster))

LEMMA CarriesAdvances ==
    ASSUME NEW m, NEW x, Carries(m, x), m.current_state # "Concluded"
    PROVE  Advances(m, x)
  BY DEF Carries, Advances

LEMMA BeginPlayCarries ==
    ASSUME NEW m, Good(m)
    PROVE  /\ Good(begin_play(m))
           /\ Carries([m EXCEPT !.current_state = "Play"], begin_play(m))
  <1> DEFINE play == [m EXCEPT !.current_state = "Play"]
             first == [m EXCEPT !.current_state = "Play", !.current_player = 0,
                                !.current_fuel = TURN_PLAYER_FUEL]
  <1>1. TURN_PLAYER_FUEL \in 1 .. TURN_PLAYER_FUEL /\ 0 \in Players
    BY MatchAssumption, PlayersFinite
  <1>2. Good(play) /\ Good(first)
    BY <1>1 DEF Good, Match
  <1>3. Carries(play, first)
    BY <1>2, CarriesSame DEF Good, Match
  <1>4. begin_play(m) = compute_all_views(first)
    BY DEF begin_play
  <1> HIDE DEF play, first
  <1>5. Good(compute_all_views(first)) /\ Carries(play, compute_all_views(first))
    BY <1>2, <1>3, ComputeAllViewsGood, ComputeAllViewsCarries, CarriesTransitive
  <1> QED BY <1>4, <1>5 DEF play

LEMMA ConcludeGameTimely ==
    ASSUME NEW m, Good(m), Timely(m), m.roster.remaining_players <= 1,
           \A t \in Timers(m) : t.t_id < m.turn_ID_
    PROVE  Timely(conclude_game(m)) /\ Advances(m, conclude_game(m))
  <1> DEFINE order == final_order(m.roster)
             r == [m.roster EXCEPT !.elimination_order = order]
             over == [m EXCEPT !.current_state = "Concluded", !.roster = r,
                               !.results = Append(@, order), !.timer_ = {},
                               !.callbacks_ = FALSE]
  <1>1. m \in Match /\ m.roster \in Roster
    BY DEF Good, Match
  <1>2. conclude_game(m) = IF m.shutdown THEN m ELSE IF ~m.callbacks_
            THEN [m EXCEPT !.current_state = "Concluded", !.status = "thrown"]
            ELSE over
    BY <1>1 DEF conclude_game, Match
  <1>3. CASE m.shutdown
    BY <1>2, <1>3 DEF Advances
  <1>4. CASE ~m.shutdown /\ ~m.callbacks_
    <2>1. m.current_state = "Concluded"
      BY <1>4 DEF Timely
    <2> QED BY <1>1, <1>2, <1>4, <2>1 DEF Timely, Advances, Timers, Match
  <1>5. CASE ~m.shutdown /\ m.callbacks_
    <2>1. m.current_state # "Concluded"
      BY <1>5 DEF Timely
    <2>2. /\ order \in [Players -> Nat]
          /\ \A p \in Players : order[p] = IF p \in m.roster.alive
                THEN m.roster.elim_counter_ ELSE m.roster.elimination_order[p]
      BY <1>1 DEF final_order, Roster
    <2>3. /\ r.alive = m.roster.alive /\ r.elim_counter_ = m.roster.elim_counter_
          /\ r.remaining_players = m.roster.remaining_players
          /\ r.elimination_order = order
      BY <1>1 DEF Roster
    <2>4. final_order(r) = order
      BY <2>2, <2>3 DEF final_order
    <2>5. Follows(m.roster, r)
      BY <1>1, <2>2, <2>3 DEF Follows, Roster
    <2> HIDE DEF order, r
    <2>6. /\ over.current_state = "Concluded" /\ over.roster = r
          /\ over.results = Append(m.results, order) /\ over.timer_ = {}
          /\ ~over.callbacks_ /\ over.strand_ = m.strand_
          /\ over.turn_ID_ = m.turn_ID_ /\ over.status = m.status
      BY <1>1 DEF Match
    <2>7. Timers(over) = Timers(m)
      BY <2>6 DEF Timers
    <2> HIDE DEF over
    <2>8. Advances(m, over)
      BY <2>1, <2>3, <2>4, <2>5, <2>6 DEF Advances
    <2>9. Timely(over)
      BY <2>3, <2>6, <2>7 DEF Timely
    <2> QED BY <1>2, <1>5, <2>8, <2>9
  <1> QED BY <1>3, <1>4, <1>5

LEMMA AdvancesTransitive ==
    ASSUME NEW m, NEW x, NEW y, Good(m), Good(x), Good(y), Advances(m, x), Advances(x, y)
    PROVE  Advances(m, y)
  <1>1. m.roster \in Roster /\ x.roster \in Roster /\ y.roster \in Roster
    BY DEF Good, Match
  <1>2. Follows(m.roster, x.roster) /\ Follows(x.roster, y.roster)
            => Follows(m.roster, y.roster)
    BY <1>1, FollowsTransitive
  <1>3. CASE /\ x.current_state = m.current_state /\ x.roster = m.roster
             /\ x.results = m.results
    BY <1>3 DEF Advances
  <1>4. CASE /\ y.current_state = x.current_state /\ y.roster = x.roster
             /\ y.results = x.results
    BY <1>4 DEF Advances
  <1>5. CASE /\ m.current_state # "Concluded" /\ Follows(m.roster, x.roster)
             /\ x.current_state # "Concluded" /\ Follows(x.roster, y.roster)
    <2>1. x.results = m.results /\ x.current_state \in {"Play", m.current_state}
      BY <1>5 DEF Advances
    <2> QED BY <1>2, <1>5, <2>1 DEF Advances
  <1> QED BY <1>3, <1>4, <1>5 DEF Advances

\* The turn that start_turn opens: no timer belongs to it yet.
LEMMA BegunTimely ==
    ASSUME NEW m, Good(m), Timely(m)
    PROVE  LET opened == [m EXCEPT !.turn_ID_ = @ + 1, !.turn_claimed_ = FALSE]
               begun == IF setup_over(opened) THEN begin_play(opened) ELSE opened
           IN  /\ Good(begun) /\ Timely(begun) /\ Advances(m, begun)
               /\ \A t \in Timers(begun) : t.t_id < begun.turn_ID_
  <1> DEFINE opened == [m EXCEPT !.turn_ID_ = @ + 1, !.turn_claimed_ = FALSE]
             begun == IF setup_over(opened) THEN begin_play(opened) ELSE opened
             play == [opened EXCEPT !.current_state = "Play"]
  <1>1. m \in Match /\ m.turn_ID_ \in Nat /\ m.strand_ \in Seq(Task)
    BY DEF Good, Match
  <1>2. /\ \A t \in m.timer_ : t.t_id \in Nat
        /\ \A t \in Timers(m) : t.t_id \in Nat
    <2>1. \A i \in 1 .. Len(m.strand_) : m.strand_[i] \in Task
      BY <1>1
    <2>2. Timers(m) \subseteq Task
      BY <2>1 DEF Timers
    <2>3. m.timer_ \subseteq Task
      BY <1>1 DEF Match
    <2> QED BY <2>2, <2>3 DEF Task
  <1>3. Good(opened)
    <2>1. m.turn_ID_ + 1 \in Nat
      BY <1>1
    <2> QED BY <2>1 DEF Good, Match
  <1>4. /\ opened.turn_ID_ = m.turn_ID_ + 1 /\ opened.timer_ = m.timer_
        /\ opened.strand_ = m.strand_ /\ opened.current_state = m.current_state
        /\ opened.roster = m.roster /\ opened.callbacks_ = m.callbacks_
        /\ opened.status = m.status /\ opened.shutdown = m.shutdown
        /\ opened.results = m.results /\ opened \in Match
    BY <1>1, <1>3 DEF Match, Good
  <1>5. Timers(opened) = Timers(m)
    BY <1>4 DEF Timers
  <1> HIDE DEF opened
  <1>6. /\ \A t \in opened.timer_ : t.t_id < opened.turn_ID_
        /\ \A t \in Timers(opened) : t.t_id < opened.turn_ID_
    BY <1>1, <1>2, <1>4, <1>5 DEF Timely
  <1>7. Timely(opened)
    <2>1. \A t \in opened.timer_ : t.kind = "timer" /\ t.t_id <= opened.turn_ID_
      BY <1>1, <1>2, <1>4 DEF Timely
    <2>2. \A t \in Timers(opened) : t.t_id <= opened.turn_ID_
      BY <1>1, <1>2, <1>4, <1>5 DEF Timely
    <2> QED BY <1>4, <1>6, <2>1, <2>2 DEF Timely
  <1>8. Advances(m, opened)
    BY <1>4 DEF Advances
  <1>9. CASE ~setup_over(opened)
    BY <1>3, <1>6, <1>7, <1>8, <1>9 DEF opened
  <1>10. CASE setup_over(opened)
    <2>1. opened.current_state = "Setup"
      BY <1>10 DEF setup_over
    <2>2. /\ play.turn_ID_ = opened.turn_ID_ /\ play.timer_ = opened.timer_
          /\ play.strand_ = opened.strand_ /\ play.current_state = "Play"
          /\ play.roster = opened.roster /\ play.callbacks_ = opened.callbacks_
          /\ play.status = opened.status /\ play.shutdown = opened.shutdown
          /\ play.results = opened.results
      BY <1>4 DEF Match
    <2>3. Good(play)
      BY <1>3 DEF Good, Match
    <2>4. Timers(play) = Timers(opened)
      BY <2>2 DEF Timers
    <2>5. Good(begin_play(opened)) /\ Carries(play, begin_play(opened))
      BY <1>3, BeginPlayCarries
    <2> HIDE DEF play
    <2>6. Timely(play)
      BY <1>7, <2>1, <2>2, <2>4 DEF Timely
    <2>7. Timely(begin_play(opened))
      BY <2>3, <2>5, <2>6, CarriesTimely
    <2>8. \A t \in Timers(begin_play(opened)) : t.t_id < begin_play(opened).turn_ID_
      BY <1>6, <2>2, <2>4, <2>5 DEF Carries
    <2>9. Advances(m, begin_play(opened))
      BY <1>4, <2>1, <2>2, <2>5 DEF Carries, Advances
    <2> QED BY <1>10, <2>5, <2>7, <2>8, <2>9 DEF opened
  <1> QED BY <1>9, <1>10

LEMMA ArmTimerTimely ==
    ASSUME NEW m, Good(m), Timely(m), m.current_state # "Concluded"
    PROVE  /\ Good(arm_timer(m)) /\ Timely(arm_timer(m)) /\ Advances(m, arm_timer(m))
           /\ arm_timer(m).current_state = m.current_state
  <1> DEFINE t == task("timer", m.current_player, m.turn_ID_)
             x == [m EXCEPT !.expiry_time_ = m.time_left_[m.current_player],
                            !.timer_ = {t}]
  <1>1. m \in Match /\ m.time_left_[m.current_player] \in Players \cup {NoClock}
    BY DEF Good, Match
  <1>2. t \in Task /\ t.kind = "timer" /\ t.t_id = m.turn_ID_ /\ m.turn_ID_ \in Nat
    BY <1>1 DEF Match, task, Task
  <1>3. arm_timer(m) = x
    BY DEF arm_timer
  <1> HIDE DEF t
  <1>4. Good(x)
    BY <1>1, <1>2 DEF Good, Match
  <1>5. /\ x.timer_ = {t} /\ x.turn_ID_ = m.turn_ID_ /\ x.strand_ = m.strand_
        /\ x.current_state = m.current_state /\ x.roster = m.roster
        /\ x.results = m.results /\ x.callbacks_ = m.callbacks_
        /\ x.status = m.status /\ x.shutdown = m.shutdown
    BY <1>1 DEF Match
  <1>6. Timers(x) = Timers(m)
    BY <1>5 DEF Timers
  <1> HIDE DEF x
  <1>7. Timely(x)
    BY <1>2, <1>5, <1>6 DEF Timely
  <1> QED BY <1>3, <1>4, <1>5, <1>7 DEF Advances

LEMMA StartTurnTimely ==
    ASSUME NEW m, Good(m), Timely(m)
    PROVE  \A x \in start_turn(m) : Timely(x) /\ Advances(m, x)
  <1> DEFINE opened == [m EXCEPT !.turn_ID_ = @ + 1, !.turn_claimed_ = FALSE]
             begun == IF setup_over(opened) THEN begin_play(opened) ELSE opened
             armed == arm_timer(begun)
  <1>1. /\ Good(begun) /\ Timely(begun) /\ Advances(m, begun)
        /\ \A t \in Timers(begun) : t.t_id < begun.turn_ID_
    BY BegunTimely
  <1>2. start_turn(m) =
            IF begun.roster.remaining_players <= 1 THEN {conclude_game(begun)}
            ELSE IF begun.current_player \notin begun.roster.alive
            THEN {skip_eliminated(begun)}
            ELSE IF armed.command_queues_[armed.current_player] > 0
            THEN on_player_move_arrived(armed)
            ELSE {armed}
    BY DEF start_turn
  <1>3. \A x \in start_turn(m) : Good(x)
    BY StartTurnGood
  <1> HIDE DEF begun
  <1>4. CASE begun.roster.remaining_players <= 1
    <2>1. Good(conclude_game(begun))
      BY <1>1, <1>4, ConcludeGameGood
    <2> QED BY <1>1, <1>2, <1>4, <2>1, ConcludeGameTimely, AdvancesTransitive
  <1>5. CASE ~(begun.roster.remaining_players <= 1)
    <2>1. begun.current_state # "Concluded"
      BY <1>1, <1>5 DEF Timely
    <2>2. Good(armed) /\ Timely(armed) /\ Advances(m, armed)
            /\ armed.current_state # "Concluded"
      BY <1>1, <2>1, ArmTimerTimely, AdvancesTransitive
    <2> HIDE DEF armed
    <2>3. /\ Good(skip_eliminated(begun)) /\ Carries(begun, skip_eliminated(begun))
      <3> DEFINE next == [begun EXCEPT !.current_player = next_player(begun)]
      <3>1. next_player(begun) \in Players
        BY <1>1, NextPlayerType DEF Good
      <3>2. Good(next)
        BY <1>1, <3>1 DEF Good, Match
      <3>3. Carries(begun, next)
        BY <1>1, <3>2, CarriesSame DEF Good, Match
      <3>4. skip_eliminated(begun) = start_turn_strand(compute_all_views(next))
        BY DEF skip_eliminated
      <3> HIDE DEF next
      <3> QED BY <1>1, <3>2, <3>3, <3>4, ComputeAllViewsGood, ComputeAllViewsCarries,
                 StartTurnStrandGood, StartTurnStrandCarries, CarriesTransitive
    <2>4. Timely(skip_eliminated(begun)) /\ Advances(m, skip_eliminated(begun))
      BY <1>1, <2>1, <2>3, CarriesTimely, CarriesAdvances, AdvancesTransitive
    <2>5. \A x \in on_player_move_arrived(armed) : Timely(x) /\ Advances(m, x)
      BY <2>2, MoveArrivedGood, MoveArrivedCarries, CarriesTimely, CarriesAdvances,
         AdvancesTransitive
    <2> QED BY <1>2, <1>5, <2>2, <2>4, <2>5
  <1> QED BY <1>4, <1>5

\* The handlers: each leaves the timers timely, and moves the match on as the rest of
\* the server may see it.
LEMMA ReceiveCommandTimely ==
    ASSUME NEW m, Good(m), Timely(m), NEW p \in Players, NEW t \in Nat
    PROVE  \A x \in receive_command(m, p, t) : Timely(x) /\ Advances(m, x)
  <1> DEFINE queues == [m.command_queues_ EXCEPT ![p] = @ + 1]
             pushed == [m EXCEPT !.command_queues_ = queues]
  <1>1. receive_command(m, p, t) =
            IF m.current_state = "Concluded" \/ t # m.turn_ID_ THEN {send(m)}
            ELSE IF m.command_queues_[p] >= MAX_QUEUE_SIZE THEN {m}
            ELSE IF p = m.current_player THEN on_player_move_arrived(pushed)
            ELSE {pushed}
    BY DEF receive_command, Good, Match
  <1>2. Timely(send(m)) /\ Advances(m, send(m))
    <2>1. Timely(send(m))
      BY SendGood, SendCarries, CarriesTimely
    <2> QED BY <2>1 DEF Advances, send, Good, Match
  <1>3. ASSUME ~(m.command_queues_[p] >= MAX_QUEUE_SIZE)
        PROVE  Good(pushed) /\ Carries(m, pushed)
    <2>1. queues \in [Players -> 0 .. MAX_QUEUE_SIZE]
      BY <1>3, MatchAssumption DEF Good, Match
    <2> HIDE DEF queues
    <2>2. Good(pushed)
      BY <2>1 DEF Good, Match
    <2> QED BY <2>2, CarriesSame DEF Good, Match
  <1>4. Advances(m, m)
    BY DEF Advances
  <1> HIDE DEF pushed
  <1>5. ASSUME ~(m.command_queues_[p] >= MAX_QUEUE_SIZE), m.current_state # "Concluded",
               NEW x \in on_player_move_arrived(pushed) \cup {pushed}
        PROVE  Timely(x) /\ Advances(m, x)
    <2>1. Good(x) /\ Carries(m, x)
      BY <1>3, <1>5, MoveArrivedGood, MoveArrivedCarries, CarriesTransitive
    <2> QED BY <1>5, <2>1, CarriesTimely, CarriesAdvances
  <1> QED BY <1>1, <1>2, <1>4, <1>5

LEMMA ForfeitTimely ==
    ASSUME NEW m, Good(m), Timely(m), NEW p \in Players
    PROVE  Timely(forfeit(m, p)) /\ Advances(m, forfeit(m, p))
  <1>1. CASE m.current_state = "Concluded"
    <2>1. forfeit(m, p) = send(m)
      BY <1>1 DEF forfeit
    <2>2. Timely(send(m))
      BY SendGood, SendCarries, CarriesTimely
    <2> QED BY <2>1, <2>2 DEF Advances, send, Good, Match
  <1>2. CASE m.current_state # "Concluded" /\ p \in m.roster.alive
    <2>1. forfeit(m, p) = handle_elimination(m, p)
      BY <1>2 DEF forfeit
    <2>2. Good(handle_elimination(m, p)) /\ Carries(m, handle_elimination(m, p))
      BY <1>2, HandleEliminationGood, HandleEliminationCarries
    <2> QED BY <1>2, <2>1, <2>2, CarriesTimely, CarriesAdvances
  <1>3. CASE m.current_state # "Concluded" /\ p \notin m.roster.alive
    BY <1>3 DEF forfeit, handle_elimination, Advances
  <1> QED BY <1>1, <1>2, <1>3

LEMMA SyncTimely ==
    ASSUME NEW m, Good(m), Timely(m), NEW p \in Players
    PROVE  Timely(sync_player(m, p)) /\ Advances(m, sync_player(m, p))
  <1> DEFINE queues == [m.command_queues_ EXCEPT ![p] = 0]
             dumped == [m EXCEPT !.command_queues_ = queues]
  <1>1. sync_player(m, p) = IF m.current_state = "Concluded" THEN send(m) ELSE send(dumped)
    BY DEF sync_player, Good, Match
  <1>2. queues \in [Players -> 0 .. MAX_QUEUE_SIZE]
    BY MatchAssumption DEF Good, Match
  <1> HIDE DEF queues
  <1>3. Good(dumped)
    BY <1>2 DEF Good, Match
  <1>4. Carries(m, dumped)
    BY <1>3, CarriesSame DEF Good, Match
  <1>5. Advances(m, send(dumped)) /\ Advances(m, send(m))
    BY <1>3 DEF Advances, send, Good, Match
  <1> HIDE DEF dumped
  <1>6. Timely(send(dumped)) /\ Timely(send(m))
    BY <1>3, <1>4, SendGood, SendCarries, CarriesTransitive, CarriesTimely
  <1> QED BY <1>1, <1>5, <1>6

LEMMA ShutdownTimely ==
    ASSUME NEW m, Good(m), Timely(m)
    PROVE  Timely(async_shutdown(m)) /\ Advances(m, async_shutdown(m))
  <1> DEFINE x == async_shutdown(m)
  <1>1. /\ x.timer_ = {} /\ x.turn_ID_ = m.turn_ID_ /\ x.strand_ = m.strand_
        /\ x.current_state = m.current_state /\ x.roster = m.roster
        /\ x.results = m.results /\ x.callbacks_ = FALSE /\ x.shutdown = TRUE
    BY DEF async_shutdown, Good, Match
  <1>2. Timers(x) = Timers(m)
    BY <1>1 DEF Timers
  <1> HIDE DEF x
  <1>3. Timely(x) /\ Advances(m, x)
    BY <1>1, <1>2 DEF Timely, Advances
  <1> QED BY <1>3 DEF x

\* A timer handler acts only in the turn it was armed for, so never on a match that
\* is over.
LEMMA TimerTimely ==
    ASSUME NEW m, Good(m), Timely(m), NEW t \in Nat,
           m.current_state = "Concluded" => t < m.turn_ID_
    PROVE  Timely(timer_handler(m, t)) /\ Advances(m, timer_handler(m, t))
  <1> DEFINE claimed == [m EXCEPT !.turn_claimed_ = TRUE]
             p == m.current_player
  <1>1. m.turn_ID_ \in Nat /\ p \in Players
    BY DEF Good, Match
  <1>2. Advances(m, m)
    BY DEF Advances
  <1>3. CASE t # m.turn_ID_ \/ m.turn_claimed_
    BY <1>2, <1>3 DEF timer_handler
  <1>4. CASE ~(t # m.turn_ID_ \/ m.turn_claimed_)
    <2>1. m.current_state # "Concluded"
      BY <1>1, <1>4
    <2>2. timer_handler(m, t) = handle_elimination(claimed, p)
      BY <1>4 DEF timer_handler, handle_timeout
    <2>3. Good(claimed) /\ claimed.roster = m.roster
      BY DEF Good, Match
    <2>4. Carries(m, claimed)
      BY <2>3, CarriesSame DEF Good, Match
    <2> HIDE DEF claimed
    <2>5. CASE p \in m.roster.alive
      <3>1. /\ Good(handle_elimination(claimed, p))
            /\ Carries(claimed, handle_elimination(claimed, p))
        BY <1>1, <2>3, <2>5, HandleEliminationGood, HandleEliminationCarries
      <3> QED BY <2>1, <2>2, <2>3, <2>4, <3>1, CarriesTransitive, CarriesTimely,
                 CarriesAdvances
    <2>6. CASE p \notin m.roster.alive
      <3>1. handle_elimination(claimed, p) = claimed
        BY <2>3, <2>6 DEF handle_elimination
      <3> QED BY <2>1, <2>2, <2>3, <2>4, <3>1, CarriesTimely, CarriesAdvances
    <2> QED BY <2>5, <2>6
  <1> QED BY <1>3, <1>4

\* Taking the head off the strand leaves the other handlers in order.
LEMMA PopStrand ==
    ASSUME Good(self), self.strand_ # <<>>
    PROVE  /\ Len(popped.strand_) = Len(self.strand_) - 1 /\ Len(self.strand_) \in Nat \ {0}
           /\ \A i \in 1 .. Len(popped.strand_) : popped.strand_[i] = self.strand_[i + 1]
           /\ head = self.strand_[1] /\ head \in Task
           /\ popped.strand_ = Tail(self.strand_)
  <1> DEFINE s == self.strand_
  <1>1. s \in Seq(Task)
    BY DEF Good, Match
  <1>2. popped.strand_ = Tail(s) /\ head = Head(s)
    BY DEF popped, head, Good, Match
  <1> HIDE DEF s
  <1>3. s # <<>>
    BY DEF s
  <1>4. /\ Len(Tail(s)) = Len(s) - 1 /\ Len(s) \in Nat \ {0}
        /\ \A i \in 1 .. Len(Tail(s)) : Tail(s)[i] = s[i + 1]
        /\ Head(s) = s[1] /\ Head(s) \in Task
    BY <1>1, <1>3
  <1> QED BY <1>2, <1>4 DEF s

LEMMA PopTimely ==
    ASSUME Good(self), Timely(self), self.strand_ # <<>>
    PROVE  /\ Timely(popped) /\ Good(popped)
           /\ popped.current_state = self.current_state /\ popped.roster = self.roster
           /\ popped.results = self.results
           /\ head.kind = "timer" /\ popped.current_state = "Concluded"
                => head.t_id < popped.turn_ID_
  <1>1. /\ popped.timer_ = self.timer_ /\ popped.turn_ID_ = self.turn_ID_
        /\ popped.current_state = self.current_state /\ popped.roster = self.roster
        /\ popped.results = self.results /\ popped.callbacks_ = self.callbacks_
        /\ popped.status = self.status /\ popped.shutdown = self.shutdown
    BY DEF popped, Good, Match
  <1>2. Good(popped)
    BY PopGood
  <1>3. Timers(popped) \subseteq Timers(self)
    <2> SUFFICES ASSUME NEW i \in 1 .. Len(popped.strand_), popped.strand_[i].kind = "timer"
                 PROVE  popped.strand_[i] \in Timers(self)
      BY DEF Timers
    <2>1. i + 1 \in 1 .. Len(self.strand_) /\ popped.strand_[i] = self.strand_[i + 1]
      BY PopStrand
    <2> QED BY <2>1 DEF Timers
  <1>4. head.kind = "timer" => head \in Timers(self)
    <2>1. 1 \in 1 .. Len(self.strand_) /\ head = self.strand_[1]
      BY PopStrand
    <2> QED BY <2>1 DEF Timers
  <1>5. Timely(popped)
    BY <1>1, <1>3 DEF Timely
  <1> QED BY <1>1, <1>2, <1>4, <1>5 DEF Timely

\* What the surroundings post on the strand is no timer.
LEMMA PostTimely ==
    ASSUME NEW m, Good(m), Timely(m), NEW t \in Task, t.kind # "timer"
    PROVE  Timely(post(m, t)) /\ Advances(m, post(m, t))
  <1> DEFINE x == post(m, t)
  <1>1. Timers(x) = Timers(m)
    BY PostTimers
  <1>2. /\ x.timer_ = m.timer_ /\ x.turn_ID_ = m.turn_ID_
        /\ x.current_state = m.current_state /\ x.roster = m.roster
        /\ x.results = m.results /\ x.callbacks_ = m.callbacks_
        /\ x.status = m.status /\ x.shutdown = m.shutdown
    BY DEF post, Good, Match
  <1> HIDE DEF x
  <1>3. Timely(x) /\ Advances(m, x)
    BY <1>1, <1>2 DEF Timely, Advances
  <1> QED BY <1>3 DEF x

LEMMA ExpireTimely ==
    ASSUME NEW m, Good(m), Timely(m), NEW t \in m.timer_
    PROVE  LET x == [post(m, t) EXCEPT !.timer_ = {}]
           IN  Timely(x) /\ Advances(m, x)
  <1> DEFINE x == [post(m, t) EXCEPT !.timer_ = {}]
  <1>1. t \in Task /\ t.kind = "timer" /\ t.t_id <= m.turn_ID_
    BY DEF Good, Match, Timely
  <1>2. m.current_state # "Concluded"
    BY DEF Timely
  <1>3. Timers(post(m, t)) = Timers(m) \cup {t}
    BY <1>1, PostTimers
  <1>4. /\ x.timer_ = {} /\ x.turn_ID_ = m.turn_ID_
        /\ x.current_state = m.current_state /\ x.roster = m.roster
        /\ x.results = m.results /\ x.callbacks_ = m.callbacks_
        /\ x.status = m.status /\ x.shutdown = m.shutdown
        /\ x.strand_ = post(m, t).strand_
    BY DEF post, Good, Match
  <1>5. Timers(x) = Timers(m) \cup {t}
    BY <1>3, <1>4 DEF Timers
  <1> HIDE DEF x
  <1>6. Timely(x) /\ Advances(m, x)
    BY <1>1, <1>2, <1>4, <1>5 DEF Timely, Advances
  <1> QED BY <1>6 DEF x

\* Every step keeps the timers timely, and shows the server nothing but a match that
\* goes on or is concluded.
LEMMA StepTimely ==
    ASSUME Inv, Timely(self), [Next]_vars
    PROVE  Timely(self') /\ Advances(self, self')
  <1>1. Good(self)
    BY DEF Inv
  <1>2. ASSUME Running, self.strand_ # <<>>
        PROVE  /\ Timely(popped) /\ Good(popped) /\ head.player \in Players /\ head.t_id \in Nat
               /\ \A x : Advances(popped, x) => Advances(self, x)
               /\ head.kind = "timer" /\ popped.current_state = "Concluded"
                    => head.t_id < popped.turn_ID_
    <2>1. /\ popped.current_state = self.current_state /\ popped.roster = self.roster
          /\ popped.results = self.results
      BY <1>1, <1>2, PopTimely
    <2>2. \A x : Advances(popped, x) => Advances(self, x)
      BY <2>1 DEF Advances
    <2> QED BY <1>1, <1>2, <2>2, PopTimely, PopGood
  <1>3. CASE StartTurn
    BY <1>2, <1>3, StartTurnTimely DEF StartTurn, At
  <1>4. CASE Command
    BY <1>2, <1>4, ReceiveCommandTimely DEF Command, At
  <1>5. CASE Forfeit
    BY <1>2, <1>5, ForfeitTimely DEF Forfeit, At
  <1>6. CASE SyncPlayer
    BY <1>2, <1>6, SyncTimely DEF SyncPlayer, At
  <1>7. CASE Shutdown
    BY <1>2, <1>7, ShutdownTimely DEF Shutdown, At
  <1>8. CASE Timer
    <2>1. head.kind = "timer" /\ Running /\ self.strand_ # <<>>
      BY <1>8 DEF Timer, At, head
    <2> QED BY <1>2, <1>8, <2>1, TimerTimely DEF Timer
  <1>9. ASSUME NEW p \in Players, RouteCommand(p)
        PROVE  Timely(self') /\ Advances(self, self')
    <2>1. PICK t \in {self.turn_ID_, self.turn_ID_ - 1} \cap Nat :
                self' = post(self, task("command", p, t))
      BY <1>9 DEF RouteCommand
    <2>2. task("command", p, t) \in Task /\ task("command", p, t).kind # "timer"
      BY DEF task, Task
    <2> QED BY <1>1, <2>1, <2>2, PostTimely
  <1>10. ASSUME NEW p \in Players, RouteForfeit(p)
         PROVE  Timely(self') /\ Advances(self, self')
    <2>1. task("forfeit", p, 0) \in Task /\ task("forfeit", p, 0).kind # "timer"
      BY DEF task, Task
    <2> QED BY <1>1, <1>10, <2>1, PostTimely DEF RouteForfeit
  <1>11. ASSUME NEW p \in Players, Relogin(p)
         PROVE  Timely(self') /\ Advances(self, self')
    <2>1. task("sync", p, 0) \in Task /\ task("sync", p, 0).kind # "timer"
      BY DEF task, Task
    <2> QED BY <1>1, <1>11, <2>1, PostTimely DEF Relogin
  <1>12. CASE RequestShutdown
    <2>1. task("shutdown", 0, 0) \in Task /\ task("shutdown", 0, 0).kind # "timer"
      BY PlayersFinite DEF task, Task
    <2> QED BY <1>1, <1>12, <2>1, PostTimely DEF RequestShutdown
  <1>13. CASE ExpireTimer
    BY <1>1, <1>13, ExpireTimely DEF ExpireTimer
  <1>14. CASE self' = self
    BY <1>14 DEF Advances
  <1> QED BY <1>3, <1>4, <1>5, <1>6, <1>7, <1>8, <1>9, <1>10, <1>11, <1>12, <1>13, <1>14
          DEF Next, ForgetMatch, Ended, vars

\* The invariant of the temporal theorems below.
TimelyInv == Inv /\ Timely(self)

LEMMA InitTimely == Init => TimelyInv
  <1> SUFFICES ASSUME Init PROVE Timely(self)
    BY InitInv DEF TimelyInv
  <1>1. PICK claimed \in BOOLEAN : self = NewMatch(claimed)
    BY DEF Init
  <1>2. /\ self.timer_ = {} /\ self.current_state = "Setup" /\ self.callbacks_
        /\ self.status = "running" /\ self.strand_ = <<task("start_turn", 0, 0)>>
    BY <1>1 DEF NewMatch
  <1>3. Len(self.strand_) = 1 /\ self.strand_[1].kind = "start_turn"
    BY <1>2 DEF task
  <1>4. Timers(self) = {}
    BY <1>3 DEF Timers
  <1> QED BY <1>2, <1>4 DEF Timely

LEMMA StepTimelyInv == TimelyInv /\ [Next]_vars => TimelyInv'
  <1> SUFFICES ASSUME TimelyInv, [Next]_vars PROVE TimelyInv'
    OBVIOUS
  <1>1. Timely(self') /\ Inv'
    BY StepTimely, StepInv DEF TimelyInv
  <1> QED BY <1>1 DEF TimelyInv, Timely, Timers

\* A null send_callback_ is called only by a handler that runs after conclude_game or
\* async_shutdown has reset it: no match that is being played ends the process.
THEOREM NoThrowInPlay == Spec => []ThrowsOnlyWhenOver
  <1>1. TimelyInv => ThrowsOnlyWhenOver
    BY DEF TimelyInv, Timely, ThrowsOnlyWhenOver
  <1> QED BY <1>1, InitTimely, StepTimelyInv, PTL DEF Spec

-----------------------------------------------------------------------------
(* The refinement of MatchOutcome.                                         *)

\* The places of the players that have left, as the abstract match records them.
Places(r) == [p \in Players \ r.alive |-> r.elimination_order[p]]

\* A roster that follows another is one that the abstract Leave leads to.
LEMMA FollowsLeaves ==
    ASSUME NEW r \in Roster, NEW s \in Roster, RosterOK(r), RosterOK(s), Follows(r, s)
    PROVE  LET Gone == Players \ r.alive
               S == r.alive \ s.alive
           IN  /\ s.alive = r.alive \ S
               /\ Cardinality(Gone) = r.elim_counter_
               /\ Players \ s.alive = Gone \cup S
               /\ Cardinality(Players \ s.alive) = s.elim_counter_
               /\ \A p \in Gone : Places(s)[p] = Places(r)[p]
               /\ \A p \in S : Places(s)[p] \in
                        Cardinality(Gone) .. Cardinality(Gone \cup S) - 1
               /\ \A p, q \in S : p # q => Places(s)[p] # Places(s)[q]
  <1> DEFINE Gone == Players \ r.alive
             S == r.alive \ s.alive
  <1>1. /\ r.alive \subseteq Players /\ s.alive \subseteq Players /\ s.alive \subseteq r.alive
        /\ r.elim_counter_ \in Nat /\ s.elim_counter_ \in Nat
        /\ \A p \in Players : s.elimination_order[p] \in Nat
    BY DEF Roster, Follows
  <1>2. ASSUME NEW A \in SUBSET Players
        PROVE  Cardinality(Players \ A) = n_players_ - Cardinality(A)
    <2>1. Players \cap A = A /\ IsFiniteSet(Players) /\ IsFiniteSet(A)
      BY PlayersFinite
    <2> QED BY <2>1, FS_Difference, PlayersFinite
  <1>3. /\ Cardinality(Gone) = r.elim_counter_
        /\ Cardinality(Players \ s.alive) = s.elim_counter_
    BY <1>1, <1>2 DEF RosterOK
  <1>4. s.alive = r.alive \ S /\ Players \ s.alive = Gone \cup S
    BY <1>1
  <1>5. \A p \in Gone : Places(s)[p] = Places(r)[p]
    BY <1>1 DEF Places, Follows
  <1>6. \A p \in S : Places(s)[p] = s.elimination_order[p]
    BY <1>1 DEF Places
  <1>7. \A p \in S : /\ s.elimination_order[p] >= r.elim_counter_
                     /\ s.elimination_order[p] < s.elim_counter_
    <2>1. \A p \in S : p \in Players \ s.alive
      BY <1>1
    <2>2. \A p \in Players \ s.alive : s.elimination_order[p] < s.elim_counter_
      BY DEF RosterOK
    <2>3. \A p \in S : s.elimination_order[p] >= r.elim_counter_
      BY DEF Follows
    <2> HIDE DEF S
    <2> QED BY <2>1, <2>2, <2>3
  <1>8. \A p \in S : Places(s)[p] \in Cardinality(Gone) .. Cardinality(Gone \cup S) - 1
    <2>1. \A p \in S : s.elimination_order[p] \in Nat
      BY <1>1
    <2>2. Cardinality(Gone \cup S) = s.elim_counter_
      BY <1>3, <1>4
    <2> HIDE DEF S, Gone
    <2> QED BY <1>1, <1>3, <1>6, <1>7, <2>1, <2>2
  <1>9. \A p, q \in S : p # q => Places(s)[p] # Places(s)[q]
    BY <1>1, <1>6 DEF RosterOK
  <1> QED BY <1>3, <1>4, <1>5, <1>8, <1>9

LEMMA SameCardinality == \A T : Outcome!Cardinality(T) = Cardinality(T)
  BY DEF Outcome!Cardinality, Cardinality

LEMMA InitOutcome == Init => Outcome!Init
  <1> SUFFICES ASSUME Init PROVE Outcome!Init
    OBVIOUS
  <1>1. PICK claimed \in BOOLEAN : self = NewMatch(claimed)
    BY DEF Init
  <1>2. /\ self.current_state = "Setup" /\ self.roster = FullRoster
        /\ self.results = <<>> /\ FullRoster.alive = Players
    BY <1>1 DEF NewMatch, FullRoster
  <1>3. Players \ self.roster.alive = {}
    BY <1>2
  <1>4. [p \in Players \ self.roster.alive |-> self.roster.elimination_order[p]]
            = [p \in {} |-> 0]
    BY <1>3
  <1> QED BY <1>2, <1>4 DEF Outcome!Init

LEMMA StepOutcome ==
    ASSUME TimelyInv, [Next]_vars
    PROVE  [Outcome!Next]_Outcome!outcome
  <1>1. Advances(self, self') /\ Good(self) /\ Good(self')
    <2>1. Inv'
      BY StepInv DEF TimelyInv
    <2>2. Good(self')
      BY <2>1 DEF Inv, Good
    <2> QED BY <2>2, StepTimely DEF TimelyInv, Inv
  <1>2. CASE /\ self'.current_state = self.current_state /\ self'.roster = self.roster
             /\ self'.results = self.results
    <2>1. UNCHANGED Outcome!outcome
      BY <1>2 DEF Outcome!outcome
    <2> QED BY <2>1
  <1>3. CASE /\ self.current_state # "Concluded" /\ Follows(self.roster, self'.roster)
             /\ \/ /\ self'.current_state \in {"Play", self.current_state}
                   /\ self'.results = self.results
                \/ /\ self'.current_state = "Concluded"
                   /\ self'.roster.remaining_players <= 1
                   /\ self'.results = Append(self.results, final_order(self'.roster))
    <2> DEFINE r == self.roster
               s == self'.roster
               S == r.alive \ s.alive
               G == Players \ r.alive
    <2>1. r \in Roster /\ s \in Roster /\ RosterOK(r) /\ RosterOK(s) /\ Follows(r, s)
      BY <1>1, <1>3 DEF Good, Match
    <2>2. /\ s.alive = r.alive \ S /\ Players \ s.alive = G \cup S
          /\ Cardinality(Players \ s.alive) = s.elim_counter_
          /\ \A p \in G : Places(s)[p] = Places(r)[p]
          /\ \A p \in S : Places(s)[p] \in Cardinality(G) .. Cardinality(G \cup S) - 1
          /\ \A p, q \in S : p # q => Places(s)[p] # Places(s)[q]
      BY <2>1, FollowsLeaves
    <2>3. S \subseteq r.alive /\ DOMAIN Places(s) = G \cup S
      BY <2>2 DEF Places
    <2>4. \E T \in SUBSET self.roster.alive : Outcome!Leave(T)
      <3>1. Outcome!Gone = G
        BY DEF Outcome!Gone
      <3>2. /\ [p \in Players \ self.roster.alive |-> self.roster.elimination_order[p]]
                    = Places(r)
            /\ [p \in Players \ self.roster.alive |-> self.roster.elimination_order[p]]'
                    = Places(s)
        BY DEF Places
      <3>3. Outcome!Leave(S)
        <4> HIDE DEF S, G
        <4> QED BY <2>2, <2>3, <3>1, <3>2, SameCardinality DEF Outcome!Leave
      <3> HIDE DEF S
      <3> QED BY <2>3, <3>3 DEF Outcome!Leave
    <2>5. CASE /\ self'.current_state \in {"Play", self.current_state}
               /\ self'.results = self.results
      <3>1. Outcome!Continue
        BY <1>3, <2>4, <2>5 DEF Outcome!Continue
      <3> QED BY <3>1 DEF Outcome!Next
    <2>6. CASE /\ self'.current_state = "Concluded"
               /\ self'.roster.remaining_players <= 1
               /\ self'.results = Append(self.results, final_order(self'.roster))
      <3>1. Cardinality(s.alive) <= 1
        BY <2>1, <2>6 DEF RosterOK
      <3>2. final_order(s) = [p \in Players |->
                IF p \in s.alive THEN Cardinality(Players \ s.alive) ELSE Places(s)[p]]
        BY <2>2 DEF final_order, Places
      <3>3. final_order(s) = Outcome!Ranking
        BY <3>2, SameCardinality DEF Outcome!Ranking, Outcome!Gone, Places
      <3>4. Outcome!Conclude
        BY <1>3, <2>4, <2>6, <3>1, <3>3, SameCardinality DEF Outcome!Conclude
      <3> QED BY <3>4 DEF Outcome!Next
    <2> QED BY <1>3, <2>5, <2>6
  <1> QED BY <1>1, <1>2, <1>3 DEF Advances

\* Whatever the order of turns, clocks, commands, forfeits and the shutdown, a match
\* is to the rest of the server the abstract one: players leave for good and take the
\* lowest free places, and a complete ranking is published once.
THEOREM MatchImplementsOutcome == Spec => ImplementsOutcome
  <1>1. TimelyInv /\ [Next]_vars => [Outcome!Next]_Outcome!outcome
    BY StepOutcome
  <1> QED BY <1>1, InitOutcome, InitTimely, StepTimelyInv, PTL
          DEF Spec, ImplementsOutcome, Outcome!Spec

-----------------------------------------------------------------------------
(* The game loop.                                                          *)

\* The parts of NoStall, of any object: it needs no next turn, it has one posted, or
\* its open turn is timed.
Done(m) == m.status # "running" \/ m.shutdown \/ m.current_state = "Concluded"

Posted(m) == \E i \in 1 .. Len(m.strand_) : m.strand_[i].kind = "start_turn"

Timed(m) ==
    /\ m.current_player \in m.roster.alive
    /\ ~m.turn_claimed_
    /\ \E t \in m.timer_ \cup Timers(m) : t.t_id = m.turn_ID_

Goes(m) == Done(m) \/ Posted(m) \/ Timed(m)

LEMMA NoStallGoes == NoStall <=> Goes(self)
  <1>1. Pending("start_turn") # {} <=> Posted(self)
    BY DEF Pending, Posted
  <1>2. (\E i \in Pending("timer") : self.strand_[i].t_id = self.turn_ID_)
            <=> \E t \in Timers(self) : t.t_id = self.turn_ID_
    BY DEF Pending, Timers
  <1>3. Over <=> Done(self)
    BY DEF Over, Running, Done
  <1> QED BY <1>1, <1>2, <1>3 DEF NoStall, Goes, Timed

\* Changes that do not bear on the game loop.
LEMMA GoesSame ==
    ASSUME NEW m, NEW x, Goes(m),
           x.shutdown = m.shutdown, x.current_state = m.current_state,
           x.strand_ = m.strand_, x.timer_ = m.timer_, x.turn_ID_ = m.turn_ID_,
           x.turn_claimed_ = m.turn_claimed_, x.current_player = m.current_player,
           x.roster = m.roster, x.status = m.status \/ x.status = "thrown"
    PROVE  Goes(x)
  <1>1. Timers(x) = Timers(m)
    BY DEF Timers
  <1> QED BY <1>1 DEF Goes, Done, Posted, Timed

LEMMA PostGoes ==
    ASSUME NEW m, Good(m), Goes(m), NEW t \in Task
    PROVE  Goes(post(m, t))
  <1> DEFINE x == post(m, t)
  <1>1. /\ x.shutdown = m.shutdown /\ x.current_state = m.current_state
        /\ x.timer_ = m.timer_ /\ x.turn_ID_ = m.turn_ID_
        /\ x.turn_claimed_ = m.turn_claimed_ /\ x.current_player = m.current_player
        /\ x.roster = m.roster /\ x.status = m.status
    BY DEF post, Good, Match
  <1>2. Timers(m) \subseteq Timers(x)
    BY PostTimers
  <1>3. /\ Len(x.strand_) = Len(m.strand_) + 1 /\ Len(m.strand_) \in Nat
        /\ \A i \in 1 .. Len(m.strand_) : x.strand_[i] = m.strand_[i]
    BY PostStrand
  <1> HIDE DEF x
  <1>4. Posted(m) => Posted(x)
    BY <1>3 DEF Posted
  <1>5. Goes(x)
    BY <1>1, <1>2, <1>4 DEF Goes, Done, Timed
  <1> QED BY <1>5 DEF x

LEMMA StartTurnStrandPosts ==
    ASSUME NEW m, Good(m)
    PROVE  Posted(start_turn_strand(m))
  <1> DEFINE t == task("start_turn", 0, 0)
             x == post(m, t)
  <1>1. t \in Task /\ t.kind = "start_turn"
    BY StartTask DEF task
  <1>2. /\ Len(x.strand_) = Len(m.strand_) + 1 /\ Len(m.strand_) \in Nat
        /\ x.strand_[Len(m.strand_) + 1] = t
    BY <1>1, PostStrand
  <1>3. Len(m.strand_) + 1 \in 1 .. Len(x.strand_)
    BY <1>2
  <1> HIDE DEF x
  <1>4. Posted(x)
    BY <1>1, <1>2, <1>3 DEF Posted
  <1> QED BY <1>4 DEF x, start_turn_strand

\* Every player that leaves before the end, and every move that is taken, posts the
\* next turn.
LEMMA EliminationPosts ==
    ASSUME NEW m, Good(m), NEW p \in m.roster.alive
    PROVE  Posted(handle_elimination(m, p))
  <1> DEFINE queues == [m.command_queues_ EXCEPT ![p] = 0]
             times == [m.time_left_ EXCEPT ![p] = NoClock]
             tanks == IF m.current_state = "Setup"
                      THEN m.tanks_placed - m.placed[p] ELSE m.tanks_placed
             lives == [m.live_tanks EXCEPT ![p] = 0]
             r == drop(m.roster, {p})
             cut == [m EXCEPT !.command_queues_ = queues, !.roster = r,
                              !.time_left_ = times, !.tanks_placed = tanks,
                              !.live_tanks = lives]
             viewed == compute_all_views(send(cut))
             passed == IF p = m.current_player
                       THEN [viewed EXCEPT !.current_player = next_player(m),
                                           !.current_fuel = TURN_PLAYER_FUEL,
                                           !.timer_ = {}]
                       ELSE viewed
  <1>1. p \in Players /\ r \in Roster /\ RosterOK(r)
    BY DropKeepsRoster DEF Good, Match, Roster
  <1>2. handle_elimination(m, p) = start_turn_strand(passed)
    BY <1>1 DEF handle_elimination, Good, Match
  <1>3. /\ queues \in [Players -> 0 .. MAX_QUEUE_SIZE]
        /\ times \in [Players -> Players \cup {NoClock}]
        /\ tanks \in Int /\ lives \in [Players -> Nat]
    BY <1>1, MatchAssumption DEF Good, Match
  <1> HIDE DEF queues, times, tanks, lives, r
  <1>4. Good(cut)
    BY <1>1, <1>3 DEF Good, Match
  <1> HIDE DEF cut
  <1>5. Good(viewed)
    BY <1>4, SendGood, ComputeAllViewsGood
  <1> HIDE DEF viewed
  <1>6. next_player(m) \in Players /\ TURN_PLAYER_FUEL \in 1 .. TURN_PLAYER_FUEL
    BY NextPlayerType, MatchAssumption DEF Good
  <1>7. Good(passed)
    BY <1>5, <1>6 DEF Good, Match
  <1> HIDE DEF passed
  <1> QED BY <1>2, <1>7, StartTurnStrandPosts

LEMMA EndMovePosts ==
    ASSUME NEW m, Good(m)
    PROVE  Posted(end_move(m))
  <1> DEFINE spent == IF m.current_state = "Setup"
                      THEN [m EXCEPT !.current_player = next_player(m)]
                      ELSE IF m.current_fuel > 1
                      THEN [m EXCEPT !.current_fuel = @ - 1]
                      ELSE [m EXCEPT !.current_player = next_player(m),
                                     !.current_fuel = TURN_PLAYER_FUEL]
  <1>1. next_player(m) \in Players /\ TURN_PLAYER_FUEL \in 1 .. TURN_PLAYER_FUEL
    BY NextPlayerType, MatchAssumption DEF Good
  <1>2. m.current_fuel > 1 => m.current_fuel - 1 \in 1 .. TURN_PLAYER_FUEL
    BY MatchAssumption DEF Good, Match
  <1>3. Good(spent)
    BY <1>1, <1>2 DEF Good, Match
  <1>4. end_move(m) = start_turn_strand(compute_all_views(spent))
    BY DEF end_move
  <1> HIDE DEF spent
  <1> QED BY <1>3, <1>4, ComputeAllViewsGood, StartTurnStrandPosts

LEMMA MoveArrivedPosts ==
    ASSUME NEW m, Good(m), ~m.turn_claimed_, m.current_state # "Concluded",
           m.command_queues_[m.current_player] # 0
    PROVE  \A x \in on_player_move_arrived(m) : Posted(x)
  <1> DEFINE p == m.current_player
             queues == [m.command_queues_ EXCEPT ![p] = @ - 1]
             times == [m.time_left_ EXCEPT ![p] = m.expiry_time_]
             taken == [m EXCEPT !.turn_claimed_ = TRUE, !.timer_ = {},
                                !.command_queues_ = queues, !.time_left_ = times]
  <1>1. on_player_move_arrived(m) = {start_turn_strand(send(taken))}
                    \cup {end_move(x) : x \in apply_command(taken)}
    BY DEF on_player_move_arrived, Good, Match
  <1>2. /\ queues \in [Players -> 0 .. MAX_QUEUE_SIZE]
        /\ times \in [Players -> Players \cup {NoClock}]
    BY MatchAssumption DEF Good, Match
  <1> HIDE DEF queues, times
  <1>3. Good(taken)
    BY <1>2 DEF Good, Match
  <1> HIDE DEF taken
  <1>4. Posted(start_turn_strand(send(taken)))
    BY <1>3, SendGood, StartTurnStrandPosts
  <1>5. \A x \in apply_command(taken) : Posted(end_move(x))
    BY <1>3, ApplyCommandGood, EndMovePosts
  <1> QED BY <1>1, <1>4, <1>5

\* What a view leaves alone.
LEMMA ViewsKeep ==
    ASSUME NEW m, Good(m)
    PROVE  LET x == compute_all_views(m)
           IN  /\ x.turn_claimed_ = m.turn_claimed_ /\ x.tanks_placed = m.tanks_placed
               /\ x.placed = m.placed /\ x.current_player = m.current_player
               /\ x.current_state = m.current_state
               /\ x.status = m.status \/ x.status = "thrown"
               /\ x.roster.alive \subseteq m.roster.alive
  <1> DEFINE lost == IF m.current_state = "Setup" THEN {}
                     ELSE {i \in m.roster.alive : m.live_tanks[i] = 0}
             r == drop(m.roster, lost)
             x == [m EXCEPT !.roster = r]
  <1>1. compute_all_views(m) = IF m.roster.alive = {} THEN m ELSE send(x)
    BY DEF compute_all_views
  <1>2. Follows(m.roster, compute_all_views(m).roster)
    BY ComputeAllViewsCarries DEF Carries
  <1> HIDE DEF r
  <1>3. /\ send(x).turn_claimed_ = m.turn_claimed_ /\ send(x).tanks_placed = m.tanks_placed
        /\ send(x).placed = m.placed /\ send(x).current_player = m.current_player
        /\ send(x).current_state = m.current_state
        /\ (send(x).status = m.status \/ send(x).status = "thrown")
    BY DEF send, Good, Match
  <1> QED BY <1>1, <1>2, <1>3 DEF Follows

\* Every turn that start_turn opens is timed, or played at once, or passed on.
LEMMA StartTurnGoes ==
    ASSUME NEW m, Good(m), Timely(m)
    PROVE  \A x \in start_turn(m) : Goes(x)
  <1> DEFINE opened == [m EXCEPT !.turn_ID_ = @ + 1, !.turn_claimed_ = FALSE]
             begun == IF setup_over(opened) THEN begin_play(opened) ELSE opened
             armed == arm_timer(begun)
             t == task("timer", begun.current_player, begun.turn_ID_)
  <1>1. Good(begun) /\ Timely(begun)
    BY BegunTimely
  <1>2. ~begun.turn_claimed_
    <2> DEFINE first == [opened EXCEPT !.current_state = "Play", !.current_player = 0,
                                       !.current_fuel = TURN_PLAYER_FUEL]
    <2>1. ~opened.turn_claimed_ /\ ~first.turn_claimed_
      BY DEF Good, Match
    <2>2. Good(first)
      <3>1. /\ TURN_PLAYER_FUEL \in 1 .. TURN_PLAYER_FUEL /\ 0 \in Players
            /\ m.turn_ID_ + 1 \in Nat
        BY MatchAssumption, PlayersFinite DEF Good, Match
      <3> QED BY <3>1 DEF Good, Match
    <2>3. begin_play(opened) = compute_all_views(first)
      BY DEF begin_play
    <2> HIDE DEF first
    <2> QED BY <2>1, <2>2, <2>3, ViewsKeep
  <1>3. start_turn(m) =
            IF begun.roster.remaining_players <= 1 THEN {conclude_game(begun)}
            ELSE IF begun.current_player \notin begun.roster.alive
            THEN {skip_eliminated(begun)}
            ELSE IF armed.command_queues_[armed.current_player] > 0
            THEN on_player_move_arrived(armed)
            ELSE {armed}
    BY DEF start_turn
  <1> HIDE DEF begun
  <1>4. Goes(conclude_game(begun))
    <2>1. /\ begun.shutdown => conclude_game(begun).shutdown
          /\ ~begun.shutdown => conclude_game(begun).current_state = "Concluded"
      BY <1>1 DEF conclude_game, Good, Match
    <2> QED BY <2>1 DEF Goes, Done
  <1>5. Goes(skip_eliminated(begun))
    <2> DEFINE next == [begun EXCEPT !.current_player = next_player(begun)]
    <2>1. next_player(begun) \in Players
      BY <1>1, NextPlayerType DEF Good
    <2>2. Good(next)
      BY <1>1, <2>1 DEF Good, Match
    <2>3. skip_eliminated(begun) = start_turn_strand(compute_all_views(next))
      BY DEF skip_eliminated
    <2> HIDE DEF next
    <2> QED BY <2>2, <2>3, ComputeAllViewsGood, StartTurnStrandPosts DEF Goes
  <1>6. ASSUME ~(begun.roster.remaining_players <= 1)
        PROVE  begun.current_state # "Concluded"
    BY <1>1, <1>6 DEF Timely
  <1>7. /\ armed.current_player = begun.current_player /\ armed.roster = begun.roster
        /\ armed.turn_claimed_ = begun.turn_claimed_ /\ armed.turn_ID_ = begun.turn_ID_
        /\ armed.timer_ = {t} /\ armed.current_state = begun.current_state
    BY <1>1 DEF arm_timer, Good, Match
  <1>8. t.t_id = begun.turn_ID_
    BY DEF task
  <1>9. ASSUME begun.current_player \in begun.roster.alive
        PROVE  Goes(armed)
    BY <1>2, <1>7, <1>8, <1>9 DEF Goes, Timed
  <1>10. ASSUME ~(begun.roster.remaining_players <= 1),
                armed.command_queues_[armed.current_player] > 0,
                NEW x \in on_player_move_arrived(armed)
         PROVE  Goes(x)
    <2>1. Good(armed)
      BY <1>1, <1>6, <1>10, ArmTimerTimely
    <2>2. armed.command_queues_[armed.current_player] # 0
      BY <1>10, <2>1, MatchAssumption DEF Good, Match
    <2> QED BY <1>2, <1>6, <1>7, <1>10, <2>1, <2>2, MoveArrivedPosts DEF Goes
  <1> HIDE DEF armed
  <1> QED BY <1>3, <1>4, <1>5, <1>9, <1>10

LEMMA SendGoes ==
    ASSUME NEW m, Good(m), Goes(m)
    PROVE  Goes(send(m))
  <1> DEFINE x == send(m)
  <1>1. /\ x.shutdown = m.shutdown /\ x.current_state = m.current_state
        /\ x.strand_ = m.strand_ /\ x.timer_ = m.timer_ /\ x.turn_ID_ = m.turn_ID_
        /\ x.turn_claimed_ = m.turn_claimed_ /\ x.current_player = m.current_player
        /\ x.roster = m.roster /\ (x.status = m.status \/ x.status = "thrown")
    BY DEF send, Good, Match
  <1> HIDE DEF x
  <1>2. Goes(x)
    BY <1>1, GoesSame
  <1> QED BY <1>2 DEF x

LEMMA ReceiveCommandGoes ==
    ASSUME NEW m, Good(m), Goes(m), NEW p \in Players, NEW t \in Nat
    PROVE  \A x \in receive_command(m, p, t) : Goes(x)
  <1> DEFINE queues == [m.command_queues_ EXCEPT ![p] = @ + 1]
             pushed == [m EXCEPT !.command_queues_ = queues]
  <1>1. receive_command(m, p, t) =
            IF m.current_state = "Concluded" \/ t # m.turn_ID_ THEN {send(m)}
            ELSE IF m.command_queues_[p] >= MAX_QUEUE_SIZE THEN {m}
            ELSE IF p = m.current_player THEN on_player_move_arrived(pushed)
            ELSE {pushed}
    BY DEF receive_command, Good, Match
  <1>2. Goes(send(m))
    BY SendGoes
  <1>3. ASSUME ~(m.command_queues_[p] >= MAX_QUEUE_SIZE)
        PROVE  Good(pushed) /\ pushed.command_queues_[p] # 0
    <2>1. queues \in [Players -> 0 .. MAX_QUEUE_SIZE] /\ queues[p] # 0
      BY <1>3, MatchAssumption DEF Good, Match
    <2> HIDE DEF queues
    <2> QED BY <2>1 DEF Good, Match
  <1>4. /\ pushed.shutdown = m.shutdown /\ pushed.current_state = m.current_state
        /\ pushed.strand_ = m.strand_ /\ pushed.timer_ = m.timer_
        /\ pushed.turn_ID_ = m.turn_ID_ /\ pushed.turn_claimed_ = m.turn_claimed_
        /\ pushed.current_player = m.current_player
        /\ pushed.roster = m.roster /\ pushed.status = m.status
    BY DEF Good, Match
  <1> HIDE DEF pushed
  <1>5. Goes(pushed)
    BY <1>4, GoesSame
  <1>6. ASSUME ~(m.command_queues_[p] >= MAX_QUEUE_SIZE), p = m.current_player,
               m.current_state # "Concluded", NEW x \in on_player_move_arrived(pushed)
        PROVE  Goes(x)
    <2>1. CASE pushed.turn_claimed_
      BY <1>5, <1>6, <2>1 DEF on_player_move_arrived
    <2>2. CASE ~pushed.turn_claimed_
      BY <1>3, <1>4, <1>6, <2>2, MoveArrivedPosts DEF Goes
    <2> QED BY <2>1, <2>2
  <1> QED BY <1>1, <1>2, <1>5, <1>6

LEMMA ForfeitGoes ==
    ASSUME NEW m, Good(m), Goes(m), NEW p \in Players
    PROVE  Goes(forfeit(m, p))
  <1>1. m.current_state = "Concluded" => forfeit(m, p) = send(m)
    BY DEF forfeit
  <1>2. m.current_state # "Concluded" /\ p \notin m.roster.alive => forfeit(m, p) = m
    BY DEF forfeit, handle_elimination
  <1>3. m.current_state # "Concluded" => forfeit(m, p) = handle_elimination(m, p)
    BY DEF forfeit
  <1> QED BY <1>1, <1>2, <1>3, SendGoes, EliminationPosts DEF Goes

LEMMA SyncGoes ==
    ASSUME NEW m, Good(m), Goes(m), NEW p \in Players
    PROVE  Goes(sync_player(m, p))
  <1> DEFINE queues == [m.command_queues_ EXCEPT ![p] = 0]
             dumped == [m EXCEPT !.command_queues_ = queues]
  <1>1. sync_player(m, p) = IF m.current_state = "Concluded" THEN send(m) ELSE send(dumped)
    BY DEF sync_player, Good, Match
  <1>2. queues \in [Players -> 0 .. MAX_QUEUE_SIZE]
    BY MatchAssumption DEF Good, Match
  <1> HIDE DEF queues
  <1>3. Good(dumped)
    BY <1>2 DEF Good, Match
  <1>4. /\ dumped.shutdown = m.shutdown /\ dumped.current_state = m.current_state
        /\ dumped.strand_ = m.strand_ /\ dumped.timer_ = m.timer_
        /\ dumped.turn_ID_ = m.turn_ID_ /\ dumped.turn_claimed_ = m.turn_claimed_
        /\ dumped.current_player = m.current_player
        /\ dumped.roster = m.roster /\ dumped.status = m.status
    BY DEF Good, Match
  <1> HIDE DEF dumped
  <1>5. Goes(dumped)
    BY <1>4, GoesSame
  <1> QED BY <1>1, <1>3, <1>5, SendGoes

\* Taking a handler off the strand may take off the one that kept the loop alive.
LEMMA PopGoes ==
    ASSUME Good(self), Goes(self), self.strand_ # <<>>, head.kind # "start_turn"
    PROVE  \/ Done(popped) \/ Posted(popped)
           \/ /\ popped.current_player \in popped.roster.alive
              /\ ~popped.turn_claimed_
              /\ \/ \E t \in popped.timer_ \cup Timers(popped) : t.t_id = popped.turn_ID_
                 \/ head.kind = "timer" /\ head.t_id = popped.turn_ID_
  <1>1. /\ popped.shutdown = self.shutdown /\ popped.current_state = self.current_state
        /\ popped.timer_ = self.timer_ /\ popped.turn_ID_ = self.turn_ID_
        /\ popped.turn_claimed_ = self.turn_claimed_ /\ popped.status = self.status
        /\ popped.current_player = self.current_player /\ popped.roster = self.roster
    BY DEF popped, Good, Match
  <1>2. \A i \in 1 .. Len(self.strand_) : i # 1 =>
            i - 1 \in 1 .. Len(popped.strand_) /\ popped.strand_[i - 1] = self.strand_[i]
    BY PopStrand
  <1>3. self.strand_[1] = head
    BY PopStrand
  <1>4. Posted(self) => Posted(popped)
    BY <1>2, <1>3 DEF Posted
  <1>5. \A t \in Timers(self) : t \in Timers(popped) \/ (t = head /\ head.kind = "timer")
    <2> SUFFICES ASSUME NEW i \in 1 .. Len(self.strand_), self.strand_[i].kind = "timer",
                        i # 1
                 PROVE  self.strand_[i] \in Timers(popped)
      BY <1>3 DEF Timers
    <2> QED BY <1>2 DEF Timers
  <1> QED BY <1>1, <1>4, <1>5 DEF Goes, Done, Timed

LEMMA TimerGoes ==
    ASSUME NEW m, Good(m), NEW t \in Nat,
           \/ Done(m) \/ Posted(m)
           \/ /\ m.current_player \in m.roster.alive
              /\ ~m.turn_claimed_
              /\ \/ \E u \in m.timer_ \cup Timers(m) : u.t_id = m.turn_ID_
                 \/ t = m.turn_ID_
    PROVE  Goes(timer_handler(m, t))
  <1> DEFINE claimed == [m EXCEPT !.turn_claimed_ = TRUE]
             p == m.current_player
  <1>1. CASE t # m.turn_ID_ \/ m.turn_claimed_
    <2>1. timer_handler(m, t) = m
      BY <1>1 DEF timer_handler
    <2> QED BY <1>1, <2>1 DEF Goes, Timed
  <1>2. CASE ~(t # m.turn_ID_ \/ m.turn_claimed_)
    <2>1. timer_handler(m, t) = handle_elimination(claimed, p)
      BY <1>2 DEF timer_handler, handle_timeout
    <2>2. /\ Good(claimed) /\ claimed.roster = m.roster /\ claimed.strand_ = m.strand_
          /\ claimed.status = m.status /\ claimed.shutdown = m.shutdown
          /\ claimed.current_state = m.current_state
      BY DEF Good, Match
    <2> HIDE DEF claimed
    <2>3. CASE p \in m.roster.alive
      BY <2>1, <2>2, <2>3, EliminationPosts DEF Goes
    <2>4. CASE p \notin m.roster.alive
      <3>1. handle_elimination(claimed, p) = claimed
        BY <2>2, <2>4 DEF handle_elimination
      <3> QED BY <2>1, <2>2, <2>4, <3>1 DEF Goes, Done, Posted
    <2> QED BY <2>3, <2>4
  <1> QED BY <1>1, <1>2

LEMMA ExpireGoes ==
    ASSUME NEW m, Good(m), Timely(m), Goes(m), NEW t \in m.timer_
    PROVE  Goes([post(m, t) EXCEPT !.timer_ = {}])
  <1> DEFINE y == post(m, t)
             x == [y EXCEPT !.timer_ = {}]
  <1>1. t \in Task /\ t.kind = "timer" /\ m.timer_ = {t}
    BY DEF Good, Match, Timely
  <1>2. Good(y) /\ Goes(y) /\ Timers(y) = Timers(m) \cup {t} /\ y.timer_ = {t}
    <2>1. y.timer_ = m.timer_
      BY DEF post, Good, Match
    <2> QED BY <1>1, <2>1, PostGood, PostGoes, PostTimers
  <1> HIDE DEF y
  <1>3. /\ x.shutdown = y.shutdown /\ x.current_state = y.current_state
        /\ x.turn_ID_ = y.turn_ID_ /\ x.turn_claimed_ = y.turn_claimed_
        /\ x.current_player = y.current_player /\ x.roster = y.roster
        /\ x.status = y.status /\ x.strand_ = y.strand_ /\ x.timer_ = {}
    BY <1>2 DEF Good, Match
  <1>4. Timers(x) = Timers(y)
    BY <1>3 DEF Timers
  <1> HIDE DEF x
  <1>5. Goes(x)
    BY <1>2, <1>3, <1>4 DEF Goes, Done, Posted, Timed
  <1> QED BY <1>5 DEF x, y

LEMMA StepGoes ==
    ASSUME TimelyInv, Goes(self), [Next]_vars
    PROVE  Goes(self')
  <1>1. Good(self) /\ Timely(self)
    BY DEF TimelyInv, Inv
  <1>2. ASSUME Running, self.strand_ # <<>>
        PROVE  /\ Good(popped) /\ Timely(popped)
               /\ head.player \in Players /\ head.t_id \in Nat
               /\ head.kind \notin {"start_turn", "timer"} => Goes(popped)
    BY <1>1, <1>2, PopGood, PopTimely, PopGoes DEF Goes, Timed
  <1>3. CASE StartTurn
    BY <1>2, <1>3, StartTurnGoes DEF StartTurn, At
  <1>4. CASE Command
    BY <1>2, <1>4, ReceiveCommandGoes DEF Command, At, head
  <1>5. CASE Forfeit
    BY <1>2, <1>5, ForfeitGoes DEF Forfeit, At, head
  <1>6. CASE SyncPlayer
    BY <1>2, <1>6, SyncGoes DEF SyncPlayer, At, head
  <1>7. CASE Shutdown
    <2>1. self'.shutdown
      BY <1>2, <1>7 DEF Shutdown, At, async_shutdown, Good, Match
    <2> QED BY <2>1 DEF Goes, Done
  <1>8. CASE Timer
    <2>1. head.kind = "timer" /\ Running /\ self.strand_ # <<>>
      BY <1>8 DEF Timer, At, head
    <2> QED BY <1>1, <1>2, <1>8, <2>1, PopGoes, TimerGoes DEF Timer
  <1>9. ASSUME NEW p \in Players, RouteCommand(p) PROVE Goes(self')
    <2>1. \A t \in Nat : task("command", p, t) \in Task
      BY DEF task, Task
    <2> QED BY <1>1, <1>9, <2>1, PostGoes DEF RouteCommand
  <1>10. ASSUME NEW p \in Players, RouteForfeit(p) PROVE Goes(self')
    <2>1. task("forfeit", p, 0) \in Task
      BY DEF task, Task
    <2> QED BY <1>1, <1>10, <2>1, PostGoes DEF RouteForfeit
  <1>11. ASSUME NEW p \in Players, Relogin(p) PROVE Goes(self')
    <2>1. task("sync", p, 0) \in Task
      BY DEF task, Task
    <2> QED BY <1>1, <1>11, <2>1, PostGoes DEF Relogin
  <1>12. CASE RequestShutdown
    <2>1. task("shutdown", 0, 0) \in Task
      BY PlayersFinite DEF task, Task
    <2> QED BY <1>1, <1>12, <2>1, PostGoes DEF RequestShutdown
  <1>13. CASE ExpireTimer
    BY <1>1, <1>13, ExpireGoes DEF ExpireTimer
  <1>14. CASE self' = self
    BY <1>14
  <1> QED BY <1>3, <1>4, <1>5, <1>6, <1>7, <1>8, <1>9, <1>10, <1>11, <1>12, <1>13, <1>14
          DEF Next, ForgetMatch, Ended, vars

\* The game loop of a match never dies: while the match goes on, a start_turn is on
\* the strand, or the open turn is unclaimed, of a living player, and its clock is
\* running or has its handler posted.
THEOREM GameLoopLives == Spec => []NoStall
  <1>1. Init => TimelyInv /\ NoStall
    <2>1. ASSUME Init PROVE NoStall
      <3>1. PICK claimed \in BOOLEAN : self = NewMatch(claimed)
        BY <2>1 DEF Init
      <3>2. self.strand_ = <<task("start_turn", 0, 0)>>
        BY <3>1 DEF NewMatch
      <3>3. Len(self.strand_) = 1 /\ self.strand_[1].kind = "start_turn"
        BY <3>2 DEF task
      <3>4. Posted(self)
        BY <3>3 DEF Posted
      <3> QED BY <3>4, NoStallGoes DEF Goes
    <2> QED BY <2>1, InitTimely
  <1>2. TimelyInv /\ NoStall /\ [Next]_vars => TimelyInv' /\ NoStall'
    <2> SUFFICES ASSUME TimelyInv, NoStall, [Next]_vars PROVE NoStall'
      BY StepTimelyInv
    <2>1. Goes(self')
      BY StepGoes, NoStallGoes
    <2>2. (NoStall <=> Goes(self))'
      BY NoStallGoes, PTL
    <2> QED BY <2>1, <2>2 DEF Goes, Done, Posted, Timed, Timers
  <1> QED BY <1>1, <1>2, PTL DEF Spec

-----------------------------------------------------------------------------
(* The setup rounds.                                                       *)

\* With everybody in the match, Setup goes round the table: the players before the
\* current one have placed k + 1 tanks, the others k, and an open turn is one of the
\* num_tanks_ rounds.
Rounds(m, k) ==
    /\ m.tanks_placed = n_players_ * k + m.current_player
    /\ \A i \in Players : m.placed[i] = IF i < m.current_player THEN k + 1 ELSE k
    /\ ~m.turn_claimed_ => k < num_tanks_

Fits(m) ==
    m.roster.alive = Players =>
        /\ m.status # "overrun"
        /\ m.current_state = "Setup" => \E k \in Nat : Rounds(m, k)

\* Changes that do not bear on the rounds.
LEMMA FitsSame ==
    ASSUME NEW m, NEW x, Fits(m), m.roster.alive \subseteq Players,
           x.roster.alive \subseteq m.roster.alive,
           x.status = m.status \/ x.status = "thrown",
           x.current_state = "Setup" =>
                /\ m.current_state = "Setup" /\ x.tanks_placed = m.tanks_placed
                /\ x.placed = m.placed /\ x.current_player = m.current_player
                /\ m.turn_claimed_ => x.turn_claimed_
    PROVE  Fits(x)
  <1> SUFFICES ASSUME x.roster.alive = Players
               PROVE  /\ x.status # "overrun"
                      /\ x.current_state = "Setup" => \E k \in Nat : Rounds(x, k)
    BY DEF Fits
  <1>1. m.roster.alive = Players
    OBVIOUS
  <1>2. \A k \in Nat : x.current_state = "Setup" /\ Rounds(m, k) => Rounds(x, k)
    BY DEF Rounds
  <1> QED BY <1>1, <1>2 DEF Fits

LEMMA ViewsFit ==
    ASSUME NEW m, Good(m), Fits(m)
    PROVE  Fits(compute_all_views(m))
  <1>1. m.roster.alive \subseteq Players
    BY DEF Good, Match, Roster
  <1> DEFINE x == compute_all_views(m)
  <1>2. /\ x.turn_claimed_ = m.turn_claimed_ /\ x.tanks_placed = m.tanks_placed
        /\ x.placed = m.placed /\ x.current_player = m.current_player
        /\ x.current_state = m.current_state
        /\ x.status = m.status \/ x.status = "thrown"
        /\ x.roster.alive \subseteq m.roster.alive
    BY ViewsKeep
  <1> HIDE DEF x
  <1>3. Fits(x)
    BY <1>1, <1>2, FitsSame
  <1> QED BY <1>3 DEF x

LEMMA PostFits ==
    ASSUME NEW m, Good(m), Fits(m), NEW t
    PROVE  Fits(post(m, t))
  <1>1. m.roster.alive \subseteq Players
    BY DEF Good, Match, Roster
  <1> DEFINE x == post(m, t)
  <1>2. /\ x.turn_claimed_ = m.turn_claimed_ /\ x.tanks_placed = m.tanks_placed
        /\ x.placed = m.placed /\ x.current_player = m.current_player
        /\ x.current_state = m.current_state
        /\ x.status = m.status
        /\ x.roster = m.roster
    BY DEF Good, Match, post
  <1> HIDE DEF x
  <1>3. Fits(x)
    BY <1>1, <1>2, FitsSame
  <1> QED BY <1>3 DEF x

LEMMA SendFits ==
    ASSUME NEW m, Good(m), Fits(m)
    PROVE  Fits(send(m))
  <1>1. m.roster.alive \subseteq Players
    BY DEF Good, Match, Roster
  <1> DEFINE x == send(m)
  <1>2. /\ x.turn_claimed_ = m.turn_claimed_ /\ x.tanks_placed = m.tanks_placed
        /\ x.placed = m.placed /\ x.current_player = m.current_player
        /\ x.current_state = m.current_state
        /\ x.status = m.status \/ x.status = "thrown"
        /\ x.roster = m.roster
    BY DEF Good, Match, send
  <1> HIDE DEF x
  <1>3. Fits(x)
    BY <1>1, <1>2, FitsSame
  <1> QED BY <1>3 DEF x

LEMMA NextPlayerIs ==
    ASSUME NEW m, m.current_player \in Players
    PROVE  next_player(m) = IF m.current_player = n_players_ - 1 THEN 0
                            ELSE m.current_player + 1
  <1> DEFINE c == m.current_player
  <1>1. c \in Nat /\ c < n_players_ /\ n_players_ \in Nat \ {0, 1}
    BY MatchAssumption DEF Players
  <1>2. next_player(m) = (c + 1) % n_players_
    BY DEF next_player
  <1> HIDE DEF c
  <1>3. c + 1 < n_players_ => (c + 1) % n_players_ = c + 1
    BY <1>1
  <1>4. c + 1 = n_players_ => (c + 1) % n_players_ = 0
    BY <1>1
  <1> QED BY <1>1, <1>2, <1>3, <1>4 DEF c

\* Of two rounds the later one has more tanks on the board.
LEMMA RoundsGrow ==
    ASSUME NEW n \in Nat, NEW k \in Nat, NEW l \in Nat, NEW c \in Nat, n * k + c < n * l
    PROVE  k < l
  <1> SUFFICES ASSUME ~(k < l) PROVE FALSE
    OBVIOUS
  <1> DEFINE d == k - l
  <1>1. d \in Nat /\ k = l + d
    OBVIOUS
  <1> HIDE DEF d
  <1>2. n * k = n * l + n * d
    BY <1>1
  <1>3. n * d \in Nat /\ n * l \in Nat /\ n * k \in Nat
    BY <1>1
  <1> QED BY <1>2, <1>3

\* A placement in an open turn of Setup stays within the player's tanks, and hands
\* the round on.
LEMMA PlacementFits ==
    ASSUME NEW m, Good(m), NEW b, Good(b), NEW destroyed \in BOOLEAN,
           Fits(b), ~b.turn_claimed_, b.current_state = "Setup",
           m.roster = b.roster, m.placed = b.placed, m.tanks_placed = b.tanks_placed,
           m.current_player = b.current_player, m.current_state = "Setup",
           m.status = b.status, m.turn_claimed_
    PROVE  Fits(end_move(place_tank(m, m.current_player, destroyed)))
  <1> DEFINE p == m.current_player
             y == place_tank(m, p, destroyed)
             z == [y EXCEPT !.current_player = next_player(y)]
  <1>1. p \in Players /\ m.placed \in [Players -> Nat] /\ m.roster.alive \subseteq Players
    BY DEF Good, Match, Roster
  <1>2. Good(y)
    BY <1>1, PlaceTankGood
  <1>3. /\ y.roster = m.roster /\ y.current_player = p /\ y.current_state = "Setup"
        /\ y.tanks_placed = m.tanks_placed + 1 /\ y.turn_claimed_
        /\ y.placed = [m.placed EXCEPT ![p] = @ + 1]
        /\ y.status = IF m.placed[p] >= num_tanks_ THEN "overrun" ELSE m.status
    BY DEF place_tank, Good, Match
  <1> HIDE DEF y
  <1>4. next_player(y) \in Players
    BY <1>2, NextPlayerType DEF Good
  <1>5. Good(z)
    BY <1>2, <1>4 DEF Good, Match
  <1>6. /\ z.roster = m.roster /\ z.current_player = next_player(y)
        /\ z.current_state = "Setup" /\ z.tanks_placed = m.tanks_placed + 1
        /\ z.placed = [m.placed EXCEPT ![p] = @ + 1] /\ z.turn_claimed_
        /\ z.status = y.status
    BY <1>2, <1>3 DEF Good, Match
  <1>7. end_move(y) = start_turn_strand(compute_all_views(z))
    BY <1>3 DEF end_move
  <1> HIDE DEF z
  <1>8. Fits(z)
    <2> SUFFICES ASSUME z.roster.alive = Players
                 PROVE  z.status # "overrun" /\ \E k \in Nat : Rounds(z, k)
      BY DEF Fits
    <2>1. b.status # "overrun"
      BY <1>6 DEF Fits
    <2>2. PICK k \in Nat : Rounds(b, k)
      BY <1>6 DEF Fits
    <2>3. /\ k < num_tanks_ /\ m.tanks_placed = n_players_ * k + p
          /\ \A i \in Players : m.placed[i] = IF i < p THEN k + 1 ELSE k
      BY <2>2 DEF Rounds
    <2>4. p \in Int /\ n_players_ \in Nat \ {0, 1} /\ num_tanks_ \in Nat
          /\ 0 <= p /\ p < n_players_ /\ Players = 0 .. n_players_ - 1
      BY <1>1, MatchAssumption DEF Players
    <2>5. m.placed[p] = k
      BY <1>1, <2>3, <2>4
    <2>6. z.status # "overrun"
      BY <1>3, <1>6, <2>1, <2>3, <2>4, <2>5
    <2>7. \A i \in Players : z.placed[i] = IF i < p + 1 THEN k + 1 ELSE k
      <3> SUFFICES ASSUME NEW i \in Players
                   PROVE  z.placed[i] = IF i < p + 1 THEN k + 1 ELSE k
        OBVIOUS
      <3>1. i \in Int /\ m.placed[i] = IF i < p THEN k + 1 ELSE k
        BY <2>3, <2>4
      <3>2. z.placed[i] = IF i = p THEN m.placed[i] + 1 ELSE m.placed[i]
        BY <1>1, <1>6
      <3> HIDE DEF p
      <3> QED BY <2>4, <3>1, <3>2
    <2>8. CASE p = n_players_ - 1
      <3>1. z.current_player = 0
        BY <1>1, <1>3, <1>6, <2>8, NextPlayerIs
      <3>2. z.tanks_placed = n_players_ * (k + 1) + 0
        <4>1. n_players_ * (k + 1) = n_players_ * k + n_players_
          BY <2>4
        <4>2. n_players_ * k \in Nat
          BY <2>4
        <4> QED BY <1>6, <2>3, <2>4, <2>8, <4>1, <4>2
      <3>3. \A i \in Players : z.placed[i] = k + 1 /\ ~(i < 0)
        BY <2>4, <2>7, <2>8
      <3>4. Rounds(z, k + 1)
        BY <1>6, <3>1, <3>2, <3>3 DEF Rounds
      <3> QED BY <2>6, <3>4
    <2>9. CASE p # n_players_ - 1
      <3>1. z.current_player = p + 1
        BY <1>1, <1>3, <1>6, <2>9, NextPlayerIs
      <3>2. z.tanks_placed = n_players_ * k + (p + 1)
        <4>1. n_players_ * k \in Nat
          BY <2>4
        <4> QED BY <1>6, <2>3, <2>4, <4>1
      <3>3. Rounds(z, k)
        BY <1>6, <2>7, <3>1, <3>2 DEF Rounds
      <3> QED BY <2>6, <3>3
    <2> QED BY <2>8, <2>9
  <1>9. Good(compute_all_views(z)) /\ Fits(compute_all_views(z))
    BY <1>5, <1>8, ComputeAllViewsGood, ViewsFit
  <1> QED BY <1>7, <1>9, PostFits DEF start_turn_strand, y

LEMMA EndMoveFits ==
    ASSUME NEW m, Good(m), Fits(m), m.current_state # "Setup"
    PROVE  Fits(end_move(m))
  <1> DEFINE spent == IF m.current_fuel > 1
                      THEN [m EXCEPT !.current_fuel = @ - 1]
                      ELSE [m EXCEPT !.current_player = next_player(m),
                                     !.current_fuel = TURN_PLAYER_FUEL]
  <1>1. next_player(m) \in Players /\ TURN_PLAYER_FUEL \in 1 .. TURN_PLAYER_FUEL
    BY NextPlayerType, MatchAssumption DEF Good
  <1>2. m.current_fuel > 1 => m.current_fuel - 1 \in 1 .. TURN_PLAYER_FUEL
    BY MatchAssumption DEF Good, Match
  <1>3. Good(spent)
    BY <1>1, <1>2 DEF Good, Match
  <1>4. /\ spent.roster = m.roster /\ spent.status = m.status
        /\ spent.current_state = m.current_state /\ m.roster.alive \subseteq Players
    BY DEF Good, Match, Roster
  <1>5. end_move(m) = start_turn_strand(compute_all_views(spent))
    BY DEF end_move
  <1> HIDE DEF spent
  <1>6. Fits(spent)
    BY <1>4, FitsSame
  <1>7. Good(compute_all_views(spent)) /\ Fits(compute_all_views(spent))
    BY <1>3, <1>6, ComputeAllViewsGood, ViewsFit
  <1> QED BY <1>5, <1>7, PostFits DEF start_turn_strand

LEMMA MoveArrivedFits ==
    ASSUME NEW m, Good(m), Fits(m)
    PROVE  \A x \in on_player_move_arrived(m) : Fits(x)
  <1> DEFINE p == m.current_player
             claimed == [m EXCEPT !.turn_claimed_ = TRUE]
             queues == [m.command_queues_ EXCEPT ![p] = @ - 1]
             times == [m.time_left_ EXCEPT ![p] = m.expiry_time_]
             taken == [m EXCEPT !.turn_claimed_ = TRUE, !.timer_ = {},
                                !.command_queues_ = queues, !.time_left_ = times]
  <1>1. on_player_move_arrived(m) =
            IF m.turn_claimed_ THEN {m}
            ELSE IF m.current_state = "Concluded" \/ m.command_queues_[p] = 0
            THEN {claimed}
            ELSE {start_turn_strand(send(taken))}
                    \cup {end_move(x) : x \in apply_command(taken)}
    BY DEF on_player_move_arrived, Good, Match
  <1>2. m.roster.alive \subseteq Players
    BY DEF Good, Match, Roster
  <1>3. Fits(claimed)
    <2>1. /\ claimed.turn_claimed_ /\ claimed.tanks_placed = m.tanks_placed
          /\ claimed.placed = m.placed /\ claimed.current_player = m.current_player
          /\ claimed.current_state = m.current_state
          /\ claimed.status = m.status /\ claimed.roster = m.roster
      BY DEF Good, Match
    <2> HIDE DEF claimed
    <2> QED BY <1>2, <2>1, FitsSame
  <1>4. m.command_queues_[p] # 0 => Good(taken)
    <2> SUFFICES ASSUME m.command_queues_[p] # 0 PROVE Good(taken)
      OBVIOUS
    <2>1. queues \in [Players -> 0 .. MAX_QUEUE_SIZE]
      BY MatchAssumption DEF Good, Match
    <2>2. times \in [Players -> Players \cup {NoClock}]
      BY DEF Good, Match
    <2> HIDE DEF queues, times
    <2> QED BY <2>1, <2>2 DEF Good, Match
  <1> HIDE DEF queues, times, claimed
  <1>5. /\ taken.turn_claimed_ /\ taken.tanks_placed = m.tanks_placed
        /\ taken.placed = m.placed /\ taken.current_player = m.current_player
        /\ taken.current_state = m.current_state
        /\ taken.status = m.status /\ taken.roster = m.roster
    BY DEF Good, Match
  <1> HIDE DEF taken
  <1>6. Fits(taken)
    BY <1>2, <1>5, FitsSame
  <1>7. ASSUME m.command_queues_[p] # 0
        PROVE  Fits(start_turn_strand(send(taken)))
    BY <1>4, <1>6, <1>7, SendGood, SendFits, PostFits DEF start_turn_strand
  <1>8. ASSUME m.command_queues_[p] # 0, ~m.turn_claimed_, NEW x \in apply_command(taken)
        PROVE  Fits(end_move(x))
    <2>1. CASE m.current_state = "Setup"
      <3>1. PICK destroyed \in BOOLEAN : x = place_tank(taken, taken.current_player, destroyed)
        BY <1>5, <1>8, <2>1 DEF apply_command
      <3> QED BY <1>4, <1>5, <1>8, <2>1, <3>1, PlacementFits
    <2>2. CASE m.current_state # "Setup"
      <3>1. Good(x)
        BY <1>4, <1>8, ApplyCommandGood
      <3>2. x.roster = taken.roster /\ x.status = taken.status
                /\ x.current_state = taken.current_state
        <4>1. \/ x = taken
              \/ \E q \in Players : x = [taken EXCEPT !.live_tanks[q] = @ - 1]
          BY <1>5, <1>8, <2>2 DEF apply_command
        <4> QED BY <1>4, <1>8, <4>1 DEF Good, Match
      <3>3. Fits(x)
        BY <1>2, <1>5, <1>6, <2>2, <3>2, FitsSame
      <3> QED BY <1>5, <2>2, <3>1, <3>2, <3>3, EndMoveFits
    <2> QED BY <2>1, <2>2
  <1> QED BY <1>1, <1>3, <1>7, <1>8

\* start_turn opens a turn of Setup only while tanks are missing.
LEMMA BegunFits ==
    ASSUME NEW m, Good(m), Timely(m), Fits(m)
    PROVE  LET opened == [m EXCEPT !.turn_ID_ = @ + 1, !.turn_claimed_ = FALSE]
           IN  Fits(IF setup_over(opened) THEN begin_play(opened) ELSE opened)
  <1> DEFINE opened == [m EXCEPT !.turn_ID_ = @ + 1, !.turn_claimed_ = FALSE]
  <1>1. m.roster.alive \subseteq Players /\ m.current_player \in Nat /\ RosterOK(m.roster)
    BY DEF Good, Match, Roster, Players
  <1>2. /\ opened.tanks_placed = m.tanks_placed /\ opened.placed = m.placed
        /\ opened.current_player = m.current_player /\ ~opened.turn_claimed_
        /\ opened.current_state = m.current_state
        /\ opened.status = m.status /\ opened.roster = m.roster
    BY DEF Good, Match
  <1>3. Good(opened)
    <2>1. m.turn_ID_ + 1 \in Nat
      BY DEF Good, Match
    <2> QED BY <2>1 DEF Good, Match
  <1> HIDE DEF opened
  <1>4. CASE ~setup_over(opened)
    <2> SUFFICES ASSUME m.roster.alive = Players
                 PROVE  /\ m.status # "overrun"
                        /\ m.current_state = "Setup" => \E k \in Nat : Rounds(opened, k)
      BY <1>2, <1>4 DEF Fits, opened
    <2>1. ASSUME m.current_state = "Setup"
          PROVE  \E k \in Nat : Rounds(opened, k)
      <3>1. PICK k \in Nat : Rounds(m, k)
        BY <2>1 DEF Fits
      <3>2. m.roster.remaining_players = n_players_
        BY <1>1, PlayersFinite DEF RosterOK
      <3>3. ~(m.tanks_placed >= n_players_ * num_tanks_)
        BY <1>2, <1>4, <2>1, <3>2 DEF setup_over
      <3>4. /\ n_players_ \in Nat /\ num_tanks_ \in Nat
            /\ m.tanks_placed = n_players_ * k + m.current_player
        BY <3>1, MatchAssumption DEF Rounds
      <3>5. n_players_ * k \in Nat /\ n_players_ * num_tanks_ \in Nat
        BY <3>4
      <3>6. n_players_ * k + m.current_player < n_players_ * num_tanks_
        BY <1>1, <3>3, <3>4, <3>5
      <3>7. k < num_tanks_
        BY <1>1, <3>4, <3>6, RoundsGrow
      <3> QED BY <1>2, <3>1, <3>7 DEF Rounds
    <2> QED BY <2>1 DEF Fits
  <1>5. CASE setup_over(opened)
    <2> DEFINE first == [opened EXCEPT !.current_state = "Play", !.current_player = 0,
                                       !.current_fuel = TURN_PLAYER_FUEL]
    <2>1. /\ TURN_PLAYER_FUEL \in 1 .. TURN_PLAYER_FUEL /\ 0 \in Players
      BY MatchAssumption, PlayersFinite
    <2>2. Good(first)
      BY <1>3, <2>1 DEF Good, Match
    <2>3. first.current_state = "Play" /\ first.roster = m.roster /\ first.status = m.status
      BY <1>2, <1>3 DEF Good, Match
    <2>4. begin_play(opened) = compute_all_views(first)
      BY DEF begin_play
    <2> HIDE DEF first
    <2>5. Fits(first)
      BY <1>1, <2>3, FitsSame
    <2>6. Fits(begin_play(opened))
      BY <2>2, <2>4, <2>5, ViewsFit
    <2> QED BY <1>5, <2>6 DEF opened
  <1> QED BY <1>4, <1>5

LEMMA StartTurnFits ==
    ASSUME NEW m, Good(m), Timely(m), Fits(m)
    PROVE  \A x \in start_turn(m) : Fits(x)
  <1> DEFINE opened == [m EXCEPT !.turn_ID_ = @ + 1, !.turn_claimed_ = FALSE]
             begun == IF setup_over(opened) THEN begin_play(opened) ELSE opened
             armed == arm_timer(begun)
  <1>1. Good(begun) /\ Timely(begun) /\ Fits(begun)
    BY BegunTimely, BegunFits
  <1>2. start_turn(m) =
            IF begun.roster.remaining_players <= 1 THEN {conclude_game(begun)}
            ELSE IF begun.current_player \notin begun.roster.alive
            THEN {skip_eliminated(begun)}
            ELSE IF armed.command_queues_[armed.current_player] > 0
            THEN on_player_move_arrived(armed)
            ELSE {armed}
    BY DEF start_turn
  <1> HIDE DEF begun
  <1>3. begun.roster.alive \subseteq Players /\ begun.current_player \in Players
    BY <1>1 DEF Good, Match, Roster
  <1>4. Fits(conclude_game(begun))
    <2> DEFINE x == conclude_game(begun)
    <2>1. /\ x.roster.alive = begun.roster.alive
          /\ (x.status = begun.status \/ x.status = "thrown")
          /\ x = begun \/ x.current_state = "Concluded"
      BY <1>1 DEF conclude_game, Good, Match, Roster
    <2> HIDE DEF x
    <2>2. Fits(x)
      BY <1>1, <1>3, <2>1, FitsSame
    <2> QED BY <2>2 DEF x
  <1>5. ASSUME begun.current_player \notin begun.roster.alive
        PROVE  Fits(skip_eliminated(begun))
    <2> DEFINE next == [begun EXCEPT !.current_player = next_player(begun)]
    <2>1. next_player(begun) \in Players
      BY <1>1, NextPlayerType DEF Good
    <2>2. Good(next) /\ next.roster = begun.roster
      BY <1>1, <2>1 DEF Good, Match
    <2>3. skip_eliminated(begun) = start_turn_strand(compute_all_views(next))
      BY DEF skip_eliminated
    <2> HIDE DEF next
    <2>4. Fits(next)
      BY <1>3, <1>5, <2>2 DEF Fits
    <2> QED BY <2>2, <2>3, <2>4, ComputeAllViewsGood, ViewsFit, PostFits
            DEF start_turn_strand
  <1>6. Fits(armed)
    <2>1. /\ armed.roster = begun.roster /\ armed.status = begun.status
          /\ armed.current_state = begun.current_state
          /\ armed.tanks_placed = begun.tanks_placed /\ armed.placed = begun.placed
          /\ armed.current_player = begun.current_player
          /\ armed.turn_claimed_ = begun.turn_claimed_
      BY <1>1 DEF arm_timer, Good, Match
    <2> HIDE DEF armed
    <2> QED BY <1>1, <1>3, <2>1, FitsSame
  <1>7. ASSUME ~(begun.roster.remaining_players <= 1)
        PROVE  \A x \in on_player_move_arrived(armed) : Fits(x)
    <2>1. Good(armed)
      BY <1>1, <1>7, ArmTimerTimely DEF Timely
    <2> HIDE DEF armed
    <2> QED BY <1>6, <2>1, MoveArrivedFits
  <1> HIDE DEF armed
  <1> QED BY <1>2, <1>4, <1>5, <1>6, <1>7

LEMMA EliminationFits ==
    ASSUME NEW m, Good(m), Fits(m), NEW p \in Players
    PROVE  Fits(handle_elimination(m, p))
  <1>1. CASE p \notin m.roster.alive
    BY <1>1 DEF handle_elimination
  <1>2. CASE p \in m.roster.alive
    <2> DEFINE queues == [m.command_queues_ EXCEPT ![p] = 0]
               times == [m.time_left_ EXCEPT ![p] = NoClock]
               tanks == IF m.current_state = "Setup"
                        THEN m.tanks_placed - m.placed[p] ELSE m.tanks_placed
               lives == [m.live_tanks EXCEPT ![p] = 0]
               r == drop(m.roster, {p})
               cut == [m EXCEPT !.command_queues_ = queues, !.roster = r,
                                !.time_left_ = times, !.tanks_placed = tanks,
                                !.live_tanks = lives]
               viewed == compute_all_views(send(cut))
               passed == IF p = m.current_player
                         THEN [viewed EXCEPT !.current_player = next_player(m),
                                             !.current_fuel = TURN_PLAYER_FUEL,
                                             !.timer_ = {}]
                         ELSE viewed
    <2>1. r \in Roster /\ RosterOK(r) /\ p \notin r.alive
      BY <1>2, DropKeepsRoster DEF Good, Match, drop
    <2>2. handle_elimination(m, p) = start_turn_strand(passed)
      BY <1>2 DEF handle_elimination, Good, Match
    <2>3. /\ queues \in [Players -> 0 .. MAX_QUEUE_SIZE]
          /\ times \in [Players -> Players \cup {NoClock}]
          /\ tanks \in Int /\ lives \in [Players -> Nat]
      BY MatchAssumption DEF Good, Match
    <2> HIDE DEF queues, times, tanks, lives, r
    <2>4. Good(cut)
      BY <2>1, <2>3 DEF Good, Match
    <2>5. send(cut).roster = r
      BY DEF send, Good, Match
    <2> HIDE DEF cut
    <2>6. Good(send(cut))
      BY <2>4, SendGood
    <2>7. Good(viewed) /\ p \notin viewed.roster.alive
      BY <2>1, <2>5, <2>6, ComputeAllViewsGood, ViewsKeep
    <2> HIDE DEF viewed
    <2>8. next_player(m) \in Players /\ TURN_PLAYER_FUEL \in 1 .. TURN_PLAYER_FUEL
      BY NextPlayerType, MatchAssumption DEF Good
    <2>9. Good(passed) /\ passed.roster = viewed.roster
      BY <2>7, <2>8 DEF Good, Match
    <2> HIDE DEF passed
    <2>10. Fits(passed)
      BY <2>7, <2>9 DEF Fits
    <2> QED BY <2>2, <2>9, <2>10, PostFits DEF start_turn_strand
  <1> QED BY <1>1, <1>2

LEMMA ReceiveCommandFits ==
    ASSUME NEW m, Good(m), Fits(m), NEW p \in Players, NEW t \in Nat
    PROVE  \A x \in receive_command(m, p, t) : Fits(x)
  <1> DEFINE queues == [m.command_queues_ EXCEPT ![p] = @ + 1]
             pushed == [m EXCEPT !.command_queues_ = queues]
  <1>1. receive_command(m, p, t) =
            IF m.current_state = "Concluded" \/ t # m.turn_ID_ THEN {send(m)}
            ELSE IF m.command_queues_[p] >= MAX_QUEUE_SIZE THEN {m}
            ELSE IF p = m.current_player THEN on_player_move_arrived(pushed)
            ELSE {pushed}
    BY DEF receive_command, Good, Match
  <1>2. ~(m.command_queues_[p] >= MAX_QUEUE_SIZE) => Good(pushed)
    <2>1. ~(m.command_queues_[p] >= MAX_QUEUE_SIZE)
                => queues \in [Players -> 0 .. MAX_QUEUE_SIZE]
      BY MatchAssumption DEF Good, Match
    <2> HIDE DEF queues
    <2> QED BY <2>1 DEF Good, Match
  <1>3. /\ pushed.roster = m.roster /\ pushed.status = m.status
        /\ pushed.current_state = m.current_state
        /\ pushed.tanks_placed = m.tanks_placed /\ pushed.placed = m.placed
        /\ pushed.current_player = m.current_player
        /\ pushed.turn_claimed_ = m.turn_claimed_ /\ m.roster.alive \subseteq Players
    BY DEF Good, Match, Roster
  <1> HIDE DEF pushed
  <1>4. Fits(pushed)
    BY <1>3, FitsSame
  <1> QED BY <1>1, <1>2, <1>4, SendFits, MoveArrivedFits

LEMMA HandlerFits ==
    ASSUME NEW m, Good(m), Fits(m), NEW p \in Players, NEW t \in Nat
    PROVE  /\ Fits(forfeit(m, p)) /\ Fits(sync_player(m, p))
           /\ Fits(async_shutdown(m)) /\ Fits(timer_handler(m, t))
  <1> DEFINE queues == [m.command_queues_ EXCEPT ![p] = 0]
             dumped == [m EXCEPT !.command_queues_ = queues]
             claimed == [m EXCEPT !.turn_claimed_ = TRUE]
             down == async_shutdown(m)
  <1>1. m.roster.alive \subseteq Players /\ m.current_player \in Players
    BY DEF Good, Match, Roster
  <1>2. Fits(forfeit(m, p))
    BY SendFits, EliminationFits DEF forfeit
  <1>3. Fits(sync_player(m, p))
    <2>1. sync_player(m, p) = IF m.current_state = "Concluded" THEN send(m) ELSE send(dumped)
      BY DEF sync_player, Good, Match
    <2>2. queues \in [Players -> 0 .. MAX_QUEUE_SIZE]
      BY MatchAssumption DEF Good, Match
    <2> HIDE DEF queues
    <2>3. Good(dumped)
      BY <2>2 DEF Good, Match
    <2>4. /\ dumped.roster = m.roster /\ dumped.status = m.status
          /\ dumped.current_state = m.current_state
          /\ dumped.tanks_placed = m.tanks_placed /\ dumped.placed = m.placed
          /\ dumped.current_player = m.current_player
          /\ dumped.turn_claimed_ = m.turn_claimed_
      BY DEF Good, Match
    <2> HIDE DEF dumped
    <2>5. Fits(dumped)
      BY <1>1, <2>4, FitsSame
    <2> QED BY <2>1, <2>3, <2>5, SendFits
  <1>4. Fits(down)
    <2>1. /\ down.roster = m.roster /\ down.status = m.status
          /\ down.current_state = m.current_state
          /\ down.tanks_placed = m.tanks_placed /\ down.placed = m.placed
          /\ down.current_player = m.current_player
          /\ down.turn_claimed_ = m.turn_claimed_
      BY DEF async_shutdown, Good, Match
    <2> HIDE DEF down
    <2> QED BY <1>1, <2>1, FitsSame
  <1>5. Fits(timer_handler(m, t))
    <2>1. /\ claimed.roster = m.roster /\ claimed.status = m.status
          /\ claimed.current_state = m.current_state
          /\ claimed.tanks_placed = m.tanks_placed /\ claimed.placed = m.placed
          /\ claimed.current_player = m.current_player
          /\ claimed.turn_claimed_ /\ Good(claimed)
      BY DEF Good, Match
    <2>2. timer_handler(m, t) = IF t # m.turn_ID_ \/ m.turn_claimed_ THEN m
                                ELSE handle_elimination(claimed, m.current_player)
      BY DEF timer_handler, handle_timeout
    <2> HIDE DEF claimed
    <2>3. Fits(claimed)
      BY <1>1, <2>1, FitsSame
    <2> QED BY <1>1, <2>1, <2>2, <2>3, EliminationFits
  <1> QED BY <1>2, <1>3, <1>4, <1>5

LEMMA StepFits ==
    ASSUME TimelyInv, Fits(self), [Next]_vars
    PROVE  Fits(self')
  <1>1. Good(self) /\ Timely(self) /\ self.roster.alive \subseteq Players
    BY DEF TimelyInv, Inv, Good, Match, Roster
  <1>2. ASSUME Running, self.strand_ # <<>>
        PROVE  /\ Good(popped) /\ Timely(popped) /\ Fits(popped)
               /\ head.player \in Players /\ head.t_id \in Nat
    <2>1. /\ popped.roster = self.roster /\ popped.status = self.status
          /\ popped.current_state = self.current_state
          /\ popped.tanks_placed = self.tanks_placed /\ popped.placed = self.placed
          /\ popped.current_player = self.current_player
          /\ popped.turn_claimed_ = self.turn_claimed_
      BY <1>1 DEF popped, Good, Match
    <2>2. Fits(popped)
      BY <1>1, <2>1, FitsSame
    <2> QED BY <1>1, <1>2, <2>2, PopGood, PopTimely
  <1>3. CASE StartTurn
    BY <1>2, <1>3, StartTurnFits DEF StartTurn, At
  <1>4. CASE Command
    BY <1>2, <1>4, ReceiveCommandFits DEF Command, At
  <1>5. CASE Forfeit
    BY <1>2, <1>5, HandlerFits DEF Forfeit, At
  <1>6. CASE SyncPlayer
    BY <1>2, <1>6, HandlerFits DEF SyncPlayer, At
  <1>7. CASE Shutdown
    BY <1>2, <1>7, HandlerFits DEF Shutdown, At
  <1>8. CASE Timer
    BY <1>2, <1>8, HandlerFits DEF Timer, At
  <1>9. CASE \E t : self' = post(self, t)
    BY <1>1, <1>9, PostFits
  <1>10. CASE \E p \in Players : RouteCommand(p) \/ RouteForfeit(p) \/ Relogin(p)
    BY <1>9, <1>10 DEF RouteCommand, RouteForfeit, Relogin
  <1>11. CASE RequestShutdown
    BY <1>9, <1>11 DEF RequestShutdown
  <1>12. CASE ExpireTimer
    <2>1. PICK t \in self.timer_ : self' = [post(self, t) EXCEPT !.timer_ = {}]
      BY <1>12 DEF ExpireTimer
    <2> DEFINE y == post(self, t)
    <2>2. t \in Task
      BY <1>1 DEF Good, Match
    <2>3. Good(y) /\ Fits(y)
      BY <1>1, <2>2, PostGood, PostFits
    <2> HIDE DEF y
    <2>4. /\ self'.roster = y.roster /\ self'.status = y.status
          /\ self'.current_state = y.current_state
          /\ self'.tanks_placed = y.tanks_placed /\ self'.placed = y.placed
          /\ self'.current_player = y.current_player
          /\ self'.turn_claimed_ = y.turn_claimed_ /\ y.roster.alive \subseteq Players
      BY <2>1, <2>3 DEF y, Good, Match, Roster
    <2> QED BY <2>3, <2>4, FitsSame
  <1>13. CASE self' = self
    BY <1>13
  <1> QED BY <1>3, <1>4, <1>5, <1>6, <1>7, <1>8, <1>10, <1>11, <1>12, <1>13
          DEF Next, ForgetMatch, Ended, vars

\* While nobody has left the match, place_tank never writes past the end of a
\* player's list: tanks_placed ends Setup in time.
THEOREM NoOverrun == Spec => []FullRosterFits
  <1>1. Init => TimelyInv /\ Fits(self)
    <2>1. ASSUME Init PROVE Fits(self)
      <3>1. PICK claimed \in BOOLEAN : self = NewMatch(claimed)
        BY <2>1 DEF Init
      <3>2. /\ self.tanks_placed = 0 /\ self.current_player = 0 /\ self.status = "running"
            /\ \A p \in Players : self.placed[p] = 0
        BY <3>1 DEF NewMatch
      <3>3. \A i \in Players : ~(i < 0)
        BY MatchAssumption DEF Players
      <3>4. n_players_ * 0 + 0 = 0 /\ 0 < num_tanks_ /\ 0 \in Nat
        BY MatchAssumption
      <3>5. Rounds(self, 0)
        BY <3>2, <3>3, <3>4 DEF Rounds
      <3> QED BY <3>2, <3>4, <3>5 DEF Fits
    <2> QED BY <2>1, InitTimely
  <1>2. TimelyInv /\ Fits(self) /\ [Next]_vars => TimelyInv' /\ Fits(self)'
    <2> SUFFICES ASSUME TimelyInv, Fits(self), [Next]_vars PROVE Fits(self)'
      BY StepTimelyInv
    <2>1. Fits(self')
      BY StepFits
    <2> QED BY <2>1 DEF Fits, Rounds
  <1>3. Fits(self) => FullRosterFits
    BY DEF Fits, FullRosterFits
  <1> QED BY <1>1, <1>2, <1>3, PTL DEF Spec

-----------------------------------------------------------------------------
(* The claim on a turn.                                                    *)

\* What a handler that finds the turn claimed must not touch.
SameGame(m, x) ==
    /\ x.roster = m.roster /\ x.placed = m.placed /\ x.live_tanks = m.live_tanks
    /\ x.current_player = m.current_player /\ x.current_fuel = m.current_fuel

LEMMA ClaimedCommand ==
    ASSUME NEW m, Good(m), m.turn_claimed_, NEW p \in Players, NEW t \in Nat
    PROVE  \A x \in receive_command(m, p, t) : SameGame(m, x)
  <1> DEFINE queues == [m.command_queues_ EXCEPT ![p] = @ + 1]
             pushed == [m EXCEPT !.command_queues_ = queues]
  <1>1. receive_command(m, p, t) =
            IF m.current_state = "Concluded" \/ t # m.turn_ID_ THEN {send(m)}
            ELSE IF m.command_queues_[p] >= MAX_QUEUE_SIZE THEN {m}
            ELSE IF p = m.current_player THEN on_player_move_arrived(pushed)
            ELSE {pushed}
    BY DEF receive_command, Good, Match
  <1>2. pushed.turn_claimed_ /\ SameGame(m, pushed) /\ SameGame(m, m)
    BY DEF SameGame, Good, Match
  <1>3. SameGame(m, send(m))
    BY DEF SameGame, send, Good, Match
  <1> HIDE DEF pushed
  <1>4. on_player_move_arrived(pushed) = {pushed}
    BY <1>2 DEF on_player_move_arrived
  <1> QED BY <1>1, <1>2, <1>3, <1>4

\* turn_claimed_ settles the race of a move and the timeout of the same turn: once it
\* is set, no command and no timer handler moves, eliminates or passes the turn on.
THEOREM ClaimClosesTurn == Spec => ClaimedTurnIsClosed
  <1> DEFINE Closed == (Running /\ self.turn_claimed_ /\ self.strand_ # <<>>
                            /\ self'.strand_ # self.strand_ /\ head.kind \in {"command", "timer"})
                       => /\ self'.roster = self.roster
                          /\ self'.placed = self.placed
                          /\ self'.live_tanks = self.live_tanks
                          /\ self'.current_player = self.current_player
                          /\ self'.current_fuel = self.current_fuel
  <1>1. Inv /\ [Next]_vars => [Closed]_vars
    <2> SUFFICES ASSUME Inv, [Next]_vars, Running, self.turn_claimed_,
                        self.strand_ # <<>>, self'.strand_ # self.strand_,
                        head.kind \in {"command", "timer"}
                 PROVE  SameGame(self, self')
      BY DEF SameGame
    <2>1. Good(self)
      BY DEF Inv
    <2>2. /\ Good(popped) /\ popped.turn_claimed_ /\ SameGame(self, popped)
          /\ head.player \in Players /\ head.t_id \in Nat
      BY <2>1, PopGood DEF popped, SameGame, Good, Match
    <2>3. CASE Command
      <3>1. SameGame(popped, self')
        BY <2>2, <2>3, ClaimedCommand DEF Command
      <3> QED BY <2>2, <3>1 DEF SameGame
    <2>4. CASE Timer
      BY <2>2, <2>4 DEF Timer, timer_handler
    <2>5. CASE StartTurn \/ Forfeit \/ SyncPlayer \/ Shutdown
      BY <2>5 DEF StartTurn, Forfeit, SyncPlayer, Shutdown, At, head
    <2>6. \A t : SameGame(self, post(self, t))
      BY <2>1 DEF SameGame, post, Good, Match
    <2>7. CASE \E p \in Players : RouteCommand(p) \/ RouteForfeit(p) \/ Relogin(p)
      BY <2>6, <2>7 DEF RouteCommand, RouteForfeit, Relogin
    <2>8. CASE RequestShutdown
      BY <2>6, <2>8 DEF RequestShutdown
    <2>9. CASE ExpireTimer
      BY <2>1, <2>9 DEF ExpireTimer, SameGame, post, Good, Match
    <2> QED BY <2>3, <2>4, <2>5, <2>7, <2>8, <2>9 DEF Next, ForgetMatch, Ended, vars
  <1> QED BY <1>1, InitInv, StepInv, PTL DEF Spec, ClaimedTurnIsClosed

=============================================================================
