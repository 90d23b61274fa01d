---------------------------- MODULE MatchInstance ----------------------------
(***************************************************************************)
(* One running match of the SilentTanks server (match-instance.h, .cpp).   *)
(*                                                                         *)
(* A MatchInstance is an object whose members are touched by handlers that *)
(* run one at a time on strand_, in the order they were posted.  `self` is *)
(* that object: a record of its members, the queue of the strand among     *)
(* them.  Every member function is an operator from the object to the      *)
(* object it leaves behind (a set of objects where the client's command or *)
(* the board decides); every handler is an action that runs the head of    *)
(* the strand to completion.  The surroundings (MatchMaker, UserManager,   *)
(* the clock) only post handlers.                                          *)
(*                                                                         *)
(* The board is abstracted to how many tanks a player has placed and how   *)
(* many of them still live; a clock to the player whose budget it measures.*)
(***************************************************************************)
EXTENDS Integers, Sequences, FiniteSets

CONSTANTS
    n_players_,         \* players in the match
    num_tanks_,         \* tanks per player on this map
    TURN_PLAYER_FUEL,   \* commands per turn in the Play phase
    MAX_QUEUE_SIZE,     \* commands a player may have waiting
    MaxTurn,            \* bound: clients send commands up to this turn_ID_
    MaxPosts,           \* bound: the surroundings post while the strand is shorter
    MaxLogins,          \* bound: reconnections in one match
    MayShutdown         \* whether the server may be shut down during the match

ASSUME MatchAssumption ==
    /\ n_players_ \in Nat \ {0, 1}
    /\ num_tanks_ \in Nat \ {0}
    /\ TURN_PLAYER_FUEL \in Nat \ {0}
    /\ MAX_QUEUE_SIZE \in Nat \ {0}
    /\ MaxTurn \in Nat /\ MaxPosts \in Nat /\ MaxLogins \in Nat
    /\ MayShutdown \in BOOLEAN

Players == 0 .. n_players_ - 1

\* A clock that was set to zero and belongs to nobody.
NoClock == n_players_

VARIABLES
    self,       \* the MatchInstance
    routed,     \* users that uuid_to_match_ still maps to this match
    live,       \* live_matches_ still holds the match
    logins      \* reconnections so far

vars == <<self, routed, live, logins>>

-----------------------------------------------------------------------------
(* Handlers waiting on the strand.                                         *)

Task == [kind : {"start_turn", "command", "forfeit", "sync", "shutdown", "timer"},
         player : Players,      \* the user, or the player the timer was armed for
         t_id : Nat]            \* the turn_ID_ captured when the handler was made

task(k, p, t) == [kind |-> k, player |-> p, t_id |-> t]

post(m, t) == [m EXCEPT !.strand_ = Append(@, t)]

start_turn_strand(m) == post(m, task("start_turn", 0, 0))

(***************************************************************************)
(* Calling send_callback_ after it was set to nullptr throws               *)
(* std::bad_function_call out of the handler; the io_context threads do    *)
(* not catch it, so the process ends.                                      *)
(***************************************************************************)
send(m) == IF m.callbacks_ THEN m ELSE [m EXCEPT !.status = "thrown"]

-----------------------------------------------------------------------------
(* The roster: who is alive and in which order the others left.            *)

Roster == [alive : SUBSET Players,
           remaining_players : Int,
           elim_counter_ : Nat,
           elimination_order : [Players -> Nat]]

FullRoster == [alive |-> Players,
               remaining_players |-> n_players_,
               elim_counter_ |-> 0,
               elimination_order |-> [p \in Players |-> 0]]

\* Slip: the counter is read once for the whole group.
nobody_ahead(lost, p) == {}

\* Those of the group that were handled before p.
ahead(lost, p) == {q \in lost : q < p}

\* The players in `lost` leave, in the order of their index.
drop(r, lost) ==
    [alive |-> r.alive \ lost,
     remaining_players |-> r.remaining_players - Cardinality(lost),
     elim_counter_ |-> r.elim_counter_ + Cardinality(lost),
     elimination_order |->
        [p \in Players |->
            IF p \in lost
            THEN r.elim_counter_ + Cardinality(ahead(lost, p))
            ELSE r.elimination_order[p]]]

\* Slip: the survivor is given no place.
unranked_survivor(r) == r.elimination_order

\* The order that conclude_game publishes: a survivor comes last.
final_order(r) ==
    [p \in Players |->
        IF p \in r.alive THEN r.elim_counter_ ELSE r.elimination_order[p]]

-----------------------------------------------------------------------------
(* The members of the object.                                              *)

Match == [strand_ : Seq(Task),
          timer_ : SUBSET Task,         \* the pending wait, if any
          current_state : {"Setup", "Play", "Concluded"},
          current_player : Players,
          current_fuel : 1 .. TURN_PLAYER_FUEL,
          roster : Roster,
          tanks_placed : Int,
          placed : [Players -> Nat],        \* Player::tanks_placed_
          live_tanks : [Players -> Nat],    \* tanks with health left
          turn_ID_ : Nat,
          turn_claimed_ : BOOLEAN,
          expiry_time_ : Players \cup {NoClock},
          time_left_ : [Players -> Players \cup {NoClock}],
          command_queues_ : [Players -> 0 .. MAX_QUEUE_SIZE],
          callbacks_ : BOOLEAN,             \* send_callback_, results_callback_ set
          shutdown : BOOLEAN,
          status : {"running", "thrown", "overrun"},
          results : Seq([Players -> Nat])]  \* what results_callback_ was given

-----------------------------------------------------------------------------
(* Member functions.                                                       *)

\* Players found without a live tank leave the match, the others get a view.
compute_all_views(m) ==
    LET lost == IF m.current_state = "Setup" THEN {}
                ELSE {i \in m.roster.alive : m.live_tanks[i] = 0}
    IN  IF m.roster.alive = {} THEN m
        ELSE send([m EXCEPT !.roster = drop(@, lost)])

next_player(m) == (m.current_player + 1) % n_players_

handle_elimination(m, p) ==
    LET removed == send([m EXCEPT
                        !.command_queues_[p] = 0,
                        !.roster = drop(@, {p}),
                        !.time_left_[p] = NoClock,
                        !.tanks_placed = IF m.current_state = "Setup"
                                         THEN @ - m.placed[p] ELSE @,
                        !.live_tanks[p] = 0])
        viewed == compute_all_views(removed)
        passed == IF p = m.current_player
                  THEN [viewed EXCEPT !.current_player = next_player(m),
                                      !.current_fuel = TURN_PLAYER_FUEL,
                                      !.timer_ = {}]
                  ELSE viewed
    IN  IF p \in m.roster.alive THEN start_turn_strand(passed) ELSE m

\* place_tank numbers a tank by the tanks placed before it and checks no bound:
\* one tank too many is written outside the player's list.
place_tank(m, p, destroyed) ==
    [m EXCEPT !.placed[p] = @ + 1,
              !.tanks_placed = @ + 1,
              !.live_tanks[p] = IF destroyed THEN @ ELSE @ + 1,
              !.status = IF m.placed[p] >= num_tanks_ THEN "overrun" ELSE @]

\* The states a valid command of the current player can lead to: in Setup a tank
\* is placed (and destroyed at once on terrain); in Play a live tank of the
\* player acts, and a shot may destroy one tank of somebody else.
apply_command(m) ==
    LET p == m.current_player
    IN  IF m.current_state = "Setup"
        THEN {place_tank(m, p, destroyed) : destroyed \in BOOLEAN}
        ELSE IF m.live_tanks[p] = 0 THEN {}
        ELSE {m} \cup {[m EXCEPT !.live_tanks[q] = @ - 1] :
                            q \in {x \in Players \ {p} : m.live_tanks[x] > 0}}

\* Slip: the turn ends one command late.
end_move_late(m) ==
    LET spent == IF m.current_state = "Setup"
                 THEN [m EXCEPT !.current_player = next_player(m)]
                 ELSE IF m.current_fuel > 0
                 THEN [m EXCEPT !.current_fuel = @ - 1]
                 ELSE [m EXCEPT !.current_player = next_player(m),
                                !.current_fuel = TURN_PLAYER_FUEL]
    IN  start_turn_strand(compute_all_views(spent))

\* Slip: the next player gets what fuel is left.
end_move_no_refuel(m) ==
    LET spent == IF m.current_state # "Setup" /\ m.current_fuel > 1
                 THEN [m EXCEPT !.current_fuel = @ - 1]
                 ELSE [m EXCEPT !.current_player = next_player(m)]
    IN  start_turn_strand(compute_all_views(spent))

\* What follows a valid command: fuel and the next player.
end_move(m) ==
    LET spent == IF m.current_state = "Setup"
                 THEN [m EXCEPT !.current_player = next_player(m)]
                 ELSE IF m.current_fuel > 1
                 THEN [m EXCEPT !.current_fuel = @ - 1]
                 ELSE [m EXCEPT !.current_player = next_player(m),
                                !.current_fuel = TURN_PLAYER_FUEL]
    IN  start_turn_strand(compute_all_views(spent))

on_player_move_arrived(m) ==
    LET p == m.current_player
        claimed == [m EXCEPT !.turn_claimed_ = TRUE]
        taken == [claimed EXCEPT !.timer_ = {},
                                 !.command_queues_[p] = @ - 1,
                                 !.time_left_[p] = m.expiry_time_]
        failed_move == start_turn_strand(send(taken))
    IN  IF m.turn_claimed_ THEN {m}
        ELSE IF m.current_state = "Concluded" \/ m.command_queues_[p] = 0
        THEN {claimed}
        ELSE {failed_move} \cup {end_move(x) : x \in apply_command(taken)}

\* Slip: the state is not set.
conclude_quietly(m) ==
    IF m.shutdown THEN m
    ELSE IF ~m.callbacks_ THEN [m EXCEPT !.status = "thrown"]
    ELSE [m EXCEPT !.roster.elimination_order = final_order(m.roster),
                   !.results = Append(@, final_order(m.roster)),
                   !.timer_ = {},
                   !.callbacks_ = FALSE]

conclude_game(m) ==
    IF m.shutdown THEN m
    ELSE IF ~m.callbacks_
    THEN [m EXCEPT !.current_state = "Concluded", !.status = "thrown"]
    ELSE [m EXCEPT !.current_state = "Concluded",
                   !.roster.elimination_order = final_order(m.roster),
                   !.results = Append(@, final_order(m.roster)),
                   !.timer_ = {},
                   !.callbacks_ = FALSE]

\* Slip: off by one.
setup_over_late(m) ==
    /\ m.current_state = "Setup"
    /\ m.tanks_placed > m.roster.remaining_players * num_tanks_

setup_over(m) ==
    /\ m.current_state = "Setup"
    /\ m.tanks_placed >= m.roster.remaining_players * num_tanks_

begin_play(m) ==
    compute_all_views([m EXCEPT !.current_state = "Play",
                                !.current_player = 0,
                                !.current_fuel = TURN_PLAYER_FUEL])

skip_eliminated(m) ==
    start_turn_strand(compute_all_views(
        [m EXCEPT !.current_player = next_player(m)]))

\* Slip: the expiry is set and the wait is not.
arm_nothing(m) == [m EXCEPT !.expiry_time_ = m.time_left_[m.current_player]]

arm_timer(m) ==
    [m EXCEPT !.expiry_time_ = m.time_left_[m.current_player],
              !.timer_ = {task("timer", m.current_player, m.turn_ID_)}]

start_turn(m) ==
    LET opened == [m EXCEPT !.turn_ID_ = @ + 1, !.turn_claimed_ = FALSE]
        begun == IF setup_over(opened) THEN begin_play(opened) ELSE opened
        armed == arm_timer(begun)
    IN  IF begun.roster.remaining_players <= 1 THEN {conclude_game(begun)}
        ELSE IF begun.current_player \notin begun.roster.alive
        THEN {skip_eliminated(begun)}
        ELSE IF armed.command_queues_[armed.current_player] > 0
        THEN on_player_move_arrived(armed)
        ELSE {armed}

-----------------------------------------------------------------------------
(* The handlers as they run on the strand.                                 *)

receive_command(m, p, t_id) ==
    LET pushed == [m EXCEPT !.command_queues_[p] = @ + 1]
    IN  IF m.current_state = "Concluded" \/ t_id # m.turn_ID_ THEN {send(m)}
        ELSE IF m.command_queues_[p] >= MAX_QUEUE_SIZE THEN {m}
        ELSE IF p = m.current_player THEN on_player_move_arrived(pushed)
        ELSE {pushed}

forfeit(m, p) ==
    IF m.current_state = "Concluded" THEN send(m) ELSE handle_elimination(m, p)

sync_player(m, p) ==
    IF m.current_state = "Concluded" THEN send(m)
    ELSE send([m EXCEPT !.command_queues_[p] = 0])

async_shutdown(m) ==
    [m EXCEPT !.shutdown = TRUE, !.timer_ = {}, !.callbacks_ = FALSE]

\* The player to be timed out is read when the handler runs, not when it was made.
handle_timeout(m) ==
    handle_elimination([m EXCEPT !.turn_claimed_ = TRUE], m.current_player)

\* Slip: the claim is not looked at.
timer_ignores_claim(m, t_id) == IF t_id # m.turn_ID_ THEN m ELSE handle_timeout(m)

\* Slip: the test of the turn is inverted.
timer_inverted(m, t_id) ==
    IF t_id = m.turn_ID_ \/ m.turn_claimed_ THEN m ELSE handle_timeout(m)

timer_handler(m, t_id) ==
    IF t_id # m.turn_ID_ \/ m.turn_claimed_ THEN m ELSE handle_timeout(m)

-----------------------------------------------------------------------------

\* The match when start() has posted its first turn.  turn_claimed_ has no initial
\* value in the constructor.
NewMatch(claimed) ==
    [strand_ |-> <<task("start_turn", 0, 0)>>,
     timer_ |-> {},
     current_state |-> "Setup",
     current_player |-> 0,
     current_fuel |-> TURN_PLAYER_FUEL,
     roster |-> FullRoster,
     tanks_placed |-> 0,
     placed |-> [p \in Players |-> 0],
     live_tanks |-> [p \in Players |-> 0],
     turn_ID_ |-> 0,
     turn_claimed_ |-> claimed,
     expiry_time_ |-> NoClock,
     time_left_ |-> [p \in Players |-> p],
     command_queues_ |-> [p \in Players |-> 0],
     callbacks_ |-> TRUE,
     shutdown |-> FALSE,
     status |-> "running",
     results |-> <<>>]

Init ==
    /\ \E claimed \in BOOLEAN : self = NewMatch(claimed)
    /\ routed = Players
    /\ live = TRUE
    /\ logins = 0

Running == self.status = "running"

\* The handler at the head of the strand is of kind k; it runs on `popped`.
At(k) == Running /\ self.strand_ # <<>> /\ Head(self.strand_).kind = k
popped == [self EXCEPT !.strand_ = Tail(@)]
head == Head(self.strand_)

StartTurn ==
    /\ At("start_turn")
    /\ self' \in start_turn(popped)
    /\ UNCHANGED <<routed, live, logins>>

Command ==
    /\ At("command")
    /\ self' \in receive_command(popped, head.player, head.t_id)
    /\ UNCHANGED <<routed, live, logins>>

Forfeit ==
    /\ At("forfeit")
    /\ self' = forfeit(popped, head.player)
    /\ UNCHANGED <<routed, live, logins>>

SyncPlayer ==
    /\ At("sync")
    /\ self' = sync_player(popped, head.player)
    /\ UNCHANGED <<routed, live, logins>>

Shutdown ==
    /\ At("shutdown")
    /\ self' = async_shutdown(popped)
    /\ UNCHANGED <<routed, live, logins>>

Timer ==
    /\ At("timer")
    /\ self' = timer_handler(popped, head.t_id)
    /\ UNCHANGED <<routed, live, logins>>

RunHandler ==
    StartTurn \/ Command \/ Forfeit \/ SyncPlayer \/ Shutdown \/ Timer

-----------------------------------------------------------------------------
(* What the rest of the server does to the match.                          *)

MayPost == Running /\ Len(self.strand_) < MaxPosts

\* MatchMaker::route_impl.  turn_ID_ is read outside the strand, so a value that
\* start_turn is just replacing may be captured.
RouteCommand(p) ==
    /\ MayPost /\ p \in routed /\ self.turn_ID_ <= MaxTurn
    /\ \E t \in {self.turn_ID_, self.turn_ID_ - 1} \cap Nat :
            self' = post(self, task("command", p, t))
    /\ UNCHANGED <<routed, live, logins>>

\* MatchMaker::forfeit_impl: the user is unmapped at once.
RouteForfeit(p) ==
    /\ MayPost /\ p \in routed
    /\ self' = post(self, task("forfeit", p, 0))
    /\ routed' = routed \ {p}
    /\ UNCHANGED <<live, logins>>

\* UserManager::on_login of a user whose current match is this one.  That pointer is
\* reset on the UserManager's own strand, so it may outlast `routed`.
Relogin(p) ==
    /\ MayPost /\ logins < MaxLogins
    /\ self' = post(self, task("sync", p, 0))
    /\ logins' = logins + 1
    /\ UNCHANGED <<routed, live>>

\* MatchMaker::async_shutdown, which runs at most once.
RequestShutdown ==
    /\ MayPost /\ MayShutdown /\ live /\ ~self.shutdown
    /\ \A i \in 1 .. Len(self.strand_) : self.strand_[i].kind # "shutdown"
    /\ self' = post(self, task("shutdown", 0, 0))
    /\ UNCHANGED <<routed, live, logins>>

\* The results callback of the MatchMaker, run on its own strand.
ForgetMatch ==
    /\ Running /\ live /\ self.results # <<>>
    /\ live' = FALSE
    /\ routed' = {}
    /\ UNCHANGED <<self, logins>>

\* The timer fires: from here on a cancel comes too late.
ExpireTimer ==
    /\ Running
    /\ \E t \in self.timer_ :
            self' = [post(self, t) EXCEPT !.timer_ = {}]
    /\ UNCHANGED <<routed, live, logins>>

Over == ~Running \/ self.shutdown \/ self.current_state = "Concluded"

Ended == Over /\ UNCHANGED vars

Next ==
    \/ StartTurn
    \/ Command
    \/ Forfeit
    \/ SyncPlayer
    \/ Shutdown
    \/ Timer
    \/ \E p \in Players : RouteCommand(p) \/ RouteForfeit(p) \/ Relogin(p)
    \/ RequestShutdown
    \/ ForgetMatch
    \/ ExpireTimer
    \/ Ended

Spec == Init /\ [][Next]_vars

(***************************************************************************)
(* The io_context threads keep running what is ready, and a clock that is  *)
(* not cancelled runs out.  Nothing is assumed of the clients.             *)
(***************************************************************************)
FairSpec == Spec /\ WF_vars(RunHandler) /\ WF_vars(ExpireTimer)

-----------------------------------------------------------------------------
(* Properties.                                                             *)

\* The members of the match keep their types.
TypeOK ==
    /\ self \in Match
    /\ routed \subseteq Players
    /\ live \in BOOLEAN
    /\ logins \in 0 .. MaxLogins

RosterOK(r) ==
    LET gone == Players \ r.alive
    IN  /\ r.remaining_players = Cardinality(r.alive)
        /\ r.elim_counter_ = n_players_ - r.remaining_players
        /\ \A p \in gone : r.elimination_order[p] < r.elim_counter_
        /\ \A p, q \in gone :
                p # q => r.elimination_order[p] # r.elimination_order[q]

\* remaining_players and elim_counter_ are kept by hand in two places
\* (handle_elimination and compute_all_views): they agree with the alive flags, and
\* no two players that have left share a place in elimination_order.
RosterConsistent == RosterOK(self.roster)

IsRanking(order) ==
    /\ \A p \in Players : order[p] \in 0 .. n_players_ - 1
    /\ \A p, q \in Players : p # q => order[p] # order[q]

\* conclude_game hands over at most one result, and the elimination_order in it
\* ranks every player of the match differently, with no gap (do_record and the
\* Elo update index by it).
PublishedRanking ==
    /\ Len(self.results) <= 1
    /\ \A i \in 1 .. Len(self.results) : IsRanking(self.results[i])

Pending(k) == {i \in 1 .. Len(self.strand_) : self.strand_[i].kind = k}

\* The game loop never dies: while the match goes on, a start_turn is posted, or the
\* open turn belongs to a living player and its timer is armed or has its handler
\* on the way.
NoStall ==
    Over \/ Pending("start_turn") # {}
         \/ /\ self.current_player \in self.roster.alive
            /\ ~self.turn_claimed_
            /\ \/ \E t \in self.timer_ : t.t_id = self.turn_ID_
               \/ \E i \in Pending("timer") : self.strand_[i].t_id = self.turn_ID_

\* Whoever becomes the current player has a full load of fuel, whichever path passed
\* the turn on (a move, a timeout, a forfeit, a skip, the start of Play).
FreshFuel ==
    [][(Running' /\ self'.current_player # self.current_player)
            => self'.current_fuel = TURN_PLAYER_FUEL]_vars

\* turn_claimed_ settles the race of move and timeout: once a turn is claimed no
\* command and no timeout changes the game until start_turn opens the next one.
ClaimedTurnIsClosed ==
    [][(Running /\ self.turn_claimed_ /\ self.strand_ # <<>>
            /\ self'.strand_ # self.strand_ /\ head.kind \in {"command", "timer"})
        => /\ self'.roster = self.roster
           /\ self'.placed = self.placed
           /\ self'.live_tanks = self.live_tanks
           /\ self'.current_player = self.current_player
           /\ self'.current_fuel = self.current_fuel]_vars

\* A match that is being played calls no null callback: the handlers that do so are
\* those that conclude_game or async_shutdown left on the strand behind them.
ThrowsOnlyWhenOver ==
    self.status = "thrown" => self.shutdown \/ self.current_state = "Concluded"

\* tanks_placed ends Setup before anybody can place a tank too many: only after an
\* elimination, which takes tanks off the count and not off the board, can it fail.
FullRosterFits == self.status = "overrun" => self.roster.alive # Players

\* When the clients have gone silent the clocks alone bring the match to its end.
MatchEnds == <>Over

\* The match as the rest of the server sees it.
Outcome == INSTANCE MatchOutcome WITH
    phase <- self.current_state,
    alive <- self.roster.alive,
    place <- [p \in Players \ self.roster.alive |-> self.roster.elimination_order[p]],
    published <- self.results

\* Turns, clocks, commands and forfeits implement the abstract match: places are
\* handed out once and in order, and the ranking is published once and complete.
ImplementsOutcome == Outcome!Spec

-----------------------------------------------------------------------------
(* What a comment of the source says of a turn, and the code does not keep. *)

\* match-instance.cpp:400 "only perform timeout if we fail to cancel the timer and
\* have not moved to another player": when a timer handler removes anybody, the
\* player it was armed for was still in the match.
TimeoutHitsItsPlayer ==
    [][(Timer /\ self'.roster # self.roster) => head.player \in self.roster.alive]_vars

=============================================================================
