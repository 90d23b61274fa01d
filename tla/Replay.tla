------------------------------- MODULE Replay -------------------------------
(***************************************************************************)
(* A match that is played and recorded (MatchInstance::apply_command and    *)
(* what surrounds it), and the same match watched again in the client       *)
(* (ReplayManager).  The server keeps the accepted commands only; the       *)
(* client rebuilds the boards from them, forwards and backwards.            *)
(*                                                                         *)
(* The interleavings of the server's handlers are the subject of module     *)
(* MatchInstance; here a command, or an elimination, together with the      *)
(* start_turn it posts, is one step, and the boards are kept in full.       *)
(***************************************************************************)
EXTENDS GameInstance

CONSTANTS Orders,           \* the play commands offered to the players
          Placements,       \* the placement commands of each player, in order
          Quitters,         \* the players who may give up or run out of time
          FirstExit,        \* bound: nobody leaves before this many commands
          MaxMoves,         \* bound on the commands of the Play state
          MAX_REPLAY_BYTES, \* here in commands
          Perspectives      \* arguments of set_perspective tried

TURN_PLAYER_FUEL == 3
NO_PLAYER == 255
NEVER == MaxMoves + NumPlayers * NumTanks + 1

VARIABLES
    game,       \* the server's GameInstance
    turn,       \* [state, player, fuel] of the MatchInstance
    alive,      \* players_[p].alive
    moves,      \* results_.move_history
    boards,     \* history: the server's game and turn when each move was due
    dropped,    \* history: the moves recorded before the first elimination
    stored,     \* ReplayManager::replays_ holds the match
    inst,       \* current_instance_
    shown,      \* [state, player, fuel] of current_view_
    applied,    \* applied_moves_
    status,     \* move_status_: success and hits of each applied move
    perspective,
    trail,      \* history: inst and shown at each position, on the way forward
    backed      \* history: has a move been undone since set_replay, exactly?

match == <<game, turn, alive, moves, boards, dropped>>
replay == <<stored, inst, shown, applied, status, perspective, trail, backed>>
vars == <<match, replay>>

Command == [type : {"Move", "RotateTank", "RotateBarrel", "Fire", "Load",
                    "Place"},
            sender : PlayerIds, tank_id : Nat, first : Nat, second : Nat]

\* Tanks and players are numbered in a uint8_t, of which 255 is taken.
ASSUME ReplayAssumption ==
    /\ NumPlayers * NumTanks <= 255
    /\ \A cmd \in Orders : cmd \in Command /\ cmd.type # "Place"
    /\ \A p \in PlayerIds : \A i \in 1 .. NumTanks :
            Placements[p][i] \in Command /\ Placements[p][i].type = "Place"
    /\ Quitters \subseteq PlayerIds /\ Perspectives \subseteq Nat
    /\ FirstExit \in Nat /\ MaxMoves \in Nat /\ MAX_REPLAY_BYTES \in Nat

-----------------------------------------------------------------------------
(* The match, on the server.                                               *)

\* The tank a command names exists, lives, and belongs to the sender.
TankOK(g, cmd) ==
    /\ cmd.tank_id < NumPlayers * NumTanks
    /\ Alive(g, cmd.tank_id)
    /\ g.tanks[cmd.tank_id].owner = cmd.sender

\* Is the command accepted in this state of the match?
valid_move(g, state, cmd) ==
    /\ state = "Setup" => cmd.type = "Place"
    /\ CASE cmd.type = "Fire" -> /\ TankOK(g, cmd)
                                 /\ g.tanks[cmd.tank_id].loaded
         [] cmd.type = "Load" -> /\ TankOK(g, cmd)
                                 /\ ~g.tanks[cmd.tank_id].loaded
         [] cmd.type = "Place" ->
              /\ state = "Setup"
              /\ <<cmd.first, cmd.second>> \in Cells
              /\ check_placement(g, <<cmd.first, cmd.second>>, cmd.sender)
              /\ cmd.tank_id < 8
         [] OTHER -> TankOK(g, cmd)

apply_command(g, cmd) ==
    CASE cmd.type = "Move" -> move_tank(g, cmd.tank_id, cmd.first # 0).game
      [] cmd.type = "RotateTank" -> rotate_tank(g, cmd.tank_id, cmd.first)
      [] cmd.type = "RotateBarrel" ->
           rotate_tank_barrel(g, cmd.tank_id, cmd.first)
      [] cmd.type = "Fire" -> fire_tank(g, cmd.tank_id)
      [] cmd.type = "Load" -> load_tank(g, cmd.tank_id)
      [] cmd.type = "Place" ->
           place_tank(g, <<cmd.first, cmd.second>>, cmd.sender, cmd.tank_id)

\* compute_all_views: outside Setup, who has no tank left is out.
StillIn(g, state, live) ==
    {p \in live : state = "Setup" \/ compute_view(g, p).live > 0}

\* start_turn: the end of the setup, the end of the game, the turn passes
\* over players who are out.
NextPlayer(p) == (p + 1) % NumPlayers
start_turn(g, t, live) ==
    LET placed == {s \in PlayerIds \X (0 .. NumTanks - 1) :
                     s[1] \in live /\ s[2] < g.placed[s[1]]}
        over == /\ t.state = "Setup"
                /\ Cardinality(placed) >= Cardinality(live) * NumTanks
        u == IF over THEN [state |-> "Play", player |-> 0,
                           fuel |-> TURN_PLAYER_FUEL] ELSE t
        ahead == {i \in 0 .. NumPlayers - 1 : (u.player + i) % NumPlayers \in live}
    IN  IF Cardinality(live) <= 1
        THEN [u EXCEPT !.state = "Concluded"]
        ELSE [u EXCEPT !.player = (u.player + Min(ahead)) % NumPlayers]

\* The command of the player whose turn it is, accepted and recorded
\* (on_player_move_arrived); a rejected one changes nothing here.
Play(cmd) ==
    LET g == apply_command(game, cmd)
        setup == turn.state = "Setup"
        spent == turn.fuel = 1
        next == IF setup THEN [turn EXCEPT !.player = NextPlayer(@)]
                ELSE IF spent THEN [turn EXCEPT !.player = NextPlayer(@),
                                                !.fuel = TURN_PLAYER_FUEL]
                ELSE [turn EXCEPT !.fuel = @ - 1]
        live == StillIn(g, turn.state, alive)
    IN  /\ turn.state \in {"Setup", "Play"}
        /\ cmd.sender = turn.player
        /\ valid_move(game, turn.state, cmd)
        /\ Len(moves) < MaxMoves + NumPlayers * NumTanks
        /\ game' = g
        /\ alive' = live
        /\ turn' = start_turn(g, next, live)
        /\ moves' = Append(moves, cmd)
        /\ boards' = Append(boards, [game |-> g, turn |-> turn'])
        /\ UNCHANGED <<dropped, replay>>

\* handle_elimination: a player gives up or runs out of time.  Nothing of it
\* is recorded among the moves.
OutOfPlay(g, p) ==
    LET gone == TanksOf(g, p) IN
    [g EXCEPT !.tanks = [t \in TankIds |->
                           IF t \in gone THEN [g.tanks[t] EXCEPT !.health = 0]
                           ELSE g.tanks[t]],
              !.occ = [c \in Cells |->
                         IF \E t \in gone : g.tanks[t].pos = c
                         THEN NO_OCCUPANT ELSE g.occ[c]]]

Eliminate(p) ==
    LET g == OutOfPlay(game, p)
        live == StillIn(g, turn.state, alive \ {p})
        next == IF p = turn.player
                THEN [turn EXCEPT !.player = NextPlayer(@),
                                  !.fuel = TURN_PLAYER_FUEL]
                ELSE turn
    IN  /\ turn.state \in {"Setup", "Play"}
        /\ p \in alive
        /\ Len(moves) >= FirstExit
        /\ game' = g
        /\ alive' = live
        /\ turn' = start_turn(g, next, live)
        /\ dropped' = IF dropped = NEVER THEN Len(moves) ELSE dropped
        /\ UNCHANGED <<moves, boards, replay>>

-----------------------------------------------------------------------------
(* The replay, in the client.                                              *)

\* add_replay: the server sends the match once it is over, and its instance
\* gone.  A replay that is already there, or does not fit, is dropped.
add_replay ==
    /\ turn.state = "Concluded"
    /\ ~stored
    /\ Len(moves) <= MAX_REPLAY_BYTES
    /\ stored' = TRUE
    /\ game' = NewGame /\ alive' = {}
    /\ turn' = [turn EXCEPT !.player = 0, !.fuel = TURN_PLAYER_FUEL]
    /\ UNCHANGED <<moves, boards, dropped, inst, shown, applied, status,
                   perspective, trail, backed>>

\* set_replay: start watching from an empty board.  (When the client cannot
\* read the map it refuses every later operation; that is left out.)
set_replay ==
    /\ stored
    /\ inst' = NewGame
    /\ shown' = [state |-> "Setup", player |-> 0, fuel |-> TURN_PLAYER_FUEL]
    /\ applied' = 0
    /\ perspective' = NO_PLAYER
    /\ status' = << >>
    /\ trail' = <<[inst |-> inst', shown |-> shown']>>
    /\ backed' = "no"
    /\ UNCHANGED <<match, stored>>

\* set_perspective: the number of players, or one beyond, means everyone.
set_perspective(p) ==
    /\ stored
    /\ perspective' = IF p >= NumPlayers THEN NO_PLAYER ELSE p
    /\ UNCHANGED <<match, stored, inst, shown, applied, status, trail,
                   backed>>

\* What update_view shows.
update_view == IF perspective = NO_PLAYER THEN dump_global_view(inst)
               ELSE compute_view(inst, perspective)

\* The checks and the effect of a move, forwards.
ForwardValid(g, cmd) ==
    CASE cmd.type = "Fire" -> TankOK(g, cmd) /\ g.tanks[cmd.tank_id].loaded
      [] cmd.type = "Load" -> TankOK(g, cmd) /\ ~g.tanks[cmd.tank_id].loaded
      [] cmd.type = "Place" -> /\ <<cmd.first, cmd.second>> \in Cells
                               /\ cmd.tank_id < 8
      [] OTHER -> TankOK(g, cmd)

Done(g) == [game |-> g, success |-> TRUE, hits |-> {}]
Forward(g, cmd) ==
    CASE cmd.type = "Move" ->
           LET m == move_tank(g, cmd.tank_id, cmd.first # 0)
           IN  [game |-> m.game, success |-> m.ok, hits |-> {}]
      [] cmd.type = "RotateTank" -> Done(rotate_tank(g, cmd.tank_id, cmd.first))
      [] cmd.type = "RotateBarrel" ->
           Done(rotate_tank_barrel(g, cmd.tank_id, cmd.first))
      [] cmd.type = "Fire" ->
           LET f == replay_fire_tank(g, cmd.tank_id)
           IN  [game |-> f.game, success |-> f.hits # {}, hits |-> f.hits]
      [] cmd.type = "Load" -> Done(load_tank(g, cmd.tank_id))
      [] cmd.type = "Place" ->
           Done(place_tank(g, <<cmd.first, cmd.second>>, cmd.sender, cmd.tank_id))

\* Slip: the fuel is reset and the player is not.
ForwardSamePlayer(s, n) ==
    IF s.state = "Setup"
    THEN IF n = Len(moves) THEN s
         ELSE [state |-> IF moves[n + 1].type = "Place" THEN "Setup" ELSE "Play",
               player |-> moves[n + 1].sender, fuel |-> TURN_PLAYER_FUEL]
    ELSE [s EXCEPT !.fuel = IF @ = 1 THEN TURN_PLAYER_FUEL ELSE @ - 1]
\* Whose turn it is, and with how much fuel, once n moves are applied.
ForwardTurn(s, n) ==
    LET more == n < Len(moves)
        next == moves[n + 1]
        fuel == s.fuel - 1
    IN  IF s.state = "Setup"
        THEN IF ~more THEN s
             ELSE IF next.type # "Place"
             THEN [state |-> "Play", player |-> next.sender,
                   fuel |-> TURN_PLAYER_FUEL]
             ELSE [s EXCEPT !.player = next.sender]
        ELSE IF fuel > 0 \/ ~more THEN [s EXCEPT !.fuel = fuel]
        ELSE [s EXCEPT !.player = next.sender, !.fuel = TURN_PLAYER_FUEL]

step_forward_turn ==
    LET cmd == moves[applied + 1]
        done == Forward(inst, cmd)
    IN  /\ stored
        /\ applied < Len(moves)
        /\ ForwardValid(inst, cmd)
        /\ inst' = done.game
        /\ status' = Append(SubSeq(status, 1, applied),
                            [success |-> done.success, hits |-> done.hits])
        /\ applied' = applied + 1
        /\ shown' = ForwardTurn(shown, applied + 1)
        /\ trail' = Append(SubSeq(trail, 1, applied + 1),
                           [inst |-> inst', shown |-> shown'])
        /\ UNCHANGED <<match, stored, perspective, backed>>

\* The checks and the effect of undoing a move.
BackwardValid(g, cmd) ==
    CASE cmd.type = "Fire" -> TankOK(g, cmd) /\ ~g.tanks[cmd.tank_id].loaded
      [] cmd.type = "Load" -> TankOK(g, cmd) /\ g.tanks[cmd.tank_id].loaded
      [] cmd.type = "Place" -> <<cmd.first, cmd.second>> \in Cells
      [] OTHER -> TankOK(g, cmd)

\* Slip: a rotation is undone by doing it again.
SameTurn(payload) == payload
Opposite(payload) == IF payload = 0 THEN 1 ELSE 0
Backward(g, cmd, st) ==
    CASE cmd.type = "Move" ->
           IF st.success THEN move_tank(g, cmd.tank_id, cmd.first = 0).game
           ELSE g
      [] cmd.type = "RotateTank" ->
           rotate_tank(g, cmd.tank_id, Opposite(cmd.first))
      [] cmd.type = "RotateBarrel" ->
           rotate_tank_barrel(g, cmd.tank_id, Opposite(cmd.first))
      [] cmd.type = "Fire" ->
           load_tank(IF st.success
                     THEN repair_tank(g, CHOOSE c \in st.hits : TRUE) ELSE g,
                     cmd.tank_id)
      [] cmd.type = "Load" -> unload_tank(g, cmd.tank_id)
      [] cmd.type = "Place" -> remove_tank(g, <<cmd.first, cmd.second>>, cmd.sender)

\* Whose turn it is, and with how much fuel, once only n moves are applied.
BackwardTurn(s, n) ==
    LET prev == moves[n]
        start == [state |-> "Setup", player |-> 0, fuel |-> TURN_PLAYER_FUEL]
    IN  IF n = 0 THEN start
        ELSE IF s.state # "Play" THEN [s EXCEPT !.player = prev.sender]
        ELSE IF prev.type = "Place" THEN [start EXCEPT !.player = prev.sender]
        ELSE IF s.fuel + 1 > 3
        THEN [s EXCEPT !.player = prev.sender, !.fuel = 1]
        ELSE [s EXCEPT !.fuel = @ + 1]

\* (History.)  Was the damage of move i exactly what repair_tank gives back?
RepairIsExact(i) ==
    \A c \in status[i].hits :
      LET g == trail[i].inst IN
      /\ g.tanks[g.occ[c]].health = INITIAL_HEALTH
      /\ INITIAL_HEALTH = SHELL_DAMAGE =>
           \A t \in TankIds : g.tanks[t].pos = c => t = g.occ[c]

step_backward_turn ==
    LET cmd == moves[applied] IN
    /\ stored
    /\ applied > 0
    /\ BackwardValid(inst, cmd)
    /\ inst' = Backward(inst, cmd, status[applied])
    /\ applied' = applied - 1
    /\ shown' = BackwardTurn(shown, applied - 1)
    /\ backed' = IF backed # "inexact" /\ RepairIsExact(applied)
                 THEN "exact" ELSE "inexact"
    /\ UNCHANGED <<match, stored, status, perspective, trail>>

-----------------------------------------------------------------------------
Init ==
    /\ game = NewGame
    /\ turn = [state |-> "Setup", player |-> 0, fuel |-> TURN_PLAYER_FUEL]
    /\ alive = PlayerIds
    /\ moves = << >> /\ boards = << >> /\ dropped = NEVER
    /\ stored = FALSE
    /\ inst = NewGame
    /\ shown = [state |-> "Setup", player |-> 0, fuel |-> TURN_PLAYER_FUEL]
    /\ applied = 0 /\ status = << >> /\ perspective = NO_PLAYER
    /\ trail = <<[inst |-> inst, shown |-> shown]>>
    /\ backed = "no"

Next ==
    \/ \E cmd \in Orders : Play(cmd)
    \/ /\ game.placed[turn.player] < NumTanks
       /\ Play(Placements[turn.player][game.placed[turn.player] + 1])
    \/ \E p \in Quitters : Eliminate(p)
    \/ add_replay
    \/ set_replay
    \/ \E p \in Perspectives : set_perspective(p)
    \/ step_forward_turn
    \/ step_backward_turn

Spec == Init /\ [][Next]_vars

-----------------------------------------------------------------------------
(* What holds.                                                             *)

\* The board of the match tells the truth about every cell: a living tank is
\* the occupant of the cell it stands on, and an occupant is a living tank
\* that stands there.  The one way this fails is handle_elimination: it
\* clears the cell of every tank of the player who leaves, also that of a
\* wreck another tank has since driven over.
BoardConsistent ==
    /\ \A t \in TankIds : Alive(game, t) =>
         \/ game.occ[game.tanks[t].pos] = t
         \/ \E u \in TankIds : /\ game.tanks[u].pos = game.tanks[t].pos
                               /\ game.tanks[u].owner \in PlayerIds \ alive
    /\ \A c \in Cells : game.occ[c] # NO_OCCUPANT =>
         /\ Alive(game, game.occ[c])
         /\ game.tanks[game.occ[c]].pos = c

\* "Which tank is on this Grid.  NO_OCCUPANT if not occupied."
\* (grid-cell.h): a living tank is always the occupant of its cell.
OccupantIsOnGrid ==
    \A t \in TankIds : Alive(game, t) => game.occ[game.tanks[t].pos] = t

\* The boards a view is computed for, with the player it is computed for:
\* those of the match while it is played, then that of the replay.
ViewsShown == IF stored THEN {<<inst, p>> : p \in {perspective} \cap PlayerIds}
              ELSE {<<game, p>> : p \in alive}

\* A player is never shown an enemy that stands in foliage away from all of
\* the player's own tanks, whatever the rays of compute_view run through.
FogOfWar ==
    \A v \in ViewsShown :
      LET g == v[1]
          seen == compute_view(g, v[2]).occ
      IN  \A c \in Foliage :
            \/ seen[c] = NO_OCCUPANT
            \/ g.tanks[seen[c]].owner = v[2]
            \/ \E t \in TanksOf(g, v[2]) :
                 Alive(g, t) /\ tile_beside_grass(g.tanks[t].pos, c)

\* Whatever tank a shell would reach is shown to the player who aims at it,
\* unless foliage lies in the line of fire: the ranges and the steps of the
\* rays of compute_view agree with those of fire_tank.  Where two living tanks
\* share a cell (see BoardConsistent and BackUndoesForward for how they come
\* to), it may be the player's own that is shown.
SeesTarget ==
    \A v \in ViewsShown :
      LET g == v[1]
          seen == compute_view(g, v[2]).occ
      IN
      \A t \in TanksOf(g, v[2]) :
        \A c \in IF Alive(g, t) THEN ShellHit(g, t) ELSE {} :
          LET path == ShellPath(g, t) IN
          \/ seen[c] = g.occ[c]
          \/ seen[c] \in {u \in TanksOf(g, v[2]) : Alive(g, u) /\ g.tanks[u].pos = c}
          \/ \E i \in DOMAIN path :
               path[i] \in Foliage
               /\ \A j \in 1 .. i : path[j] = c => j = i

\* Did the shell of move i of the replay reach a tank of its own side?
FriendlyHit(i) ==
    \E c \in status[i].hits :
      LET g == trail[i].inst IN
      g.tanks[g.occ[c]].owner = moves[i].sender

\* Watched from the start, the replay shows after each move the board that
\* the server had, and before each move the player and the fuel it had,
\* although it is computed from the commands alone.  It departs from the
\* match once a shell met a tank of its own side (replay_fire_tank does not
\* look at owners) or a player was eliminated (no command records it).
ReplayShowsMatch ==
    (/\ stored /\ backed = "no" /\ applied > 0
     /\ \A i \in 1 .. applied : ~FriendlyHit(i))
    => /\ dropped >= applied => inst = boards[applied].game
       /\ dropped > applied /\ applied < Len(moves) =>
            shown = boards[applied].turn

\* Stepping back returns to the board the replay showed at that move on the
\* way forward, as long as every shell that is taken back had hit a tank
\* that was undamaged (repair_tank always restores full health).
BackUndoesForward == backed # "inexact" => inst = trail[applied + 1].inst

\* "If the next move is not a placement command, set state to playing"
\* (replay-manager.cpp, step_forward_turn): the state shown is Setup exactly
\* while placements are left to show.
StateOfNextMove ==
    (stored /\ applied < Len(moves) /\ applied > 0) =>
      (shown.state = "Setup" <=> moves[applied + 1].type = "Place")
=============================================================================
