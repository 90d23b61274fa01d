---------------------------- MODULE GameInstance ----------------------------
(***************************************************************************)
(* The board of a match (src/src/libgame): the tanks, the cells they stand  *)
(* on, what a command does to them and what a player may see of it.  The    *)
(* same code runs on the server, inside a MatchInstance, and in the client, *)
(* inside the ReplayManager, so this is a module of operators on a game     *)
(*                                                                         *)
(*    [occ    |-> the occupant_ of each cell of game_env_,                  *)
(*     tanks  |-> tanks_,                                                   *)
(*     placed |-> tanks_placed_ of each player]                             *)
(*                                                                         *)
(* A cell is <<x, y>>, a direction runs from 0 (north) to 7 (north west),   *)
(* and coordinates are uint8_t.  aim_focused_ is never set by the code, so  *)
(* only the wide cone of compute_view is modelled.                          *)
(***************************************************************************)
EXTENDS Integers, FiniteSets, Sequences, FiniteSetsExt

CONSTANTS Width, Height,     \* MapSettings
          Terrain, Foliage,  \* the cells of those types
          Mask,              \* placement_mask_: cell -> player number
          NumPlayers, NumTanks,
          INITIAL_HEALTH

Cells == (0 .. Width - 1) \X (0 .. Height - 1)

\* "So, don't allow length/width to be 255" (move_tank).
ASSUME BoardAssumption ==
    /\ Width \in 1 .. 254 /\ Height \in 1 .. 254
    /\ Terrain \subseteq Cells /\ Foliage \subseteq Cells \ Terrain
    /\ NumPlayers \in Nat \ {0} /\ NumTanks \in Nat \ {0}
    /\ Mask \in [Cells -> 0 .. NumPlayers]
    /\ INITIAL_HEALTH \in Nat \ {0}

PlayerIds == 0 .. NumPlayers - 1
TankIds == 0 .. (NumPlayers * NumTanks) - 1
NO_OCCUPANT == 255
NO_OWNER == 255
NO_POS_VEC == <<255, 255>>
SHELL_DAMAGE == 1
FIRING_DIST_DIAGONAL == 3
FIRING_DIST_HORIZONTAL == 4

\* dir_to_vec and the uint8_t addition of vec2.
DirToVec(dir) == << <<0, -1>>, <<1, -1>>, <<1, 0>>, <<1, 1>>,
                    <<0, 1>>, <<-1, 1>>, <<-1, 0>>, <<-1, -1>> >>[dir + 1]
Plus(pos, n, dir) == << (pos[1] + n * DirToVec(dir)[1] + 256) % 256,
                        (pos[2] + n * DirToVec(dir)[2] + 256) % 256 >>
Reverse8(dir) == (dir + 4) % 8

-----------------------------------------------------------------------------
(* Construction, placement and the small operations on one tank.           *)

\* Tank::Tank(): a tank that has not been placed, or was removed again.
NoTank == [pos |-> NO_POS_VEC, dir |-> 0, barrel |-> 0, health |-> 0,
           loaded |-> FALSE, owner |-> NO_OWNER]

\* GameInstance(map): no tank is placed and no cell is occupied.
NewGame == [occ |-> [c \in Cells |-> NO_OCCUPANT],
            tanks |-> [t \in TankIds |-> NoTank],
            placed |-> [p \in PlayerIds |-> 0]]

Alive(g, t) == g.tanks[t].health > 0
\* get_tanks_list(): the tanks a player has placed, in order.
TanksOf(g, p) == {p * NumTanks + i : i \in 0 .. g.placed[p] - 1}

check_placement(g, pos, p) ==
    /\ Mask[pos] = p
    /\ pos \notin Terrain
    /\ g.occ[pos] = NO_OCCUPANT

place_tank(g, pos, p, dir) ==
    LET t == g.placed[p] + p * NumTanks IN
    [occ |-> [g.occ EXCEPT ![pos] = t],
     tanks |-> [g.tanks EXCEPT ![t] =
                  [pos |-> pos, dir |-> dir, barrel |-> dir,
                   health |-> IF pos \in Terrain THEN 0 ELSE INITIAL_HEALTH,
                   loaded |-> TRUE, owner |-> p]],
     placed |-> [g.placed EXCEPT ![p] = @ + 1]]

remove_tank(g, pos, p) ==
    [occ |-> [g.occ EXCEPT ![pos] = NO_OCCUPANT],
     tanks |-> [g.tanks EXCEPT ![(g.placed[p] - 1) + p * NumTanks] = NoTank],
     placed |-> [g.placed EXCEPT ![p] = @ - 1]]

\* Payload 0 turns clockwise, anything else counter clockwise.
Turned(d, payload) == IF payload = 0 THEN (d + 1) % 8 ELSE (d + 7) % 8
rotate_tank(g, t, payload) ==
    [g EXCEPT !.tanks[t].dir = Turned(@, payload)]
rotate_tank_barrel(g, t, payload) ==
    [g EXCEPT !.tanks[t].barrel = Turned(@, payload)]

load_tank(g, t) == [g EXCEPT !.tanks[t].loaded = TRUE]
unload_tank(g, t) == [g EXCEPT !.tanks[t].loaded = FALSE]

deal_damage(health, damage) == IF damage > health THEN 0 ELSE health - damage
\* Tank::repair: health_ + repair_amount is an int, so the first branch is
\* taken for every positive amount.
repaired(health, amount) ==
    IF health + amount > health THEN INITIAL_HEALTH ELSE health + amount

-----------------------------------------------------------------------------
(* Movement.                                                               *)

\* A tank may enter `to` from `from`: free, not terrain, and on a diagonal
\* not between two mountains.
CanEnter(g, from, to) ==
    /\ to \in Cells
    /\ g.occ[to] = NO_OCCUPANT
    /\ to \notin Terrain
    /\ ~(/\ from[1] # to[1] /\ from[2] # to[2]
         /\ <<to[1], from[2]>> \in Terrain
         /\ <<from[1], to[2]>> \in Terrain)

\* What it returns: the game and whether the tank moved.
move_tank(g, t, reverse) ==
    LET d == g.tanks[t].dir
        prev == g.tanks[t].pos
        to == Plus(prev, 1, IF reverse THEN Reverse8(d) ELSE d)
    IN  IF CanEnter(g, prev, to)
        THEN [ok |-> TRUE,
              game |-> [g EXCEPT !.tanks[t].pos = to,
                                 !.occ = [@ EXCEPT ![prev] = NO_OCCUPANT,
                                                   ![to] = t]]]
        ELSE [ok |-> FALSE, game |-> g]

-----------------------------------------------------------------------------
(* Firing and its undoing.                                                 *)

\* The cells the shell of tank t would cross, nearest first.
ShellPath(g, t) ==
    LET tank == g.tanks[t]
        reach == IF tank.barrel % 2 = 0 THEN FIRING_DIST_HORIZONTAL
                                        ELSE FIRING_DIST_DIAGONAL
    IN  [i \in 1 .. reach |-> Plus(tank.pos, i, tank.barrel)]

\* The first cell that ends the shell's flight by holding a tank, as a set
\* of at most one cell: none if it leaves the board or meets terrain first.
ShellHit(g, t) ==
    LET path == ShellPath(g, t)
        stops == {i \in DOMAIN path : \/ path[i] \notin Cells
                                      \/ path[i] \in Terrain
                                      \/ g.occ[path[i]] # NO_OCCUPANT}
    IN  {path[i] : i \in {j \in stops : /\ \A k \in stops : j <= k
                                        /\ path[j] \in Cells
                                        /\ path[j] \notin Terrain}}

\* Slip: a destroyed tank stays on the board.
DamagedStays(g, c) ==
    [g EXCEPT !.tanks[g.occ[c]].health = deal_damage(@, SHELL_DAMAGE)]
\* The tank on cell c takes a shell and leaves the board when that kills it.
Damaged(g, c) ==
    LET h == g.occ[c]
        health == deal_damage(g.tanks[h].health, SHELL_DAMAGE)
    IN  [g EXCEPT !.tanks[h].health = health,
                  !.occ = IF health = 0
                          THEN [@ EXCEPT ![g.tanks[h].pos] = NO_OCCUPANT]
                          ELSE @]

\* A shell that reaches a tank of its own side stops there and does nothing.
fire_tank(g, t) ==
    LET fired == unload_tank(g, t)
        hits == {c \in ShellHit(g, t) :
                   g.tanks[g.occ[c]].owner # g.tanks[t].owner}
    IN  IF hits = {} THEN fired ELSE Damaged(fired, CHOOSE c \in hits : TRUE)

\* The client's version does not look at the owner; it returns the hits too.
replay_fire_tank(g, t) ==
    LET fired == unload_tank(g, t)
        hits == ShellHit(g, t)
    IN  [hits |-> hits,
         game |-> IF hits = {} THEN fired
                  ELSE Damaged(fired, CHOOSE c \in hits : TRUE)]

\* Repairs the occupant of a cell, or else every tank whose last position it
\* is (the last of them becomes the occupant).
repair_tank(g, pos) ==
    LET here == IF g.occ[pos] # NO_OCCUPANT THEN {g.occ[pos]}
                ELSE {t \in TankIds : g.tanks[t].pos = pos}
    IN  [g EXCEPT !.tanks = [t \in TankIds |->
                      IF t \in here
                      THEN [g.tanks[t] EXCEPT !.health =
                                repaired(@, SHELL_DAMAGE)]
                      ELSE g.tanks[t]],
                  !.occ = IF here = {} THEN @
                          ELSE [@ EXCEPT ![pos] = Max(here)]]

-----------------------------------------------------------------------------
(* Vision.  A ray is a sequence of looks, each at a cell; `exact` tells     *)
(* whether the ray goes through the cell or only near it.                   *)

Abs(n) == IF n < 0 THEN -n ELSE n
tile_beside_grass(a, b) == Abs(a[1] - b[1]) <= 1 /\ Abs(a[2] - b[2]) <= 1

OUT == <<-1, -1>>       \* the ray has left the board: break
BETWEEN == <<-2, -2>>   \* the ray is half way between two cells: continue

\* The seven rays of an orthogonal view: slopes in sixths, and ranges.
OrthogonalSlopes == <<6, 3, 2, 0, -2, -3, -6>>
\* Slip: the middle ray is one cell shorter than a shell flies.
ShortRanges == <<2, 2, 3, 3, 3, 2, 2>>
OrthogonalRanges == <<2, 2, 3, 4, 3, 2, 2>>

\* Ray r of a tank at pos whose barrel points north, east, south or west, at
\* distance dx.  A negative coordinate becomes a huge unsigned one, so the
\* ray ends there even where rounding would put it back on the board.
OrthogonalLook(pos, dir, r, dx) ==
    LET vertical == dir \in {0, 4}
        sign == IF dir \in {0, 6} THEN -1 ELSE 1
        p == (IF vertical THEN pos[2] ELSE pos[1]) + sign * dx
        m == IF vertical THEN -OrthogonalSlopes[r] ELSE OrthogonalSlopes[r]
        sec == 6 * (IF vertical THEN pos[1] ELSE pos[2]) + m * dx
        near == (sec + 3) \div 6
        cell == IF vertical THEN <<near, p>> ELSE <<p, near>>
    IN  [cell |-> CASE p < 0 \/ sec < 0 -> OUT
                    [] p >= (IF vertical THEN Height ELSE Width) -> OUT
                    [] sec % 6 = 3 -> BETWEEN
                    [] OTHER -> IF cell \in Cells THEN cell ELSE OUT,
         exact |-> sec % 6 = 0]

\* The nine rays of a diagonal view: slopes and ranges.
DiagonalSlopes == << <<0, 1>>, <<1, 3>>, <<1, 2>>, <<2, 3>>, <<1, 1>>,
                     <<3, 2>>, <<2, 1>>, <<3, 1>>, <<1, 0>> >>
DiagonalRanges == <<2, 1, 1, 1, 3, 1, 1, 1, 2>>

\* One coordinate of the k-th look of a diagonal ray.  The offset is
\* k * s / (2 * sqrt(n)), compared exactly through its square; it is rounded
\* to the nearest cell, a half downwards whatever the sign, and -1 stands
\* for a coordinate that was negative before rounding.
RayCoordinate(x, sign, s, n, k) ==
    LET halves(j) == (2 * j + 1) * (2 * j + 1) * n
        q == k * k * s * s
    IN  IF sign = 1 THEN x + Cardinality({j \in 0 .. 3 : q > halves(j)})
        ELSE IF q > 4 * x * x * n THEN -1
        ELSE x - Cardinality({j \in 0 .. 3 : q >= halves(j)})

\* The looks of ray r of a tank at pos with barrel direction dir.
DiagonalRay(pos, dir, r) ==
    LET s == DiagonalSlopes[r]
        n == s[1] * s[1] + s[2] * s[2]
        steps == {k \in 1 .. 8 : k * k <= 4 * DiagonalRanges[r]
                                             * DiagonalRanges[r] * n}
        x(k) == RayCoordinate(pos[1], IF dir \in {5, 7} THEN -1 ELSE 1,
                              s[1], n, k)
        y(k) == RayCoordinate(pos[2], IF dir \in {1, 7} THEN -1 ELSE 1,
                              s[2], n, k)
    IN  [k \in steps |->
           [cell |-> IF <<x(k), y(k)>> \in Cells THEN <<x(k), y(k)>> ELSE OUT,
            exact |-> TRUE]]

Rays(pos, dir) ==
    IF dir % 2 = 0
    THEN {[dx \in 1 .. OrthogonalRanges[r] |-> OrthogonalLook(pos, dir, r, dx)]
             : r \in 1 .. 7}
    ELSE {DiagonalRay(pos, dir, r) : r \in 1 .. 9}

\* Slip: foliage is looked into from any distance.
cast_ray_through(ray, start) ==
    LET ends(k) == ray[k].cell \in Terrain \cup Foliage \cup {OUT}
    IN  {ray[k].cell : k \in {j \in DOMAIN ray :
           /\ \A i \in DOMAIN ray : i < j => ~ends(i)
           /\ ray[j].cell \in Cells /\ ray[j].exact}}
\* The cells a ray makes visible.  Terrain is seen and ends it; foliage ends
\* it and is seen only from beside it, except the tile the tank stands on.
cast_ray(ray, start) ==
    LET ends(k) == \/ ray[k].cell \in Terrain \cup {OUT}
                   \/ ray[k].cell \in Foliage \ {start}
        looks == {k \in DOMAIN ray : \A j \in DOMAIN ray : j < k => ~ends(j)}
    IN  {ray[k].cell : k \in {j \in looks :
           /\ ray[j].cell \in Cells
           /\ CASE ray[j].cell \in Terrain -> TRUE
                [] ray[j].cell \in Foliage ->
                     tile_beside_grass(start, ray[j].cell)
                [] OTHER -> ray[j].exact}}

\* All that tank t sees.
Sees(g, t) == LET tank == g.tanks[t] IN
              UNION {cast_ray(ray, tank.pos) : ray \in Rays(tank.pos, tank.barrel)}

\* The view of player p: which cells are visible, who is shown on them, which
\* tanks are sent along.  The tanks are taken in order; each puts itself on
\* its cell, and a later ray overwrites a cell with the board's occupant.
compute_view(g, p) ==
    LET own == {t \in TanksOf(g, p) : Alive(g, t)}
        sees == [t \in own |-> Sees(g, t)]
        rays(c) == {t \in own : c \in sees[t] \ Terrain}
        itself(c) == {t \in own : /\ g.tanks[t].pos = c
                                  /\ \A u \in rays(c) : u < t}
        occ == [c \in Cells |-> IF itself(c) # {} THEN Max(itself(c))
                                ELSE IF rays(c) # {} THEN g.occ[c]
                                ELSE NO_OCCUPANT]
    IN  [visible |-> {g.tanks[t].pos : t \in own} \cup UNION {sees[t] : t \in own},
         occ |-> occ,
         tanks |-> TanksOf(g, p) \cup
                   {g.occ[c] : c \in {e \in UNION {sees[t] : t \in own} :
                                   e \notin Terrain /\ g.occ[e] # NO_OCCUPANT}},
         live |-> Cardinality(own)]

\* The whole board, as a replay without a perspective shows it.
dump_global_view(g) ==
    [visible |-> Cells, occ |-> g.occ,
     tanks |-> {t \in TankIds : Alive(g, t)}, live |-> 0]
=============================================================================
