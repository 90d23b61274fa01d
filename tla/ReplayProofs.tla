---------------------------- MODULE ReplayProofs ----------------------------
(***************************************************************************)
(* What holds of a match and its replay on every map, for any number of     *)
(* players, tanks and commands: the board tells the truth about its cells,  *)
(* views neither show what foliage hides nor hide what a shell would reach, *)
(* the replay shows the match, and stepping back undoes stepping forward.   *)
(*                                                                         *)
(* What an operation does to a board is stated first, as a relation between *)
(* two boards (Adds, Moves, Strikes, Alike), and that Fit, Sound and Full   *)
(* survive it.  Then come two inductive invariants.  MatchInv: the board is *)
(* sound but for the wrecks of players who left, and each recorded board    *)
(* follows from the one before by the recorded command.  ReplayInv: the     *)
(* replay shows the recorded boards, and the trail of boards it left on the *)
(* way forward is one that every undoing leads back along.                  *)
(***************************************************************************)
EXTENDS Replay, FiniteSetTheorems, SequenceTheorems, WellFoundedInduction, TLAPS

-----------------------------------------------------------------------------
(* Numbers: tanks and players fit in a byte, and no two share an id.       *)

Slot(p, i) == p * NumTanks + i

LEMMA Multiples ==
    ASSUME NEW p \in Nat, NEW q \in Nat, NEW n \in Nat, p < q
    PROVE  p * n + n <= q * n
  <1>1. (q - p - 1) * n >= 0
    OBVIOUS
  <1>2. (q - p - 1) * n = q * n - p * n - n
    OBVIOUS
  <1> QED BY <1>1, <1>2

LEMMA Ids ==
    /\ PlayerIds \subseteq Nat /\ TankIds \subseteq Nat
    /\ NO_OCCUPANT \notin TankIds
    /\ NO_OWNER \notin PlayerIds
    /\ IsFiniteSet(TankIds)
    /\ NumTanks \in Nat \ {0} /\ NumPlayers \in Nat \ {0}
    /\ 0 \in PlayerIds
  <1>1. NumTanks \in Nat \ {0} /\ NumPlayers \in Nat \ {0}
    BY BoardAssumption
  <1>2. NumPlayers * NumTanks \in Nat /\ NumPlayers * NumTanks <= 255
    BY <1>1, ReplayAssumption
  <1>3. 0 * NumTanks + NumTanks <= NumPlayers * NumTanks
    BY <1>1, Multiples
  <1>4. (NumPlayers - 1) * 1 + 1 <= NumPlayers * NumTanks
    <2>1. NumPlayers * (NumTanks - 1) >= 0
      BY <1>1
    <2>2. NumPlayers * (NumTanks - 1) = NumPlayers * NumTanks - NumPlayers
      BY <1>1
    <2> QED BY <1>1, <1>2, <2>1, <2>2
  <1>5. IsFiniteSet(TankIds)
    BY <1>2, FS_Interval DEF TankIds
  <1> QED BY <1>1, <1>2, <1>4, <1>5 DEF PlayerIds, TankIds, NO_OCCUPANT, NO_OWNER

LEMMA Slots ==
    /\ \A p \in PlayerIds : \A i \in 0 .. NumTanks - 1 : Slot(p, i) \in TankIds
    /\ \A p, q \in PlayerIds : \A i, j \in 0 .. NumTanks - 1 :
            Slot(p, i) = Slot(q, j) => p = q /\ i = j
  <1>1. NumTanks \in Nat \ {0} /\ NumPlayers \in Nat \ {0}
    BY BoardAssumption
  <1>2. ASSUME NEW p \in PlayerIds, NEW i \in 0 .. NumTanks - 1
        PROVE  Slot(p, i) \in TankIds
    <2>1. p \in Nat /\ p < NumPlayers
      BY <1>1 DEF PlayerIds
    <2>2. p * NumTanks + NumTanks <= NumPlayers * NumTanks
      BY <1>1, <2>1, Multiples
    <2>3. p * NumTanks \in Nat /\ NumPlayers * NumTanks \in Nat
      BY <1>1, <2>1
    <2> QED BY <1>1, <2>2, <2>3 DEF Slot, TankIds
  <1>3. ASSUME NEW p \in PlayerIds, NEW q \in PlayerIds,
               NEW i \in 0 .. NumTanks - 1, NEW j \in 0 .. NumTanks - 1, p < q
        PROVE  Slot(p, i) # Slot(q, j)
    <2>1. p \in Nat /\ q \in Nat
      BY <1>1 DEF PlayerIds
    <2>2. p * NumTanks + NumTanks <= q * NumTanks
      BY <1>1, <1>3, <2>1, Multiples
    <2>3. p * NumTanks \in Nat /\ q * NumTanks \in Nat
      BY <1>1, <2>1
    <2> QED BY <1>1, <2>2, <2>3 DEF Slot
  <1>4. ASSUME NEW p \in PlayerIds, NEW i \in 0 .. NumTanks - 1,
               NEW j \in 0 .. NumTanks - 1, Slot(p, i) = Slot(p, j)
        PROVE  i = j
    <2>1. p * NumTanks \in Nat
      BY <1>1 DEF PlayerIds
    <2> QED BY <1>1, <1>4, <2>1 DEF Slot
  <1>5. \A p, q \in PlayerIds : p < q \/ q < p \/ p = q
    BY <1>1 DEF PlayerIds
  <1> QED BY <1>2, <1>3, <1>4, <1>5

LEMMA Least ==
    ASSUME NEW S, S \subseteq Nat, S # {}
    PROVE  \E x \in S : \A y \in S : x <= y
  <1>1. PICK x \in S : \A y \in S : <<y, x>> \notin OpToRel(<, Nat)
    BY WFMin, NatLessThanWellFounded, Zenon
  <1>2. \A y \in S : ~(y < x)
    BY <1>1 DEF OpToRel
  <1> QED BY <1>2

LEMMA MinMember ==
    ASSUME NEW S, S \subseteq Nat, S # {}
    PROVE  Min(S) \in S /\ \A y \in S : Min(S) <= y
  <1> QED BY Least, Zenon DEF Min

LEMMA MaxMember ==
    ASSUME NEW S, S \subseteq TankIds, S # {}
    PROVE  Max(S) \in S
  <1> DEFINE D == {255 - x : x \in S}
  <1>1. \A x \in S : x \in 0 .. 254
    BY Ids, ReplayAssumption DEF TankIds
  <1>2. D \subseteq Nat /\ D # {}
    BY <1>1
  <1>3. PICK d \in D : \A e \in D : d <= e
    BY <1>2, Least
  <1>4. PICK x \in S : d = 255 - x
    OBVIOUS
  <1>5. ASSUME NEW y \in S PROVE x >= y
    <2>1. 255 - y \in D
      OBVIOUS
    <2>2. d <= 255 - y
      BY <1>3, <2>1
    <2>3. x \in Int /\ y \in Int
      BY <1>1
    <2>4. 255 - x <= 255 - y
      BY <1>4, <2>2
    <2> HIDE DEF D
    <2> QED BY <2>3, <2>4
  <1> QED BY <1>5, Zenon DEF Max

-----------------------------------------------------------------------------
(* Boards.                                                                 *)

Dirs == 0 .. 7
Tank == [pos : Cells \cup {NO_POS_VEC}, dir : Dirs, barrel : Dirs, health : Nat,
         loaded : BOOLEAN, owner : PlayerIds \cup {NO_OWNER}]
Game == [occ : [Cells -> TankIds \cup {NO_OCCUPANT}], tanks : [TankIds -> Tank],
         placed : [PlayerIds -> 0 .. NumTanks]]
Open == Cells \ Terrain

\* The tanks on a player's list are the player's and stand on the board.
Fit(g) ==
    /\ g \in Game
    /\ \A p \in PlayerIds : \A t \in TanksOf(g, p) :
            g.tanks[t].owner = p /\ g.tanks[t].pos \in Open

\* Every tank is on its owner's list, and an occupant is a living tank that stands
\* on the cell.
Sound(g) ==
    /\ Fit(g)
    /\ \A t \in TankIds : \/ g.tanks[t] = NoTank
                          \/ /\ g.tanks[t].owner \in PlayerIds
                             /\ t \in TanksOf(g, g.tanks[t].owner)
    /\ \A c \in Cells : g.occ[c] # NO_OCCUPANT =>
            Alive(g, g.occ[c]) /\ g.tanks[g.occ[c]].pos = c

\* A living tank is the occupant of its cell.
Full(g) == \A t \in TankIds : Alive(g, t) => g.occ[g.tanks[t].pos] = t

LEMMA OnTheBoard ==
    /\ NO_POS_VEC \notin Cells /\ Terrain \subseteq Cells /\ Foliage \subseteq Cells
    /\ \A c \in Cells : /\ c = <<c[1], c[2]>> /\ c[1] \in 0 .. 253 /\ c[2] \in 0 .. 253
                        /\ c[1] < Width /\ c[2] < Height
    /\ Width \in 1 .. 254 /\ Height \in 1 .. 254
    /\ INITIAL_HEALTH \in Nat \ {0}
  BY BoardAssumption, SMTT(30) DEF Cells, NO_POS_VEC

LEMMA ListIsSlots ==
    ASSUME NEW g \in Game, NEW p \in PlayerIds
    PROVE  /\ TanksOf(g, p) = {Slot(p, i) : i \in 0 .. g.placed[p] - 1}
           /\ TanksOf(g, p) \subseteq TankIds
           /\ g.placed[p] \in 0 .. NumTanks
  <1>1. TanksOf(g, p) = {Slot(p, i) : i \in 0 .. g.placed[p] - 1}
    BY DEF TanksOf, Slot
  <1>2. g.placed[p] \in 0 .. NumTanks
    BY DEF Game
  <1>3. \A i \in 0 .. g.placed[p] - 1 : i \in 0 .. NumTanks - 1
    BY <1>2, Ids
  <1> QED BY <1>1, <1>2, <1>3, Slots

\* Two games with the same members are the same.
LEMMA SameGame ==
    ASSUME NEW g \in Game, NEW h \in Game,
           g.occ = h.occ, g.tanks = h.tanks, g.placed = h.placed
    PROVE  g = h
  BY DEF Game

LEMMA SameTank ==
    ASSUME NEW a \in Tank, NEW b \in Tank, a.pos = b.pos, a.dir = b.dir,
           a.barrel = b.barrel, a.health = b.health, a.loaded = b.loaded,
           a.owner = b.owner
    PROVE  a = b
  BY DEF Tank

LEMMA NewGameSound == NewGame \in Game /\ Sound(NewGame) /\ Full(NewGame)
  <1>1. NoTank \in Tank
    BY DEF NoTank, Tank, Dirs
  <1>2. NewGame \in Game
    BY <1>1, Ids DEF NewGame, Game
  <1>3. \A p \in PlayerIds : TanksOf(NewGame, p) = {}
    BY Ids DEF NewGame, TanksOf
  <1>4. \A t \in TankIds : NewGame.tanks[t] = NoTank /\ ~Alive(NewGame, t)
    BY DEF NewGame, NoTank, Alive
  <1>5. \A c \in Cells : NewGame.occ[c] = NO_OCCUPANT
    BY DEF NewGame
  <1> QED BY <1>2, <1>3, <1>4, <1>5 DEF Sound, Fit, Full

\* k is g with a new tank of player p.
NewTank(pos, p, dir) ==
    [pos |-> pos, dir |-> dir, barrel |-> dir, health |-> INITIAL_HEALTH,
     loaded |-> TRUE, owner |-> p]
Adds(g, k, s, T) ==
    /\ k \in Game
    /\ s \in TankIds
    /\ k.occ = [g.occ EXCEPT ![T.pos] = s]
    /\ k.tanks = [g.tanks EXCEPT ![s] = T]
    /\ k.placed = [g.placed EXCEPT ![T.owner] = @ + 1]
    /\ \A q \in PlayerIds : s \notin TanksOf(g, q)
    /\ \A q \in PlayerIds : TanksOf(k, q) =
          IF q = T.owner THEN TanksOf(g, q) \cup {s} ELSE TanksOf(g, q)

\* What place_tank does.
LEMMA PlaceEffect ==
    ASSUME NEW g, Fit(g), NEW pos \in Open, NEW p \in PlayerIds, NEW dir \in Dirs,
           g.placed[p] < NumTanks
    PROVE  Adds(g, place_tank(g, pos, p, dir), Slot(p, g.placed[p]), NewTank(pos, p, dir))
  <1> DEFINE k == place_tank(g, pos, p, dir)
             s == Slot(p, g.placed[p])
             T == NewTank(pos, p, dir)
  <1>0. g \in Game /\ g.placed[p] \in 0 .. NumTanks - 1
    <2>1. g \in Game
      BY DEF Fit
    <2>2. g.placed[p] \in 0 .. NumTanks
      BY <2>1, ListIsSlots
    <2> QED BY <2>1, <2>2, Ids
  <1>1. s \in TankIds
    BY <1>0, Slots
  <1>2. s = g.placed[p] + p * NumTanks
    <2>1. p * NumTanks \in Nat
      BY Ids
    <2> QED BY <1>0, <2>1 DEF Slot
  <1>3. pos \in Cells /\ pos \notin Terrain
    BY DEF Open
  <1>4. /\ k.occ = [g.occ EXCEPT ![pos] = s]
        /\ k.tanks = [g.tanks EXCEPT ![s] = T]
        /\ k.placed = [g.placed EXCEPT ![p] = @ + 1]
        /\ k = [occ |-> k.occ, tanks |-> k.tanks, placed |-> k.placed]
    BY <1>2, <1>3, Zenon DEF place_tank, NewTank
  <1> HIDE DEF k, s
  <1>5. T \in Tank /\ T.pos = pos /\ T.owner = p
    BY <1>3, OnTheBoard DEF Tank, NewTank
  <1> HIDE DEF T
  <1>6. k \in Game
    <2>1. k.occ \in [Cells -> TankIds \cup {NO_OCCUPANT}]
      BY <1>0, <1>1, <1>4 DEF Game
    <2>2. k.tanks \in [TankIds -> Tank]
      BY <1>0, <1>1, <1>4, <1>5 DEF Game
    <2>3. k.placed \in [PlayerIds -> 0 .. NumTanks]
      BY <1>0, <1>4, Ids DEF Game
    <2> QED BY <1>4, <2>1, <2>2, <2>3 DEF Game
  <1>7. \A q \in PlayerIds : \A i \in 0 .. g.placed[q] - 1 :
            i \in 0 .. NumTanks - 1 /\ (q = p => i # g.placed[p])
    <2> SUFFICES ASSUME NEW q \in PlayerIds, NEW i \in 0 .. g.placed[q] - 1
                 PROVE  i \in 0 .. NumTanks - 1 /\ (q = p => i # g.placed[p])
      OBVIOUS
    <2>1. g.placed[q] \in 0 .. NumTanks
      BY <1>0, ListIsSlots
    <2> QED BY <2>1, <1>0, Ids
  <1>8. \A q \in PlayerIds : s \notin TanksOf(g, q)
    <2> SUFFICES ASSUME NEW q \in PlayerIds, NEW i \in 0 .. g.placed[q] - 1,
                        s = Slot(q, i)
                 PROVE  FALSE
      BY <1>0, ListIsSlots
    <2> QED BY <1>0, <1>7, Slots DEF s
  <1>9. ASSUME NEW q \in PlayerIds
        PROVE  TanksOf(k, q) = IF q = p THEN TanksOf(g, p) \cup {s} ELSE TanksOf(g, q)
    <2>1. CASE q = p
      <3>1. k.placed[p] = g.placed[p] + 1
        BY <1>0, <1>4 DEF Game
      <3>2. 0 .. k.placed[p] - 1 = (0 .. g.placed[p] - 1) \cup {g.placed[p]}
        BY <1>0, <3>1
      <3>3. TanksOf(k, p) = {Slot(p, i) : i \in (0 .. g.placed[p] - 1) \cup {g.placed[p]}}
        BY <1>6, <3>2, ListIsSlots
      <3> QED BY <1>0, <2>1, <3>3, ListIsSlots DEF s
    <2>2. CASE q # p
      <3>1. k.placed[q] = g.placed[q]
        BY <1>0, <1>4, <2>2 DEF Game
      <3> QED BY <2>2, <3>1 DEF TanksOf
    <2> QED BY <2>1, <2>2
  <1> QED BY <1>1, <1>4, <1>5, <1>6, <1>8, <1>9 DEF T, k, s, Adds

LEMMA PlaceKeeps ==
    ASSUME NEW g, Fit(g), NEW pos \in Open, NEW p \in PlayerIds, NEW dir \in Dirs,
           g.placed[p] < NumTanks
    PROVE  LET k == place_tank(g, pos, p, dir) IN
           /\ Fit(k)
           /\ Sound(g) /\ g.occ[pos] = NO_OCCUPANT => Sound(k)
           /\ Sound(g) /\ Full(g) /\ g.occ[pos] = NO_OCCUPANT => Full(k)
  <1> DEFINE k == place_tank(g, pos, p, dir)
             s == Slot(p, g.placed[p])
             T == NewTank(pos, p, dir)
  <1>0. Adds(g, k, s, T)
    BY PlaceEffect
  <1>2. T.pos = pos /\ T.owner = p /\ T.health > 0
    BY OnTheBoard DEF NewTank
  <1> HIDE DEF k, s, T
  <1>1. /\ k \in Game
        /\ s \in TankIds
        /\ k.occ = [g.occ EXCEPT ![pos] = s]
        /\ k.tanks = [g.tanks EXCEPT ![s] = T]
        /\ \A q \in PlayerIds : s \notin TanksOf(g, q)
        /\ \A q \in PlayerIds : TanksOf(k, q) =
                     IF q = p THEN TanksOf(g, p) \cup {s} ELSE TanksOf(g, q)
    BY <1>0, <1>2 DEF Adds
  <1>3. /\ g \in Game /\ g.tanks \in [TankIds -> Tank]
        /\ g.occ \in [Cells -> TankIds \cup {NO_OCCUPANT}]
        /\ pos \in Cells
    BY DEF Fit, Game, Open
  <1>4. /\ k.tanks[s] = T /\ \A t \in TankIds \ {s} : k.tanks[t] = g.tanks[t]
        /\ k.occ[pos] = s /\ \A c \in Cells \ {pos} : k.occ[c] = g.occ[c]
    BY <1>1, <1>3
  <1>5. Fit(k)
    <2> SUFFICES ASSUME NEW q \in PlayerIds, NEW t \in TanksOf(k, q)
                 PROVE  k.tanks[t].owner = q /\ k.tanks[t].pos \in Open
      BY <1>1 DEF Fit
    <2>1. CASE t = s
      BY <1>1, <1>2, <1>4, <2>1
    <2>2. CASE t # s
      <3>1. t \in TanksOf(g, q) /\ t \in TankIds
        BY <1>1, <1>3, <2>2, ListIsSlots
      <3> QED BY <1>4, <2>2, <3>1 DEF Fit
    <2> QED BY <2>1, <2>2
  <1>6. ASSUME Sound(g), g.occ[pos] = NO_OCCUPANT
        PROVE  Sound(k) /\ (Full(g) => Full(k))
    <2>1. g.tanks[s] = NoTank
      BY <1>1, <1>6 DEF Sound
    <2>2. ASSUME NEW t \in TankIds
          PROVE  \/ k.tanks[t] = NoTank
                 \/ /\ k.tanks[t].owner \in PlayerIds
                    /\ t \in TanksOf(k, k.tanks[t].owner)
      BY <1>1, <1>2, <1>4, <1>6 DEF Sound
    <2>3. ASSUME NEW c \in Cells, k.occ[c] # NO_OCCUPANT
          PROVE  Alive(k, k.occ[c]) /\ k.tanks[k.occ[c]].pos = c
      <3>1. CASE c = pos
        BY <1>1, <1>2, <1>4, <3>1 DEF Alive
      <3>2. CASE c # pos
        <4>1. k.occ[c] = g.occ[c] /\ g.occ[c] \in TankIds
          BY <1>3, <1>4, <2>3, <3>2
        <4>2. Alive(g, g.occ[c]) /\ g.tanks[g.occ[c]].pos = c
          BY <1>6, <2>3, <4>1 DEF Sound
        <4>3. g.occ[c] # s
          BY <2>1, <4>2 DEF Alive, NoTank
        <4> QED BY <1>4, <4>1, <4>2, <4>3 DEF Alive
      <3> QED BY <3>1, <3>2
    <2>4. ASSUME Full(g), NEW t \in TankIds, Alive(k, t)
          PROVE  k.occ[k.tanks[t].pos] = t
      <3>1. CASE t = s
        BY <1>2, <1>4, <3>1
      <3>2. CASE t # s
        <4>1. Alive(g, t) /\ k.tanks[t] = g.tanks[t]
          BY <1>4, <2>4, <3>2 DEF Alive
        <4>2. g.occ[g.tanks[t].pos] = t
          BY <2>4, <4>1 DEF Full
        <4>3. g.tanks[t].pos # pos
          BY <1>6, <4>2, Ids
        <4>4. g.tanks[t].pos \in Cells
          <5>1. g.tanks[t] # NoTank
            BY <4>1 DEF Alive, NoTank
          <5> QED BY <1>6, <5>1 DEF Sound, Fit, Open
        <4> QED BY <1>4, <4>1, <4>2, <4>3, <4>4
      <3> QED BY <3>1, <3>2
    <2> QED BY <1>5, <2>2, <2>3, <2>4 DEF Sound, Full
  <1> QED BY <1>5, <1>6 DEF k

\* Steps that leave cells, positions, health and owners alone.
Alike(g, k) ==
    /\ k \in Game /\ k.occ = g.occ /\ k.placed = g.placed
    /\ \A u \in TankIds : /\ k.tanks[u].pos = g.tanks[u].pos
                          /\ k.tanks[u].health = g.tanks[u].health
                          /\ k.tanks[u].owner = g.tanks[u].owner
                          /\ k.tanks[u] = g.tanks[u] \/ g.tanks[u].owner \in PlayerIds

LEMMA AlikeKeeps ==
    ASSUME NEW g, NEW k, Fit(g), Alike(g, k)
    PROVE  Fit(k) /\ (Sound(g) => Sound(k)) /\ (Full(g) => Full(k))
  <1>1. /\ k \in Game /\ g \in Game
        /\ \A p \in PlayerIds : TanksOf(k, p) = TanksOf(g, p)
    BY DEF Alike, Fit, TanksOf
  <1>2. Fit(k)
    <2> SUFFICES ASSUME NEW p \in PlayerIds, NEW t \in TanksOf(k, p)
                 PROVE  k.tanks[t].owner = p /\ k.tanks[t].pos \in Open
      BY <1>1 DEF Fit
    <2>1. t \in TankIds /\ t \in TanksOf(g, p)
      BY <1>1, ListIsSlots
    <2> QED BY <2>1 DEF Fit, Alike
  <1>3. Full(g) => Full(k)
    BY DEF Full, Alive, Alike
  <1>4. ASSUME Sound(g) PROVE Sound(k)
    <2>1. ASSUME NEW t \in TankIds
          PROVE  \/ k.tanks[t] = NoTank
                 \/ /\ k.tanks[t].owner \in PlayerIds
                    /\ t \in TanksOf(k, k.tanks[t].owner)
      <3>1. CASE g.tanks[t] = NoTank
        <4>1. g.tanks[t].owner \notin PlayerIds
          BY <3>1, Ids DEF NoTank
        <4> QED BY <3>1, <4>1 DEF Alike
      <3>2. CASE g.tanks[t] # NoTank
        <4>1. g.tanks[t].owner \in PlayerIds /\ t \in TanksOf(g, g.tanks[t].owner)
          BY <1>4, <3>2 DEF Sound
        <4> QED BY <1>1, <4>1 DEF Alike
      <3> QED BY <3>1, <3>2
    <2>2. ASSUME NEW c \in Cells, k.occ[c] # NO_OCCUPANT
          PROVE  Alive(k, k.occ[c]) /\ k.tanks[k.occ[c]].pos = c
      <3>1. k.occ[c] = g.occ[c] /\ g.occ[c] \in TankIds
        BY <1>1, <2>2 DEF Alike, Game
      <3> QED BY <1>4, <2>2, <3>1 DEF Sound, Alike, Alive
    <2> QED BY <1>2, <2>1, <2>2 DEF Sound
  <1> QED BY <1>2, <1>3, <1>4

LEMMA TurnedDir == \A d \in Dirs : \A n \in Nat :
                      /\ Turned(d, n) \in Dirs
                      /\ Turned(Turned(d, n), Opposite(n)) = d
                      /\ Reverse8(d) \in Dirs /\ Reverse8(Reverse8(d)) = d
  <1> SUFFICES ASSUME NEW d \in Dirs, NEW n \in Nat
               PROVE  /\ Turned(d, n) \in Dirs
                      /\ Turned(Turned(d, n), Opposite(n)) = d
                      /\ Reverse8(d) \in Dirs /\ Reverse8(Reverse8(d)) = d
    OBVIOUS
  <1> QED BY DEF Dirs, Turned, Opposite, Reverse8

\* A change of the members of one tank.
LEMMA OneTank ==
    ASSUME NEW g \in Game, NEW t \in TankIds, NEW T \in Tank
    PROVE  LET k == [g EXCEPT !.tanks = [@ EXCEPT ![t] = T]] IN
           /\ k \in Game /\ k.occ = g.occ /\ k.placed = g.placed
           /\ k.tanks = [g.tanks EXCEPT ![t] = T]
           /\ k.tanks[t] = T /\ \A u \in TankIds \ {t} : k.tanks[u] = g.tanks[u]
  BY DEF Game

LEMMA TankMembers ==
    ASSUME NEW T \in Tank
    PROVE  /\ \A d \in Dirs : [T EXCEPT !.dir = d] \in Tank /\ [T EXCEPT !.barrel = d] \in Tank
           /\ \A b \in BOOLEAN : [T EXCEPT !.loaded = b] \in Tank
           /\ \A n \in Nat : [T EXCEPT !.health = n] \in Tank
           /\ \A c \in Cells : [T EXCEPT !.pos = c] \in Tank
  BY DEF Tank

LEMMA SmallChanges ==
    ASSUME NEW g \in Game, NEW t \in TankIds, g.tanks[t].owner \in PlayerIds,
           NEW n \in Nat
    PROVE  /\ Alike(g, rotate_tank(g, t, n)) /\ Alike(g, rotate_tank_barrel(g, t, n))
           /\ Alike(g, load_tank(g, t)) /\ Alike(g, unload_tank(g, t))
           /\ rotate_tank(g, t, n).tanks = [g.tanks EXCEPT ![t] =
                    [g.tanks[t] EXCEPT !.dir = Turned(g.tanks[t].dir, n)]]
           /\ rotate_tank_barrel(g, t, n).tanks = [g.tanks EXCEPT ![t] =
                    [g.tanks[t] EXCEPT !.barrel = Turned(g.tanks[t].barrel, n)]]
           /\ load_tank(g, t).tanks = [g.tanks EXCEPT ![t] = [g.tanks[t] EXCEPT !.loaded = TRUE]]
           /\ unload_tank(g, t).tanks = [g.tanks EXCEPT ![t] = [g.tanks[t] EXCEPT !.loaded = FALSE]]
  <1> DEFINE T == g.tanks[t]
             With(U) == [g EXCEPT !.tanks = [@ EXCEPT ![t] = U]]
             D == Turned(T.dir, n)
             B == Turned(T.barrel, n)
  <1>1. T \in Tank /\ T.dir \in Dirs /\ T.barrel \in Dirs /\ T.owner \in PlayerIds
    BY DEF Game, Tank
  <1>2. D \in Dirs /\ B \in Dirs
    BY <1>1, TurnedDir
  <1>3. /\ rotate_tank(g, t, n) = With([T EXCEPT !.dir = D])
        /\ rotate_tank_barrel(g, t, n) = With([T EXCEPT !.barrel = B])
        /\ load_tank(g, t) = With([T EXCEPT !.loaded = TRUE])
        /\ unload_tank(g, t) = With([T EXCEPT !.loaded = FALSE])
    BY <1>1 DEF rotate_tank, rotate_tank_barrel, load_tank, unload_tank, Game, Tank
  <1>4. ASSUME NEW U \in Tank, U.pos = T.pos, U.health = T.health, U.owner = T.owner
        PROVE  Alike(g, With(U)) /\ With(U).tanks = [g.tanks EXCEPT ![t] = U]
    <2>1. /\ With(U) \in Game /\ With(U).occ = g.occ /\ With(U).placed = g.placed
          /\ With(U).tanks[t] = U /\ With(U).tanks = [g.tanks EXCEPT ![t] = U]
          /\ \A u \in TankIds \ {t} : With(U).tanks[u] = g.tanks[u]
      BY OneTank
    <2> HIDE DEF With
    <2> QED BY <1>1, <1>4, <2>1 DEF Alike
  <1>5. /\ [T EXCEPT !.dir = D] \in Tank /\ [T EXCEPT !.barrel = B] \in Tank
        /\ [T EXCEPT !.loaded = TRUE] \in Tank /\ [T EXCEPT !.loaded = FALSE] \in Tank
    BY <1>1, <1>2, TankMembers
  <1>6. \A U \in {[T EXCEPT !.dir = D], [T EXCEPT !.barrel = B],
                  [T EXCEPT !.loaded = TRUE], [T EXCEPT !.loaded = FALSE]} :
            U.pos = T.pos /\ U.health = T.health /\ U.owner = T.owner
    BY <1>1 DEF Tank
  <1> HIDE DEF With, D, B, T
  <1>7. \A U \in {[T EXCEPT !.dir = D], [T EXCEPT !.barrel = B],
                  [T EXCEPT !.loaded = TRUE], [T EXCEPT !.loaded = FALSE]} :
            Alike(g, With(U)) /\ With(U).tanks = [g.tanks EXCEPT ![t] = U]
    BY <1>4, <1>5, <1>6
  <1> QED BY <1>3, <1>7, Zenon DEF T, D, B

\* k is g with tank t on another cell.
Moves(g, k, t, to) ==
    /\ k \in Game
    /\ k.occ = [g.occ EXCEPT ![g.tanks[t].pos] = NO_OCCUPANT, ![to] = t]
    /\ k.tanks = [g.tanks EXCEPT ![t] = [g.tanks[t] EXCEPT !.pos = to]]
    /\ k.placed = g.placed

Ahead(g, t, reverse) ==
    Plus(g.tanks[t].pos, 1, IF reverse THEN Reverse8(g.tanks[t].dir) ELSE g.tanks[t].dir)

\* What move_tank does.
LEMMA MoveEffect ==
    ASSUME NEW g \in Game, NEW t \in TankIds, NEW reverse \in BOOLEAN
    PROVE  LET m == move_tank(g, t, reverse)
               to == Ahead(g, t, reverse)
           IN  \/ ~CanEnter(g, g.tanks[t].pos, to) /\ m.ok = FALSE /\ m.game = g
               \/ /\ CanEnter(g, g.tanks[t].pos, to) /\ m.ok = TRUE
                  /\ to \in Open /\ g.occ[to] = NO_OCCUPANT
                  /\ Moves(g, m.game, t, to)
  <1> DEFINE m == move_tank(g, t, reverse)
             to == Ahead(g, t, reverse)
             prev == g.tanks[t].pos
             k == [g EXCEPT !.tanks[t].pos = to,
                            !.occ = [@ EXCEPT ![prev] = NO_OCCUPANT, ![to] = t]]
  <1>1. m = IF CanEnter(g, prev, to) THEN [ok |-> TRUE, game |-> k]
            ELSE [ok |-> FALSE, game |-> g]
    BY Zenon DEF move_tank, Ahead
  <1>2. ASSUME CanEnter(g, prev, to)
        PROVE  to \in Open /\ g.occ[to] = NO_OCCUPANT /\ Moves(g, k, t, to)
    <2> HIDE DEF to
    <2>1. to \in Open /\ to \in Cells /\ g.occ[to] = NO_OCCUPANT
      BY <1>2 DEF CanEnter, Open
    <2>2. g.tanks[t] \in Tank
      BY DEF Game
    <2>3. [g.tanks[t] EXCEPT !.pos = to] \in Tank
      BY <2>1, <2>2, TankMembers
    <2>4. /\ k.tanks = [g.tanks EXCEPT ![t] = [g.tanks[t] EXCEPT !.pos = to]]
          /\ k.occ = [g.occ EXCEPT ![prev] = NO_OCCUPANT, ![to] = t]
          /\ k.placed = g.placed
          /\ k = [occ |-> k.occ, tanks |-> k.tanks, placed |-> k.placed]
      <3> DEFINE O == [g.occ EXCEPT ![prev] = NO_OCCUPANT, ![to] = t]
                 T == [g.tanks EXCEPT ![t] = [g.tanks[t] EXCEPT !.pos = to]]
      <3>1. k = [g EXCEPT !.tanks[t].pos = to, !.occ = O]
        BY Zenon
      <3>2. g = [occ |-> g.occ, tanks |-> g.tanks, placed |-> g.placed]
        BY DEF Game
      <3> HIDE DEF O, k
      <3>3. /\ k.occ = O /\ k.placed = g.placed /\ k.tanks = T
            /\ k = [occ |-> k.occ, tanks |-> k.tanks, placed |-> k.placed]
        BY <3>1, <3>2
      <3> QED BY <3>3 DEF O
    <2> HIDE DEF k, prev
    <2>5. k.tanks \in [TankIds -> Tank]
      BY <2>3, <2>4 DEF Game
    <2>6. k.occ \in [Cells -> TankIds \cup {NO_OCCUPANT}]
      BY <2>1, <2>4 DEF Game
    <2>7. k.placed \in [PlayerIds -> 0 .. NumTanks]
      BY <2>4 DEF Game
    <2>8. k \in Game
      BY <2>4, <2>5, <2>6, <2>7 DEF Game
    <2> QED BY <2>1, <2>4, <2>8 DEF Moves, prev
  <1> HIDE DEF k, to, m
  <1>3. CASE CanEnter(g, prev, to)
    BY <1>1, <1>2, <1>3 DEF m, to
  <1>4. CASE ~CanEnter(g, prev, to)
    BY <1>1, <1>4 DEF m, to
  <1> QED BY <1>3, <1>4

LEMMA MoveKeeps ==
    ASSUME NEW g, NEW k, NEW t \in TankIds, NEW to \in Open,
           Fit(g), Moves(g, k, t, to), g.occ[to] = NO_OCCUPANT, Alive(g, t)
    PROVE  /\ Fit(k)
           /\ Sound(g) => Sound(k)
           /\ Sound(g) /\ Full(g) => Full(k)
           /\ k.occ[to] = t /\ k.tanks[t].pos = to /\ k.tanks[t].health = g.tanks[t].health
           /\ \A u \in TankIds \ {t} : k.tanks[u] = g.tanks[u]
           /\ k.tanks[t].owner = g.tanks[t].owner
           /\ \A c \in Cells \ {g.tanks[t].pos, to} : k.occ[c] = g.occ[c]
           /\ g.tanks[t].pos \in Cells \ {to} => k.occ[g.tanks[t].pos] = NO_OCCUPANT
  <1> DEFINE prev == g.tanks[t].pos
  <1>1. /\ g \in Game /\ k \in Game /\ to \in Cells
        /\ g.tanks \in [TankIds -> Tank] /\ g.tanks[t] \in Tank
        /\ g.occ \in [Cells -> TankIds \cup {NO_OCCUPANT}]
    BY DEF Fit, Moves, Open, Game
  <1>2. /\ k.tanks[t] = [g.tanks[t] EXCEPT !.pos = to]
        /\ \A u \in TankIds \ {t} : k.tanks[u] = g.tanks[u]
        /\ k.occ[to] = t
        /\ \A c \in Cells \ {prev, to} : k.occ[c] = g.occ[c]
        /\ prev \in Cells \ {to} => k.occ[prev] = NO_OCCUPANT
    BY <1>1 DEF Moves
  <1>3. /\ k.tanks[t].pos = to /\ k.tanks[t].health = g.tanks[t].health
        /\ k.tanks[t].owner = g.tanks[t].owner
    BY <1>1, <1>2 DEF Tank
  <1> HIDE DEF prev
  <1>4. \A p \in PlayerIds : TanksOf(k, p) = TanksOf(g, p)
    BY DEF Moves, TanksOf
  <1>5. Fit(k)
    <2> SUFFICES ASSUME NEW p \in PlayerIds, NEW u \in TanksOf(k, p)
                 PROVE  k.tanks[u].owner = p /\ k.tanks[u].pos \in Open
      BY <1>1 DEF Fit
    <2>1. u \in TankIds /\ u \in TanksOf(g, p)
      BY <1>1, <1>4, ListIsSlots
    <2>2. g.tanks[u].owner = p /\ g.tanks[u].pos \in Open
      BY <2>1 DEF Fit
    <2> QED BY <1>2, <1>3, <2>1, <2>2
  <1>6. ASSUME Sound(g) PROVE Sound(k) /\ (Full(g) => Full(k))
    <2>1. /\ g.tanks[t].owner \in PlayerIds /\ t \in TanksOf(g, g.tanks[t].owner)
          /\ prev \in Cells
      <3>1. g.tanks[t] # NoTank
        BY DEF Alive, NoTank
      <3> QED BY <1>6, <3>1 DEF Sound, Fit, Open, prev
    <2>2. ASSUME NEW u \in TankIds
          PROVE  \/ k.tanks[u] = NoTank
                 \/ /\ k.tanks[u].owner \in PlayerIds
                    /\ u \in TanksOf(k, k.tanks[u].owner)
      <3>1. CASE u = t
        BY <1>3, <1>4, <2>1, <3>1
      <3>2. CASE u # t
        BY <1>2, <1>4, <1>6, <3>2 DEF Sound
      <3> QED BY <3>1, <3>2
    <2>3. ASSUME NEW c \in Cells, k.occ[c] # NO_OCCUPANT
          PROVE  Alive(k, k.occ[c]) /\ k.tanks[k.occ[c]].pos = c
      <3>1. CASE c = to
        BY <1>2, <1>3, <3>1 DEF Alive
      <3>2. CASE c # to
        <4>1. c # prev
          BY <1>2, <2>1, <2>3, <3>2
        <4>2. k.occ[c] = g.occ[c] /\ g.occ[c] \in TankIds
          BY <1>1, <1>2, <2>3, <3>2, <4>1
        <4>3. Alive(g, g.occ[c]) /\ g.tanks[g.occ[c]].pos = c
          BY <1>6, <2>3, <4>2 DEF Sound
        <4>4. g.occ[c] # t
          BY <4>1, <4>3 DEF prev
        <4> QED BY <1>2, <4>2, <4>3, <4>4 DEF Alive
      <3> QED BY <3>1, <3>2
    <2>4. ASSUME Full(g), NEW u \in TankIds, Alive(k, u)
          PROVE  k.occ[k.tanks[u].pos] = u
      <3>1. CASE u = t
        BY <1>2, <1>3, <3>1
      <3>2. CASE u # t
        <4>1. Alive(g, u) /\ k.tanks[u] = g.tanks[u]
          BY <1>2, <2>4, <3>2 DEF Alive
        <4>2. g.occ[g.tanks[u].pos] = u
          BY <2>4, <4>1 DEF Full
        <4>3. g.occ[prev] = t
          BY <2>4 DEF Full, prev
        <4>4. g.tanks[u].pos # to /\ g.tanks[u].pos # prev
          BY <4>2, <4>3, <3>2, Ids
        <4>5. g.tanks[u].pos \in Cells
          <5>1. g.tanks[u] # NoTank
            BY <4>1 DEF Alive, NoTank
          <5> QED BY <1>6, <5>1 DEF Sound, Fit, Open
        <4> QED BY <1>2, <4>1, <4>2, <4>4, <4>5
      <3> QED BY <3>1, <3>2
    <2> QED BY <1>5, <2>2, <2>3, <2>4 DEF Sound, Full
  <1> QED BY <1>2, <1>3, <1>5, <1>6 DEF prev

-----------------------------------------------------------------------------
(* Shells.                                                                 *)

LEMMA HitsAreTanks ==
    ASSUME NEW g \in Game, NEW t \in TankIds, NEW c \in ShellHit(g, t)
    PROVE  c \in Open /\ c \in Cells /\ g.occ[c] \in TankIds
  <1> DEFINE path == ShellPath(g, t)
             stops == {i \in DOMAIN path : \/ path[i] \notin Cells
                                           \/ path[i] \in Terrain
                                           \/ g.occ[path[i]] # NO_OCCUPANT}
  <1>1. PICK i \in stops : path[i] \in Cells /\ path[i] \notin Terrain /\ c = path[i]
    BY Zenon DEF ShellHit
  <1> HIDE DEF path
  <1>2. g.occ[c] # NO_OCCUPANT /\ c \in Cells /\ c \notin Terrain
    BY <1>1
  <1> QED BY <1>2 DEF Open, Game

\* k is g after a shell has met tank h.
Strikes(g, k, h) ==
    /\ k \in Game
    /\ k.placed = g.placed
    /\ k.tanks = [g.tanks EXCEPT ![h] = [g.tanks[h] EXCEPT !.health =
                        deal_damage(g.tanks[h].health, SHELL_DAMAGE)]]
    /\ k.occ = IF deal_damage(g.tanks[h].health, SHELL_DAMAGE) = 0
               THEN [g.occ EXCEPT ![g.tanks[h].pos] = NO_OCCUPANT] ELSE g.occ

LEMMA DamageEffect ==
    ASSUME NEW g \in Game, NEW c \in Cells, g.occ[c] \in TankIds
    PROVE  Strikes(g, Damaged(g, c), g.occ[c])
  <1> DEFINE h == g.occ[c]
             n == deal_damage(g.tanks[h].health, SHELL_DAMAGE)
             O == IF n = 0 THEN [g.occ EXCEPT ![g.tanks[h].pos] = NO_OCCUPANT] ELSE g.occ
             T == [g.tanks EXCEPT ![h] = [g.tanks[h] EXCEPT !.health = n]]
             k == Damaged(g, c)
  <1>1. /\ g.tanks[h] \in Tank /\ h \in TankIds
        /\ g.tanks \in [TankIds -> Tank] /\ g.placed \in [PlayerIds -> 0 .. NumTanks]
        /\ g.occ \in [Cells -> TankIds \cup {NO_OCCUPANT}]
        /\ g = [occ |-> g.occ, tanks |-> g.tanks, placed |-> g.placed]
    BY DEF Game
  <1>2. g.tanks[h].health \in Nat /\ n \in Nat
    BY <1>1 DEF Tank, deal_damage, SHELL_DAMAGE
  <1>3. k = [g EXCEPT !.tanks[h].health = n, !.occ = O]
    BY Zenon DEF Damaged
  <1>4. O \in [Cells -> TankIds \cup {NO_OCCUPANT}]
    BY <1>1
  <1>5. T \in [TankIds -> Tank]
    BY <1>1, <1>2, TankMembers
  <1> HIDE DEF O, k, n, h
  <1>6. k = [occ |-> O, tanks |-> T, placed |-> g.placed]
    BY <1>1, <1>3
  <1> HIDE DEF T
  <1>7. k \in Game /\ k.occ = O /\ k.tanks = T /\ k.placed = g.placed
    BY <1>1, <1>4, <1>5, <1>6 DEF Game
  <1> QED BY <1>7 DEF Strikes, O, T, n, h, k

LEMMA StrikeKeeps ==
    ASSUME NEW g, NEW k, NEW h \in TankIds, Fit(g), Strikes(g, k, h)
    PROVE  /\ Fit(k)
           /\ Sound(g) /\ Alive(g, h) /\ g.occ[g.tanks[h].pos] = h =>
                Sound(k) /\ (Full(g) => Full(k))
           /\ \A u \in TankIds \ {h} : k.tanks[u] = g.tanks[u]
           /\ \A u \in TankIds : /\ k.tanks[u].owner = g.tanks[u].owner
                                 /\ k.tanks[u].pos = g.tanks[u].pos
           /\ k.tanks[h].health = deal_damage(g.tanks[h].health, SHELL_DAMAGE)
  <1> DEFINE n == deal_damage(g.tanks[h].health, SHELL_DAMAGE)
             c == g.tanks[h].pos
  <1>1. /\ g \in Game /\ k \in Game
        /\ g.tanks \in [TankIds -> Tank] /\ g.tanks[h] \in Tank
        /\ g.occ \in [Cells -> TankIds \cup {NO_OCCUPANT}]
    BY DEF Fit, Strikes, Game
  <1>2. n \in Nat
    BY <1>1 DEF Tank, deal_damage, SHELL_DAMAGE
  <1> HIDE DEF n
  <1>3. /\ k.tanks[h] = [g.tanks[h] EXCEPT !.health = n]
        /\ \A u \in TankIds \ {h} : k.tanks[u] = g.tanks[u]
        /\ n = 0 => k.occ = [g.occ EXCEPT ![c] = NO_OCCUPANT]
        /\ n # 0 => k.occ = g.occ
        /\ k.placed = g.placed
    BY <1>1 DEF Strikes, n
  <1>4. k.tanks[h].health = n /\ k.tanks[h].pos = c /\ k.tanks[h].owner = g.tanks[h].owner
    BY <1>1, <1>3 DEF Tank
  <1> HIDE DEF c
  <1>5. \A u \in TankIds : /\ k.tanks[u].owner = g.tanks[u].owner
                           /\ k.tanks[u].pos = g.tanks[u].pos
    BY <1>3, <1>4 DEF c
  <1>6. \A p \in PlayerIds : TanksOf(k, p) = TanksOf(g, p)
    BY <1>3 DEF TanksOf
  <1>7. Fit(k)
    <2> SUFFICES ASSUME NEW p \in PlayerIds, NEW u \in TanksOf(k, p)
                 PROVE  k.tanks[u].owner = p /\ k.tanks[u].pos \in Open
      BY <1>1 DEF Fit
    <2>1. u \in TankIds /\ u \in TanksOf(g, p)
      BY <1>1, <1>6, ListIsSlots
    <2> QED BY <1>5, <2>1 DEF Fit
  <1>8. ASSUME Sound(g), Alive(g, h), g.occ[c] = h
        PROVE  Sound(k) /\ (Full(g) => Full(k))
    <2>1. /\ g.tanks[h].owner \in PlayerIds /\ h \in TanksOf(g, g.tanks[h].owner)
          /\ c \in Cells
      <3>1. g.tanks[h] # NoTank
        BY <1>8 DEF Alive, NoTank
      <3> QED BY <1>8, <3>1 DEF Sound, Fit, Open, c
    <2>2. ASSUME NEW u \in TankIds
          PROVE  \/ k.tanks[u] = NoTank
                 \/ /\ k.tanks[u].owner \in PlayerIds
                    /\ u \in TanksOf(k, k.tanks[u].owner)
      <3>1. CASE u = h
        BY <1>4, <1>6, <2>1, <3>1
      <3>2. CASE u # h
        BY <1>3, <1>6, <1>8, <3>2 DEF Sound
      <3> QED BY <3>1, <3>2
    <2>3. ASSUME NEW x \in Cells, k.occ[x] # NO_OCCUPANT
          PROVE  Alive(k, k.occ[x]) /\ k.tanks[k.occ[x]].pos = x
      <3>1. k.occ[x] = g.occ[x] /\ (n = 0 => x # c)
        BY <1>1, <1>3, <2>1, <2>3
      <3>2. g.occ[x] \in TankIds
        BY <1>1, <2>3, <3>1
      <3>3. Alive(g, g.occ[x]) /\ g.tanks[g.occ[x]].pos = x
        BY <1>8, <2>3, <3>1 DEF Sound
      <3>4. CASE g.occ[x] = h
        <4>1. n > 0
          BY <1>2, <3>1, <3>3, <3>4 DEF c
        <4> QED BY <1>4, <3>1, <3>3, <3>4, <4>1 DEF Alive, c
      <3>5. CASE g.occ[x] # h
        BY <1>3, <3>1, <3>2, <3>3, <3>5 DEF Alive
      <3> QED BY <3>4, <3>5
    <2>4. ASSUME Full(g), NEW u \in TankIds, Alive(k, u)
          PROVE  k.occ[k.tanks[u].pos] = u
      <3>1. CASE u = h
        <4>1. n # 0
          BY <1>2, <1>4, <2>4, <3>1 DEF Alive
        <4> QED BY <1>3, <1>4, <1>8, <3>1, <4>1
      <3>2. CASE u # h
        <4>1. Alive(g, u) /\ k.tanks[u] = g.tanks[u]
          BY <1>3, <2>4, <3>2 DEF Alive
        <4>2. g.occ[g.tanks[u].pos] = u
          BY <2>4, <4>1 DEF Full
        <4>3. g.tanks[u].pos # c
          BY <1>8, <3>2, <4>2
        <4>4. g.tanks[u].pos \in Cells
          <5>1. g.tanks[u] # NoTank
            BY <4>1 DEF Alive, NoTank
          <5> QED BY <1>8, <5>1 DEF Sound, Fit, Open
        <4> QED BY <1>1, <1>3, <4>1, <4>2, <4>3, <4>4
      <3> QED BY <3>1, <3>2
    <2> QED BY <1>7, <2>2, <2>3, <2>4 DEF Sound, Full
  <1> QED BY <1>3, <1>4, <1>5, <1>7, <1>8 DEF n, c

\* repair_tank and remove_tank leave a board that fits.
LEMMA RepairFits ==
    ASSUME NEW g, Fit(g), NEW pos \in Cells
    PROVE  LET here == IF g.occ[pos] # NO_OCCUPANT THEN {g.occ[pos]}
                       ELSE {t \in TankIds : g.tanks[t].pos = pos}
               k == repair_tank(g, pos)
           IN  /\ Fit(k) /\ k.placed = g.placed
               /\ k.tanks = [t \in TankIds |->
                      IF t \in here THEN [g.tanks[t] EXCEPT !.health = INITIAL_HEALTH]
                      ELSE g.tanks[t]]
               /\ k.occ = IF here = {} THEN g.occ
                          ELSE [g.occ EXCEPT ![pos] = Max(here)]
  <1> DEFINE here == IF g.occ[pos] # NO_OCCUPANT THEN {g.occ[pos]}
                     ELSE {t \in TankIds : g.tanks[t].pos = pos}
             k == repair_tank(g, pos)
             T == [t \in TankIds |-> IF t \in here
                       THEN [g.tanks[t] EXCEPT !.health = INITIAL_HEALTH] ELSE g.tanks[t]]
             R == [t \in TankIds |-> IF t \in here
                       THEN [g.tanks[t] EXCEPT !.health = repaired(@, SHELL_DAMAGE)]
                       ELSE g.tanks[t]]
             O == IF here = {} THEN g.occ ELSE [g.occ EXCEPT ![pos] = Max(here)]
  <1>1. /\ g \in Game
        /\ g.tanks \in [TankIds -> Tank] /\ g.placed \in [PlayerIds -> 0 .. NumTanks]
        /\ g.occ \in [Cells -> TankIds \cup {NO_OCCUPANT}]
        /\ g = [occ |-> g.occ, tanks |-> g.tanks, placed |-> g.placed]
    BY DEF Game, Fit
  <1>2. here \subseteq TankIds
    BY <1>1
  <1>3. k = [g EXCEPT !.tanks = R, !.occ = O]
    BY Zenon DEF repair_tank
  <1> HIDE DEF here, k
  <1>4. R = T
    <2>1. \A t \in TankIds : g.tanks[t].health \in Nat
      BY <1>1 DEF Tank
    <2>2. \A t \in TankIds : repaired(g.tanks[t].health, SHELL_DAMAGE) = INITIAL_HEALTH
      BY <2>1 DEF repaired, SHELL_DAMAGE
    <2> QED BY <2>2
  <1>5. T \in [TankIds -> Tank]
    <2> SUFFICES ASSUME NEW t \in TankIds
                 PROVE  (IF t \in here THEN [g.tanks[t] EXCEPT !.health = INITIAL_HEALTH]
                                       ELSE g.tanks[t]) \in Tank
      OBVIOUS
    <2>1. g.tanks[t] \in Tank
      BY <1>1
    <2> QED BY <2>1, TankMembers, OnTheBoard
  <1>6. O \in [Cells -> TankIds \cup {NO_OCCUPANT}]
    BY <1>1, <1>2, MaxMember
  <1>7. \A t \in TankIds : T[t].pos = g.tanks[t].pos /\ T[t].owner = g.tanks[t].owner
    <2> SUFFICES ASSUME NEW t \in TankIds
                 PROVE  T[t].pos = g.tanks[t].pos /\ T[t].owner = g.tanks[t].owner
      OBVIOUS
    <2>1. g.tanks[t] \in Tank
      BY <1>1
    <2> QED BY <2>1 DEF Tank
  <1> HIDE DEF T, R, O
  <1>8. k = [occ |-> O, tanks |-> T, placed |-> g.placed]
    BY <1>1, <1>3, <1>4
  <1>9. k \in Game /\ k.occ = O /\ k.tanks = T /\ k.placed = g.placed
    BY <1>1, <1>5, <1>6, <1>8 DEF Game
  <1>10. Fit(k)
    <2> SUFFICES ASSUME NEW p \in PlayerIds, NEW t \in TanksOf(k, p)
                 PROVE  k.tanks[t].owner = p /\ k.tanks[t].pos \in Open
      BY <1>9 DEF Fit
    <2>1. t \in TankIds /\ t \in TanksOf(g, p)
      BY <1>9, ListIsSlots DEF TanksOf
    <2> QED BY <1>7, <1>9, <2>1 DEF Fit
  <1> QED BY <1>9, <1>10 DEF k, T, O, here

LEMMA RemoveFits ==
    ASSUME NEW g, Fit(g), NEW pos \in Cells, NEW p \in PlayerIds, g.placed[p] > 0
    PROVE  LET k == remove_tank(g, pos, p) IN
           /\ Fit(k)
           /\ k.placed = [g.placed EXCEPT ![p] = @ - 1]
           /\ k.occ = [g.occ EXCEPT ![pos] = NO_OCCUPANT]
           /\ k.tanks = [g.tanks EXCEPT ![Slot(p, g.placed[p] - 1)] = NoTank]
  <1> DEFINE k == remove_tank(g, pos, p)
             s == Slot(p, g.placed[p] - 1)
  <1>1. /\ g \in Game
        /\ g.tanks \in [TankIds -> Tank] /\ g.placed \in [PlayerIds -> 0 .. NumTanks]
        /\ g.occ \in [Cells -> TankIds \cup {NO_OCCUPANT}]
        /\ g.placed[p] \in 1 .. NumTanks
    BY Ids DEF Game, Fit
  <1>2. s = (g.placed[p] - 1) + p * NumTanks
    <2>1. p * NumTanks \in Nat
      BY Ids
    <2> QED BY <1>1, <2>1 DEF Slot
  <1>3. /\ k.occ = [g.occ EXCEPT ![pos] = NO_OCCUPANT]
        /\ k.tanks = [g.tanks EXCEPT ![s] = NoTank]
        /\ k.placed = [g.placed EXCEPT ![p] = @ - 1]
        /\ k = [occ |-> k.occ, tanks |-> k.tanks, placed |-> k.placed]
    BY <1>2, Zenon DEF remove_tank
  <1>4. s \in TankIds
    <2>1. g.placed[p] - 1 \in 0 .. NumTanks - 1
      BY <1>1, Ids
    <2> QED BY <2>1, Slots
  <1> HIDE DEF k, s
  <1>5. k \in Game
    <2>1. NoTank \in Tank
      BY DEF NoTank, Tank, Dirs
    <2>2. k.occ \in [Cells -> TankIds \cup {NO_OCCUPANT}]
      BY <1>1, <1>3
    <2>3. k.tanks \in [TankIds -> Tank]
      BY <1>1, <1>3, <2>1
    <2>4. k.placed \in [PlayerIds -> 0 .. NumTanks]
      BY <1>1, <1>3, Ids
    <2> QED BY <1>3, <2>2, <2>3, <2>4 DEF Game
  <1>6. ASSUME NEW q \in PlayerIds, NEW t \in TanksOf(k, q)
        PROVE  t \in TanksOf(g, q) /\ t # s /\ t \in TankIds
    <2>1. PICK i \in 0 .. k.placed[q] - 1 : t = Slot(q, i)
      BY <1>5, <1>6, ListIsSlots
    <2>2. i \in 0 .. g.placed[q] - 1 /\ i \in 0 .. NumTanks - 1
            /\ (q = p => i # g.placed[p] - 1)
      <3>1. g.placed[q] \in 0 .. NumTanks
        BY <1>1
      <3>2. k.placed[q] = IF q = p THEN g.placed[p] - 1 ELSE g.placed[q]
        BY <1>1, <1>3
      <3> QED BY <1>1, <2>1, <3>1, <3>2, Ids
    <2>3. t \in TanksOf(g, q)
      BY <1>1, <2>1, <2>2, ListIsSlots
    <2>4. g.placed[p] - 1 \in 0 .. NumTanks - 1
      BY <1>1, Ids
    <2>5. t # s
      BY <2>1, <2>2, <2>4, Slots DEF s
    <2> QED BY <1>1, <2>3, <2>5, ListIsSlots
  <1>7. Fit(k)
    <2> SUFFICES ASSUME NEW q \in PlayerIds, NEW t \in TanksOf(k, q)
                 PROVE  k.tanks[t].owner = q /\ k.tanks[t].pos \in Open
      BY <1>5 DEF Fit
    <2>1. k.tanks[t] = g.tanks[t]
      BY <1>1, <1>3, <1>6
    <2> QED BY <1>6, <2>1 DEF Fit
  <1> QED BY <1>3, <1>7 DEF k, s

\* A shot of t that damages the tank on one of the cells S.
Shot(g, t, S) == IF S = {} THEN unload_tank(g, t)
                 ELSE Damaged(unload_tank(g, t), CHOOSE c \in S : TRUE)

LEMMA ShotKeeps ==
    ASSUME NEW g, Fit(g), NEW t \in TankIds, g.tanks[t].owner \in PlayerIds,
           NEW S \in SUBSET ShellHit(g, t)
    PROVE  LET k == Shot(g, t, S) IN
           /\ Fit(k) /\ (Sound(g) => Sound(k)) /\ (Sound(g) /\ Full(g) => Full(k))
           /\ k.placed = g.placed
           /\ \A u \in TankIds : /\ k.tanks[u].owner = g.tanks[u].owner
                                 /\ k.tanks[u].pos = g.tanks[u].pos
           /\ (\A c \in S : g.tanks[g.occ[c]].owner # g.tanks[t].owner)
                => k.tanks[t].health = g.tanks[t].health
           /\ \A u \in TankIds : Alive(k, u) => Alive(g, u)
           /\ \A c \in Cells : k.occ[c] = g.occ[c] \/ k.occ[c] = NO_OCCUPANT
           /\ Sound(g) => \A u \in TankIds : Alive(k, u) /\ g.occ[g.tanks[u].pos] = u
                            => k.occ[k.tanks[u].pos] = u
  <1> DEFINE f == unload_tank(g, t)
             c == CHOOSE x \in S : TRUE
             k == Shot(g, t, S)
  <1>1. g \in Game
    BY DEF Fit
  <1>2. Alike(g, f)
    BY <1>1, SmallChanges
  <1>3. Fit(f) /\ (Sound(g) => Sound(f)) /\ (Full(g) => Full(f))
    BY <1>2, AlikeKeeps
  <1>4. /\ f \in Game /\ f.occ = g.occ /\ f.placed = g.placed
        /\ \A u \in TankIds : /\ f.tanks[u].owner = g.tanks[u].owner
                              /\ f.tanks[u].pos = g.tanks[u].pos
                              /\ f.tanks[u].health = g.tanks[u].health
    BY <1>2 DEF Alike
  <1>4a. /\ g.tanks \in [TankIds -> Tank] /\ g.occ \in [Cells -> TankIds \cup {NO_OCCUPANT}]
    BY <1>1 DEF Game
  <1> HIDE DEF f
  <1>5. CASE S = {}
    <2>1. k = f
      BY <1>5 DEF Shot, f
    <2> HIDE DEF k
    <2> QED BY <1>3, <1>4, <2>1 DEF Alive, k
  <1>6. CASE S # {}
    <2>1. c \in S
      BY <1>6
    <2>2. c \in Cells /\ g.occ[c] \in TankIds
      BY <1>1, <2>1, HitsAreTanks
    <2> HIDE DEF c
    <2> DEFINE h == g.occ[c]
    <2>3. k = Damaged(f, c)
      BY <1>6, Zenon DEF Shot, f, c
    <2> HIDE DEF k
    <2>4. Strikes(f, k, h)
      BY <1>4, <2>2, <2>3, DamageEffect
    <2>5. Sound(f) => Alive(f, h) /\ f.occ[f.tanks[h].pos] = h
      <3>1. Sound(f) => Alive(f, h) /\ f.tanks[h].pos = c
        BY <1>4, <2>2, Ids DEF Sound
      <3> QED BY <1>4, <3>1
    <2> HIDE DEF h
    <2>5a. h \in TankIds
      BY <2>2 DEF h
    <2>6. /\ Fit(k)
          /\ Sound(f) => Sound(k) /\ (Full(f) => Full(k))
          /\ \A u \in TankIds \ {h} : k.tanks[u] = f.tanks[u]
          /\ \A u \in TankIds : /\ k.tanks[u].owner = f.tanks[u].owner
                                /\ k.tanks[u].pos = f.tanks[u].pos
          /\ k.tanks[h].health = deal_damage(f.tanks[h].health, SHELL_DAMAGE)
      BY <1>3, <2>4, <2>5, <2>5a, StrikeKeeps
    <2>7. k.placed = g.placed
      BY <1>4, <2>4 DEF Strikes
    <2>8. (\A x \in S : g.tanks[g.occ[x]].owner # g.tanks[t].owner)
            => k.tanks[t].health = g.tanks[t].health
      BY <1>4, <2>1, <2>6 DEF h
    <2>9. \A u \in TankIds : Alive(k, u) => Alive(g, u)
      <3>1. g.tanks[h] \in Tank /\ g.tanks[h].health \in Nat
        BY <1>4a, <2>5a DEF Tank
      <3>2. Alive(k, h) => Alive(g, h)
        BY <1>4, <2>5a, <2>6, <3>1 DEF Alive, deal_damage, SHELL_DAMAGE
      <3> QED BY <1>4, <2>6, <3>2 DEF Alive
    <2>10. \A x \in Cells : k.occ[x] = g.occ[x] \/ k.occ[x] = NO_OCCUPANT
      BY <1>4, <1>4a, <2>4 DEF Strikes
    <2>11. ASSUME Sound(g), NEW u \in TankIds, Alive(k, u), g.occ[g.tanks[u].pos] = u
           PROVE  k.occ[k.tanks[u].pos] = u
      <3>1. CASE k.occ = f.occ
        BY <1>4, <2>6, <2>11, <3>1
      <3>2. CASE k.occ # f.occ
        <4>1. /\ deal_damage(f.tanks[h].health, SHELL_DAMAGE) = 0
              /\ k.occ = [f.occ EXCEPT ![f.tanks[h].pos] = NO_OCCUPANT]
          BY <2>4, <3>2 DEF Strikes
        <4>2. u # h
          BY <2>6, <2>11, <4>1 DEF Alive
        <4>3. f.occ[f.tanks[h].pos] = h
          BY <1>3, <2>5, <2>11
        <4>4. g.tanks[u].pos # f.tanks[h].pos
          BY <1>4, <2>11, <4>2, <4>3
        <4>5. g.tanks[u].pos \in Cells
          <5>1. g.tanks[u] # NoTank
            BY <2>9, <2>11 DEF Alive, NoTank
          <5> QED BY <2>11, <5>1 DEF Sound, Fit, Open
        <4> QED BY <1>4, <1>4a, <2>6, <2>11, <4>1, <4>4, <4>5
      <3> QED BY <3>1, <3>2
    <2> QED BY <1>3, <1>4, <2>6, <2>7, <2>8, <2>9, <2>10, <2>11 DEF k
  <1> QED BY <1>5, <1>6

LEMMA ShotsFired ==
    ASSUME NEW g, NEW t
    PROVE  /\ fire_tank(g, t) = Shot(g, t, {c \in ShellHit(g, t) :
                                    g.tanks[g.occ[c]].owner # g.tanks[t].owner})
           /\ replay_fire_tank(g, t) =
                [hits |-> ShellHit(g, t), game |-> Shot(g, t, ShellHit(g, t))]
  BY Zenon DEF fire_tank, replay_fire_tank, Shot

-----------------------------------------------------------------------------
(* Commands.                                                               *)

Target(cmd) == <<cmd.first, cmd.second>>

\* What both sides make sure of before they carry out a command.
Allowed(g, cmd) ==
    IF cmd.type = "Place"
    THEN Target(cmd) \in Open /\ cmd.tank_id \in Dirs /\ g.placed[cmd.sender] < NumTanks
    ELSE TankOK(g, cmd)

\* A placement is on a free cell.
OnFree(g, cmd) == cmd.type = "Place" => g.occ[Target(cmd)] = NO_OCCUPANT

\* Every living tank is the occupant of its cell, except where a tank of a player who
\* is not in A has its last position.
Covered(g, A) ==
    \A t \in TankIds : Alive(g, t) =>
        \/ g.occ[g.tanks[t].pos] = t
        \/ \E u \in TankIds : /\ g.tanks[u].pos = g.tanks[t].pos
                              /\ g.tanks[u].owner \in PlayerIds \ A

LEMMA Commander ==
    ASSUME NEW g, NEW cmd \in Command, TankOK(g, cmd)
    PROVE  /\ cmd.tank_id \in TankIds /\ Alive(g, cmd.tank_id)
           /\ g.tanks[cmd.tank_id].owner = cmd.sender /\ cmd.sender \in PlayerIds
           /\ cmd.first \in Nat
  BY Ids DEF Command, TankOK, TankIds

LEMMA PlaceCovers ==
    ASSUME NEW g, Sound(g), NEW pos \in Open, NEW p \in PlayerIds, NEW dir \in Dirs,
           g.placed[p] < NumTanks, g.occ[pos] = NO_OCCUPANT, NEW A, Covered(g, A)
    PROVE  Covered(place_tank(g, pos, p, dir), A)
  <1> DEFINE k == place_tank(g, pos, p, dir)
             s == Slot(p, g.placed[p])
             T == NewTank(pos, p, dir)
  <1>0. Adds(g, k, s, T)
    BY PlaceEffect DEF Sound
  <1>2. T.pos = pos
    BY DEF NewTank
  <1> HIDE DEF k, s, T
  <1>3. /\ g.tanks \in [TankIds -> Tank] /\ pos \in Cells
        /\ g.occ \in [Cells -> TankIds \cup {NO_OCCUPANT}]
    BY DEF Sound, Fit, Game, Open
  <1>4. /\ k.tanks[s] = T /\ \A t \in TankIds \ {s} : k.tanks[t] = g.tanks[t]
        /\ k.occ[pos] = s /\ \A c \in Cells \ {pos} : k.occ[c] = g.occ[c]
        /\ s \in TankIds
    BY <1>0, <1>2, <1>3 DEF Adds
  <1>5. g.tanks[s] = NoTank /\ g.tanks[s].owner \notin PlayerIds
    <2>1. g.tanks[s] = NoTank
      BY <1>0 DEF Sound, Adds
    <2>2. NoTank.owner = NO_OWNER
      BY DEF NoTank
    <2> QED BY <2>1, <2>2, Ids
  <1> SUFFICES ASSUME NEW t \in TankIds, Alive(k, t), t # s
               PROVE  \/ k.occ[k.tanks[t].pos] = t
                      \/ \E u \in TankIds : /\ k.tanks[u].pos = k.tanks[t].pos
                                            /\ k.tanks[u].owner \in PlayerIds \ A
    BY <1>2, <1>4 DEF Covered, k
  <1>6. k.tanks[t] = g.tanks[t] /\ Alive(g, t)
    BY <1>4 DEF Alive
  <1>7. g.tanks[t].pos \in Cells
    <2>1. g.tanks[t] # NoTank
      BY <1>6 DEF Alive, NoTank
    <2> QED BY <2>1 DEF Sound, Fit, Open
  <1>8. CASE g.occ[g.tanks[t].pos] = t
    BY <1>4, <1>6, <1>7, <1>8, Ids
  <1>9. ASSUME NEW u \in TankIds, g.tanks[u].pos = g.tanks[t].pos,
               g.tanks[u].owner \in PlayerIds \ A
        PROVE  k.tanks[u].pos = k.tanks[t].pos /\ k.tanks[u].owner \in PlayerIds \ A
    BY <1>4, <1>5, <1>6, <1>9
  <1> QED BY <1>6, <1>8, <1>9 DEF Covered

LEMMA MoveCovers ==
    ASSUME NEW g, NEW k, NEW t \in TankIds, NEW to \in Open,
           Sound(g), Moves(g, k, t, to), g.occ[to] = NO_OCCUPANT, Alive(g, t),
           NEW A, g.tanks[t].owner \in A, Covered(g, A)
    PROVE  Covered(k, A)
  <1> DEFINE prev == g.tanks[t].pos
  <1>1. /\ k.occ[to] = t /\ k.tanks[t].pos = to
        /\ \A u \in TankIds \ {t} : k.tanks[u] = g.tanks[u]
        /\ \A c \in Cells \ {prev, to} : k.occ[c] = g.occ[c]
    BY MoveKeeps DEF Sound
  <1>2. ASSUME NEW v \in TankIds, NEW u \in TankIds, g.tanks[u].pos = g.tanks[v].pos,
               g.tanks[u].owner \in PlayerIds \ A, v # t
        PROVE  u # t /\ k.tanks[u].pos = k.tanks[v].pos /\ k.tanks[u].owner \in PlayerIds \ A
    BY <1>1, <1>2
  <1> SUFFICES ASSUME NEW v \in TankIds, Alive(k, v), v # t
               PROVE  \/ k.occ[k.tanks[v].pos] = v
                      \/ \E u \in TankIds : /\ k.tanks[u].pos = k.tanks[v].pos
                                            /\ k.tanks[u].owner \in PlayerIds \ A
    BY <1>1 DEF Covered
  <1>3. k.tanks[v] = g.tanks[v] /\ Alive(g, v)
    BY <1>1 DEF Alive
  <1>4. g.tanks[v].pos \in Cells
    <2>1. g.tanks[v] # NoTank
      BY <1>3 DEF Alive, NoTank
    <2> QED BY <2>1 DEF Sound, Fit, Open
  <1>5. CASE g.occ[g.tanks[v].pos] = v /\ g.tanks[v].pos # prev
    BY <1>1, <1>3, <1>4, <1>5, Ids
  <1>6. CASE g.occ[g.tanks[v].pos] = v /\ g.tanks[v].pos = prev
    <2>1. PICK u \in TankIds : g.tanks[u].pos = g.tanks[t].pos /\ g.tanks[u].owner \in PlayerIds \ A
      BY <1>6 DEF Covered
    <2> QED BY <1>2, <1>6, <2>1
  <1> QED BY <1>2, <1>3, <1>5, <1>6 DEF Covered

LEMMA AlikeCovers ==
    ASSUME NEW g, NEW k, Alike(g, k), NEW A, Covered(g, A)
    PROVE  Covered(k, A)
  BY DEF Alike, Covered, Alive

LEMMA ShotCovers ==
    ASSUME NEW g, Sound(g), NEW t \in TankIds, g.tanks[t].owner \in PlayerIds,
           NEW S \in SUBSET ShellHit(g, t), NEW A, Covered(g, A)
    PROVE  Covered(Shot(g, t, S), A)
  <1> DEFINE k == Shot(g, t, S)
  <1>1. /\ \A u \in TankIds : /\ k.tanks[u].owner = g.tanks[u].owner
                              /\ k.tanks[u].pos = g.tanks[u].pos
        /\ \A u \in TankIds : Alive(k, u) => Alive(g, u)
        /\ \A u \in TankIds : Alive(k, u) /\ g.occ[g.tanks[u].pos] = u
                            => k.occ[k.tanks[u].pos] = u
    BY ShotKeeps DEF Sound
  <1> HIDE DEF k
  <1>2. Covered(k, A)
    <2> SUFFICES ASSUME NEW u \in TankIds, Alive(k, u)
                 PROVE  \/ k.occ[k.tanks[u].pos] = u
                        \/ \E v \in TankIds : /\ k.tanks[v].pos = k.tanks[u].pos
                                              /\ k.tanks[v].owner \in PlayerIds \ A
      BY DEF Covered
    <2>1. CASE g.occ[g.tanks[u].pos] = u
      BY <1>1, <2>1
    <2>2. CASE g.occ[g.tanks[u].pos] # u
      <3>1. PICK v \in TankIds : g.tanks[v].pos = g.tanks[u].pos /\ g.tanks[v].owner \in PlayerIds \ A
        BY <1>1, <2>2 DEF Covered
      <3> QED BY <1>1, <3>1
    <2> QED BY <2>1, <2>2
  <1> QED BY <1>2 DEF k

\* How a command changes a board: it counts, it keeps the board in order, and whoever
\* commands a tank keeps it.
Obeys(g, k, cmd) ==
    /\ Fit(k)
    /\ k.placed = IF cmd.type = "Place" THEN [g.placed EXCEPT ![cmd.sender] = @ + 1]
                  ELSE g.placed
    /\ Sound(g) /\ OnFree(g, cmd) =>
         /\ Sound(k)
         /\ Full(g) => Full(k)
         /\ \A A : cmd.sender \in A /\ Covered(g, A) => Covered(k, A)

LEMMA PlaceObeys ==
    ASSUME NEW g, Fit(g), NEW cmd \in Command, Allowed(g, cmd), cmd.type = "Place"
    PROVE  Obeys(g, place_tank(g, Target(cmd), cmd.sender, cmd.tank_id), cmd)
  <1> DEFINE k == place_tank(g, Target(cmd), cmd.sender, cmd.tank_id)
  <1>1. /\ Target(cmd) \in Open /\ cmd.tank_id \in Dirs /\ g.placed[cmd.sender] < NumTanks
        /\ cmd.sender \in PlayerIds
    BY DEF Allowed, Command
  <1>2. /\ Fit(k)
        /\ Sound(g) /\ g.occ[Target(cmd)] = NO_OCCUPANT => Sound(k)
        /\ Sound(g) /\ Full(g) /\ g.occ[Target(cmd)] = NO_OCCUPANT => Full(k)
    BY <1>1, PlaceKeeps, Zenon
  <1>3. k.placed = [g.placed EXCEPT ![cmd.sender] = @ + 1]
    BY DEF place_tank
  <1>4. ASSUME Sound(g), OnFree(g, cmd), NEW A, Covered(g, A) PROVE Covered(k, A)
    <2>1. g.occ[Target(cmd)] = NO_OCCUPANT
      BY <1>4 DEF OnFree
    <2> QED BY <1>1, <1>4, <2>1, PlaceCovers
  <1> HIDE DEF k
  <1>5. Obeys(g, k, cmd)
    BY <1>2, <1>3, <1>4 DEF Obeys, OnFree
  <1> QED BY <1>5 DEF k

LEMMA AlikeObeys ==
    ASSUME NEW g, Fit(g), NEW cmd \in Command, cmd.type # "Place", NEW k, Alike(g, k)
    PROVE  Obeys(g, k, cmd)
  BY AlikeKeeps, AlikeCovers DEF Obeys, Alike

LEMMA MoveObeys ==
    ASSUME NEW g, Fit(g), NEW cmd \in Command, TankOK(g, cmd), cmd.type # "Place",
           NEW reverse \in BOOLEAN
    PROVE  LET k == move_tank(g, cmd.tank_id, reverse).game
               t == cmd.tank_id
           IN  /\ Obeys(g, k, cmd)
               /\ k.tanks[t].health = g.tanks[t].health
               /\ k.tanks[t].owner = g.tanks[t].owner
  <1> DEFINE t == cmd.tank_id
             m == move_tank(g, t, reverse)
             to == Ahead(g, t, reverse)
  <1>1. t \in TankIds /\ Alive(g, t) /\ g.tanks[t].owner = cmd.sender /\ g \in Game
    BY Commander DEF Fit
  <1>2. \/ m.game = g
        \/ to \in Open /\ g.occ[to] = NO_OCCUPANT /\ Moves(g, m.game, t, to)
    BY <1>1, MoveEffect
  <1> HIDE DEF t, m, to
  <1>3. CASE m.game = g
    BY <1>1, <1>3 DEF Obeys, m, t
  <1>4. CASE to \in Open /\ g.occ[to] = NO_OCCUPANT /\ Moves(g, m.game, t, to)
    <2>1. /\ Fit(m.game)
          /\ Sound(g) => Sound(m.game)
          /\ Sound(g) /\ Full(g) => Full(m.game)
          /\ m.game.tanks[t].health = g.tanks[t].health
          /\ m.game.tanks[t].owner = g.tanks[t].owner
      <3> DEFINE k == m.game
      <3> HIDE DEF k
      <3>1. Moves(g, k, t, to) /\ to \in Open /\ g.occ[to] = NO_OCCUPANT
        BY <1>4 DEF k
      <3>2. /\ Fit(k)
            /\ Sound(g) => Sound(k)
            /\ Sound(g) /\ Full(g) => Full(k)
        BY <1>1, <3>1, MoveKeeps
      <3>3. /\ k.tanks[t].health = g.tanks[t].health
            /\ k.tanks[t].owner = g.tanks[t].owner
        BY <1>1, <3>1, MoveKeeps
      <3> QED BY <3>2, <3>3 DEF k
    <2>2. \A A : Sound(g) /\ cmd.sender \in A /\ Covered(g, A) => Covered(m.game, A)
      BY <1>1, <1>4, MoveCovers
    <2>3. m.game.placed = g.placed
      BY <1>4 DEF Moves
    <2> QED BY <2>1, <2>2, <2>3 DEF Obeys, m, t
  <1> QED BY <1>2, <1>3, <1>4

\* What the server, and the client, do to a board with a command.
LEMMA ServerObeys ==
    ASSUME NEW g, Fit(g), NEW cmd \in Command, Allowed(g, cmd)
    PROVE  LET k == apply_command(g, cmd)
               t == cmd.tank_id
           IN  /\ Obeys(g, k, cmd)
               /\ cmd.type # "Place" => /\ k.tanks[t].health = g.tanks[t].health
                                        /\ k.tanks[t].owner = g.tanks[t].owner
  <1> DEFINE t == cmd.tank_id
             k == apply_command(g, cmd)
             hits == {c \in ShellHit(g, t) : g.tanks[g.occ[c]].owner # g.tanks[t].owner}
  <1>1. cmd.type \in {"Move", "RotateTank", "RotateBarrel", "Fire", "Load", "Place"}
    BY DEF Command
  <1>2. cmd.type # "Place" =>
            /\ TankOK(g, cmd) /\ t \in TankIds /\ Alive(g, t) /\ g.tanks[t].owner = cmd.sender
            /\ cmd.sender \in PlayerIds /\ cmd.first \in Nat /\ g \in Game
    BY Commander DEF Allowed, Fit
  <1>3. CASE cmd.type = "Place"
    <2>1. k = place_tank(g, Target(cmd), cmd.sender, cmd.tank_id)
      BY <1>3 DEF apply_command, Target
    <2> QED BY <1>3, <2>1, PlaceObeys
  <1>4. CASE cmd.type = "Move"
    <2>1. k = move_tank(g, t, cmd.first # 0).game
      BY <1>4 DEF apply_command
    <2> QED BY <1>2, <1>4, <2>1, MoveObeys, ZenonT(40)
  <1>5. ASSUME cmd.type # "Place", Alike(g, k)
        PROVE  /\ Obeys(g, k, cmd)
               /\ k.tanks[t].health = g.tanks[t].health /\ k.tanks[t].owner = g.tanks[t].owner
    BY <1>2, <1>5, AlikeObeys DEF Alike
  <1>6. CASE cmd.type = "RotateTank"
    <2>1. k = rotate_tank(g, t, cmd.first)
      BY <1>6 DEF apply_command
    <2> HIDE DEF k
    <2>2. Alike(g, rotate_tank(g, t, cmd.first))
      BY <1>2, <1>6, SmallChanges
    <2>3. Alike(g, k)
      BY <2>1, <2>2
    <2> QED BY <1>5, <1>6, <2>3 DEF k
  <1>7. CASE cmd.type = "RotateBarrel"
    <2>1. k = rotate_tank_barrel(g, t, cmd.first)
      BY <1>7 DEF apply_command
    <2> HIDE DEF k
    <2>2. Alike(g, rotate_tank_barrel(g, t, cmd.first))
      BY <1>2, <1>7, SmallChanges
    <2>3. Alike(g, k)
      BY <2>1, <2>2
    <2> QED BY <1>5, <1>7, <2>3 DEF k
  <1>8. CASE cmd.type = "Load"
    <2>1. k = load_tank(g, t)
      BY <1>8 DEF apply_command
    <2> HIDE DEF k
    <2>2. Alike(g, load_tank(g, t))
      BY <1>2, <1>8, SmallChanges
    <2>3. Alike(g, k)
      BY <2>1, <2>2
    <2> QED BY <1>5, <1>8, <2>3 DEF k
  <1>9. CASE cmd.type = "Fire"
    <2>1. k = Shot(g, t, hits)
      BY <1>9, ShotsFired DEF apply_command
    <2> HIDE DEF k
    <2>2. hits \in SUBSET ShellHit(g, t)
      OBVIOUS
    <2>3. \A c \in hits : g.tanks[g.occ[c]].owner # g.tanks[t].owner
      OBVIOUS
    <2> HIDE DEF hits
    <2>4. /\ Fit(k) /\ (Sound(g) => Sound(k)) /\ (Sound(g) /\ Full(g) => Full(k))
          /\ k.placed = g.placed
          /\ k.tanks[t].owner = g.tanks[t].owner
          /\ k.tanks[t].health = g.tanks[t].health
      BY <1>2, <1>9, <2>1, <2>2, <2>3, ShotKeeps
    <2>5. \A A : Sound(g) /\ Covered(g, A) => Covered(k, A)
      BY <1>2, <1>9, <2>1, <2>2, ShotCovers
    <2> QED BY <1>9, <2>4, <2>5 DEF Obeys, k
  <1> QED BY <1>1, <1>3, <1>4, <1>6, <1>7, <1>8, <1>9

LEMMA ClientObeys ==
    ASSUME NEW g, Fit(g), NEW cmd \in Command, Allowed(g, cmd)
    PROVE  /\ Obeys(g, Forward(g, cmd).game, cmd)
           /\ Forward(g, cmd).hits \in SUBSET Cells
           /\ Forward(g, cmd).success \in BOOLEAN
  <1> DEFINE t == cmd.tank_id
             k == Forward(g, cmd).game
  <1>1. cmd.type \in {"Move", "RotateTank", "RotateBarrel", "Fire", "Load", "Place"}
    BY DEF Command
  <1>2. cmd.type # "Place" =>
            /\ TankOK(g, cmd) /\ t \in TankIds /\ Alive(g, t) /\ g.tanks[t].owner = cmd.sender
            /\ cmd.sender \in PlayerIds /\ cmd.first \in Nat /\ g \in Game
    BY Commander DEF Allowed, Fit
  <1>3. CASE cmd.type = "Place"
    <2>1. Forward(g, cmd) = Done(place_tank(g, Target(cmd), cmd.sender, cmd.tank_id))
      BY <1>3 DEF Forward, Target
    <2> QED BY <1>3, <2>1, PlaceObeys DEF Done
  <1>4. CASE cmd.type = "Move"
    <2>1. /\ k = move_tank(g, t, cmd.first # 0).game
          /\ Forward(g, cmd).hits = {}
          /\ Forward(g, cmd).success = move_tank(g, t, cmd.first # 0).ok
      BY <1>4 DEF Forward
    <2>2. move_tank(g, t, cmd.first # 0).ok \in BOOLEAN
      BY Zenon DEF move_tank
    <2> QED BY <1>2, <1>4, <2>1, <2>2, MoveObeys
  <1>5. CASE cmd.type = "RotateTank"
    <2>1. Forward(g, cmd) = Done(rotate_tank(g, t, cmd.first))
      BY <1>5 DEF Forward
    <2>2. Alike(g, rotate_tank(g, t, cmd.first))
      BY <1>2, <1>5, SmallChanges
    <2>3. Obeys(g, rotate_tank(g, t, cmd.first), cmd)
      BY <1>5, <2>2, AlikeObeys
    <2> QED BY <2>1, <2>3 DEF Done
  <1>6. CASE cmd.type = "RotateBarrel"
    <2>1. Forward(g, cmd) = Done(rotate_tank_barrel(g, t, cmd.first))
      BY <1>6 DEF Forward
    <2>2. Alike(g, rotate_tank_barrel(g, t, cmd.first))
      BY <1>2, <1>6, SmallChanges
    <2>3. Obeys(g, rotate_tank_barrel(g, t, cmd.first), cmd)
      BY <1>6, <2>2, AlikeObeys
    <2> QED BY <2>1, <2>3 DEF Done
  <1>7. CASE cmd.type = "Load"
    <2>1. Forward(g, cmd) = Done(load_tank(g, t))
      BY <1>7 DEF Forward
    <2>2. Alike(g, load_tank(g, t))
      BY <1>2, <1>7, SmallChanges
    <2>3. Obeys(g, load_tank(g, t), cmd)
      BY <1>7, <2>2, AlikeObeys
    <2> QED BY <2>1, <2>3 DEF Done
  <1>8. CASE cmd.type = "Fire"
    <2>1. /\ k = Shot(g, t, ShellHit(g, t))
          /\ Forward(g, cmd).hits = ShellHit(g, t)
          /\ Forward(g, cmd).success \in BOOLEAN
      <3> DEFINE f == replay_fire_tank(g, t)
      <3>1. f = [hits |-> ShellHit(g, t), game |-> Shot(g, t, ShellHit(g, t))]
        BY ShotsFired
      <3>2. Forward(g, cmd) = [game |-> f.game, success |-> f.hits # {}, hits |-> f.hits]
        BY <1>8 DEF Forward
      <3> HIDE DEF f
      <3>3. f.game = Shot(g, t, ShellHit(g, t)) /\ f.hits = ShellHit(g, t)
        BY <3>1
      <3> QED BY <3>2, <3>3
    <2> HIDE DEF k
    <2>2. ShellHit(g, t) \in SUBSET Cells
      BY <1>2, <1>8, HitsAreTanks
    <2>3. /\ Fit(k) /\ (Sound(g) => Sound(k)) /\ (Sound(g) /\ Full(g) => Full(k))
          /\ k.placed = g.placed
      BY <1>2, <1>8, <2>1, ShotKeeps
    <2>4. \A A : Sound(g) /\ Covered(g, A) => Covered(k, A)
      BY <1>2, <1>8, <2>1, ShotCovers
    <2> QED BY <1>8, <2>1, <2>2, <2>3, <2>4 DEF Obeys, k
  <1> QED BY <1>1, <1>3, <1>4, <1>5, <1>6, <1>7, <1>8

-----------------------------------------------------------------------------
(* Turns.                                                                  *)

LEMMA Modulo ==
    ASSUME NEW n \in Nat \ {0}, NEW a \in 0 .. n - 1
    PROVE  /\ a % n = a /\ (a + n) % n = a
           /\ \A b \in Nat : b % n \in 0 .. n - 1
  OBVIOUS

Turn == [state : {"Setup", "Play", "Concluded"}, player : PlayerIds, fuel : 1 .. 3]
FirstTurn == [state |-> "Setup", player |-> 0, fuel |-> TURN_PLAYER_FUEL]

LEMMA TurnMembers ==
    ASSUME NEW t \in Turn, NEW p \in PlayerIds
    PROVE  LET u == [t EXCEPT !.player = p, !.fuel = TURN_PLAYER_FUEL] IN
           u \in Turn /\ u.state = t.state /\ u.fuel = TURN_PLAYER_FUEL
  <1>1. TURN_PLAYER_FUEL \in 1 .. 3
    BY DEF TURN_PLAYER_FUEL
  <1> QED BY <1>1 DEF Turn

\* The first living player from p on.
LEMMA SomebodyIsNext ==
    ASSUME NEW live \in SUBSET PlayerIds, live # {}, NEW p \in PlayerIds
    PROVE  LET ahead == {i \in 0 .. NumPlayers - 1 : (p + i) % NumPlayers \in live}
           IN  /\ (p + Min(ahead)) % NumPlayers \in live
               /\ p \in live => (p + Min(ahead)) % NumPlayers = p
  <1> DEFINE N == NumPlayers
             ahead == {i \in 0 .. N - 1 : (p + i) % N \in live}
  <1>1. N \in Nat \ {0} /\ p \in 0 .. N - 1
    BY Ids DEF PlayerIds
  <1> HIDE DEF N
  <1>2. PICK q \in live : q \in 0 .. N - 1
    BY DEF PlayerIds, N
  <1> DEFINE i == IF q >= p THEN q - p ELSE q - p + N
  <1>3. i \in 0 .. N - 1 /\ (p + i = q \/ p + i = q + N)
    BY <1>1, <1>2
  <1>4. (p + i) % N = q
    BY <1>1, <1>2, <1>3, Modulo
  <1> HIDE DEF i
  <1>5. ahead # {} /\ ahead \subseteq Nat
    BY <1>2, <1>3, <1>4
  <1> HIDE DEF ahead
  <1>6. Min(ahead) \in ahead /\ \A y \in ahead : Min(ahead) <= y
    BY <1>5, MinMember
  <1>7. (p + Min(ahead)) % N \in live
    BY <1>6 DEF ahead
  <1>8. ASSUME p \in live PROVE (p + Min(ahead)) % N = p
    <2>1. p % N = p /\ p + 0 = p
      BY <1>1, Modulo
    <2>2. 0 \in ahead
      BY <1>1, <1>8, <2>1 DEF ahead
    <2>3. Min(ahead) \in Nat /\ Min(ahead) <= 0
      BY <1>5, <1>6, <2>2
    <2>4. Min(ahead) = 0
      BY <2>3
    <2> QED BY <2>1, <2>4
  <1> QED BY <1>7, <1>8 DEF ahead, N

LEMMA NextIsPlayer == \A p \in PlayerIds : NextPlayer(p) \in PlayerIds
  <1> SUFFICES ASSUME NEW p \in PlayerIds PROVE NextPlayer(p) \in PlayerIds
    OBVIOUS
  <1>1. NumPlayers \in Nat \ {0} /\ p + 1 \in Nat
    BY Ids
  <1>2. (p + 1) % NumPlayers \in 0 .. NumPlayers - 1
    BY <1>1, Modulo, Ids DEF PlayerIds
  <1> QED BY <1>2 DEF NextPlayer, PlayerIds

LEMMA StartTurn ==
    ASSUME NEW g, NEW t \in Turn, t.state \in {"Setup", "Play"},
           NEW live \in SUBSET PlayerIds
    PROVE  LET u == start_turn(g, t, live) IN
           /\ u \in Turn
           /\ u.state # "Concluded" => u.player \in live
           /\ t.state = "Setup" => /\ u.state = "Setup" => u.fuel = t.fuel
                                   /\ u.state = "Play" => u.fuel = TURN_PLAYER_FUEL
           /\ t.state = "Play" => /\ u.state # "Setup" /\ u.fuel = t.fuel
                                  /\ u.state # "Concluded" /\ t.player \in live
                                        => u.player = t.player
  <1> DEFINE placed == {s \in PlayerIds \X (0 .. NumTanks - 1) :
                          s[1] \in live /\ s[2] < g.placed[s[1]]}
             over == /\ t.state = "Setup"
                     /\ Cardinality(placed) >= Cardinality(live) * NumTanks
             v == IF over THEN [state |-> "Play", player |-> 0,
                                fuel |-> TURN_PLAYER_FUEL] ELSE t
             ahead == {i \in 0 .. NumPlayers - 1 : (v.player + i) % NumPlayers \in live}
             u == start_turn(g, t, live)
  <1>1. u = IF Cardinality(live) <= 1 THEN [v EXCEPT !.state = "Concluded"]
            ELSE [v EXCEPT !.player = (v.player + Min(ahead)) % NumPlayers]
    BY Zenon DEF start_turn
  <1>2. v \in Turn /\ v.player \in PlayerIds
    BY Ids DEF Turn, TURN_PLAYER_FUEL
  <1>3. /\ t.state = "Setup" /\ v.state = "Setup" => v = t
        /\ v.state = "Play" /\ t.state = "Setup" => v.fuel = TURN_PLAYER_FUEL
        /\ t.state = "Play" => v = t
        /\ v.state \in {"Setup", "Play"}
    OBVIOUS
  <1> HIDE DEF v, u
  <1>4. CASE Cardinality(live) <= 1
    <2>1. u = [v EXCEPT !.state = "Concluded"]
      BY <1>1, <1>4
    <2> QED BY <1>2, <1>3, <2>1 DEF Turn, u
  <1>5. CASE ~(Cardinality(live) <= 1)
    <2>1. live # {}
      BY <1>5, FS_EmptySet
    <2>2. /\ (v.player + Min(ahead)) % NumPlayers \in live
          /\ v.player \in live => (v.player + Min(ahead)) % NumPlayers = v.player
      BY <1>2, <2>1, SomebodyIsNext
    <2> HIDE DEF ahead
    <2>3. u = [v EXCEPT !.player = (v.player + Min(ahead)) % NumPlayers]
      BY <1>1, <1>5
    <2> QED BY <1>2, <1>3, <2>2, <2>3 DEF Turn, u
  <1> QED BY <1>4, <1>5

-----------------------------------------------------------------------------
(* The match.                                                              *)

MatchTypes ==
    /\ moves \in Seq(Command)
    /\ boards \in Seq([game : Game, turn : Turn])
    /\ Len(boards) = Len(moves)
    /\ Len(moves) <= MaxMoves + NumPlayers * NumTanks
    /\ turn \in Turn
    /\ alive \in SUBSET PlayerIds
    /\ stored \in BOOLEAN
    /\ dropped \in Nat /\ (dropped = NEVER \/ dropped <= Len(moves))

\* While the match goes on it is the turn of a player who is in it; the board is in
\* order but for the wrecks of those who are not.
OnBoard ==
    /\ Sound(game)
    /\ Covered(game, alive)
    /\ turn.state # "Concluded" => turn.player \in alive /\ ~stored
    /\ turn.state = "Setup" => turn.fuel = TURN_PLAYER_FUEL

\* The server's board and turn after i moves.
Board(b, i) == IF i = 0 THEN NewGame ELSE b[i].game
TurnAt(b, i) == IF i = 0 THEN FirstTurn ELSE b[i].turn

\* The tanks placed after a command.
Count(f, cmd) == IF cmd.type = "Place" THEN [f EXCEPT ![cmd.sender] = @ + 1] ELSE f

\* From turn s to turn u with a command.
Follows(s, cmd, u) ==
    /\ cmd.sender = s.player
    /\ s.state # "Concluded"
    /\ cmd.type = "Place" <=> s.state = "Setup"
    /\ s.state = "Setup" => /\ s.fuel = TURN_PLAYER_FUEL
                            /\ u.state # "Concluded" => u.fuel = TURN_PLAYER_FUEL
    /\ s.state = "Play" => /\ u.state # "Setup"
                           /\ u.fuel = IF s.fuel = 1 THEN TURN_PLAYER_FUEL ELSE s.fuel - 1
                           /\ s.fuel # 1 /\ u.state # "Concluded" => u.player = s.player

\* The boards follow from the moves, as long as nobody was eliminated.
Recorded ==
    /\ \A i \in 1 .. Len(moves) : Board(boards, i).placed = Count(Board(boards, i - 1).placed, moves[i])
    /\ \A i \in 1 .. Len(moves) : i <= dropped =>
            /\ Board(boards, i) = apply_command(Board(boards, i - 1), moves[i])
            /\ Follows(TurnAt(boards, i - 1), moves[i], TurnAt(boards, i))
    /\ ~stored => game.placed = Board(boards, Len(moves)).placed
    /\ ~stored /\ dropped = NEVER => game = Board(boards, Len(moves)) /\ turn = TurnAt(boards, Len(moves))

\* Placements come first, each on a cell of its player that no other has taken.
Sites ==
    /\ \A i \in 1 .. Len(moves) : moves[i].type = "Place" =>
            /\ Target(moves[i]) \in Open /\ moves[i].tank_id \in Dirs
            /\ Mask[Target(moves[i])] = moves[i].sender
    /\ \A i, j \in 1 .. Len(moves) : i < j /\ moves[j].type = "Place" =>
            moves[i].type = "Place" /\ Target(moves[i]) # Target(moves[j])
    /\ turn.state = "Setup" =>
         /\ \A i \in 1 .. Len(moves) :
              /\ moves[i].type = "Place"
              /\ moves[i].sender \in alive => game.occ[Target(moves[i])] # NO_OCCUPANT
         /\ \A p \in PlayerIds : \A t \in TanksOf(game, p) : Mask[game.tanks[t].pos] = p

MatchInv == MatchTypes /\ OnBoard /\ Recorded /\ Sites

-----------------------------------------------------------------------------
(* The replay.                                                             *)

Status == [success : BOOLEAN, hits : SUBSET Cells]

View == [state : {"Setup", "Play"}, player : PlayerIds, fuel : Int]

\* A replay that was not watched yet.
Fresh ==
    /\ inst = NewGame /\ shown = FirstTurn /\ applied = 0 /\ status = << >>
    /\ trail = <<[inst |-> NewGame, shown |-> FirstTurn]>> /\ backed = "no"
    /\ perspective \in PlayerIds \cup {NO_PLAYER}

\* What is shown is built from as many moves as have been applied.
ReplayTypes ==
    /\ applied \in 0 .. Len(moves)
    /\ Fit(inst) /\ inst.placed = Board(boards, applied).placed
    /\ shown \in View
    /\ status \in Seq(Status) /\ applied <= Len(status) /\ Len(status) <= Len(moves)
    /\ trail \in Seq([inst : Game, shown : View]) /\ Len(trail) = Len(status) + 1
    /\ perspective \in PlayerIds \cup {NO_PLAYER}
    /\ \A i \in 1 .. Len(status) :
            moves[i].type = "Fire" /\ status[i].success => status[i].hits # {}
    /\ ~stored => Fresh
    /\ backed = "no" => Len(status) = applied

\* The boards on the way forward.
Tracks ==
    /\ inst = trail[applied + 1].inst
    /\ \A i \in 1 .. Len(trail) :
         LET g == trail[i].inst IN
         /\ Sound(g) /\ Full(g) /\ g.placed = Board(boards, i - 1).placed
         /\ (i = 1 \/ moves[i - 1].type = "Place") =>
              \A c \in Cells : g.occ[c] # NO_OCCUPANT =>
                \E j \in 1 .. i - 1 : Target(moves[j]) = c
    /\ \A i \in 1 .. Len(status) :
         LET f == Forward(trail[i].inst, moves[i]) IN
         /\ ForwardValid(trail[i].inst, moves[i])
         /\ trail[i + 1].inst = f.game
         /\ status[i] = [success |-> f.success, hits |-> f.hits]
Trailed == backed # "inexact" => Tracks

\* The replay shows the match.
Shows ==
    (backed = "no" /\ \A i \in 1 .. applied : ~FriendlyHit(i)) =>
        /\ dropped >= applied => inst = Board(boards, applied)
        /\ dropped > applied /\ applied < Len(moves) => shown = TurnAt(boards, applied)

ReplayInv == ReplayTypes /\ Trailed /\ Shows

-----------------------------------------------------------------------------
(* Steps of the match.                                                     *)

LEMMA CoveredLess ==
    ASSUME NEW g, NEW A, NEW B \in SUBSET A, Covered(g, A)
    PROVE  Covered(g, B)
  <1> SUFFICES ASSUME NEW t \in TankIds, Alive(g, t), g.occ[g.tanks[t].pos] # t
               PROVE  \E u \in TankIds : /\ g.tanks[u].pos = g.tanks[t].pos
                                         /\ g.tanks[u].owner \in PlayerIds \ B
    BY DEF Covered
  <1>1. PICK u \in TankIds : g.tanks[u].pos = g.tanks[t].pos /\ g.tanks[u].owner \in PlayerIds \ A
    BY DEF Covered
  <1> QED BY <1>1

LEMMA OutEffect ==
    ASSUME NEW g, Sound(g), NEW p \in PlayerIds
    PROVE  LET k == OutOfPlay(g, p) IN
           /\ Sound(k) /\ k.placed = g.placed
           /\ \A t \in TankIds : k.tanks[t].pos = g.tanks[t].pos /\ k.tanks[t].owner = g.tanks[t].owner
           /\ \A A : Covered(g, A) => Covered(k, A \ {p})
           /\ \A c \in Cells : k.occ[c] = g.occ[c] \/ \E t \in TanksOf(g, p) : g.tanks[t].pos = c
  <1> DEFINE k == OutOfPlay(g, p)
             gone == TanksOf(g, p)
             T == [t \in TankIds |-> IF t \in gone THEN [g.tanks[t] EXCEPT !.health = 0]
                                     ELSE g.tanks[t]]
             O == [c \in Cells |-> IF \E t \in gone : g.tanks[t].pos = c
                                   THEN NO_OCCUPANT ELSE g.occ[c]]
  <1>1. /\ g \in Game
        /\ g.tanks \in [TankIds -> Tank] /\ g.placed \in [PlayerIds -> 0 .. NumTanks]
        /\ g.occ \in [Cells -> TankIds \cup {NO_OCCUPANT}]
        /\ g = [occ |-> g.occ, tanks |-> g.tanks, placed |-> g.placed]
    BY DEF Game, Fit, Sound
  <1>2. k = [g EXCEPT !.tanks = T, !.occ = O]
    BY Zenon DEF OutOfPlay
  <1>3. gone \subseteq TankIds /\ \A t \in gone : g.tanks[t].owner = p /\ g.tanks[t].pos \in Open
    BY <1>1, ListIsSlots DEF Sound, Fit
  <1> HIDE DEF gone, k
  <1>4. \A t \in TankIds : /\ T[t] \in Tank
                           /\ T[t].pos = g.tanks[t].pos /\ T[t].owner = g.tanks[t].owner
                           /\ t \in gone => T[t].health = 0
                           /\ t \notin gone => T[t] = g.tanks[t]
    <2> SUFFICES ASSUME NEW t \in TankIds
                 PROVE  /\ T[t] \in Tank
                        /\ T[t].pos = g.tanks[t].pos /\ T[t].owner = g.tanks[t].owner
                        /\ t \in gone => T[t].health = 0
                        /\ t \notin gone => T[t] = g.tanks[t]
      OBVIOUS
    <2>1. g.tanks[t] \in Tank
      BY <1>1
    <2> QED BY <2>1 DEF Tank
  <1>5. O \in [Cells -> TankIds \cup {NO_OCCUPANT}]
    BY <1>1
  <1>6. /\ \A c \in Cells : (\E t \in gone : g.tanks[t].pos = c) => O[c] = NO_OCCUPANT
        /\ \A c \in Cells : (\A t \in gone : g.tanks[t].pos # c) => O[c] = g.occ[c]
    OBVIOUS
  <1>6a. T \in [TankIds -> Tank]
    BY <1>4
  <1> HIDE DEF T, O
  <1>7. k = [occ |-> O, tanks |-> T, placed |-> g.placed]
    BY <1>1, <1>2
  <1>8. k \in Game /\ k.occ = O /\ k.tanks = T /\ k.placed = g.placed
    BY <1>1, <1>5, <1>6a, <1>7 DEF Game
  <1>9. \A q \in PlayerIds : TanksOf(k, q) = TanksOf(g, q)
    BY <1>8 DEF TanksOf
  <1>10. Fit(k)
    <2> SUFFICES ASSUME NEW q \in PlayerIds, NEW t \in TanksOf(k, q)
                 PROVE  k.tanks[t].owner = q /\ k.tanks[t].pos \in Open
      BY <1>8 DEF Fit
    <2>1. t \in TankIds /\ t \in TanksOf(g, q)
      BY <1>1, <1>9, ListIsSlots
    <2> QED BY <1>4, <1>8, <2>1 DEF Sound, Fit
  <1>11. Sound(k)
    <2>1. ASSUME NEW t \in TankIds
          PROVE  \/ k.tanks[t] = NoTank
                 \/ /\ k.tanks[t].owner \in PlayerIds
                    /\ t \in TanksOf(k, k.tanks[t].owner)
      <3>1. CASE t \in gone
        BY <1>3, <1>4, <1>8, <1>9, <3>1 DEF gone
      <3>2. CASE t \notin gone
        BY <1>4, <1>8, <1>9, <3>2 DEF Sound
      <3> QED BY <3>1, <3>2
    <2>2. ASSUME NEW c \in Cells, k.occ[c] # NO_OCCUPANT
          PROVE  Alive(k, k.occ[c]) /\ k.tanks[k.occ[c]].pos = c
      <3>1. \A t \in gone : g.tanks[t].pos # c
        BY <1>6, <1>8, <2>2
      <3>2. k.occ[c] = g.occ[c] /\ g.occ[c] \in TankIds
        BY <1>1, <1>6, <1>8, <2>2, <3>1
      <3>3. Alive(g, g.occ[c]) /\ g.tanks[g.occ[c]].pos = c
        BY <2>2, <3>2 DEF Sound
      <3>4. g.occ[c] \notin gone
        BY <3>1, <3>3
      <3> QED BY <1>4, <1>8, <3>2, <3>3, <3>4 DEF Alive
    <2> QED BY <1>10, <2>1, <2>2 DEF Sound
  <1>12. ASSUME NEW A, Covered(g, A) PROVE Covered(k, A \ {p})
    <2> SUFFICES ASSUME NEW t \in TankIds, Alive(k, t), k.occ[k.tanks[t].pos] # t
                 PROVE  \E u \in TankIds : /\ k.tanks[u].pos = k.tanks[t].pos
                                           /\ k.tanks[u].owner \in PlayerIds \ (A \ {p})
      BY DEF Covered
    <2>1. t \notin gone /\ k.tanks[t] = g.tanks[t] /\ Alive(g, t)
      BY <1>4, <1>8 DEF Alive
    <2>2. CASE \E u \in gone : g.tanks[u].pos = g.tanks[t].pos
      <3>1. PICK u \in gone : g.tanks[u].pos = g.tanks[t].pos
        BY <2>2
      <3>2. u \in TankIds /\ g.tanks[u].owner = p
        BY <1>3, <3>1
      <3> QED BY <1>4, <1>8, <2>1, <3>1, <3>2
    <2>3. CASE \A u \in gone : g.tanks[u].pos # g.tanks[t].pos
      <3>1. g.tanks[t].pos \in Cells
        <4>1. g.tanks[t] # NoTank
          BY <2>1 DEF Alive, NoTank
        <4> QED BY <4>1 DEF Sound, Fit, Open
      <3>2. k.occ[g.tanks[t].pos] = g.occ[g.tanks[t].pos]
        BY <1>6, <1>8, <2>3, <3>1
      <3>3. PICK u \in TankIds : g.tanks[u].pos = g.tanks[t].pos /\ g.tanks[u].owner \in PlayerIds \ A
        BY <1>12, <2>1, <3>2 DEF Covered
      <3> QED BY <1>4, <1>8, <2>1, <3>3
    <2> QED BY <2>2, <2>3
  <1> QED BY <1>4, <1>6, <1>8, <1>11, <1>12 DEF k, gone

LEMMA StillInLess ==
    ASSUME NEW g, NEW s, NEW A
    PROVE  StillIn(g, s, A) \in SUBSET A /\ (s = "Setup" => StillIn(g, s, A) = A)
  BY DEF StillIn

\* A player with a living tank is still in.
LEMMA StillInWithTank ==
    ASSUME NEW g, Sound(g), NEW s, NEW A, NEW p \in A, p \in PlayerIds,
           NEW t \in TankIds, Alive(g, t), g.tanks[t].owner = p
    PROVE  p \in StillIn(g, s, A)
  <1> DEFINE own == {u \in TanksOf(g, p) : Alive(g, u)}
  <1>1. compute_view(g, p).live = Cardinality(own)
    BY Zenon DEF compute_view
  <1>2. t \in own
    <2>1. g.tanks[t] # NoTank
      BY DEF Alive, NoTank
    <2> QED BY <2>1 DEF Sound
  <1>3. own \subseteq TankIds
    BY ListIsSlots DEF Sound, Fit
  <1>4. IsFiniteSet(own)
    BY <1>3, Ids, FS_Subset
  <1> HIDE DEF own
  <1>5. Cardinality(own) \in Nat /\ Cardinality(own) # 0
    BY <1>2, <1>4, FS_EmptySet, FS_CardinalityType
  <1>6. compute_view(g, p).live > 0
    BY <1>1, <1>5
  <1> QED BY <1>6 DEF StillIn

\* What an accepted command is, and what it leads to.
LEMMA PlayEffect ==
    ASSUME MatchTypes, OnBoard, NEW cmd \in Command, Play(cmd),
           cmd.type = "Place" => game.placed[turn.player] < NumTanks
    PROVE  /\ turn.state \in {"Setup", "Play"} /\ ~stored /\ cmd.sender \in alive
           /\ Allowed(game, cmd) /\ OnFree(game, cmd)
           /\ cmd.type = "Place" => Mask[Target(cmd)] = cmd.sender
           /\ Obeys(game, game', cmd)
           /\ alive' \in SUBSET alive /\ (turn.state = "Setup" => alive' = alive)
           /\ turn' \in Turn /\ (turn'.state # "Concluded" => turn'.player \in alive')
           /\ Follows(turn, cmd, turn')
  <1> DEFINE g == apply_command(game, cmd)
             live == StillIn(g, turn.state, alive)
             next == IF turn.state = "Setup" THEN [turn EXCEPT !.player = NextPlayer(@)]
                     ELSE IF turn.fuel = 1
                     THEN [turn EXCEPT !.player = NextPlayer(@), !.fuel = TURN_PLAYER_FUEL]
                     ELSE [turn EXCEPT !.fuel = @ - 1]
  <1>1. /\ turn.state \in {"Setup", "Play"} /\ cmd.sender = turn.player
        /\ valid_move(game, turn.state, cmd)
        /\ game' = g /\ alive' = live /\ turn' = start_turn(g, next, live)
    BY Zenon DEF Play
  <1>2. turn \in Turn /\ alive \in SUBSET PlayerIds /\ Sound(game) /\ Fit(game)
    BY DEF MatchTypes, OnBoard, Sound
  <1>3. ~stored /\ cmd.sender \in alive /\ cmd.sender \in PlayerIds
    BY <1>1 DEF OnBoard, Command
  <1>4. cmd.type = "Place" <=> turn.state = "Setup"
    BY <1>1 DEF valid_move
  <1>5. ASSUME cmd.type = "Place" PROVE Allowed(game, cmd) /\ OnFree(game, cmd)
    <2>1. /\ Target(cmd) \in Cells /\ check_placement(game, Target(cmd), cmd.sender)
          /\ cmd.tank_id < 8 /\ cmd.tank_id \in Nat
      BY <1>1, <1>5 DEF valid_move, Target, Command
    <2> QED BY <1>1, <1>5, <2>1 DEF Allowed, OnFree, check_placement, Open, Dirs
  <1>6. ASSUME cmd.type # "Place" PROVE Allowed(game, cmd) /\ OnFree(game, cmd)
    <2>1. TankOK(game, cmd)
      BY <1>1, <1>6 DEF valid_move, Command
    <2> QED BY <1>6, <2>1 DEF Allowed, OnFree
  <1>7. /\ Allowed(game, cmd) /\ OnFree(game, cmd)
        /\ cmd.type = "Place" => Mask[Target(cmd)] = cmd.sender
    <2>1. cmd.type = "Place" => check_placement(game, Target(cmd), cmd.sender)
      BY <1>1 DEF valid_move, Target
    <2> QED BY <1>5, <1>6, <2>1 DEF check_placement
  <1>8. /\ Obeys(game, g, cmd)
        /\ cmd.type # "Place" => /\ g.tanks[cmd.tank_id].health = game.tanks[cmd.tank_id].health
                                 /\ g.tanks[cmd.tank_id].owner = game.tanks[cmd.tank_id].owner
    BY <1>2, <1>7, ServerObeys
  <1> HIDE DEF g
  <1>9. Sound(g)
    BY <1>2, <1>7, <1>8 DEF Obeys
  <1>10. live \in SUBSET alive /\ (turn.state = "Setup" => live = alive)
    BY StillInLess
  <1>11. next \in Turn /\ next.state = turn.state
    <2> DEFINE n == NextPlayer(turn.player)
    <2>1. /\ turn.player \in PlayerIds /\ turn.fuel \in 1 .. 3
          /\ turn = [state |-> turn.state, player |-> turn.player, fuel |-> turn.fuel]
      BY <1>2 DEF Turn
    <2>2. n \in PlayerIds
      BY <2>1, NextIsPlayer
    <2> HIDE DEF n
    <2>3. \/ next = [state |-> turn.state, player |-> n, fuel |-> turn.fuel]
          \/ next = [state |-> turn.state, player |-> n, fuel |-> TURN_PLAYER_FUEL]
          \/ /\ next = [state |-> turn.state, player |-> turn.player, fuel |-> turn.fuel - 1]
             /\ turn.fuel # 1
      BY <2>1 DEF n
    <2> HIDE DEF next
    <2> QED BY <1>1, <2>1, <2>2, <2>3 DEF Turn, TURN_PLAYER_FUEL
  <1>12. /\ turn.state = "Setup" => next.fuel = turn.fuel
         /\ turn.state = "Play" => next.fuel = IF turn.fuel = 1 THEN TURN_PLAYER_FUEL
                                               ELSE turn.fuel - 1
         /\ turn.state = "Play" /\ turn.fuel # 1 => next.player = turn.player
    BY <1>2 DEF Turn
  <1>13. turn.state = "Play" => turn.player \in live
    <2> SUFFICES ASSUME turn.state = "Play" PROVE turn.player \in live
      OBVIOUS
    <2>1. TankOK(game, cmd)
      BY <1>4, <1>7 DEF Allowed
    <2>2. /\ cmd.tank_id \in TankIds /\ Alive(game, cmd.tank_id)
          /\ game.tanks[cmd.tank_id].owner = cmd.sender
      BY <2>1, Commander
    <2>3. Alive(g, cmd.tank_id) /\ g.tanks[cmd.tank_id].owner = cmd.sender
      BY <1>4, <1>8, <2>2 DEF Alive
    <2> QED BY <1>1, <1>3, <1>9, <2>2, <2>3, StillInWithTank
  <1> HIDE DEF live, next
  <1>14. live \in SUBSET PlayerIds
    BY <1>2, <1>10
  <1> DEFINE u == start_turn(g, next, live)
  <1>15. /\ u \in Turn
         /\ u.state # "Concluded" => u.player \in live
         /\ next.state = "Setup" => /\ u.state = "Setup" => u.fuel = next.fuel
                                    /\ u.state = "Play" => u.fuel = TURN_PLAYER_FUEL
         /\ next.state = "Play" => /\ u.state # "Setup" /\ u.fuel = next.fuel
                                   /\ u.state # "Concluded" /\ next.player \in live
                                        => u.player = next.player
    BY <1>1, <1>11, <1>14, StartTurn
  <1> HIDE DEF u
  <1>16. turn.state = "Setup" => turn.fuel = TURN_PLAYER_FUEL
    BY DEF OnBoard
  <1>17. u.state \in {"Setup", "Play", "Concluded"}
    BY <1>15 DEF Turn
  <1>18. Follows(turn, cmd, u)
    BY <1>1, <1>4, <1>11, <1>12, <1>13, <1>15, <1>16, <1>17 DEF Follows
  <1> QED BY <1>1, <1>3, <1>7, <1>8, <1>10, <1>15, <1>18 DEF u

LEMMA Appended ==
    ASSUME NEW S, NEW q \in Seq(S), NEW x \in S
    PROVE  /\ Append(q, x) \in Seq(S)
           /\ Len(q) \in Nat /\ Len(Append(q, x)) = Len(q) + 1
           /\ Append(q, x)[Len(q) + 1] = x
           /\ \A i \in 1 .. Len(q) : Append(q, x)[i] = q[i]
  BY AppendProperties

\* The history after an accepted command: the old one and one more board.
LEMMA PlayHistory ==
    ASSUME MatchTypes, NEW cmd \in Command, Play(cmd), Fit(game'), turn' \in Turn
    PROVE  /\ MatchTypes'
           /\ Len(moves) \in Nat /\ Len(moves') = Len(moves) + 1
           /\ \A i \in 1 .. Len(moves) : moves'[i] = moves[i]
           /\ moves'[Len(moves) + 1] = cmd
           /\ \A i \in 0 .. Len(moves) :
                Board(boards', i) = Board(boards, i) /\ TurnAt(boards', i) = TurnAt(boards, i)
           /\ Board(boards', Len(moves) + 1) = game' /\ TurnAt(boards', Len(moves) + 1) = turn'
           /\ UNCHANGED <<dropped, stored>>
  <1> DEFINE b == [game |-> game', turn |-> turn']
             B == [game : Game, turn : Turn]
  <1>1. /\ moves' = Append(moves, cmd) /\ boards' = Append(boards, b)
        /\ Len(moves) < MaxMoves + NumPlayers * NumTanks
        /\ alive' = StillIn(game', turn.state, alive)
        /\ UNCHANGED <<dropped, stored>>
    BY Zenon DEF Play, replay
  <1>2. b \in B
    BY DEF Fit
  <1>3. /\ moves \in Seq(Command) /\ boards \in Seq(B) /\ Len(boards) = Len(moves)
        /\ alive \in SUBSET PlayerIds /\ stored \in BOOLEAN
        /\ dropped \in Nat /\ (dropped = NEVER \/ dropped <= Len(moves))
    BY DEF MatchTypes
  <1> HIDE DEF B
  <1>4. /\ moves' \in Seq(Command) /\ Len(moves) \in Nat /\ Len(moves') = Len(moves) + 1
        /\ moves'[Len(moves) + 1] = cmd
        /\ \A i \in 1 .. Len(moves) : moves'[i] = moves[i]
    BY <1>1, <1>3, Appended
  <1>5. /\ boards' \in Seq(B) /\ Len(boards') = Len(boards) + 1
        /\ boards'[Len(boards) + 1] = b
        /\ \A i \in 1 .. Len(boards) : boards'[i] = boards[i]
    BY <1>1, <1>2, <1>3, Appended
  <1>6. NumPlayers * NumTanks \in Nat /\ MaxMoves \in Nat
    BY Ids, ReplayAssumption
  <1>7. Len(moves') <= MaxMoves + NumPlayers * NumTanks
    BY <1>1, <1>4, <1>6
  <1>8. dropped' \in Nat /\ (dropped' = NEVER \/ dropped' <= Len(moves'))
    BY <1>1, <1>3, <1>4
  <1>9. alive' \in SUBSET PlayerIds
    BY <1>1, <1>3, StillInLess
  <1>10. MatchTypes'
    BY <1>1, <1>3, <1>4, <1>5, <1>7, <1>8, <1>9 DEF MatchTypes, B
  <1>11. \A i \in 0 .. Len(moves) :
           Board(boards', i) = Board(boards, i) /\ TurnAt(boards', i) = TurnAt(boards, i)
    BY <1>3, <1>4, <1>5 DEF Board, TurnAt
  <1>12. Board(boards', Len(moves) + 1) = game' /\ TurnAt(boards', Len(moves) + 1) = turn'
    BY <1>3, <1>4, <1>5 DEF Board, TurnAt
  <1> QED BY <1>1, <1>4, <1>10, <1>11, <1>12

LEMMA PlayKeeps ==
    ASSUME MatchInv, NEW cmd \in Command, Play(cmd),
           cmd.type = "Place" => game.placed[turn.player] < NumTanks
    PROVE  MatchInv'
  <1> DEFINE n == Len(moves)
  <1>1. /\ turn.state \in {"Setup", "Play"} /\ ~stored /\ cmd.sender \in alive
        /\ Allowed(game, cmd) /\ OnFree(game, cmd)
        /\ cmd.type = "Place" => Mask[Target(cmd)] = cmd.sender
        /\ Obeys(game, game', cmd)
        /\ alive' \in SUBSET alive /\ (turn.state = "Setup" => alive' = alive)
        /\ turn' \in Turn /\ (turn'.state # "Concluded" => turn'.player \in alive')
        /\ Follows(turn, cmd, turn')
    BY PlayEffect DEF MatchInv
  <1>2. /\ MatchTypes'
        /\ n \in Nat /\ Len(moves') = n + 1
        /\ \A i \in 1 .. n : moves'[i] = moves[i]
        /\ moves'[n + 1] = cmd
        /\ \A i \in 0 .. n : Board(boards', i) = Board(boards, i) /\ TurnAt(boards', i) = TurnAt(boards, i)
        /\ Board(boards', n + 1) = game' /\ TurnAt(boards', n + 1) = turn'
        /\ UNCHANGED <<dropped, stored>>
    BY <1>1, PlayHistory DEF MatchInv, Obeys
  <1> HIDE DEF n
  <1>3. game' = apply_command(game, cmd)
    BY Zenon DEF Play
  <1>4. OnBoard'
    <2>1. Sound(game) /\ Covered(game, alive)
      BY DEF MatchInv, OnBoard
    <2>2. Sound(game') /\ Covered(game', alive)
      BY <1>1, <2>1 DEF Obeys
    <2>3. Covered(game', alive')
      BY <1>1, <2>2, CoveredLess
    <2>4. turn'.state = "Setup" => turn'.fuel = TURN_PLAYER_FUEL
      BY <1>1 DEF Follows
    <2> QED BY <1>1, <1>2, <2>2, <2>3, <2>4 DEF OnBoard
  <1>5. Recorded'
    <2>1. game.placed = Board(boards, n).placed
      BY <1>1 DEF MatchInv, Recorded, n
    <2>2. dropped = NEVER => game = Board(boards, n) /\ turn = TurnAt(boards, n)
      BY <1>1 DEF MatchInv, Recorded, n
    <2>3. dropped = NEVER \/ ~(n + 1 <= dropped)
      BY <1>2 DEF MatchInv, MatchTypes, n
    <2>4. game'.placed = Count(game.placed, cmd)
      BY <1>1 DEF Obeys, Count
    <2>5. ASSUME NEW i \in 1 .. n
          PROVE  /\ Board(boards', i).placed = Count(Board(boards', i - 1).placed, moves'[i])
                 /\ i <= dropped => /\ Board(boards', i) = apply_command(Board(boards', i - 1), moves'[i])
                                    /\ Follows(TurnAt(boards', i - 1), moves'[i], TurnAt(boards', i))
      <3>1. i \in 0 .. n /\ i - 1 \in 0 .. n /\ i \in 1 .. Len(moves)
        BY <1>2 DEF n
      <3> QED BY <1>2, <3>1 DEF MatchInv, Recorded
    <2>6. /\ Board(boards', n + 1).placed = Count(Board(boards', n).placed, moves'[n + 1])
          /\ n + 1 <= dropped => /\ Board(boards', n + 1) = apply_command(Board(boards', n), moves'[n + 1])
                                 /\ Follows(TurnAt(boards', n), moves'[n + 1], TurnAt(boards', n + 1))
      BY <1>1, <1>2, <1>3, <2>1, <2>2, <2>3, <2>4
    <2>7. \A i \in 1 .. Len(moves') : i \in 1 .. n \/ i = n + 1
      BY <1>2
    <2>8. n + 1 - 1 = n
      BY <1>2
    <2>9. ASSUME NEW i \in 1 .. Len(moves')
          PROVE  /\ Board(boards', i).placed = Count(Board(boards', i - 1).placed, moves'[i])
                 /\ i <= dropped' => /\ Board(boards', i) = apply_command(Board(boards', i - 1), moves'[i])
                                     /\ Follows(TurnAt(boards', i - 1), moves'[i], TurnAt(boards', i))
      BY <1>2, <2>5, <2>6, <2>7, <2>8
    <2>10. Board(boards', Len(moves')) = game' /\ TurnAt(boards', Len(moves')) = turn'
      BY <1>2
    <2> QED BY <2>9, <2>10 DEF Recorded
  <1>6. Sites'
    <2>1. \A i \in 1 .. Len(moves') : i \in 1 .. n \/ i = n + 1
      BY <1>2
    <2>2. /\ \A i \in 1 .. n : moves[i].type = "Place" =>
               /\ Target(moves[i]) \in Open /\ moves[i].tank_id \in Dirs
               /\ Mask[Target(moves[i])] = moves[i].sender
          /\ \A i, j \in 1 .. n : i < j /\ moves[j].type = "Place" =>
               moves[i].type = "Place" /\ Target(moves[i]) # Target(moves[j])
      BY DEF MatchInv, Sites, n
    <2>3. turn.state = "Setup" => \A i \in 1 .. n :
              /\ moves[i].type = "Place"
              /\ moves[i].sender \in alive => game.occ[Target(moves[i])] # NO_OCCUPANT
      BY DEF MatchInv, Sites, n
    <2>4. cmd.type = "Place" =>
            /\ turn.state = "Setup" /\ Target(cmd) \in Open /\ cmd.tank_id \in Dirs
            /\ Mask[Target(cmd)] = cmd.sender /\ game.occ[Target(cmd)] = NO_OCCUPANT
      BY <1>1 DEF Follows, Allowed, OnFree
    <2>5. ASSUME cmd.type = "Place", NEW i \in 1 .. n
          PROVE  moves[i].type = "Place" /\ Target(moves[i]) # Target(cmd)
      BY <1>1, <2>2, <2>3, <2>4, <2>5
    <2>6. \A i \in 1 .. Len(moves') : moves'[i].type = "Place" =>
             /\ Target(moves'[i]) \in Open /\ moves'[i].tank_id \in Dirs
             /\ Mask[Target(moves'[i])] = moves'[i].sender
      BY <1>2, <2>1, <2>2, <2>4
    <2>7. ASSUME NEW i \in 1 .. Len(moves'), NEW j \in 1 .. Len(moves'), i < j,
                 moves'[j].type = "Place"
          PROVE  moves'[i].type = "Place" /\ Target(moves'[i]) # Target(moves'[j])
      <3>1. i \in 1 .. n
        BY <1>2, <2>7
      <3>2. CASE j \in 1 .. n
        BY <1>2, <2>2, <2>7, <3>1, <3>2
      <3>3. CASE j = n + 1
        BY <1>2, <2>5, <2>7, <3>1, <3>3
      <3> QED BY <2>1, <3>2, <3>3
    <2>8. ASSUME turn'.state = "Setup"
          PROVE  /\ \A i \in 1 .. Len(moves') :
                      /\ moves'[i].type = "Place"
                      /\ moves'[i].sender \in alive' => game'.occ[Target(moves'[i])] # NO_OCCUPANT
                 /\ \A p \in PlayerIds : \A t \in TanksOf(game', p) :
                      Mask[game'.tanks[t].pos] = p
      <3>1. turn.state = "Setup" /\ cmd.type = "Place" /\ alive' = alive
        BY <1>1, <2>8 DEF Follows
      <3> DEFINE T == NewTank(Target(cmd), cmd.sender, cmd.tank_id)
                 s == Slot(cmd.sender, game.placed[cmd.sender])
      <3>2. cmd.sender \in PlayerIds /\ game.placed[cmd.sender] < NumTanks
        BY <1>1, <3>1 DEF Allowed, Command
      <3>3. game' = place_tank(game, Target(cmd), cmd.sender, cmd.tank_id)
        BY <1>3, <3>1 DEF apply_command, Target
      <3>4. Fit(game)
        BY DEF MatchInv, OnBoard, Sound
      <3>5. Adds(game, game', s, T)
        BY <2>4, <3>1, <3>2, <3>3, <3>4, PlaceEffect
      <3>6. T.pos = Target(cmd) /\ T.owner = cmd.sender
        BY DEF NewTank
      <3> HIDE DEF s, T
      <3>7. /\ game.tanks \in [TankIds -> Tank] /\ Target(cmd) \in Cells
            /\ game.occ \in [Cells -> TankIds \cup {NO_OCCUPANT}]
        BY <2>4, <3>1, <3>4 DEF Fit, Game, Open
      <3>8. /\ s \in TankIds /\ game'.tanks[s] = T
            /\ \A t \in TankIds \ {s} : game'.tanks[t] = game.tanks[t]
            /\ game'.occ[Target(cmd)] = s
            /\ \A c \in Cells \ {Target(cmd)} : game'.occ[c] = game.occ[c]
        BY <3>5, <3>6, <3>7 DEF Adds
      <3>9. ASSUME NEW i \in 1 .. n
            PROVE  /\ moves[i].type = "Place"
                   /\ moves[i].sender \in alive => game'.occ[Target(moves[i])] # NO_OCCUPANT
        <4>1. moves[i].type = "Place" /\ Target(moves[i]) \in Cells
          BY <2>2, <2>3, <3>1 DEF Open
        <4> QED BY <2>3, <3>1, <3>8, <4>1, Ids
      <3>10. game'.occ[Target(cmd)] # NO_OCCUPANT
        BY <3>8, Ids
      <3>11. ASSUME NEW p \in PlayerIds, NEW t \in TanksOf(game', p)
             PROVE  Mask[game'.tanks[t].pos] = p
        <4>1. CASE t = s
          <5>1. p = cmd.sender
            BY <3>5, <3>6, <3>11, <4>1 DEF Adds
          <5> QED BY <2>4, <3>1, <3>6, <3>8, <4>1, <5>1
        <4>2. CASE t # s
          <5>1. t \in TanksOf(game, p)
            BY <3>5, <3>6, <3>11, <4>2 DEF Adds
          <5>2. t \in TankIds
            BY <3>4, <5>1, ListIsSlots DEF Fit
          <5> QED BY <3>1, <3>8, <4>2, <5>1, <5>2 DEF MatchInv, Sites
        <4> QED BY <4>1, <4>2
      <3>12. ASSUME NEW i \in 1 .. Len(moves')
             PROVE  /\ moves'[i].type = "Place"
                    /\ moves'[i].sender \in alive' => game'.occ[Target(moves'[i])] # NO_OCCUPANT
        BY <1>2, <2>1, <3>1, <3>9, <3>10
      <3> QED BY <3>11, <3>12
    <2> QED BY <2>6, <2>7, <2>8 DEF Sites
  <1> QED BY <1>2, <1>4, <1>5, <1>6 DEF MatchInv

LEMMA EliminateKeeps ==
    ASSUME MatchInv, NEW p \in Quitters, Eliminate(p)
    PROVE  MatchInv'
  <1> DEFINE g == OutOfPlay(game, p)
             live == StillIn(g, turn.state, alive \ {p})
             next == IF p = turn.player
                     THEN [turn EXCEPT !.player = NextPlayer(@), !.fuel = TURN_PLAYER_FUEL]
                     ELSE turn
  <1>1. /\ turn.state \in {"Setup", "Play"} /\ p \in alive
        /\ game' = g /\ alive' = live /\ turn' = start_turn(g, next, live)
        /\ dropped' = (IF dropped = NEVER THEN Len(moves) ELSE dropped)
        /\ UNCHANGED <<moves, boards, stored>>
    BY Zenon DEF Eliminate, replay
  <1>2. /\ turn \in Turn /\ alive \in SUBSET PlayerIds /\ Sound(game) /\ p \in PlayerIds
        /\ ~stored /\ Covered(game, alive)
    BY <1>1 DEF MatchInv, MatchTypes, OnBoard
  <1>3. /\ Sound(g) /\ g.placed = game.placed
        /\ \A t \in TankIds : /\ g.tanks[t].pos = game.tanks[t].pos
                              /\ g.tanks[t].owner = game.tanks[t].owner
        /\ Covered(g, alive \ {p})
        /\ \A c \in Cells : g.occ[c] = game.occ[c] \/ \E t \in TanksOf(game, p) : game.tanks[t].pos = c
    BY <1>2, OutEffect
  <1> HIDE DEF g
  <1>4. live \in SUBSET (alive \ {p}) /\ live \in SUBSET PlayerIds
    BY <1>2, StillInLess
  <1>5. /\ next \in Turn /\ next.state = turn.state
        /\ turn.fuel = TURN_PLAYER_FUEL => next.fuel = TURN_PLAYER_FUEL
    <2>1. NextPlayer(turn.player) \in PlayerIds
      BY <1>2, NextIsPlayer DEF Turn
    <2>2. CASE p = turn.player
      BY <1>2, <2>1, <2>2, TurnMembers
    <2> QED BY <1>2, <2>2
  <1> HIDE DEF live, next
  <1>6. /\ turn' \in Turn
        /\ turn'.state # "Concluded" => turn'.player \in live
        /\ next.state = "Setup" => (turn'.state = "Setup" => turn'.fuel = next.fuel)
        /\ next.state = "Play" => turn'.state # "Setup"
    BY <1>1, <1>4, <1>5, StartTurn
  <1>7. MatchTypes'
    <2>1. Len(moves) \in Nat
      BY DEF MatchInv, MatchTypes
    <2>2. dropped' \in Nat /\ (dropped' = NEVER \/ dropped' <= Len(moves'))
      BY <1>1, <2>1 DEF MatchInv, MatchTypes
    <2> QED BY <1>1, <1>4, <1>6, <2>2 DEF MatchInv, MatchTypes
  <1>8. OnBoard'
    <2>1. Covered(g, live)
      BY <1>3, <1>4, CoveredLess
    <2>2. turn'.state = "Setup" => turn'.fuel = TURN_PLAYER_FUEL
      BY <1>1, <1>5, <1>6 DEF MatchInv, OnBoard
    <2> QED BY <1>1, <1>2, <1>3, <1>6, <2>1, <2>2 DEF OnBoard
  <1>9. Recorded'
    <2>1. NEVER > Len(moves) /\ Len(moves) \in Nat /\ dropped \in Nat
      <3>1. NumPlayers * NumTanks \in Nat /\ MaxMoves \in Nat
        BY Ids, ReplayAssumption
      <3>2. Len(moves) \in Nat /\ Len(moves) <= MaxMoves + NumPlayers * NumTanks /\ dropped \in Nat
        BY DEF MatchInv, MatchTypes
      <3> QED BY <3>1, <3>2 DEF NEVER
    <2>2. dropped' # NEVER
      BY <1>1, <2>1
    <2>3. \A i \in 1 .. Len(moves) : i <= dropped' => i <= dropped
      BY <1>1, <2>1
    <2> QED BY <1>1, <1>2, <1>3, <2>2, <2>3 DEF MatchInv, Recorded
  <1>10. Sites'
    <2>1. ASSUME turn'.state = "Setup"
          PROVE  /\ \A i \in 1 .. Len(moves) :
                      /\ moves[i].type = "Place"
                      /\ moves[i].sender \in alive' => game'.occ[Target(moves[i])] # NO_OCCUPANT
                 /\ \A q \in PlayerIds : \A t \in TanksOf(game', q) : Mask[game'.tanks[t].pos] = q
      <3>1. turn.state = "Setup"
        BY <1>1, <1>5, <1>6, <2>1
      <3>2. ASSUME NEW i \in 1 .. Len(moves), moves[i].sender \in alive'
            PROVE  game'.occ[Target(moves[i])] # NO_OCCUPANT
        <4>1. moves[i].type = "Place" /\ game.occ[Target(moves[i])] # NO_OCCUPANT
          BY <1>1, <1>4, <3>1, <3>2 DEF MatchInv, Sites
        <4>2. Target(moves[i]) \in Cells /\ Mask[Target(moves[i])] = moves[i].sender
          BY <4>1 DEF MatchInv, Sites, Open
        <4>3. \A t \in TanksOf(game, p) : game.tanks[t].pos # Target(moves[i])
          BY <1>1, <1>2, <1>4, <3>1, <3>2, <4>2 DEF MatchInv, Sites
        <4> QED BY <1>1, <1>3, <4>1, <4>2, <4>3
      <3>3. ASSUME NEW q \in PlayerIds, NEW t \in TanksOf(game', q)
            PROVE  Mask[game'.tanks[t].pos] = q
        <4>1. t \in TanksOf(game, q)
          BY <1>1, <1>3, <3>3 DEF TanksOf
        <4>2. t \in TankIds
          BY <1>2, <4>1, ListIsSlots DEF Sound, Fit
        <4> QED BY <1>1, <1>3, <3>1, <4>1, <4>2 DEF MatchInv, Sites
      <3> QED BY <3>1, <3>2, <3>3 DEF MatchInv, Sites
    <2> QED BY <1>1, <2>1 DEF MatchInv, Sites
  <1> QED BY <1>7, <1>8, <1>9, <1>10 DEF MatchInv

LEMMA AddReplayKeeps ==
    ASSUME MatchInv, add_replay
    PROVE  MatchInv'
  <1>1. /\ turn.state = "Concluded" /\ stored' = TRUE /\ game' = NewGame /\ alive' = {}
        /\ turn' = [turn EXCEPT !.player = 0, !.fuel = TURN_PLAYER_FUEL]
        /\ UNCHANGED <<moves, boards, dropped>>
    BY DEF add_replay
  <1>2. turn' \in Turn /\ turn'.state = "Concluded"
    BY <1>1, Ids, TurnMembers DEF MatchInv, MatchTypes
  <1>3. MatchTypes'
    BY <1>1, <1>2 DEF MatchInv, MatchTypes
  <1>4. Covered(NewGame, {})
    BY DEF Covered, Alive, NewGame, NoTank
  <1>5. OnBoard'
    BY <1>1, <1>2, <1>4, NewGameSound DEF OnBoard
  <1> QED BY <1>1, <1>2, <1>3, <1>5 DEF MatchInv, Recorded, Sites

LEMMA MatchUnchanged ==
    ASSUME MatchInv, UNCHANGED <<match, stored>>
    PROVE  MatchInv'
  BY DEF MatchInv, MatchTypes, OnBoard, Recorded, Sites, match

\* The commands that Next lets players give.
LEMMA Given ==
    ASSUME MatchInv, Next
    PROVE  \/ \E cmd \in Command : /\ Play(cmd)
                                   /\ cmd.type = "Place" => game.placed[turn.player] < NumTanks
           \/ \E p \in Quitters : Eliminate(p)
           \/ add_replay
           \/ set_replay
           \/ \E p \in Perspectives : set_perspective(p)
           \/ step_forward_turn
           \/ step_backward_turn
  <1>1. ASSUME NEW cmd \in Orders, Play(cmd)
        PROVE  cmd \in Command /\ cmd.type # "Place"
    BY ReplayAssumption
  <1> DEFINE cmd == Placements[turn.player][game.placed[turn.player] + 1]
  <1>2. ASSUME game.placed[turn.player] < NumTanks, Play(cmd)
        PROVE  cmd \in Command
    <2>1. turn.player \in PlayerIds /\ Fit(game)
      BY DEF MatchInv, MatchTypes, OnBoard, Sound, Turn
    <2>2. game.placed[turn.player] \in 0 .. NumTanks
      BY <2>1, ListIsSlots DEF Fit
    <2>3. game.placed[turn.player] + 1 \in 1 .. NumTanks
      BY <1>2, <2>2, Ids
    <2> QED BY <2>1, <2>3, ReplayAssumption
  <1> QED BY <1>1, <1>2 DEF Next

LEMMA MatchSteps ==
    ASSUME MatchInv, [Next]_vars
    PROVE  MatchInv'
  <1>1. CASE UNCHANGED vars
    BY <1>1, MatchUnchanged DEF vars, replay
  <1>2. CASE Next
    <2>1. ASSUME NEW p \in Perspectives, set_perspective(p) PROVE MatchInv'
      BY <2>1, MatchUnchanged DEF set_perspective
    <2>2. CASE set_replay \/ step_forward_turn \/ step_backward_turn
      BY <2>2, MatchUnchanged DEF set_replay, step_forward_turn, step_backward_turn
    <2> QED BY <1>2, <2>1, <2>2, Given, PlayKeeps, EliminateKeeps, AddReplayKeeps
  <1> QED BY <1>1, <1>2

LEMMA MatchStart == Init => MatchInv
  <1> SUFFICES ASSUME Init PROVE MatchInv
    OBVIOUS
  <1>1. /\ game = NewGame /\ turn = FirstTurn /\ alive = PlayerIds
        /\ moves = << >> /\ boards = << >> /\ dropped = NEVER /\ stored = FALSE
    BY DEF Init, FirstTurn
  <1>2. NEVER \in Nat /\ MaxMoves + NumPlayers * NumTanks \in Nat
    BY Ids, ReplayAssumption DEF NEVER
  <1>3. MatchTypes
    <2>1. FirstTurn \in Turn
      BY Ids DEF FirstTurn, Turn, TURN_PLAYER_FUEL
    <2>2. << >> \in Seq(Command) /\ << >> \in Seq([game : Game, turn : Turn]) /\ Len(<< >>) = 0
      BY EmptySeq
    <2>3. Len(moves) = 0 /\ Len(boards) = 0 /\ 0 <= MaxMoves + NumPlayers * NumTanks
      BY <1>1, <1>2, <2>2
    <2>4. moves \in Seq(Command) /\ boards \in Seq([game : Game, turn : Turn])
      BY <1>1, <2>2
    <2>5. /\ turn \in Turn /\ alive \in SUBSET PlayerIds /\ stored \in BOOLEAN
          /\ dropped \in Nat /\ dropped = NEVER
      BY <1>1, <1>2, <2>1
    <2> QED BY <2>3, <2>4, <2>5 DEF MatchTypes
  <1>4. \A t \in TankIds : ~Alive(NewGame, t)
    BY DEF NewGame, NoTank, Alive
  <1>5. OnBoard
    BY <1>1, <1>4, NewGameSound, Ids DEF OnBoard, Covered, FirstTurn
  <1>6. Recorded
    BY <1>1 DEF Recorded, Board, TurnAt
  <1>7. \A p \in PlayerIds : TanksOf(NewGame, p) = {}
    BY Ids DEF NewGame, TanksOf
  <1>8. Sites
    BY <1>1, <1>7 DEF Sites
  <1> QED BY <1>3, <1>5, <1>6, <1>8 DEF MatchInv

\* The board of the match tells the truth about every cell, whoever moves, shoots,
\* is destroyed or driven over: only the wrecks of an eliminated player may hide a
\* tank (handle_elimination clears their cells).
THEOREM BoardIsTrue == Spec => []BoardConsistent
  <1>1. MatchInv => BoardConsistent
    BY DEF MatchInv, OnBoard, Covered, Sound, BoardConsistent
  <1>2. MatchInv /\ [Next]_vars => MatchInv'
    BY MatchSteps
  <1> QED BY <1>1, <1>2, MatchStart, PTL DEF Spec

-----------------------------------------------------------------------------
(* Views.                                                                  *)

\* The living tanks of a player, those of them whose rays reach a cell, and those that
\* stand on it and are drawn after the rays.
Own(g, p) == {t \in TanksOf(g, p) : Alive(g, t)}
Looking(g, p, c) == {t \in Own(g, p) : c \in Sees(g, t) \ Terrain}
Standing(g, p, c) == {t \in Own(g, p) : /\ g.tanks[t].pos = c
                                        /\ \A u \in Looking(g, p, c) : u < t}

LEMMA ViewShows ==
    ASSUME NEW g, NEW p, NEW c \in Cells
    PROVE  compute_view(g, p).occ[c] =
             IF Standing(g, p, c) # {} THEN Max(Standing(g, p, c))
             ELSE IF Looking(g, p, c) # {} THEN g.occ[c] ELSE NO_OCCUPANT
  <1> DEFINE sees == [t \in Own(g, p) |-> Sees(g, t)]
             rays(d) == {t \in Own(g, p) : d \in sees[t] \ Terrain}
             itself(d) == {t \in Own(g, p) : /\ g.tanks[t].pos = d
                                             /\ \A u \in rays(d) : u < t}
             occ == [d \in Cells |-> IF itself(d) # {} THEN Max(itself(d))
                                     ELSE IF rays(d) # {} THEN g.occ[d]
                                     ELSE NO_OCCUPANT]
  <1>1. compute_view(g, p).occ = occ
    BY Zenon DEF compute_view, Own
  <1>2. rays(c) = Looking(g, p, c)
    BY DEF Looking
  <1> HIDE DEF rays
  <1>3. itself(c) = Standing(g, p, c)
    BY <1>2 DEF Standing
  <1> HIDE DEF itself
  <1>4. occ[c] = IF itself(c) # {} THEN Max(itself(c))
                 ELSE IF rays(c) # {} THEN g.occ[c] ELSE NO_OCCUPANT
    OBVIOUS
  <1> QED BY <1>1, <1>2, <1>3, <1>4

\* A ray shows foliage only next to where it starts.
LEMMA RayInFoliage ==
    ASSUME NEW ray, NEW start, NEW c \in cast_ray(ray, start), c \in Foliage
    PROVE  tile_beside_grass(start, c)
  <1>1. c \notin Terrain
    BY BoardAssumption
  <1>2. PICK j \in DOMAIN ray :
          /\ ray[j].cell = c
          /\ CASE ray[j].cell \in Terrain -> TRUE
               [] ray[j].cell \in Foliage -> tile_beside_grass(start, ray[j].cell)
               [] OTHER -> ray[j].exact
    BY Zenon DEF cast_ray
  <1>3. /\ ray[j].cell \notin Terrain /\ ray[j].cell \in Foliage
        /\ CASE ray[j].cell \in Terrain -> TRUE
             [] ray[j].cell \in Foliage -> tile_beside_grass(start, ray[j].cell)
             [] OTHER -> ray[j].exact
    BY <1>1, <1>2
  <1>4. tile_beside_grass(start, ray[j].cell)
    BY <1>3
  <1> QED BY <1>2, <1>4

LEMMA FogOfOneView ==
    ASSUME NEW g, NEW p, NEW c \in Foliage
    PROVE  \/ compute_view(g, p).occ[c] = NO_OCCUPANT
           \/ \E t \in TanksOf(g, p) : Alive(g, t) /\ tile_beside_grass(g.tanks[t].pos, c)
  <1>0. c \in Cells /\ c[1] \in Int /\ c[2] \in Int
    BY OnTheBoard
  <1>1. CASE Standing(g, p, c) # {}
    <2>1. PICK t \in TanksOf(g, p) : Alive(g, t) /\ g.tanks[t].pos = c
      BY <1>1 DEF Standing, Own
    <2>2. tile_beside_grass(c, c)
      BY <1>0 DEF tile_beside_grass, Abs
    <2> QED BY <2>1, <2>2
  <1>2. CASE Looking(g, p, c) # {}
    <2>1. PICK t \in TanksOf(g, p) : Alive(g, t) /\ c \in Sees(g, t)
      BY <1>2 DEF Looking, Own
    <2>2. PICK ray : c \in cast_ray(ray, g.tanks[t].pos)
      BY <2>1, Zenon DEF Sees
    <2>3. tile_beside_grass(g.tanks[t].pos, c)
      BY <2>2, RayInFoliage
    <2> QED BY <2>1, <2>3
  <1> QED BY <1>0, <1>1, <1>2, ViewShows

\* Whatever the rays of compute_view run through, on whatever board, no enemy in
\* foliage is shown to a player without a living tank next to it.
THEOREM FoliageHides == Spec => []FogOfWar
  <1>1. FogOfWar
    BY FogOfOneView, Zenon DEF FogOfWar
  <1> QED BY <1>1, PTL DEF Spec

-----------------------------------------------------------------------------
(* The replay follows the record of the match.                             *)

LEMMA Archive ==
    ASSUME MatchTypes
    PROVE  /\ Len(moves) \in Nat
           /\ \A i \in 1 .. Len(moves) : moves[i] \in Command
           /\ \A i \in 0 .. Len(moves) : Board(boards, i) \in Game /\ TurnAt(boards, i) \in Turn
  <1>1. /\ moves \in Seq(Command) /\ Len(moves) \in Nat /\ Len(boards) = Len(moves)
        /\ boards \in Seq([game : Game, turn : Turn])
    BY DEF MatchTypes
  <1>2. \A i \in 1 .. Len(moves) : moves[i] \in Command /\ boards[i] \in [game : Game, turn : Turn]
    BY <1>1, ElementOfSeq
  <1>3. FirstTurn \in Turn
    BY Ids DEF FirstTurn, Turn, TURN_PLAYER_FUEL
  <1>4. ASSUME NEW i \in 0 .. Len(moves)
        PROVE  Board(boards, i) \in Game /\ TurnAt(boards, i) \in Turn
    <2>1. CASE i = 0
      BY <1>3, <2>1, NewGameSound DEF Board, TurnAt
    <2>2. CASE i # 0
      BY <1>1, <1>2, <2>2 DEF Board, TurnAt
    <2> QED BY <2>1, <2>2
  <1> QED BY <1>1, <1>2, <1>4

LEMMA FreshReplay == MatchTypes /\ Fresh => ReplayInv
  <1> SUFFICES ASSUME MatchTypes, Fresh PROVE ReplayInv
    OBVIOUS
  <1>1. Len(moves) \in Nat
    BY Archive
  <1>2. FirstTurn \in View
    BY Ids DEF FirstTurn, View, TURN_PLAYER_FUEL
  <1> DEFINE first == [inst |-> NewGame, shown |-> FirstTurn]
             S == [inst : Game, shown : View]
  <1>3. first \in S
    BY <1>2, NewGameSound
  <1>4. /\ first.inst = NewGame /\ inst = NewGame /\ shown = FirstTurn /\ applied = 0
        /\ status = << >> /\ trail = <<first>> /\ backed = "no"
        /\ perspective \in PlayerIds \cup {NO_PLAYER}
    BY DEF Fresh
  <1> HIDE DEF first, S
  <1>5. trail \in Seq(S) /\ Len(trail) = 1 /\ trail[1] = first
    BY <1>3, <1>4
  <1>6. status \in Seq(Status) /\ Len(status) = 0
    BY <1>4, EmptySeq
  <1>7. Board(boards, 0) = NewGame /\ TurnAt(boards, 0) = FirstTurn
    BY DEF Board, TurnAt
  <1>8. ReplayTypes
    BY <1>1, <1>2, <1>4, <1>5, <1>6, <1>7, NewGameSound DEF ReplayTypes, Sound, S
  <1>9. \A c \in Cells : NewGame.occ[c] = NO_OCCUPANT
    BY DEF NewGame
  <1>10. Tracks
    <2>1. inst = trail[applied + 1].inst
      BY <1>4, <1>5
    <2>2. \A i \in 1 .. Len(trail) : i = 1 /\ trail[i].inst = NewGame
      BY <1>4, <1>5
    <2>3. 1 - 1 = 0
      OBVIOUS
    <2> QED BY <1>6, <1>7, <1>9, <2>1, <2>2, <2>3, NewGameSound DEF Tracks
  <1> QED BY <1>4, <1>7, <1>8, <1>10 DEF ReplayInv, Trailed, Shows

\* Nothing is watched before the match is stored.
LEMMA BeforeReplay ==
    ASSUME MatchInv, ReplayInv,
           (\E cmd \in Command : Play(cmd)) \/ (\E p \in Quitters : Eliminate(p)) \/ add_replay,
           MatchInv'
    PROVE  ReplayInv'
  <1>1. ~stored
    <2>1. \A cmd \in Command : Play(cmd) => turn.state \in {"Setup", "Play"}
      BY Zenon DEF Play
    <2>2. \A p \in Quitters : Eliminate(p) => turn.state \in {"Setup", "Play"}
      BY Zenon DEF Eliminate
    <2>3. add_replay => ~stored
      BY DEF add_replay
    <2> QED BY <2>1, <2>2, <2>3 DEF MatchInv, OnBoard
  <1>2. UNCHANGED <<inst, shown, applied, status, perspective, trail, backed>>
    <2>1. \A cmd \in Command : Play(cmd) => UNCHANGED replay
      BY Zenon DEF Play
    <2>2. \A p \in Quitters : Eliminate(p) => UNCHANGED replay
      BY Zenon DEF Eliminate
    <2> QED BY <2>1, <2>2 DEF add_replay, replay
  <1>3. Fresh'
    BY <1>1, <1>2 DEF ReplayInv, ReplayTypes, Fresh
  <1>4. (MatchTypes /\ Fresh => ReplayInv)'
    BY FreshReplay, PTL
  <1> QED BY <1>3, <1>4 DEF MatchInv

LEMMA SetReplay ==
    ASSUME set_replay, MatchInv'
    PROVE  ReplayInv'
  <1>1. Fresh'
    BY DEF set_replay, Fresh, FirstTurn
  <1>2. (MatchTypes /\ Fresh => ReplayInv)'
    BY FreshReplay, PTL
  <1> QED BY <1>1, <1>2 DEF MatchInv

LEMMA SetPerspective ==
    ASSUME MatchInv, ReplayInv, NEW p \in Perspectives, set_perspective(p)
    PROVE  ReplayInv'
  <1>1. /\ perspective' \in PlayerIds \cup {NO_PLAYER} /\ stored
        /\ UNCHANGED <<match, stored, inst, shown, applied, status, trail, backed>>
    BY Ids, ReplayAssumption DEF set_perspective, PlayerIds
  <1>2. ReplayTypes'
    BY <1>1 DEF ReplayInv, ReplayTypes, match
  <1>3. Trailed'
    BY <1>1 DEF ReplayInv, Trailed, Tracks, match
  <1>4. Shows'
    BY <1>1 DEF ReplayInv, Shows, FriendlyHit, match
  <1> QED BY <1>2, <1>3, <1>4 DEF ReplayInv

-----------------------------------------------------------------------------
(* A step forward.                                                         *)

\* A sequence cut after n elements and continued with x.
LEMMA CutAndAppend ==
    ASSUME NEW S, NEW q \in Seq(S), NEW x \in S, NEW n \in 0 .. Len(q)
    PROVE  LET r == Append(SubSeq(q, 1, n), x) IN
           /\ r \in Seq(S) /\ Len(r) = n + 1 /\ r[n + 1] = x
           /\ \A i \in 1 .. n : r[i] = q[i]
  <1>1. Len(q) \in Nat /\ n \in Nat
    OBVIOUS
  <1>2. /\ SubSeq(q, 1, n) \in Seq(S) /\ Len(SubSeq(q, 1, n)) = n
        /\ \A i \in 1 .. n : SubSeq(q, 1, n)[i] = q[i]
    BY <1>1
  <1> HIDE <1>1
  <1> DEFINE h == SubSeq(q, 1, n)
  <1> HIDE DEF h
  <1> QED BY <1>2, Appended DEF h

\* The command that is due in the replay is one that can be carried out.
LEMMA DueIsAllowed ==
    ASSUME MatchInv, NEW i \in 1 .. Len(moves), NEW g, Fit(g),
           g.placed = Board(boards, i - 1).placed, ForwardValid(g, moves[i])
    PROVE  /\ moves[i] \in Command /\ Allowed(g, moves[i])
           /\ Board(boards, i).placed = Count(g.placed, moves[i])
  <1> DEFINE cmd == moves[i]
  <1>1. cmd \in Command /\ Board(boards, i) \in Game
    BY Archive DEF MatchInv
  <1>2. Board(boards, i).placed = Count(g.placed, cmd)
    BY DEF MatchInv, Recorded
  <1>3. CASE cmd.type = "Place"
    <2>1. Target(cmd) \in Open /\ cmd.tank_id \in Dirs
      BY <1>3 DEF MatchInv, Sites
    <2>2. cmd.sender \in PlayerIds
      BY <1>1 DEF Command
    <2>3. g.placed \in [PlayerIds -> 0 .. NumTanks]
      BY DEF Fit, Game
    <2>4. Board(boards, i).placed[cmd.sender] = g.placed[cmd.sender] + 1
      BY <1>2, <1>3, <2>2, <2>3 DEF Count
    <2>5. Board(boards, i).placed[cmd.sender] \in 0 .. NumTanks
      BY <1>1, <2>2, ListIsSlots
    <2>6. g.placed[cmd.sender] < NumTanks
      <3>1. g.placed[cmd.sender] \in Int
        BY <2>2, <2>3
      <3> HIDE DEF cmd
      <3> QED BY <2>4, <2>5, <3>1, Ids
    <2> QED BY <1>1, <1>2, <1>3, <2>1, <2>6 DEF Allowed
  <1>4. CASE cmd.type # "Place"
    <2>1. TankOK(g, cmd)
      BY <1>1, <1>4 DEF ForwardValid, Command
    <2> QED BY <1>1, <1>2, <1>4, <2>1 DEF Allowed
  <1> QED BY <1>3, <1>4

LEMMA ViewMembers ==
    ASSUME NEW s \in View, NEW p \in PlayerIds, NEW f \in Int
    PROVE  /\ [s EXCEPT !.player = p] \in View /\ [s EXCEPT !.fuel = f] \in View
           /\ [s EXCEPT !.player = p, !.fuel = f] \in View
           /\ [state |-> "Play", player |-> p, fuel |-> f] \in View
           /\ [state |-> "Setup", player |-> p, fuel |-> f] \in View
           /\ s.fuel \in Int /\ s.player \in PlayerIds /\ s.state \in {"Setup", "Play"}
  BY DEF View

LEMMA ForwardShown ==
    ASSUME NEW s \in View, NEW n, n < Len(moves) => moves[n + 1].sender \in PlayerIds
    PROVE  ForwardTurn(s, n) \in View
  <1> DEFINE f == s.fuel - 1
             p == moves[n + 1].sender
  <1>1. f \in Int /\ TURN_PLAYER_FUEL \in Int
    BY DEF View, TURN_PLAYER_FUEL
  <1>2. /\ ~(n < Len(moves)) => ForwardTurn(s, n) \in {s, [s EXCEPT !.fuel = f]}
        /\ n < Len(moves) => ForwardTurn(s, n) \in
              {[state |-> "Play", player |-> p, fuel |-> TURN_PLAYER_FUEL],
               [s EXCEPT !.player = p], [s EXCEPT !.fuel = f],
               [s EXCEPT !.player = p, !.fuel = TURN_PLAYER_FUEL]}
    BY Zenon DEF ForwardTurn
  <1> HIDE DEF f, p
  <1>3. n < Len(moves) => p \in PlayerIds
    BY DEF p
  <1>4. [s EXCEPT !.fuel = f] \in View
    BY <1>1, Ids, ViewMembers
  <1>5. CASE n < Len(moves)
    <2>1. /\ [state |-> "Play", player |-> p, fuel |-> TURN_PLAYER_FUEL] \in View
          /\ [s EXCEPT !.player = p] \in View
          /\ [s EXCEPT !.player = p, !.fuel = TURN_PLAYER_FUEL] \in View
      BY <1>1, <1>3, <1>5, ViewMembers
    <2> QED BY <1>2, <1>4, <1>5, <2>1, Zenon
  <1> QED BY <1>2, <1>4, <1>5, Zenon

LEMMA ForwardTypes ==
    ASSUME MatchInv, ReplayTypes, step_forward_turn
    PROVE  /\ applied \in Nat /\ applied + 1 \in 1 .. Len(moves)
           /\ UNCHANGED <<match, stored, perspective, backed>>
           /\ moves[applied + 1] \in Command /\ ForwardValid(inst, moves[applied + 1])
           /\ Allowed(inst, moves[applied + 1])
           /\ Obeys(inst, inst', moves[applied + 1])
           /\ inst' = Forward(inst, moves[applied + 1]).game
           /\ shown' = ForwardTurn(shown, applied + 1) /\ applied' = applied + 1
           /\ inst'.placed = Board(boards, applied + 1).placed
           /\ Len(status') = applied + 1
           /\ \A i \in 1 .. applied : status'[i] = status[i]
           /\ status'[applied + 1] = [success |-> Forward(inst, moves[applied + 1]).success,
                                      hits |-> Forward(inst, moves[applied + 1]).hits]
           /\ Len(trail') = applied + 2
           /\ \A i \in 1 .. applied + 1 : trail'[i] = trail[i]
           /\ trail'[applied + 2].inst = inst'
           /\ ReplayTypes'
  <1> DEFINE n == applied
             cmd == moves[applied + 1]
             done == Forward(inst, cmd)
             st == [success |-> done.success, hits |-> done.hits]
             new == [inst |-> inst', shown |-> shown']
             S == [inst : Game, shown : View]
  <1>1. /\ stored /\ n < Len(moves) /\ ForwardValid(inst, cmd) /\ inst' = done.game
        /\ status' = Append(SubSeq(status, 1, n), st) /\ applied' = n + 1
        /\ shown' = ForwardTurn(shown, n + 1)
        /\ trail' = Append(SubSeq(trail, 1, n + 1), new)
        /\ UNCHANGED <<match, stored, perspective, backed>>
    BY Zenon DEF step_forward_turn
  <1>2. /\ n \in 0 .. Len(moves) /\ Fit(inst) /\ inst.placed = Board(boards, n).placed
        /\ shown \in View
        /\ status \in Seq(Status) /\ n <= Len(status) /\ Len(status) <= Len(moves)
        /\ trail \in Seq(S) /\ Len(trail) = Len(status) + 1
        /\ perspective \in PlayerIds \cup {NO_PLAYER}
        /\ \A i \in 1 .. Len(status) :
              moves[i].type = "Fire" /\ status[i].success => status[i].hits # {}
    BY DEF ReplayTypes
  <1>3. Len(moves) \in Nat /\ n \in Nat /\ n + 1 \in 1 .. Len(moves) /\ n + 1 - 1 = n
    BY <1>1, <1>2, Archive DEF MatchInv
  <1>4. /\ cmd \in Command /\ Allowed(inst, cmd)
        /\ Board(boards, n + 1).placed = Count(inst.placed, cmd)
    BY <1>1, <1>2, <1>3, DueIsAllowed
  <1>5. /\ Obeys(inst, done.game, cmd) /\ done.hits \in SUBSET Cells /\ done.success \in BOOLEAN
    BY <1>2, <1>4, ClientObeys
  <1>6. cmd.type = "Fire" /\ done.success => done.hits # {}
    BY <1>4 DEF Forward
  <1> HIDE DEF done
  <1>7. Fit(inst') /\ inst'.placed = Board(boards, n + 1).placed
    BY <1>1, <1>4, <1>5 DEF Obeys, Count
  <1>8. shown' \in View
    <2>1. n + 1 < Len(moves) => moves[n + 1 + 1] \in Command
      BY <1>3, Archive DEF MatchInv
    <2>2. n + 1 < Len(moves) => moves[n + 1 + 1].sender \in PlayerIds
      BY <2>1 DEF Command
    <2> QED BY <1>1, <1>2, <2>2, ForwardShown
  <1>9. st \in Status /\ new \in S
    BY <1>5, <1>7, <1>8 DEF Status, Fit
  <1> HIDE DEF S
  <1>10. /\ status' \in Seq(Status) /\ Len(status') = n + 1 /\ status'[n + 1] = st
         /\ \A i \in 1 .. n : status'[i] = status[i]
    <2>1. n \in 0 .. Len(status)
      BY <1>2, <1>3
    <2> HIDE DEF st, n
    <2> QED BY <1>1, <1>2, <1>9, <2>1, CutAndAppend
  <1>11. /\ trail' \in Seq(S) /\ Len(trail') = n + 1 + 1 /\ trail'[n + 1 + 1] = new
         /\ \A i \in 1 .. n + 1 : trail'[i] = trail[i]
    <2>1. n + 1 \in 0 .. Len(trail)
      BY <1>2, <1>3
    <2> DEFINE m == n + 1
    <2> HIDE DEF new, m
    <2>2. trail' = Append(SubSeq(trail, 1, m), new)
      BY <1>1 DEF m
    <2>3. /\ trail' \in Seq(S) /\ Len(trail') = m + 1 /\ trail'[m + 1] = new
          /\ \A i \in 1 .. m : trail'[i] = trail[i]
      BY <1>2, <1>9, <2>1, <2>2, CutAndAppend DEF m
    <2> QED BY <2>3 DEF m
  <1>12. \A i \in 1 .. n + 1 :
            moves[i].type = "Fire" /\ status'[i].success => status'[i].hits # {}
    <2>1. \A i \in 1 .. n + 1 : i = n + 1 \/ (i \in 1 .. n /\ i \in 1 .. Len(status))
      BY <1>2, <1>3
    <2> QED BY <1>2, <1>6, <1>10, <2>1, SMTT(30)
  <1>13. applied' \in 0 .. Len(moves) /\ applied' <= Len(status') /\ Len(status') <= Len(moves)
         /\ Len(trail') = Len(status') + 1
    BY <1>1, <1>3, <1>10, <1>11
  <1>14. moves' = moves /\ boards' = boards /\ stored' = stored /\ stored
    BY <1>1 DEF match
  <1>15. ReplayTypes'
    <2>1. Fit(inst)' /\ (inst.placed = Board(boards, applied).placed)'
      BY <1>1, <1>7, <1>14 DEF Board
    <2>2. (\A i \in 1 .. Len(status) :
              moves[i].type = "Fire" /\ status[i].success => status[i].hits # {})'
      BY <1>10, <1>12, <1>14
    <2>3. (trail \in Seq([inst : Game, shown : View]))'
      BY <1>11 DEF S
    <2>4. perspective' \in PlayerIds \cup {NO_PLAYER}
      BY <1>1, <1>2
    <2>5. Len(status') = applied'
      BY <1>1, <1>10
    <2> QED BY <1>8, <1>10, <1>13, <1>14, <2>1, <2>2, <2>3, <2>4, <2>5 DEF ReplayTypes
  <1>16. n + 1 + 1 = n + 2 /\ new.inst = inst'
    BY <1>3
  <1> HIDE DEF new, st
  <1> QED BY <1>1, <1>3, <1>4, <1>5, <1>7, <1>10, <1>11, <1>15, <1>16 DEF st, done

\* Placements are watched on free cells: only earlier ones have put tanks on the board.
LEMMA DueIsFree ==
    ASSUME MatchInv, NEW i \in 1 .. Len(moves), NEW g,
           (i = 1 \/ moves[i - 1].type = "Place") =>
              \A c \in Cells : g.occ[c] # NO_OCCUPANT =>
                \E j \in 1 .. i - 1 : Target(moves[j]) = c
    PROVE  OnFree(g, moves[i])
  <1> SUFFICES ASSUME moves[i].type = "Place", g.occ[Target(moves[i])] # NO_OCCUPANT
               PROVE  FALSE
    BY DEF OnFree
  <1>1. Len(moves) \in Nat
    BY Archive DEF MatchInv
  <1>2. i = 1 \/ (i - 1 \in 1 .. Len(moves) /\ i - 1 < i)
    BY <1>1
  <1>3. i = 1 \/ moves[i - 1].type = "Place"
    BY <1>2 DEF MatchInv, Sites
  <1>4. Target(moves[i]) \in Cells
    BY DEF MatchInv, Sites, Open
  <1>5. PICK j \in 1 .. i - 1 : Target(moves[j]) = Target(moves[i])
    BY <1>3, <1>4
  <1>6. j \in 1 .. Len(moves) /\ j < i
    BY <1>1
  <1> QED BY <1>5, <1>6 DEF MatchInv, Sites

LEMMA ForwardTrailed ==
    ASSUME MatchInv, ReplayInv, step_forward_turn
    PROVE  Trailed'
  <1> DEFINE n == applied
             m == applied + 1
             cmd == moves[m]
  <1>1. /\ n \in Nat /\ m \in 1 .. Len(moves)
        /\ UNCHANGED <<match, backed>>
        /\ cmd \in Command /\ ForwardValid(inst, cmd) /\ Allowed(inst, cmd)
        /\ Obeys(inst, inst', cmd) /\ inst' = Forward(inst, cmd).game /\ applied' = m
        /\ inst'.placed = Board(boards, m).placed
        /\ Len(status') = m
        /\ \A i \in 1 .. n : status'[i] = status[i]
        /\ status'[m] = [success |-> Forward(inst, cmd).success, hits |-> Forward(inst, cmd).hits]
        /\ Len(trail') = n + 2
        /\ \A i \in 1 .. m : trail'[i] = trail[i]
        /\ trail'[n + 2].inst = inst'
    BY ForwardTypes DEF ReplayInv
  <1>2. n <= Len(status) /\ Len(trail) = Len(status) + 1 /\ Len(status) \in Nat /\ Fit(inst)
    BY DEF ReplayInv, ReplayTypes
  <1> SUFFICES ASSUME backed # "inexact" PROVE Tracks'
    BY <1>1 DEF Trailed
  <1>3. /\ inst = trail[m].inst
        /\ \A i \in 1 .. Len(trail) :
             /\ Sound(trail[i].inst) /\ Full(trail[i].inst)
             /\ trail[i].inst.placed = Board(boards, i - 1).placed
             /\ (i = 1 \/ moves[i - 1].type = "Place") =>
                  \A c \in Cells : trail[i].inst.occ[c] # NO_OCCUPANT =>
                    \E j \in 1 .. i - 1 : Target(moves[j]) = c
        /\ \A i \in 1 .. Len(status) :
             /\ ForwardValid(trail[i].inst, moves[i])
             /\ trail[i + 1].inst = Forward(trail[i].inst, moves[i]).game
             /\ status[i] = [success |-> Forward(trail[i].inst, moves[i]).success,
                             hits |-> Forward(trail[i].inst, moves[i]).hits]
    BY DEF ReplayInv, Trailed, Tracks
  <1>4. /\ m \in 1 .. Len(trail) /\ m = n + 1 /\ n + 2 = m + 1 /\ m - 1 = n
        /\ \A i \in 1 .. n : i \in 1 .. Len(status) /\ i \in 1 .. m /\ i + 1 \in 1 .. m
        /\ \A i \in 1 .. m : i \in 1 .. n \/ i = m
        /\ \A i \in 1 .. m : i \in 1 .. Len(trail)
        /\ \A i \in 1 .. n + 2 : i \in 1 .. m \/ i = m + 1
        /\ m + 1 - 1 = m /\ m + 1 # 1
    BY <1>1, <1>2
  <1> HIDE DEF n, m
  <1>5. /\ Sound(inst) /\ Full(inst)
        /\ (m = 1 \/ moves[m - 1].type = "Place") =>
             \A c \in Cells : inst.occ[c] # NO_OCCUPANT => \E j \in 1 .. m - 1 : Target(moves[j]) = c
    BY <1>3, <1>4
  <1>6. OnFree(inst, cmd)
    BY <1>1, <1>5, DueIsFree
  <1>7. Sound(inst') /\ Full(inst')
    BY <1>1, <1>5, <1>6 DEF Obeys
  <1>8. ASSUME cmd.type = "Place", NEW c \in Cells, inst'.occ[c] # NO_OCCUPANT
        PROVE  \E j \in 1 .. m : Target(moves[j]) = c
    <2>1. /\ inst' = place_tank(inst, Target(cmd), cmd.sender, cmd.tank_id)
          /\ Target(cmd) \in Open /\ cmd.tank_id \in Dirs /\ cmd.sender \in PlayerIds
          /\ inst.placed[cmd.sender] < NumTanks
      BY <1>1, <1>8 DEF Forward, Done, Target, Allowed, Command
    <2> DEFINE T == NewTank(Target(cmd), cmd.sender, cmd.tank_id)
               s == Slot(cmd.sender, inst.placed[cmd.sender])
    <2>2. Adds(inst, inst', s, T)
      BY <1>2, <2>1, PlaceEffect
    <2>3. T.pos = Target(cmd)
      BY DEF NewTank
    <2> HIDE DEF s, T
    <2>4. inst.occ \in [Cells -> TankIds \cup {NO_OCCUPANT}]
      BY <1>2 DEF Fit, Game
    <2>5. c = Target(cmd) \/ inst'.occ[c] = inst.occ[c]
      BY <2>2, <2>3, <2>4 DEF Adds
    <2>6. CASE c = Target(cmd)
      <3>1. m \in 1 .. m
        BY <1>1
      <3> QED BY <2>6, <3>1
    <2>7. CASE inst'.occ[c] = inst.occ[c]
      <3>1. m = 1 \/ moves[m - 1].type = "Place"
        <4>1. m = 1 \/ (m - 1 \in 1 .. Len(moves) /\ m - 1 < m)
          BY <1>1, <1>4, Archive DEF MatchInv
        <4> QED BY <1>1, <1>8, <4>1 DEF MatchInv, Sites
      <3>2. PICK j \in 1 .. m - 1 : Target(moves[j]) = c
        BY <1>5, <1>8, <2>7, <3>1
      <3>3. j \in 1 .. m
        BY <1>1, <1>4
      <3> QED BY <3>2, <3>3
    <2> QED BY <2>5, <2>6, <2>7
  <1>9. moves' = moves /\ boards' = boards
    BY <1>1 DEF match
  <1>10. ASSUME NEW i \in 1 .. n + 2
         PROVE  /\ Sound(trail'[i].inst) /\ Full(trail'[i].inst)
                /\ trail'[i].inst.placed = Board(boards, i - 1).placed
                /\ (i = 1 \/ moves[i - 1].type = "Place") =>
                     \A c \in Cells : trail'[i].inst.occ[c] # NO_OCCUPANT =>
                       \E j \in 1 .. i - 1 : Target(moves[j]) = c
    <2>1. CASE i \in 1 .. m
      BY <1>1, <1>3, <1>4, <2>1, SMTT(30)
    <2>2. CASE i = m + 1
      <3>1. trail'[i].inst = inst' /\ i - 1 = m /\ i # 1
        BY <1>1, <1>4, <2>2
      <3> QED BY <1>1, <1>7, <1>8, <3>1
    <2> QED BY <1>4, <2>1, <2>2
  <1>11. ASSUME NEW i \in 1 .. m
         PROVE  /\ ForwardValid(trail'[i].inst, moves[i])
                /\ trail'[i + 1].inst = Forward(trail'[i].inst, moves[i]).game
                /\ status'[i] = [success |-> Forward(trail'[i].inst, moves[i]).success,
                                 hits |-> Forward(trail'[i].inst, moves[i]).hits]
    <2>1. CASE i \in 1 .. n
      <3>1. trail'[i] = trail[i] /\ trail'[i + 1] = trail[i + 1] /\ status'[i] = status[i]
        BY <1>1, <1>4, <2>1
      <3> QED BY <1>3, <1>4, <2>1, <3>1
    <2>2. CASE i = m
      <3>1. trail'[m] = trail[m] /\ trail[m].inst = inst /\ trail'[m + 1].inst = inst'
        BY <1>1, <1>3, <1>4
      <3> QED BY <1>1, <2>2, <3>1
    <2> QED BY <1>4, <2>1, <2>2
  <1>12. inst' = trail'[applied' + 1].inst
    BY <1>1, <1>4
  <1> QED BY <1>1, <1>9, <1>10, <1>11, <1>12 DEF Tracks

LEMMA FireForward ==
    ASSUME NEW g, NEW cmd \in Command, cmd.type = "Fire"
    PROVE  LET H == ShellHit(g, cmd.tank_id) IN
           /\ Forward(g, cmd).game = Shot(g, cmd.tank_id, H) /\ Forward(g, cmd).hits = H
           /\ Forward(g, cmd).success = (H # {})
  <1> DEFINE f == replay_fire_tank(g, cmd.tank_id)
             H == ShellHit(g, cmd.tank_id)
  <1>1. f = [hits |-> H, game |-> Shot(g, cmd.tank_id, H)]
    BY ShotsFired
  <1>2. Forward(g, cmd) = [game |-> f.game, success |-> f.hits # {}, hits |-> f.hits]
    BY DEF Forward
  <1> HIDE DEF f
  <1>3. f.game = Shot(g, cmd.tank_id, H) /\ f.hits = H
    BY <1>1
  <1> QED BY <1>2, <1>3

\* Without a hit on its own side, the client does what the server did.
LEMMA SameCommand ==
    ASSUME NEW g, NEW cmd \in Command, cmd.type # "Place" => TankOK(g, cmd),
           \A c \in Forward(g, cmd).hits : g.tanks[g.occ[c]].owner # cmd.sender
    PROVE  Forward(g, cmd).game = apply_command(g, cmd)
  <1>1. CASE cmd.type = "Fire"
    <2> DEFINE t == cmd.tank_id
               H == ShellHit(g, t)
               E == {c \in H : g.tanks[g.occ[c]].owner # g.tanks[t].owner}
    <2>1. g.tanks[t].owner = cmd.sender
      BY <1>1 DEF TankOK
    <2>2. Forward(g, cmd).hits = H /\ Forward(g, cmd).game = Shot(g, t, H)
      BY <1>1, FireForward
    <2>3. apply_command(g, cmd) = Shot(g, t, E)
      BY <1>1, ShotsFired DEF apply_command
    <2>4. E = H
      BY <2>1, <2>2
    <2> QED BY <2>2, <2>3, <2>4
  <1>2. CASE cmd.type # "Fire"
    BY <1>2 DEF Forward, apply_command, Done, Command
  <1> QED BY <1>1, <1>2

\* What is shown of the turn follows the turns of the match.
LEMMA TurnsAgree ==
    ASSUME NEW s \in Turn, NEW u \in Turn, NEW w \in Turn, NEW cmd, NEW n,
           n < Len(moves), Follows(s, cmd, u), Follows(u, moves[n + 1], w)
    PROVE  ForwardTurn(s, n) = u
  <1> DEFINE next == moves[n + 1]
  <1>1. /\ u = [state |-> u.state, player |-> u.player, fuel |-> u.fuel]
        /\ s = [state |-> s.state, player |-> s.player, fuel |-> s.fuel]
        /\ s.state \in {"Setup", "Play", "Concluded"} /\ s.fuel \in 1 .. 3
        /\ u.state \in {"Setup", "Play", "Concluded"} /\ u.fuel \in 1 .. 3
    BY DEF Turn
  <1>2. /\ u.player = next.sender /\ u.state # "Concluded"
        /\ next.type = "Place" <=> u.state = "Setup"
    BY DEF Follows
  <1>3. CASE s.state = "Setup"
    <2>1. u.fuel = TURN_PLAYER_FUEL /\ s.fuel = TURN_PLAYER_FUEL
      BY <1>2, <1>3 DEF Follows
    <2>2. CASE next.type # "Place"
      <3>1. ForwardTurn(s, n) = [state |-> "Play", player |-> next.sender, fuel |-> TURN_PLAYER_FUEL]
        BY <1>3, <2>2, Zenon DEF ForwardTurn
      <3>2. u.state = "Play"
        BY <1>1, <1>2, <2>2
      <3> QED BY <1>1, <1>2, <2>1, <3>1, <3>2
    <2>3. CASE next.type = "Place"
      <3>1. ForwardTurn(s, n) = [s EXCEPT !.player = next.sender]
        BY <1>3, <2>3, Zenon DEF ForwardTurn
      <3>2. [s EXCEPT !.player = next.sender] = [state |-> s.state, player |-> next.sender, fuel |-> s.fuel]
        BY DEF Turn
      <3> QED BY <1>1, <1>2, <1>3, <2>1, <2>3, <3>1, <3>2
    <2> QED BY <2>2, <2>3
  <1>4. CASE s.state = "Play"
    <2>1. /\ u.state = "Play" /\ u.fuel = IF s.fuel = 1 THEN TURN_PLAYER_FUEL ELSE s.fuel - 1
          /\ s.fuel # 1 => u.player = s.player
      BY <1>1, <1>2, <1>4 DEF Follows
    <2>2. CASE s.fuel = 1
      <3>1. ForwardTurn(s, n) = [s EXCEPT !.player = next.sender, !.fuel = TURN_PLAYER_FUEL]
        BY <1>1, <1>4, <2>2 DEF ForwardTurn
      <3> DEFINE v == [s EXCEPT !.player = next.sender, !.fuel = TURN_PLAYER_FUEL]
      <3>2. v \in Turn /\ v.state = s.state /\ v.player = next.sender /\ v.fuel = TURN_PLAYER_FUEL
        <4>1. next.sender \in PlayerIds /\ TURN_PLAYER_FUEL \in 1 .. 3
          BY <1>2 DEF Turn, TURN_PLAYER_FUEL
        <4> QED BY <4>1 DEF Turn
      <3> HIDE DEF v
      <3>3. v = [state |-> v.state, player |-> v.player, fuel |-> v.fuel]
        BY <3>2 DEF Turn
      <3> QED BY <1>1, <1>2, <1>4, <2>1, <2>2, <3>1, <3>2, <3>3 DEF v
    <2>3. CASE s.fuel # 1
      <3>1. s.fuel - 1 > 0
        BY <1>1, <2>3
      <3>2. ForwardTurn(s, n) = [s EXCEPT !.fuel = s.fuel - 1]
        BY <1>4, <3>1 DEF ForwardTurn
      <3>3. [s EXCEPT !.fuel = s.fuel - 1] = [state |-> s.state, player |-> s.player, fuel |-> s.fuel - 1]
        BY DEF Turn
      <3> QED BY <1>1, <1>4, <2>1, <2>3, <3>2, <3>3
    <2> QED BY <2>2, <2>3
  <1> QED BY <1>1, <1>3, <1>4 DEF Follows

LEMMA ForwardShows ==
    ASSUME MatchInv, ReplayInv, step_forward_turn
    PROVE  Shows'
  <1> DEFINE n == applied
             m == applied + 1
             cmd == moves[m]
  <1>1. /\ n \in Nat /\ m \in 1 .. Len(moves) /\ Len(moves) \in Nat
        /\ UNCHANGED <<match, backed>>
        /\ cmd \in Command /\ ForwardValid(inst, cmd) /\ Allowed(inst, cmd)
        /\ inst' = Forward(inst, cmd).game /\ applied' = m
        /\ shown' = ForwardTurn(shown, m)
        /\ \A i \in 1 .. n : status'[i] = status[i]
        /\ status'[m] = [success |-> Forward(inst, cmd).success, hits |-> Forward(inst, cmd).hits]
        /\ \A i \in 1 .. m : trail'[i] = trail[i]
    BY ForwardTypes, Archive DEF ReplayInv, MatchInv
  <1>2. moves' = moves /\ boards' = boards /\ dropped' = dropped /\ dropped \in Nat
    BY <1>1 DEF match, MatchInv, MatchTypes
  <1> SUFFICES ASSUME backed = "no",
                      \A i \in 1 .. m : \A c \in status'[i].hits :
                        trail'[i].inst.tanks[trail'[i].inst.occ[c]].owner # moves[i].sender
               PROVE  /\ dropped >= m => inst' = Board(boards, m)
                      /\ dropped > m /\ m < Len(moves) => shown' = TurnAt(boards, m)
    BY <1>1, <1>2 DEF Shows, FriendlyHit
  <1>3. inst = trail[m].inst
    BY DEF ReplayInv, Trailed, Tracks
  <1>4. ASSUME NEW i \in 1 .. n PROVE ~FriendlyHit(i)
    <2>1. i \in 1 .. m
      BY <1>1
    <2>2. status'[i] = status[i] /\ trail'[i] = trail[i]
      BY <1>1, <2>1
    <2> QED BY <2>1, <2>2 DEF FriendlyHit
  <1>5. \A c \in Forward(inst, cmd).hits : inst.tanks[inst.occ[c]].owner # cmd.sender
    <2>1. m \in 1 .. m
      BY <1>1
    <2>2. \A c \in status'[m].hits :
            trail'[m].inst.tanks[trail'[m].inst.occ[c]].owner # moves[m].sender
      BY <2>1
    <2>3. trail'[m].inst = inst /\ status'[m].hits = Forward(inst, cmd).hits
      BY <1>1, <1>3, <2>1
    <2> HIDE DEF m
    <2> QED BY <2>2, <2>3
  <1>6. /\ dropped >= n => inst = Board(boards, n)
        /\ dropped > n /\ n < Len(moves) => shown = TurnAt(boards, n)
    BY <1>4 DEF ReplayInv, Shows
  <1>7. m - 1 = n /\ n < m /\ n \in 0 .. Len(moves)
    BY <1>1
  <1>8. ASSUME dropped >= m PROVE inst' = Board(boards, m)
    <2>1. Board(boards, m) = apply_command(Board(boards, n), cmd)
      BY <1>1, <1>2, <1>7, <1>8 DEF MatchInv, Recorded
    <2>2. inst = Board(boards, n)
      BY <1>1, <1>2, <1>6, <1>8
    <2>3. inst' = apply_command(inst, cmd)
      BY <1>1, <1>5, SameCommand DEF Allowed
    <2> QED BY <2>1, <2>2, <2>3
  <1>9. ASSUME dropped > m, m < Len(moves) PROVE shown' = TurnAt(boards, m)
    <2>1. m + 1 \in 1 .. Len(moves) /\ m + 1 <= dropped /\ m + 1 - 1 = m /\ m <= dropped
      BY <1>1, <1>2, <1>9
    <2>2. Follows(TurnAt(boards, n), cmd, TurnAt(boards, m))
      BY <1>1, <1>7, <2>1 DEF MatchInv, Recorded
    <2>3. Follows(TurnAt(boards, m), moves[m + 1], TurnAt(boards, m + 1))
      <3> DEFINE k == m + 1
      <3>1. k \in 1 .. Len(moves) /\ k <= dropped /\ k - 1 = m
        BY <1>1, <1>2, <1>9
      <3> HIDE DEF k, m
      <3>2. Follows(TurnAt(boards, k - 1), moves[k], TurnAt(boards, k))
        BY <3>1 DEF MatchInv, Recorded
      <3> QED BY <3>1, <3>2 DEF k
    <2>4. shown = TurnAt(boards, n)
      BY <1>1, <1>2, <1>6, <1>9
    <2>5. /\ TurnAt(boards, n) \in Turn /\ TurnAt(boards, m) \in Turn
          /\ TurnAt(boards, m + 1) \in Turn
      BY <1>1, <1>7, <2>1, Archive DEF MatchInv
    <2> QED BY <1>1, <1>9, <2>2, <2>3, <2>4, <2>5, TurnsAgree
  <1> QED BY <1>8, <1>9

-----------------------------------------------------------------------------
(* A step back.                                                            *)

\* What taking a command back does to the board, whatever the board is.
LEMMA BackwardFits ==
    ASSUME NEW g, Fit(g), NEW cmd \in Command, BackwardValid(g, cmd), NEW st \in Status,
           cmd.type = "Fire" /\ st.success => st.hits # {},
           cmd.type = "Place" => g.placed[cmd.sender] > 0
    PROVE  LET k == Backward(g, cmd, st) IN
           /\ Fit(k)
           /\ k.placed = IF cmd.type = "Place" THEN [g.placed EXCEPT ![cmd.sender] = @ - 1]
                         ELSE g.placed
  <1> DEFINE k == Backward(g, cmd, st)
             t == cmd.tank_id
  <1>1. cmd.type \in {"Move", "RotateTank", "RotateBarrel", "Fire", "Load", "Place"}
    BY DEF Command
  <1>2. cmd.type # "Place" =>
            /\ TankOK(g, cmd) /\ t \in TankIds /\ g.tanks[t].owner = cmd.sender
            /\ cmd.sender \in PlayerIds /\ cmd.first \in Nat
    <2>1. cmd.type # "Place" => TankOK(g, cmd)
      BY <1>1 DEF BackwardValid
    <2> QED BY <2>1, Commander
  <1>3. g \in Game
    BY DEF Fit
  <1>4. Opposite(cmd.first) \in Nat
    BY DEF Opposite
  <1>5. CASE cmd.type = "Place"
    <2>1. Target(cmd) \in Cells /\ cmd.sender \in PlayerIds
      BY <1>5 DEF BackwardValid, Target, Command
    <2>2. k = remove_tank(g, Target(cmd), cmd.sender)
      BY <1>5 DEF Backward, Target
    <2> HIDE DEF k
    <2>3. Fit(k) /\ k.placed = [g.placed EXCEPT ![cmd.sender] = @ - 1]
      <3> DEFINE c == Target(cmd)
                 p == cmd.sender
      <3>1. c \in Cells /\ p \in PlayerIds /\ g.placed[p] > 0
        BY <1>5, <2>1
      <3> HIDE DEF c, p
      <3>2. Fit(remove_tank(g, c, p))
        BY <3>1, RemoveFits
      <3>3. remove_tank(g, c, p).placed = [g.placed EXCEPT ![p] = @ - 1]
        BY Zenon DEF remove_tank
      <3> QED BY <2>2, <3>2, <3>3 DEF c, p
    <2> QED BY <1>5, <2>3 DEF k
  <1>6. CASE cmd.type = "Move"
    <2>1. k = IF st.success THEN move_tank(g, t, cmd.first = 0).game ELSE g
      BY <1>6 DEF Backward
    <2>2. Obeys(g, move_tank(g, t, cmd.first = 0).game, cmd)
      BY <1>2, <1>6, MoveObeys
    <2> QED BY <1>6, <2>1, <2>2 DEF Obeys
  <1>7. CASE cmd.type \in {"RotateTank", "RotateBarrel", "Load"}
    <2>1. k \in {rotate_tank(g, t, Opposite(cmd.first)),
                 rotate_tank_barrel(g, t, Opposite(cmd.first)), unload_tank(g, t)}
      BY <1>7 DEF Backward
    <2> HIDE DEF k
    <2>2. Alike(g, k)
      <3> DEFINE o == Opposite(cmd.first)
      <3>1. t \in TankIds /\ g.tanks[t].owner \in PlayerIds /\ o \in Nat
        BY <1>2, <1>4, <1>7
      <3> HIDE DEF o, t
      <3>2. /\ Alike(g, rotate_tank(g, t, o)) /\ Alike(g, rotate_tank_barrel(g, t, o))
            /\ Alike(g, unload_tank(g, t))
        BY <1>3, <3>1, SmallChanges
      <3> QED BY <2>1, <3>2 DEF o, t
    <2>3. Fit(k) /\ k.placed = g.placed
      BY <2>2, AlikeKeeps DEF Alike
    <2> QED BY <1>7, <2>3 DEF k
  <1>8. CASE cmd.type = "Fire"
    <2> DEFINE r == IF st.success THEN repair_tank(g, CHOOSE c \in st.hits : TRUE) ELSE g
    <2>1. k = load_tank(r, t)
      BY <1>8, Zenon DEF Backward
    <2>2. Fit(r) /\ r.placed = g.placed /\ r.tanks[t].owner \in PlayerIds
      <3>1. CASE ~st.success
        BY <1>2, <1>8, <3>1
      <3>2. CASE st.success
        <4> DEFINE c == CHOOSE c \in st.hits : TRUE
        <4>1. c \in Cells
          BY <1>8, <3>2 DEF Status
        <4> HIDE DEF c
        <4>2. /\ Fit(repair_tank(g, c)) /\ repair_tank(g, c).placed = g.placed
              /\ repair_tank(g, c).tanks[t].owner = g.tanks[t].owner
          <5>1. g.tanks[t] \in Tank
            BY <1>2, <1>3, <1>8 DEF Game
          <5>2. [g.tanks[t] EXCEPT !.health = INITIAL_HEALTH].owner = g.tanks[t].owner
            BY <5>1 DEF Tank
          <5> DEFINE here == IF g.occ[c] # NO_OCCUPANT THEN {g.occ[c]}
                             ELSE {u \in TankIds : g.tanks[u].pos = c}
          <5>3. /\ Fit(repair_tank(g, c)) /\ repair_tank(g, c).placed = g.placed
                /\ repair_tank(g, c).tanks = [u \in TankIds |->
                      IF u \in here THEN [g.tanks[u] EXCEPT !.health = INITIAL_HEALTH]
                      ELSE g.tanks[u]]
            BY <4>1, RepairFits, ZenonT(40)
          <5> HIDE DEF here
          <5> QED BY <1>2, <1>8, <5>2, <5>3
        <4>3. r = repair_tank(g, c)
          BY <3>2 DEF c
        <4> QED BY <1>2, <1>8, <4>2, <4>3
      <3> QED BY <3>1, <3>2
    <2> HIDE DEF r, k
    <2>3. Alike(r, load_tank(r, t))
      <3>1. r \in Game /\ t \in TankIds /\ 0 \in Nat
        BY <1>2, <1>8, <2>2 DEF Fit
      <3> QED BY <2>2, <3>1, SmallChanges
    <2>4. Fit(k) /\ k.placed = g.placed
      BY <2>1, <2>2, <2>3, AlikeKeeps DEF Alike
    <2> QED BY <1>8, <2>4 DEF k
  <1> QED BY <1>1, <1>5, <1>6, <1>7, <1>8

LEMMA BackwardShown ==
    ASSUME NEW s \in View, NEW n, n # 0 => moves[n].sender \in PlayerIds
    PROVE  BackwardTurn(s, n) \in View
  <1> DEFINE p == moves[n].sender
             start == [state |-> "Setup", player |-> 0, fuel |-> TURN_PLAYER_FUEL]
  <1>1. TURN_PLAYER_FUEL \in Int /\ s.fuel + 1 \in Int /\ 1 \in Int
    BY DEF TURN_PLAYER_FUEL, View
  <1>2. start \in View
    BY <1>1, Ids, ViewMembers
  <1>3. CASE n = 0
    BY <1>2, <1>3 DEF BackwardTurn
  <1>4. CASE n # 0
    <2>1. BackwardTurn(s, n) \in
            {[s EXCEPT !.player = p], [start EXCEPT !.player = p],
             [s EXCEPT !.player = p, !.fuel = 1], [s EXCEPT !.fuel = s.fuel + 1]}
      BY <1>4, Zenon DEF BackwardTurn
    <2> HIDE DEF start, p
    <2>2. p \in PlayerIds
      BY <1>4 DEF p
    <2>3. /\ [s EXCEPT !.player = p] \in View /\ [start EXCEPT !.player = p] \in View
          /\ [s EXCEPT !.player = p, !.fuel = 1] \in View
          /\ [s EXCEPT !.fuel = s.fuel + 1] \in View
      BY <1>1, <1>2, <2>2, ViewMembers
    <2> QED BY <2>1, <2>3, Zenon
  <1> QED BY <1>3, <1>4

LEMMA CountBack ==
    ASSUME NEW f \in [PlayerIds -> 0 .. NumTanks], NEW p \in PlayerIds,
           NEW h, h = [f EXCEPT ![p] = @ + 1]
    PROVE  h[p] > 0 /\ [h EXCEPT ![p] = @ - 1] = f
  <1>1. f[p] \in Nat
    BY Ids
  <1>2. h[p] = f[p] + 1
    OBVIOUS
  <1>3. h[p] - 1 = f[p] /\ h[p] > 0
    BY <1>1, <1>2
  <1>4. [h EXCEPT ![p] = f[p]] = f
    BY <1>2
  <1> QED BY <1>3, <1>4

LEMMA BackwardTypes ==
    ASSUME MatchInv, ReplayTypes, step_backward_turn
    PROVE  /\ applied \in 1 .. Len(moves) /\ applied \in 1 .. Len(status)
           /\ UNCHANGED <<match, stored, status, trail>>
           /\ inst' = Backward(inst, moves[applied], status[applied]) /\ applied' = applied - 1
           /\ backed' # "no"
           /\ backed' # "inexact" => backed # "inexact" /\ RepairIsExact(applied)
           /\ ReplayTypes'
  <1> DEFINE n == applied
             cmd == moves[applied]
             st == status[applied]
  <1>1. /\ stored /\ n > 0 /\ BackwardValid(inst, cmd) /\ inst' = Backward(inst, cmd, st)
        /\ applied' = n - 1 /\ shown' = BackwardTurn(shown, n - 1)
        /\ backed' = (IF backed # "inexact" /\ RepairIsExact(n) THEN "exact" ELSE "inexact")
        /\ UNCHANGED <<match, stored, status, perspective, trail>>
    BY Zenon DEF step_backward_turn
  <1>2. /\ n \in 0 .. Len(moves) /\ Fit(inst) /\ inst.placed = Board(boards, n).placed
        /\ shown \in View
        /\ status \in Seq(Status) /\ n <= Len(status) /\ Len(status) <= Len(moves)
        /\ \A i \in 1 .. Len(status) :
              moves[i].type = "Fire" /\ status[i].success => status[i].hits # {}
    BY DEF ReplayTypes
  <1>3. /\ Len(moves) \in Nat /\ Len(status) \in Nat /\ n \in 1 .. Len(moves)
        /\ n \in 1 .. Len(status) /\ n - 1 \in 0 .. Len(moves)
    BY <1>1, <1>2, Archive DEF MatchInv
  <1>4. /\ cmd \in Command /\ st \in Status /\ Board(boards, n - 1) \in Game
        /\ (cmd.type = "Fire" /\ st.success => st.hits # {})
    BY <1>2, <1>3, Archive, ElementOfSeq DEF MatchInv
  <1>5. inst.placed = Count(Board(boards, n - 1).placed, cmd)
    BY <1>2, <1>3 DEF MatchInv, Recorded
  <1> DEFINE f == Board(boards, n - 1).placed
  <1>6. f \in [PlayerIds -> 0 .. NumTanks]
    BY <1>4 DEF Game
  <1> HIDE DEF f
  <1>7. cmd.type = "Place" => /\ inst.placed[cmd.sender] > 0
                              /\ [inst.placed EXCEPT ![cmd.sender] = @ - 1] = f
    <2> SUFFICES ASSUME cmd.type = "Place"
                 PROVE  /\ inst.placed[cmd.sender] > 0
                        /\ [inst.placed EXCEPT ![cmd.sender] = @ - 1] = f
      OBVIOUS
    <2>1. cmd.sender \in PlayerIds
      BY <1>4 DEF Command
    <2>2. inst.placed = [f EXCEPT ![cmd.sender] = @ + 1]
      BY <1>5 DEF Count, f
    <2> HIDE DEF cmd
    <2> QED BY <1>6, <2>1, <2>2, CountBack
  <1>8. Fit(inst') /\ inst'.placed = f
    <2> HIDE DEF cmd, st
    <2>1. /\ Fit(Backward(inst, cmd, st))
          /\ Backward(inst, cmd, st).placed =
               IF cmd.type = "Place" THEN [inst.placed EXCEPT ![cmd.sender] = @ - 1]
               ELSE inst.placed
      BY <1>1, <1>2, <1>4, <1>7, BackwardFits, ZenonT(40)
    <2> QED BY <1>1, <1>5, <1>7, <2>1 DEF Count, f
  <1>9. shown' \in View
    <2>1. n - 1 # 0 => moves[n - 1] \in Command
      BY <1>3, Archive DEF MatchInv
    <2>2. n - 1 # 0 => moves[n - 1].sender \in PlayerIds
      BY <2>1 DEF Command
    <2> QED BY <1>1, <1>2, <2>2, BackwardShown
  <1>10. moves' = moves /\ boards' = boards
    BY <1>1 DEF match
  <1>11. inst'.placed = Board(boards', applied').placed
    BY <1>1, <1>8, <1>10 DEF f
  <1>12. applied' \in 0 .. Len(moves) /\ applied' <= Len(status)
    BY <1>1, <1>2, <1>3
  <1>13. ReplayTypes'
    BY <1>1, <1>8, <1>9, <1>10, <1>11, <1>12 DEF ReplayTypes
  <1> QED BY <1>1, <1>3, <1>13

\* A step one way and a step the other way.
LEMMA ThereAndBack ==
    ASSUME NEW c \in Cells, NEW d \in Dirs
    PROVE  /\ Plus(Plus(c, 1, d), 1, Reverse8(d)) = c
           /\ Plus(Plus(c, 1, Reverse8(d)), 1, d) = c
  <1>1. c = <<c[1], c[2]>> /\ c[1] \in 0 .. 253 /\ c[2] \in 0 .. 253
    BY OnTheBoard
  <1> DEFINE x == c[1]  y == c[2]
  <1> HIDE DEF x, y
  <1>2. c = <<x, y>> /\ x \in 0 .. 253 /\ y \in 0 .. 253
    BY <1>1 DEF x, y
  <1>4. d \in {0, 1, 2, 3, 4, 5, 6, 7}
    BY DEF Dirs
  <1>5. /\ DirToVec(0) = <<0, -1>> /\ DirToVec(1) = <<1, -1>> /\ DirToVec(2) = <<1, 0>>
        /\ DirToVec(3) = <<1, 1>> /\ DirToVec(4) = <<0, 1>> /\ DirToVec(5) = <<-1, 1>>
        /\ DirToVec(6) = <<-1, 0>> /\ DirToVec(7) = <<-1, -1>>
    BY DEF DirToVec
  <1>6. /\ Reverse8(0) = 4 /\ Reverse8(1) = 5 /\ Reverse8(2) = 6 /\ Reverse8(3) = 7
        /\ Reverse8(4) = 0 /\ Reverse8(5) = 1 /\ Reverse8(6) = 2 /\ Reverse8(7) = 3
    BY DEF Reverse8
  <1>7. DirToVec(Reverse8(d)) = <<-(DirToVec(d)[1]), -(DirToVec(d)[2])>>
    BY <1>4, <1>5, <1>6
  <1>8. DirToVec(d)[1] \in {-1, 0, 1} /\ DirToVec(d)[2] \in {-1, 0, 1}
    BY <1>4, <1>5
  <1> DEFINE a == DirToVec(d)[1]  b == DirToVec(d)[2]
  <1> HIDE DEF a, b
  <1>9. a \in {-1, 0, 1} /\ b \in {-1, 0, 1}
    BY <1>8 DEF a, b
  <1>10. /\ (((x + a + 256) % 256) + (-a) + 256) % 256 = x
         /\ (((x + (-a) + 256) % 256) + a + 256) % 256 = x
         /\ (((y + b + 256) % 256) + (-b) + 256) % 256 = y
         /\ (((y + (-b) + 256) % 256) + b + 256) % 256 = y
    BY <1>2, <1>9
  <1>11. /\ DirToVec(d)[1] = a /\ DirToVec(d)[2] = b
         /\ DirToVec(Reverse8(d))[1] = -a /\ DirToVec(Reverse8(d))[2] = -b
         /\ 1 * a = a /\ 1 * b = b /\ 1 * (-a) = -a /\ 1 * (-b) = -b
    BY <1>7, <1>9 DEF a, b
  <1>12. /\ Plus(c, 1, d) = <<(x + a + 256) % 256, (y + b + 256) % 256>>
         /\ Plus(c, 1, Reverse8(d)) = <<(x + (-a) + 256) % 256, (y + (-b) + 256) % 256>>
    BY <1>2, <1>11 DEF Plus
  <1>13. /\ Plus(Plus(c, 1, d), 1, Reverse8(d)) =
              <<(((x + a + 256) % 256) + (-a) + 256) % 256, (((y + b + 256) % 256) + (-b) + 256) % 256>>
         /\ Plus(Plus(c, 1, Reverse8(d)), 1, d) =
              <<(((x + (-a) + 256) % 256) + a + 256) % 256, (((y + (-b) + 256) % 256) + b + 256) % 256>>
    BY <1>11, <1>12 DEF Plus
  <1> QED BY <1>2, <1>10, <1>13

LEMMA OnOwnList ==
    ASSUME NEW g, Sound(g), NEW t \in TankIds, g.tanks[t].owner \in PlayerIds
    PROVE  t \in TanksOf(g, g.tanks[t].owner) /\ g.tanks[t].pos \in Open
  <1>1. g.tanks[t] # NoTank
    BY Ids DEF NoTank
  <1>2. t \in TanksOf(g, g.tanks[t].owner)
    BY <1>1 DEF Sound
  <1> QED BY <1>2 DEF Sound, Fit

LEMMA UndoMove ==
    ASSUME NEW g, Sound(g), Full(g), NEW t \in TankIds, Alive(g, t),
           g.tanks[t].owner \in PlayerIds, NEW reverse \in BOOLEAN,
           move_tank(g, t, reverse).ok
    PROVE  move_tank(move_tank(g, t, reverse).game, t, ~reverse).game = g
  <1> DEFINE k == move_tank(g, t, reverse).game
             to == Ahead(g, t, reverse)
             prev == g.tanks[t].pos
             d == g.tanks[t].dir
             j == move_tank(k, t, ~reverse).game
  <1>1. g \in Game /\ Fit(g) /\ g.tanks \in [TankIds -> Tank] /\ g.tanks[t] \in Tank
        /\ g.occ \in [Cells -> TankIds \cup {NO_OCCUPANT}]
    BY DEF Sound, Fit, Game
  <1>2. CanEnter(g, prev, to) /\ to \in Open /\ g.occ[to] = NO_OCCUPANT /\ Moves(g, k, t, to)
    BY <1>1, MoveEffect
  <1>3. prev \in Open /\ prev \in Cells /\ prev \notin Terrain /\ to \in Cells
    BY <1>2, OnOwnList DEF Open
  <1>4. g.occ[prev] = t /\ prev # to
    BY <1>2, Ids DEF Full
  <1>5. d \in Dirs
    BY <1>1 DEF Tank
  <1>6. to = Plus(prev, 1, IF reverse THEN Reverse8(d) ELSE d)
    BY DEF Ahead
  <1> HIDE DEF k, to
  <1>7. /\ k \in Game /\ k.placed = g.placed
        /\ k.occ = [g.occ EXCEPT ![prev] = NO_OCCUPANT, ![to] = t]
        /\ k.tanks = [g.tanks EXCEPT ![t] = [g.tanks[t] EXCEPT !.pos = to]]
    BY <1>2 DEF Moves
  <1>8. k.tanks[t] = [g.tanks[t] EXCEPT !.pos = to]
    BY <1>1, <1>7
  <1>9. k.tanks[t].pos = to /\ k.tanks[t].dir = d
    BY <1>1, <1>8 DEF Tank
  <1>10. Ahead(k, t, ~reverse) = prev
    BY <1>3, <1>5, <1>6, <1>9, ThereAndBack DEF Ahead
  <1>11. k.occ[prev] = NO_OCCUPANT
    BY <1>1, <1>3, <1>4, <1>7
  <1>12. CanEnter(k, to, prev)
    <2> HIDE DEF prev
    <2> QED BY <1>2, <1>3, <1>11 DEF CanEnter
  <1>13. Moves(k, j, t, prev)
    <2>1. (~reverse) \in BOOLEAN
      OBVIOUS
    <2> HIDE DEF prev
    <2> QED BY <1>7, <1>9, <1>10, <1>12, <2>1, MoveEffect
  <1> HIDE DEF j
  <1>14. /\ j \in Game /\ j.placed = g.placed
         /\ j.occ = [k.occ EXCEPT ![to] = NO_OCCUPANT, ![prev] = t]
         /\ j.tanks = [k.tanks EXCEPT ![t] = [k.tanks[t] EXCEPT !.pos = prev]]
    BY <1>7, <1>9, <1>13 DEF Moves
  <1>15. j.occ = g.occ
    <2> HIDE DEF prev
    <2> QED BY <1>1, <1>2, <1>3, <1>4, <1>7, <1>14
  <1>16. [k.tanks[t] EXCEPT !.pos = prev] = g.tanks[t]
    <2> DEFINE T == g.tanks[t]
    <2>1. [[T EXCEPT !.pos = to] EXCEPT !.pos = prev] \in Tank /\ T \in Tank
      BY <1>1, <1>3, TankMembers
    <2>2. LET U == [[T EXCEPT !.pos = to] EXCEPT !.pos = prev] IN
          /\ U.pos = T.pos /\ U.dir = T.dir /\ U.barrel = T.barrel /\ U.health = T.health
          /\ U.loaded = T.loaded /\ U.owner = T.owner
      BY <1>1 DEF Tank
    <2> HIDE DEF T
    <2>3. [[T EXCEPT !.pos = to] EXCEPT !.pos = prev] = T
      BY <2>1, <2>2, SameTank
    <2> QED BY <1>8, <2>3 DEF T
  <1>17. j.tanks = g.tanks
    BY <1>1, <1>7, <1>14, <1>16
  <1> QED BY <1>1, <1>14, <1>15, <1>17, SameGame DEF j, k

\* One tank of a game is changed and changed back.
LEMMA UndoTank ==
    ASSUME NEW g \in Game, NEW k \in Game, NEW j \in Game, NEW t \in TankIds, NEW U, NEW V,
           k.occ = g.occ, k.placed = g.placed, j.occ = k.occ, j.placed = k.placed,
           k.tanks = [g.tanks EXCEPT ![t] = U], j.tanks = [k.tanks EXCEPT ![t] = V],
           V = g.tanks[t]
    PROVE  j = g
  <1>1. g.tanks \in [TankIds -> Tank]
    BY DEF Game
  <1>2. j.tanks = g.tanks
    BY <1>1
  <1> QED BY <1>2, SameGame

LEMMA UndoTurn ==
    ASSUME NEW g \in Game, NEW t \in TankIds, g.tanks[t].owner \in PlayerIds, NEW n \in Nat
    PROVE  /\ rotate_tank(rotate_tank(g, t, n), t, Opposite(n)) = g
           /\ rotate_tank_barrel(rotate_tank_barrel(g, t, n), t, Opposite(n)) = g
           /\ g.tanks[t].loaded => load_tank(unload_tank(g, t), t) = g
           /\ ~g.tanks[t].loaded => unload_tank(load_tank(g, t), t) = g
  <1> DEFINE T == g.tanks[t]
             o == Opposite(n)
             a == rotate_tank(g, t, n)
             b == rotate_tank_barrel(g, t, n)
             l == load_tank(g, t)
             u == unload_tank(g, t)
  <1>1. g.tanks \in [TankIds -> Tank] /\ T \in Tank /\ o \in Nat
    BY DEF Game, Opposite
  <1>2. /\ T.dir \in Dirs /\ T.barrel \in Dirs /\ T.loaded \in BOOLEAN
        /\ Turned(Turned(T.dir, n), o) = T.dir /\ Turned(Turned(T.barrel, n), o) = T.barrel
    BY <1>1, TurnedDir DEF Tank
  <1>3. /\ Alike(g, a) /\ Alike(g, b) /\ Alike(g, l) /\ Alike(g, u)
        /\ a.tanks = [g.tanks EXCEPT ![t] = [T EXCEPT !.dir = Turned(T.dir, n)]]
        /\ b.tanks = [g.tanks EXCEPT ![t] = [T EXCEPT !.barrel = Turned(T.barrel, n)]]
        /\ l.tanks = [g.tanks EXCEPT ![t] = [T EXCEPT !.loaded = TRUE]]
        /\ u.tanks = [g.tanks EXCEPT ![t] = [T EXCEPT !.loaded = FALSE]]
    BY SmallChanges
  <1> HIDE DEF a, b, l, u, o
  <1>4. /\ a.tanks[t] = [T EXCEPT !.dir = Turned(T.dir, n)]
        /\ b.tanks[t] = [T EXCEPT !.barrel = Turned(T.barrel, n)]
        /\ l.tanks[t] = [T EXCEPT !.loaded = TRUE]
        /\ u.tanks[t] = [T EXCEPT !.loaded = FALSE]
    BY <1>1, <1>3
  <1>5. /\ a.tanks[t].owner \in PlayerIds /\ b.tanks[t].owner \in PlayerIds
        /\ l.tanks[t].owner \in PlayerIds /\ u.tanks[t].owner \in PlayerIds
        /\ a \in Game /\ b \in Game /\ l \in Game /\ u \in Game
        /\ a.occ = g.occ /\ b.occ = g.occ /\ l.occ = g.occ /\ u.occ = g.occ
        /\ a.placed = g.placed /\ b.placed = g.placed /\ l.placed = g.placed /\ u.placed = g.placed
    BY <1>3 DEF Alike
  <1> HIDE DEF T
  <1>6. rotate_tank(a, t, o) = g
    <2> DEFINE r == rotate_tank(a, t, o)
               U == [T EXCEPT !.dir = Turned(T.dir, n)]
               V == [a.tanks[t] EXCEPT !.dir = Turned(a.tanks[t].dir, o)]
    <2>0. a \in Game /\ a.tanks[t].owner \in PlayerIds /\ o \in Nat
      BY <1>1, <1>5
    <2>a. Alike(a, r)
      BY <2>0, SmallChanges
    <2>b. r.tanks = [a.tanks EXCEPT ![t] = V]
      <3>1. a.tanks[t] \in Tank
        BY <2>0 DEF Game
      <3> QED BY <2>0, <3>1 DEF rotate_tank, Game, Tank
    <2>1. Alike(a, r) /\ r.tanks = [a.tanks EXCEPT ![t] = V]
      BY <2>a, <2>b
    <2> HIDE DEF r
    <2>2. a.tanks[t].dir = Turned(T.dir, n)
      BY <1>1, <1>4 DEF Tank
    <2>3. [a.tanks[t] EXCEPT !.dir = T.dir] = T
      BY <1>1, <1>4 DEF Tank
    <2>4. V = g.tanks[t]
      BY <1>2, <2>2, <2>3 DEF T
    <2>5. a.tanks = [g.tanks EXCEPT ![t] = U]
      BY <1>3
    <2> HIDE DEF V, U
    <2>6. r \in Game /\ r.occ = a.occ /\ r.placed = a.placed
      BY <2>1 DEF Alike
    <2>7. r = g
      BY <1>5, <2>1, <2>4, <2>5, <2>6, UndoTank, SMTT(30)
    <2> QED BY <2>7 DEF r
  <1>7. rotate_tank_barrel(b, t, o) = g
    <2> DEFINE r == rotate_tank_barrel(b, t, o)
               U == [T EXCEPT !.barrel = Turned(T.barrel, n)]
               V == [b.tanks[t] EXCEPT !.barrel = Turned(b.tanks[t].barrel, o)]
    <2>0. b \in Game /\ b.tanks[t].owner \in PlayerIds /\ o \in Nat
      BY <1>1, <1>5
    <2>a. Alike(b, r)
      BY <2>0, SmallChanges
    <2>b. r.tanks = [b.tanks EXCEPT ![t] = V]
      <3>1. b.tanks[t] \in Tank
        BY <2>0 DEF Game
      <3> QED BY <2>0, <3>1 DEF rotate_tank_barrel, Game, Tank
    <2>1. Alike(b, r) /\ r.tanks = [b.tanks EXCEPT ![t] = V]
      BY <2>a, <2>b
    <2> HIDE DEF r
    <2>2. b.tanks[t].barrel = Turned(T.barrel, n)
      BY <1>1, <1>4 DEF Tank
    <2>3. [b.tanks[t] EXCEPT !.barrel = T.barrel] = T
      BY <1>1, <1>4 DEF Tank
    <2>4. V = g.tanks[t]
      BY <1>2, <2>2, <2>3 DEF T
    <2>5. b.tanks = [g.tanks EXCEPT ![t] = U]
      BY <1>3
    <2> HIDE DEF V, U
    <2>6. r \in Game /\ r.occ = b.occ /\ r.placed = b.placed
      BY <2>1 DEF Alike
    <2>7. r = g
      BY <1>5, <2>1, <2>4, <2>5, <2>6, UndoTank, SMTT(30)
    <2> QED BY <2>7 DEF r
  <1>8. ASSUME T.loaded PROVE load_tank(u, t) = g
    <2>1. /\ load_tank(u, t) \in Game /\ load_tank(u, t).occ = u.occ
          /\ load_tank(u, t).placed = u.placed
          /\ load_tank(u, t).tanks = [u.tanks EXCEPT ![t] = [u.tanks[t] EXCEPT !.loaded = TRUE]]
      BY <1>1, <1>5, SmallChanges, ZenonT(40) DEF Alike
    <2>2. [u.tanks[t] EXCEPT !.loaded = TRUE] = T
      BY <1>1, <1>2, <1>4, <1>8 DEF Tank
    <2> QED BY <1>3, <1>5, <2>1, <2>2, UndoTank, SMTT(30) DEF T
  <1>9. ASSUME ~T.loaded PROVE unload_tank(l, t) = g
    <2>1. /\ unload_tank(l, t) \in Game /\ unload_tank(l, t).occ = l.occ
          /\ unload_tank(l, t).placed = l.placed
          /\ unload_tank(l, t).tanks = [l.tanks EXCEPT ![t] = [l.tanks[t] EXCEPT !.loaded = FALSE]]
      BY <1>1, <1>5, SmallChanges, ZenonT(40) DEF Alike
    <2>2. [l.tanks[t] EXCEPT !.loaded = FALSE] = T
      BY <1>1, <1>2, <1>4, <1>9 DEF Tank
    <2> QED BY <1>3, <1>5, <2>1, <2>2, UndoTank, SMTT(30) DEF T
  <1> QED BY <1>6, <1>7, <1>8, <1>9 DEF T, o, a, b, l, u

\* A shell and its repair: an undamaged tank was hit, and if it died nothing else had
\* its last position there.
LEMMA UndoFire ==
    ASSUME NEW g, Sound(g), NEW t \in TankIds, g.tanks[t].owner \in PlayerIds,
           g.tanks[t].loaded, ShellHit(g, t) # {},
           \A c \in ShellHit(g, t) :
             /\ g.tanks[g.occ[c]].health = INITIAL_HEALTH
             /\ INITIAL_HEALTH = SHELL_DAMAGE =>
                  \A u \in TankIds : g.tanks[u].pos = c => u = g.occ[c]
    PROVE  load_tank(repair_tank(Shot(g, t, ShellHit(g, t)),
                                 CHOOSE c \in ShellHit(g, t) : TRUE), t) = g
  <1> DEFINE c == CHOOSE x \in ShellHit(g, t) : TRUE
             f == unload_tank(g, t)
             h == g.occ[c]
             k == Shot(g, t, ShellHit(g, t))
             r == repair_tank(k, c)
             dd == deal_damage(f.tanks[h].health, SHELL_DAMAGE)
  <1>1. g \in Game /\ Fit(g)
    BY DEF Sound, Fit
  <1>2. c \in ShellHit(g, t)
    OBVIOUS
  <1>3. k = Damaged(f, c)
    BY DEF Shot
  <1> HIDE DEF c
  <1>4. c \in Cells /\ h \in TankIds
    BY <1>1, <1>2, HitsAreTanks
  <1>5. /\ g.tanks[h].health = INITIAL_HEALTH
        /\ INITIAL_HEALTH = 1 => \A u \in TankIds : g.tanks[u].pos = c => u = h
    BY <1>2 DEF SHELL_DAMAGE
  <1>6. g.tanks[h].pos = c /\ h # NO_OCCUPANT
    BY <1>4, Ids DEF Sound
  <1>7. Alike(g, f) /\ Fit(f)
    <2>1. Alike(g, f)
      BY <1>1, SmallChanges
    <2> QED BY <1>1, <2>1, AlikeKeeps
  <1> HIDE DEF f
  <1>8. /\ f \in Game /\ f.occ = g.occ /\ f.placed = g.placed
        /\ \A u \in TankIds : f.tanks[u].pos = g.tanks[u].pos
        /\ f.tanks[h].health = INITIAL_HEALTH
    BY <1>4, <1>5, <1>7 DEF Alike
  <1> HIDE DEF h
  <1>9. h = f.occ[c]
    BY <1>8 DEF h
  <1>10. Strikes(f, k, h)
    <2>1. f.occ[c] \in TankIds
      BY <1>4, <1>9
    <2> HIDE DEF k
    <2> QED BY <1>3, <1>4, <1>8, <1>9, <2>1, DamageEffect
  <1> HIDE DEF k
  <1>11. Fit(k) /\ \A u \in TankIds : k.tanks[u].pos = f.tanks[u].pos
    BY <1>4, <1>7, <1>10, StrikeKeeps
  <1>12. dd \in Nat /\ (dd = 0 => INITIAL_HEALTH = 1)
    BY <1>8, OnTheBoard DEF deal_damage, SHELL_DAMAGE
  <1> HIDE DEF dd
  <1>13. /\ k.placed = f.placed
         /\ k.tanks = [f.tanks EXCEPT ![h] = [f.tanks[h] EXCEPT !.health = dd]]
         /\ k.occ = IF dd = 0 THEN [f.occ EXCEPT ![c] = NO_OCCUPANT] ELSE f.occ
    <2>1. f.tanks[h].pos = c
      BY <1>4, <1>6, <1>8
    <2> QED BY <1>10, <2>1 DEF Strikes, dd
  <1>14. /\ f.tanks \in [TankIds -> Tank] /\ f.occ \in [Cells -> TankIds \cup {NO_OCCUPANT}]
    BY <1>8 DEF Game
  <1> DEFINE here == IF k.occ[c] # NO_OCCUPANT THEN {k.occ[c]}
                     ELSE {u \in TankIds : k.tanks[u].pos = c}
  <1>15. here = {h}
    <2>1. CASE dd = 0
      <3>1. k.occ[c] = NO_OCCUPANT
        BY <1>4, <1>13, <1>14, <2>1
      <3>2. \A u \in TankIds : k.tanks[u].pos = c <=> u = h
        BY <1>4, <1>5, <1>6, <1>8, <1>11, <1>12, <2>1
      <3> QED BY <1>4, <3>1, <3>2
    <2>2. CASE dd # 0
      BY <1>6, <1>9, <1>13, <2>2
    <2> QED BY <2>1, <2>2
  <1>16. /\ Fit(r) /\ r.placed = k.placed
         /\ r.tanks = [u \in TankIds |->
                IF u \in here THEN [k.tanks[u] EXCEPT !.health = INITIAL_HEALTH]
                ELSE k.tanks[u]]
         /\ r.occ = IF here = {} THEN k.occ ELSE [k.occ EXCEPT ![c] = Max(here)]
    BY <1>4, <1>11, RepairFits, ZenonT(40)
  <1> HIDE DEF here, r
  <1>17. Max(here) = h /\ here # {}
    <2>1. {h} \subseteq TankIds /\ {h} # {}
      BY <1>4
    <2>2. Max({h}) \in {h}
      BY <2>1, MaxMember
    <2> QED BY <1>15, <2>2
  <1>18. r.occ = f.occ
    BY <1>4, <1>9, <1>13, <1>14, <1>16, <1>17
  <1>19. r.tanks = f.tanks
    <2>1. ASSUME NEW u \in TankIds PROVE r.tanks[u] = f.tanks[u]
      <3>1. CASE u = h
        <4> DEFINE F == f.tanks[h]
        <4>1. F \in Tank /\ F.health = INITIAL_HEALTH
          BY <1>4, <1>8, <1>14
        <4>2. k.tanks[h] = [F EXCEPT !.health = dd]
          BY <1>4, <1>13, <1>14
        <4>3. r.tanks[h] = [k.tanks[h] EXCEPT !.health = INITIAL_HEALTH]
          BY <1>4, <1>15, <1>16
        <4> HIDE DEF F
        <4>4. [[F EXCEPT !.health = dd] EXCEPT !.health = INITIAL_HEALTH] = F
          BY <4>1 DEF Tank
        <4> QED BY <3>1, <4>2, <4>3, <4>4 DEF F
      <3>2. CASE u # h
        <4>1. r.tanks[u] = k.tanks[u]
          BY <1>15, <1>16, <3>2
        <4>2. k.tanks[u] = f.tanks[u]
          BY <1>13, <1>14, <3>2
        <4> QED BY <4>1, <4>2
      <3> QED BY <3>1, <3>2
    <2>2. r.tanks \in [TankIds -> Tank]
      BY <1>16 DEF Fit, Game
    <2> QED BY <1>14, <2>1, <2>2
  <1>20. r = f
    BY <1>8, <1>13, <1>16, <1>18, <1>19, SameGame DEF Fit
  <1>21. load_tank(f, t) = g
    <2>1. 0 \in Nat
      OBVIOUS
    <2> QED BY <1>1, <2>1, UndoTurn DEF f
  <1> QED BY <1>20, <1>21 DEF r, k, c

LEMMA UndoPlace ==
    ASSUME NEW g, Sound(g), NEW pos \in Open, NEW p \in PlayerIds, NEW dir \in Dirs,
           g.placed[p] < NumTanks, g.occ[pos] = NO_OCCUPANT
    PROVE  remove_tank(place_tank(g, pos, p, dir), pos, p) = g
  <1> DEFINE k == place_tank(g, pos, p, dir)
             s == Slot(p, g.placed[p])
             T == NewTank(pos, p, dir)
             r == remove_tank(k, pos, p)
             f == g.placed
  <1>1. g \in Game /\ Fit(g) /\ pos \in Cells
    BY DEF Sound, Fit, Open
  <1>2. Adds(g, k, s, T) /\ Fit(k)
    BY <1>1, PlaceEffect, PlaceKeeps
  <1>3. T.pos = pos /\ T.owner = p
    BY DEF NewTank
  <1>4. g.tanks \in [TankIds -> Tank] /\ g.occ \in [Cells -> TankIds \cup {NO_OCCUPANT}]
        /\ f \in [PlayerIds -> 0 .. NumTanks]
    BY <1>1 DEF Game
  <1>5. f[p] \in Nat /\ p * NumTanks \in Nat
    BY <1>4, Ids
  <1> HIDE DEF k, T, f
  <1>6. /\ s \in TankIds /\ k.occ = [g.occ EXCEPT ![pos] = s]
        /\ k.tanks = [g.tanks EXCEPT ![s] = T] /\ k.placed = [f EXCEPT ![p] = @ + 1]
        /\ \A q \in PlayerIds : s \notin TanksOf(g, q)
    BY <1>2, <1>3 DEF Adds, f
  <1>7. g.tanks[s] = NoTank
    BY <1>6 DEF Sound
  <1>8. k.placed[p] > 0 /\ [k.placed EXCEPT ![p] = @ - 1] = f /\ k.placed[p] - 1 = f[p]
    <2>1. k.placed[p] > 0 /\ [k.placed EXCEPT ![p] = @ - 1] = f
      BY <1>4, <1>6, CountBack
    <2>2. k.placed[p] = f[p] + 1
      BY <1>4, <1>6
    <2> QED BY <1>5, <2>1, <2>2
  <1>9. /\ r.occ = [k.occ EXCEPT ![pos] = NO_OCCUPANT]
        /\ r.tanks = [k.tanks EXCEPT ![(k.placed[p] - 1) + p * NumTanks] = NoTank]
        /\ r.placed = [k.placed EXCEPT ![p] = @ - 1]
    BY Zenon DEF remove_tank
  <1>10. (k.placed[p] - 1) + p * NumTanks = s
    BY <1>5, <1>8 DEF Slot, f
  <1>11. r \in Game
    <2> HIDE DEF r
    <2>1. Fit(remove_tank(k, pos, p))
      BY <1>1, <1>2, <1>8, RemoveFits
    <2> QED BY <2>1 DEF Fit, r
  <1> HIDE DEF r, s
  <1>12. r.occ = g.occ
    BY <1>1, <1>4, <1>6, <1>9
  <1>13. r.tanks = g.tanks
    BY <1>4, <1>6, <1>7, <1>9, <1>10
  <1>14. r.placed = g.placed
    BY <1>8, <1>9 DEF f
  <1> QED BY <1>1, <1>11, <1>12, <1>13, <1>14, SameGame DEF r, k

\* A command is taken back by its inverse.
LEMMA Undone ==
    ASSUME NEW g, Sound(g), Full(g), NEW cmd \in Command, Allowed(g, cmd), OnFree(g, cmd),
           ForwardValid(g, cmd), NEW st,
           st = [success |-> Forward(g, cmd).success, hits |-> Forward(g, cmd).hits],
           \A c \in st.hits :
             /\ g.tanks[g.occ[c]].health = INITIAL_HEALTH
             /\ INITIAL_HEALTH = SHELL_DAMAGE =>
                  \A u \in TankIds : g.tanks[u].pos = c => u = g.occ[c]
    PROVE  Backward(Forward(g, cmd).game, cmd, st) = g
  <1> DEFINE t == cmd.tank_id
             k == Forward(g, cmd).game
             j == Backward(k, cmd, st)
  <1>1. cmd.type \in {"Move", "RotateTank", "RotateBarrel", "Fire", "Load", "Place"}
    BY DEF Command
  <1>2. g \in Game
    BY DEF Sound, Fit
  <1>3. cmd.type # "Place" => /\ t \in TankIds /\ Alive(g, t) /\ g.tanks[t].owner \in PlayerIds
                              /\ cmd.first \in Nat
    BY Commander DEF Allowed
  <1>4. st.success = Forward(g, cmd).success /\ st.hits = Forward(g, cmd).hits
    OBVIOUS
  <1>5. CASE cmd.type = "Place"
    <2> DEFINE c == Target(cmd)
               p == cmd.sender
    <2>1. /\ k = place_tank(g, c, p, t) /\ c \in Open /\ t \in Dirs /\ p \in PlayerIds
          /\ g.placed[p] < NumTanks /\ g.occ[c] = NO_OCCUPANT
      BY <1>5 DEF Forward, Done, Target, Allowed, Command, OnFree
    <2>2. j = remove_tank(k, c, p)
      BY <1>5 DEF Backward, Target
    <2> HIDE DEF c, p, j, k, t
    <2>3. remove_tank(place_tank(g, c, p, t), c, p) = g
      BY <2>1, UndoPlace
    <2> QED BY <2>1, <2>2, <2>3 DEF j, k
  <1>6. CASE cmd.type = "Move"
    <2> DEFINE b == cmd.first # 0
               m == move_tank(g, t, b)
    <2>1. k = m.game /\ st.success = m.ok
      BY <1>4, <1>6 DEF Forward
    <2>2. j = IF st.success THEN move_tank(k, t, cmd.first = 0).game ELSE k
      BY <1>6 DEF Backward
    <2>3. (cmd.first = 0) = ~b /\ b \in BOOLEAN
      OBVIOUS
    <2> HIDE DEF j, k, t, b
    <2>4. (m.ok = FALSE /\ m.game = g) \/ m.ok = TRUE
      BY <1>2, <1>3, <1>6, <2>3, MoveEffect
    <2>5. m.ok = TRUE => move_tank(m.game, t, ~b).game = g
      BY <1>3, <1>6, <2>3, UndoMove
    <2> HIDE DEF m
    <2>6. j = g
      BY <2>1, <2>2, <2>3, <2>4, <2>5
    <2> QED BY <2>6 DEF j, k
  <1>7. CASE cmd.type = "RotateTank"
    <2>1. k = rotate_tank(g, t, cmd.first)
      BY <1>7 DEF Forward, Done
    <2>2. j = rotate_tank(k, t, Opposite(cmd.first))
      BY <1>7 DEF Backward
    <2>3. rotate_tank(rotate_tank(g, t, cmd.first), t, Opposite(cmd.first)) = g
      BY <1>2, <1>3, <1>7, UndoTurn
    <2> HIDE DEF j, k
    <2>4. j = g
      BY <2>1, <2>2, <2>3
    <2> QED BY <2>4 DEF j, k
  <1>8. CASE cmd.type = "RotateBarrel"
    <2>1. k = rotate_tank_barrel(g, t, cmd.first)
      BY <1>8 DEF Forward, Done
    <2>2. j = rotate_tank_barrel(k, t, Opposite(cmd.first))
      BY <1>8 DEF Backward
    <2>3. rotate_tank_barrel(rotate_tank_barrel(g, t, cmd.first), t, Opposite(cmd.first)) = g
      BY <1>2, <1>3, <1>8, UndoTurn
    <2> HIDE DEF j, k
    <2>4. j = g
      BY <2>1, <2>2, <2>3
    <2> QED BY <2>4 DEF j, k
  <1>9. CASE cmd.type = "Load"
    <2>1. k = load_tank(g, t) /\ ~g.tanks[t].loaded
      BY <1>9 DEF Forward, Done, ForwardValid
    <2>2. j = unload_tank(k, t)
      BY <1>9 DEF Backward
    <2>3. unload_tank(load_tank(g, t), t) = g
      BY <1>2, <1>3, <1>9, <2>1, UndoTurn
    <2> HIDE DEF j, k
    <2>4. j = g
      BY <2>1, <2>2, <2>3
    <2> QED BY <2>4 DEF j, k
  <1>10. CASE cmd.type = "Fire"
    <2> DEFINE H == ShellHit(g, t)
    <2>1. k = Shot(g, t, H) /\ st.hits = H /\ st.success = (H # {}) /\ g.tanks[t].loaded
      BY <1>4, <1>10, FireForward DEF ForwardValid
    <2>2. j = load_tank(IF st.success THEN repair_tank(k, CHOOSE c \in st.hits : TRUE) ELSE k, t)
      BY <1>10, Zenon DEF Backward
    <2> HIDE DEF j, k
    <2>3. CASE H = {}
      <3>1. k = unload_tank(g, t)
        BY <2>1, <2>3 DEF Shot
      <3>2. load_tank(unload_tank(g, t), t) = g
        BY <1>2, <1>3, <1>10, <2>1, UndoTurn
      <3>3. j = load_tank(k, t)
        BY <2>1, <2>2, <2>3
      <3> QED BY <3>1, <3>2, <3>3 DEF j, k
    <2>4. CASE H # {}
      <3>1. load_tank(repair_tank(Shot(g, t, H), CHOOSE c \in H : TRUE), t) = g
        BY <1>3, <1>10, <2>1, <2>4, UndoFire
      <3> HIDE DEF H
      <3>2. j = load_tank(repair_tank(k, CHOOSE c \in H : TRUE), t)
        BY <2>1, <2>2, <2>4
      <3> QED BY <2>1, <3>1, <3>2 DEF j, k
    <2> QED BY <2>3, <2>4
  <1> QED BY <1>1, <1>5, <1>6, <1>7, <1>8, <1>9, <1>10

LEMMA BackwardTrailed ==
    ASSUME MatchInv, ReplayInv, step_backward_turn
    PROVE  Trailed'
  <1> DEFINE n == applied
             cmd == moves[applied]
             st == status[applied]
             g == trail[applied].inst
  <1>1. /\ n \in 1 .. Len(moves) /\ n \in 1 .. Len(status)
        /\ UNCHANGED <<match, status, trail>>
        /\ inst' = Backward(inst, cmd, st) /\ applied' = n - 1
        /\ backed' # "inexact" => backed # "inexact" /\ RepairIsExact(n)
    BY BackwardTypes DEF ReplayInv
  <1> SUFFICES ASSUME backed # "inexact", RepairIsExact(n) PROVE Tracks'
    BY <1>1 DEF Trailed
  <1>2. Tracks
    BY DEF ReplayInv, Trailed
  <1>3. n \in Nat /\ n \in 1 .. Len(trail) /\ n - 1 + 1 = n
    BY <1>1 DEF ReplayInv, ReplayTypes
  <1>4. /\ Sound(g) /\ Full(g) /\ g.placed = Board(boards, n - 1).placed
        /\ (n = 1 \/ moves[n - 1].type = "Place") =>
              \A c \in Cells : g.occ[c] # NO_OCCUPANT =>
                \E i \in 1 .. n - 1 : Target(moves[i]) = c
    BY <1>2, <1>3 DEF Tracks
  <1>5. /\ ForwardValid(g, cmd) /\ inst = Forward(g, cmd).game
        /\ st = [success |-> Forward(g, cmd).success, hits |-> Forward(g, cmd).hits]
    BY <1>1, <1>2 DEF Tracks
  <1>6. cmd \in Command /\ Allowed(g, cmd)
    <2> HIDE DEF g
    <2> QED BY <1>1, <1>4, <1>5, DueIsAllowed DEF Sound
  <1>7. OnFree(g, cmd)
    BY <1>1, <1>4, DueIsFree
  <1>8. \A c \in st.hits :
             /\ g.tanks[g.occ[c]].health = INITIAL_HEALTH
             /\ INITIAL_HEALTH = SHELL_DAMAGE =>
                  \A u \in TankIds : g.tanks[u].pos = c => u = g.occ[c]
    BY DEF RepairIsExact
  <1>9. inst' = g
    <2> HIDE DEF g, cmd, st
    <2> QED BY <1>1, <1>4, <1>5, <1>6, <1>7, <1>8, Undone
  <1>10. (inst = trail[applied + 1].inst)'
    BY <1>1, <1>3, <1>9
  <1> QED BY <1>1, <1>2, <1>10 DEF Tracks, match

LEMMA ReplaySteps ==
    ASSUME MatchInv, ReplayInv, [Next]_vars
    PROVE  MatchInv' /\ ReplayInv'
  <1>1. MatchInv'
    BY MatchSteps
  <1>2. CASE UNCHANGED vars
    BY <1>1, <1>2 DEF vars, match, replay, ReplayInv, ReplayTypes, Trailed, Tracks, Shows,
                      FriendlyHit, Fresh
  <1>3. CASE Next
    <2>1. CASE step_forward_turn
      <3>1. ReplayTypes'
        BY <2>1, ForwardTypes DEF ReplayInv
      <3> QED BY <1>1, <2>1, <3>1, ForwardTrailed, ForwardShows DEF ReplayInv
    <2>2. CASE step_backward_turn
      <3>1. ReplayTypes' /\ backed' # "no"
        BY <2>2, BackwardTypes DEF ReplayInv
      <3>2. Shows'
        BY <3>1 DEF Shows
      <3> QED BY <1>1, <2>2, <3>1, <3>2, BackwardTrailed DEF ReplayInv
    <2> QED BY <1>1, <1>3, <2>1, <2>2, Given, BeforeReplay, SetReplay, SetPerspective
  <1> QED BY <1>2, <1>3

LEMMA ReplayStart == Init => MatchInv /\ ReplayInv
  <1> SUFFICES ASSUME Init PROVE MatchInv /\ ReplayInv
    OBVIOUS
  <1>1. MatchInv
    BY MatchStart
  <1>2. Fresh
    BY DEF Init, Fresh, FirstTurn
  <1> QED BY <1>1, <1>2, FreshReplay DEF MatchInv

LEMMA Invariance == Spec => [](MatchInv /\ ReplayInv)
  <1>1. MatchInv /\ ReplayInv /\ [Next]_vars => (MatchInv /\ ReplayInv)'
    BY ReplaySteps
  <1> QED BY <1>1, ReplayStart, PTL DEF Spec

\* Watched from the start, the replay shows after each move the board the server had,
\* and before it the player and the fuel, although it knows the commands only.
THEOREM ReplayIsTrue == Spec => []ReplayShowsMatch
  <1>1. MatchInv /\ ReplayInv => ReplayShowsMatch
    <2>1. MatchInv /\ ReplayInv => applied \in Nat
      BY Archive DEF MatchInv, ReplayInv, ReplayTypes
    <2> QED BY <2>1 DEF ReplayInv, Shows, Board, TurnAt, ReplayShowsMatch
  <1> QED BY <1>1, Invariance, PTL

\* Stepping back returns to the board shown at that move on the way forward, however
\* often the two are mixed, while every shell taken back had hit an undamaged tank.
THEOREM BackIsExact == Spec => []BackUndoesForward
  <1>1. MatchInv /\ ReplayInv => BackUndoesForward
    BY DEF ReplayInv, Trailed, Tracks, BackUndoesForward
  <1> QED BY <1>1, Invariance, PTL

-----------------------------------------------------------------------------
(* The middle ray of a view runs along the path of a shell.                *)

\* One coordinate of a shell's path: while it stays on the board it has not wrapped.
Wrapped(x, v, j) == (x + j * v + 256) % 256
Straight(x, v, j) == x + j * v

LEMMA NoWrap ==
    ASSUME NEW W \in 1 .. 254, NEW x \in 0 .. W - 1, NEW v \in {-1, 0, 1}, NEW i \in 1 .. 4,
           \A j \in 1 .. i : Wrapped(x, v, j) \in 0 .. W - 1
    PROVE  \A j \in 1 .. i : /\ Wrapped(x, v, j) = Straight(x, v, j)
                             /\ Straight(x, v, j) \in 0 .. W - 1
  <1> SUFFICES ASSUME NEW j \in 1 .. i
               PROVE  (x + j * v + 256) % 256 = x + j * v /\ x + j * v \in 0 .. W - 1
    BY DEF Wrapped, Straight
  <1>1. CASE v = 1
    <2>1. \A e \in 1 .. i : e * v = e
      BY <1>1
    <2>2. x + j < W
      <3> SUFFICES ASSUME x + j >= W PROVE FALSE
        OBVIOUS
      <3>1. W - x \in 1 .. i /\ x + (W - x) = W
        OBVIOUS
      <3>2. (W + 256) % 256 \in 0 .. W - 1
        <4>1. Wrapped(x, v, W - x) \in 0 .. W - 1 /\ (W - x) * v = W - x
          BY <2>1, <3>1, Zenon
        <4> QED BY <3>1, <4>1, Zenon DEF Wrapped
      <3> QED BY <3>2
    <2> QED BY <2>1, <2>2
  <1>2. CASE v = -1
    <2>1. \A e \in 1 .. i : e * v = -e
      BY <1>2
    <2>2. x - j >= 0
      <3> SUFFICES ASSUME x - j < 0 PROVE FALSE
        OBVIOUS
      <3>1. x + 1 \in 1 .. i /\ x + (-(x + 1)) = -1
        OBVIOUS
      <3>2. (-1 + 256) % 256 \in 0 .. W - 1
        <4>1. Wrapped(x, v, x + 1) \in 0 .. W - 1 /\ (x + 1) * v = -(x + 1)
          BY <2>1, <3>1, Zenon
        <4> QED BY <3>1, <4>1, Zenon DEF Wrapped
      <3> QED BY <3>2
    <2> QED BY <2>1, <2>2
  <1>3. CASE v = 0
    <2>1. j * v = 0
      BY <1>3
    <2> QED BY <2>1
  <1> QED BY <1>1, <1>2, <1>3

LEMMA Directions ==
    /\ DirToVec(0) = <<0, -1>> /\ DirToVec(1) = <<1, -1>> /\ DirToVec(2) = <<1, 0>>
    /\ DirToVec(3) = <<1, 1>> /\ DirToVec(4) = <<0, 1>> /\ DirToVec(5) = <<-1, 1>>
    /\ DirToVec(6) = <<-1, 0>> /\ DirToVec(7) = <<-1, -1>>
  BY DEF DirToVec

\* Where a shell is after j steps on the board.
Along(pos, dir, j) == <<pos[1] + j * DirToVec(dir)[1], pos[2] + j * DirToVec(dir)[2]>>

LEMMA PathOnBoard ==
    ASSUME NEW pos \in Cells, NEW dir \in Dirs, NEW i \in 1 .. 4,
           \A j \in 1 .. i : Plus(pos, j, dir) \in Cells
    PROVE  \A j \in 1 .. i : Plus(pos, j, dir) = Along(pos, dir, j) /\ Along(pos, dir, j) \in Cells
  <1> DEFINE x == pos[1]  y == pos[2]
             a == DirToVec(dir)[1]  b == DirToVec(dir)[2]
  <1>1. /\ Width \in 1 .. 254 /\ Height \in 1 .. 254
        /\ x \in 0 .. Width - 1 /\ y \in 0 .. Height - 1
    BY OnTheBoard DEF Cells
  <1>2. dir \in {0, 1, 2, 3, 4, 5, 6, 7}
    BY DEF Dirs
  <1>3. a \in {-1, 0, 1} /\ b \in {-1, 0, 1}
    BY <1>2, Directions
  <1>4. ASSUME NEW j \in 1 .. i
        PROVE  /\ Plus(pos, j, dir) = <<Wrapped(x, a, j), Wrapped(y, b, j)>>
               /\ Wrapped(x, a, j) \in 0 .. Width - 1 /\ Wrapped(y, b, j) \in 0 .. Height - 1
    <2>1. Plus(pos, j, dir) = <<Wrapped(x, a, j), Wrapped(y, b, j)>>
      BY DEF Plus, Wrapped
    <2>2. Plus(pos, j, dir) \in (0 .. Width - 1) \X (0 .. Height - 1)
      BY DEF Cells
    <2> HIDE DEF x, y, a, b
    <2> QED BY <2>1, <2>2
  <1> HIDE DEF x, y, a, b
  <1>5. \A j \in 1 .. i : /\ Wrapped(x, a, j) = Straight(x, a, j) /\ Straight(x, a, j) \in 0 .. Width - 1
                          /\ Wrapped(y, b, j) = Straight(y, b, j) /\ Straight(y, b, j) \in 0 .. Height - 1
    <2>1. /\ \A j \in 1 .. i : Wrapped(x, a, j) \in 0 .. Width - 1
          /\ \A j \in 1 .. i : Wrapped(y, b, j) \in 0 .. Height - 1
      BY <1>4
    <2>2. \A j \in 1 .. i : Wrapped(x, a, j) = Straight(x, a, j) /\ Straight(x, a, j) \in 0 .. Width - 1
      BY <1>1, <1>3, <2>1, NoWrap, ZenonT(40)
    <2>3. \A j \in 1 .. i : Wrapped(y, b, j) = Straight(y, b, j) /\ Straight(y, b, j) \in 0 .. Height - 1
      BY <1>1, <1>3, <2>1, NoWrap, ZenonT(40)
    <2> QED BY <2>2, <2>3
  <1>6. \A j \in 1 .. i : Along(pos, dir, j) = <<Straight(x, a, j), Straight(y, b, j)>>
    BY DEF Along, Straight, x, y, a, b
  <1> QED BY <1>4, <1>5, <1>6 DEF Cells

\* A ray shows a cell when nothing before it ends the ray.
LEMMA RayReaches ==
    ASSUME NEW ray, NEW start, NEW k \in DOMAIN ray,
           \A j \in DOMAIN ray : j < k => /\ ray[j].cell \in Cells \ Terrain
                                          /\ ray[j].cell \in Foliage => ray[j].cell = start,
           ray[k].cell \in Cells, ray[k].cell \notin Terrain, ray[k].cell \notin Foliage,
           ray[k].exact = TRUE
    PROVE  ray[k].cell \in cast_ray(ray, start)
  <1>1. OUT \notin Cells
    BY DEF OUT, Cells
  <1>2. \A j \in DOMAIN ray : j < k =>
           ~(\/ ray[j].cell \in Terrain \cup {OUT} \/ ray[j].cell \in Foliage \ {start})
    BY <1>1
  <1>3. (CASE ray[k].cell \in Terrain -> TRUE
           [] ray[k].cell \in Foliage -> tile_beside_grass(start, ray[k].cell)
           [] OTHER -> ray[k].exact)
    OBVIOUS
  <1> QED BY <1>2, <1>3 DEF cast_ray

\* A look along an orthogonal barrel.
LEMMA StraightLook ==
    ASSUME NEW pos \in Cells, NEW dir \in {0, 2, 4, 6}, NEW dx \in 1 .. 4,
           Along(pos, dir, dx) \in Cells
    PROVE  /\ OrthogonalLook(pos, dir, 4, dx).cell = Along(pos, dir, dx)
           /\ OrthogonalLook(pos, dir, 4, dx).exact = TRUE
  <1> DEFINE x == pos[1]  y == pos[2]
             vertical == dir \in {0, 4}
             sign == IF dir \in {0, 6} THEN -1 ELSE 1
             q == (IF vertical THEN y ELSE x) + sign * dx
             m == IF vertical THEN -OrthogonalSlopes[4] ELSE OrthogonalSlopes[4]
             o == IF vertical THEN x ELSE y
             sec == 6 * o + m * dx
             near == (sec + 3) \div 6
             cell == IF vertical THEN <<near, q>> ELSE <<q, near>>
             size == IF vertical THEN Height ELSE Width
             L == [cell |-> CASE q < 0 \/ sec < 0 -> OUT
                              [] q >= size -> OUT
                              [] sec % 6 = 3 -> BETWEEN
                              [] OTHER -> IF cell \in Cells THEN cell ELSE OUT,
                   exact |-> sec % 6 = 0]
  <1>1. OrthogonalLook(pos, dir, 4, dx) = L
    BY Zenon DEF OrthogonalLook
  <1>2. x \in Nat /\ y \in Nat
    BY OnTheBoard
  <1>3. o \in Nat
    BY <1>2
  <1>4. sec = 6 * o
    <2>1. OrthogonalSlopes[4] = 0
      BY DEF OrthogonalSlopes
    <2> DEFINE e == OrthogonalSlopes[4]
    <2>0. e = 0 /\ e \in Int /\ e < 1 /\ e > -1
      BY <2>1
    <2> HIDE DEF e
    <2>a. -e = 0
      <3>1. \A d \in Int : d < 1 /\ d > -1 => -d = 0
        OBVIOUS
      <3> QED BY <2>0, <3>1, Zenon
    <2>b. m = IF vertical THEN -e ELSE e
      BY DEF e
    <2>2. m = 0
      BY <2>0, <2>a, <2>b
    <2> HIDE DEF m, o
    <2> QED BY <1>3, <2>2
  <1> HIDE DEF sec, m
  <1>5. sec >= 0 /\ sec % 6 = 0 /\ near = o
    <2> HIDE DEF o
    <2> QED BY <1>3, <1>4
  <1>6. Along(pos, dir, dx) = cell /\ q >= 0 /\ q < size
    <2>1. /\ dir = 0 => DirToVec(dir) = <<0, -1>>
          /\ dir = 2 => DirToVec(dir) = <<1, 0>>
          /\ dir = 4 => DirToVec(dir) = <<0, 1>>
          /\ dir = 6 => DirToVec(dir) = <<-1, 0>>
      BY Directions
    <2>2. Along(pos, dir, dx) = <<x + dx * DirToVec(dir)[1], y + dx * DirToVec(dir)[2]>>
      BY DEF Along
    <2>3. Along(pos, dir, dx) = cell
      <3> HIDE DEF near
      <3>1. CASE dir = 0
        BY <1>2, <1>5, <2>1, <2>2, <3>1
      <3>2. CASE dir = 2
        BY <1>2, <1>5, <2>1, <2>2, <3>2
      <3>3. CASE dir = 4
        BY <1>2, <1>5, <2>1, <2>2, <3>3
      <3>4. CASE dir = 6
        BY <1>2, <1>5, <2>1, <2>2, <3>4
      <3> QED BY <3>1, <3>2, <3>3, <3>4
    <2>4. cell \in Cells
      BY <2>3
    <2> HIDE DEF near, q
    <2>5. vertical => q \in 0 .. Height - 1
      BY <2>4 DEF Cells
    <2>6. ~vertical => q \in 0 .. Width - 1
      BY <2>4 DEF Cells
    <2>7. q >= 0 /\ q < size
      BY <2>5, <2>6, BoardAssumption
    <2> QED BY <2>3, <2>7
  <1> HIDE DEF q, near, cell, size
  <1>7. L.exact = TRUE
    BY <1>5
  <1>8. L.cell = cell
    <2>1. ~(q < 0 \/ sec < 0) /\ ~(q >= size) /\ ~(sec % 6 = 3)
      <3>1. q \in Int /\ size \in Int /\ sec \in Int
        BY <1>2, <1>3, <1>4, BoardAssumption DEF q, size
      <3> QED BY <1>5, <1>6, <3>1
    <2> QED BY <1>6, <2>1
  <1> QED BY <1>1, <1>6, <1>7, <1>8

\* How many cells a look along a diagonal has gone.
Gone(k) == IF k = 1 THEN 0 ELSE IF k <= 4 THEN 1 ELSE IF k <= 7 THEN 2 ELSE 3

LEMMA RoundedSteps ==
    ASSUME NEW k \in 1 .. 8
    PROVE  /\ Cardinality({j \in 0 .. 3 : k * k * 1 * 1 > (2 * j + 1) * (2 * j + 1) * 2}) = Gone(k)
           /\ Cardinality({j \in 0 .. 3 : k * k * 1 * 1 >= (2 * j + 1) * (2 * j + 1) * 2}) = Gone(k)
           /\ Gone(k) \in 0 .. 3
  <1>1. Gone(k) \in 0 .. 3
    BY DEF Gone
  <1>2. ASSUME NEW j \in 0 .. 3
        PROVE  /\ k * k * 1 * 1 > (2 * j + 1) * (2 * j + 1) * 2 <=> j \in 0 .. Gone(k) - 1
               /\ k * k * 1 * 1 >= (2 * j + 1) * (2 * j + 1) * 2 <=> j \in 0 .. Gone(k) - 1
    <2>1. (2 * j + 1) * (2 * j + 1) * 2 =
            IF j = 0 THEN 2 ELSE IF j = 1 THEN 18 ELSE IF j = 2 THEN 50 ELSE 98
      <3>1. j \in {0, 1, 2, 3}
        OBVIOUS
      <3> QED BY <3>1
    <2>2. k * k * 1 * 1 = k * k
      OBVIOUS
    <2> DEFINE A == (2 * j + 1) * (2 * j + 1) * 2
               B == k * k
    <2>3. k \in {1, 2, 3, 4, 5, 6, 7, 8}
      OBVIOUS
    <2>4. /\ k = 1 => B = 1 /\ Gone(k) = 0
          /\ k = 2 => B = 4 /\ Gone(k) = 1
          /\ k = 3 => B = 9 /\ Gone(k) = 1
          /\ k = 4 => B = 16 /\ Gone(k) = 1
          /\ k = 5 => B = 25 /\ Gone(k) = 2
          /\ k = 6 => B = 36 /\ Gone(k) = 2
          /\ k = 7 => B = 49 /\ Gone(k) = 2
          /\ k = 8 => B = 64 /\ Gone(k) = 3
      BY DEF Gone
    <2>5. A = IF j = 0 THEN 2 ELSE IF j = 1 THEN 18 ELSE IF j = 2 THEN 50 ELSE 98
      BY <2>1
    <2> HIDE DEF A, B
    <2>6. (B > A <=> j \in 0 .. Gone(k) - 1) /\ (B >= A <=> j \in 0 .. Gone(k) - 1)
      BY <2>3, <2>4, <2>5
    <2> QED BY <2>2, <2>6 DEF A, B
  <1>3. \A j \in 0 .. Gone(k) - 1 : j \in 0 .. 3
    BY <1>1
  <1>4. /\ {j \in 0 .. 3 : k * k * 1 * 1 > (2 * j + 1) * (2 * j + 1) * 2} = 0 .. Gone(k) - 1
        /\ {j \in 0 .. 3 : k * k * 1 * 1 >= (2 * j + 1) * (2 * j + 1) * 2} = 0 .. Gone(k) - 1
    BY <1>2, <1>3
  <1>5. Cardinality(0 .. Gone(k) - 1) = Gone(k)
    <2> DEFINE b == Gone(k) - 1
    <2>1. b \in Int /\ b >= -1 /\ b + 1 = Gone(k)
      BY <1>1
    <2> HIDE DEF b
    <2>2. Cardinality(0 .. b) = IF 0 > b THEN 0 ELSE b - 0 + 1
      BY <2>1, FS_Interval
    <2>3. Cardinality(0 .. b) = b + 1
      BY <2>1, <2>2
    <2> QED BY <2>1, <2>3 DEF b
  <1> QED BY <1>1, <1>4, <1>5

\* The look at which a diagonal ray reaches the i-th cell.
Reached(i) == IF i = 1 THEN 2 ELSE IF i = 2 THEN 5 ELSE 8

LEMMA ReachedSteps ==
    ASSUME NEW i \in 1 .. 3
    PROVE  /\ Reached(i) \in 1 .. 8
           /\ Gone(Reached(i)) = i
           /\ \A k \in 1 .. 8 : k < Reached(i) => Gone(k) \in 0 .. i - 1
           /\ \A k \in 1 .. Reached(i) : k * k * 1 * 1 <= 8 * i * i
  <1>1. i \in {1, 2, 3}
    OBVIOUS
  <1>2. Reached(i) \in 1 .. 8 /\ Gone(Reached(i)) = i
    BY <1>1 DEF Reached, Gone
  <1>3. \A k \in 1 .. 8 : k < Reached(i) => Gone(k) \in 0 .. i - 1
    BY <1>1 DEF Reached, Gone
  <1>4. ASSUME NEW k \in 1 .. Reached(i)
        PROVE  k * k * 1 * 1 <= 8 * i * i
    <2>1. CASE i = 1
      <3>1. k \in {1, 2}
        BY <2>1 DEF Reached
      <3> QED BY <2>1, <3>1
    <2>2. CASE i = 2
      <3>1. k \in {1, 2, 3, 4, 5}
        BY <2>2 DEF Reached
      <3> QED BY <2>2, <3>1
    <2>3. CASE i = 3
      <3>1. k \in {1, 2, 3, 4, 5, 6, 7, 8}
        BY <2>3 DEF Reached
      <3> QED BY <2>3, <3>1
    <2> QED BY <1>1, <2>1, <2>2, <2>3
  <1> QED BY <1>2, <1>3, <1>4

LEMMA DiagonalCoordinate ==
    ASSUME NEW x \in Nat, NEW sign \in {-1, 1}, NEW i \in 1 .. 3, NEW k \in 1 .. Reached(i),
           sign = -1 => x >= i
    PROVE  RayCoordinate(x, sign, 1, 2, k) = Straight(x, sign, Gone(k))
  <1>1. k \in 1 .. 8 /\ k * k * 1 * 1 <= 8 * i * i
    BY ReachedSteps
  <1> DEFINE over == Cardinality({j \in 0 .. 3 : k * k * 1 * 1 > (2 * j + 1) * (2 * j + 1) * 2})
             from == Cardinality({j \in 0 .. 3 : k * k * 1 * 1 >= (2 * j + 1) * (2 * j + 1) * 2})
             q == k * k * 1 * 1
  <1>2. over = Gone(k) /\ from = Gone(k) /\ Gone(k) \in 0 .. 3
    BY <1>1, RoundedSteps
  <1>3. RayCoordinate(x, sign, 1, 2, k) =
          IF sign = 1 THEN x + over ELSE IF q > 4 * x * x * 2 THEN -1 ELSE x - from
    BY DEF RayCoordinate
  <1>4. q <= 8 * i * i /\ q \in Nat
    BY <1>1
  <1> HIDE DEF over, from, q
  <1>5. CASE sign = 1
    BY <1>2, <1>3, <1>5 DEF Straight
  <1>6. CASE sign = -1
    <2>1. 4 * x * x * 2 >= 8 * i * i
      <3>1. x >= i
        BY <1>6
      <3>2. x * x >= i * i
        <4>1. i \in {1, 2, 3}
          OBVIOUS
        <4>2. x * x >= i * x
          BY <3>1
        <4>3. i * x >= i * i
          BY <3>1
        <4> QED BY <4>2, <4>3
      <3> DEFINE a == x * x
                 b == i * i
      <3>3. a \in Nat /\ b \in Nat /\ a >= b
        BY <3>2
      <3>4. 4 * x * x * 2 = 8 * a /\ 8 * i * i = 8 * b
        OBVIOUS
      <3> HIDE DEF a, b
      <3> QED BY <3>3, <3>4
    <2> DEFINE A == 4 * x * x * 2
               B == 8 * i * i
    <2>2. A \in Nat /\ B \in Nat /\ A >= B /\ q <= B
      BY <1>4, <2>1
    <2>3. RayCoordinate(x, sign, 1, 2, k) = IF q > A THEN -1 ELSE x - from
      BY <1>3, <1>6
    <2> HIDE DEF A, B
    <2>4. RayCoordinate(x, sign, 1, 2, k) = x - from
      BY <1>4, <2>2, <2>3
    <2> QED BY <1>2, <1>6, <2>4 DEF Straight
  <1> QED BY <1>5, <1>6

\* The looks along a diagonal barrel.
LEMMA DiagonalLooks ==
    ASSUME NEW pos \in Cells, NEW dir \in {1, 3, 5, 7}, NEW i \in 1 .. 3,
           \A j \in 1 .. i : Along(pos, dir, j) \in Cells
    PROVE  /\ DOMAIN DiagonalRay(pos, dir, 5) = 1 .. 8
           /\ \A k \in 1 .. Reached(i) :
                /\ Along(pos, dir, Gone(k)) \in Cells
                /\ DiagonalRay(pos, dir, 5)[k].cell = Along(pos, dir, Gone(k))
                /\ DiagonalRay(pos, dir, 5)[k].exact = TRUE
  <1> DEFINE x == pos[1]  y == pos[2]
             sx == IF dir \in {5, 7} THEN -1 ELSE 1
             sy == IF dir \in {1, 7} THEN -1 ELSE 1
             cx(k) == RayCoordinate(x, sx, 1, 2, k)
             cy(k) == RayCoordinate(y, sy, 1, 2, k)
             L(k) == [cell |-> IF <<cx(k), cy(k)>> \in Cells THEN <<cx(k), cy(k)>> ELSE OUT,
                      exact |-> TRUE]
  <1>1. DiagonalRay(pos, dir, 5) = [k \in 1 .. 8 |-> L(k)]
    <2>1. /\ DiagonalSlopes[5] = <<1, 1>> /\ DiagonalSlopes[5][1] = 1 /\ DiagonalSlopes[5][2] = 1
          /\ DiagonalRanges[5] = 3
      BY DEF DiagonalSlopes, DiagonalRanges
    <2> DEFINE s == DiagonalSlopes[5]
               n == s[1] * s[1] + s[2] * s[2]
               r == DiagonalRanges[5]
               steps == {k \in 1 .. 8 : k * k <= 4 * r * r * n}
               ex(k) == RayCoordinate(x, sx, s[1], n, k)
               ey(k) == RayCoordinate(y, sy, s[2], n, k)
    <2>2. DiagonalRay(pos, dir, 5) =
            [k \in steps |-> [cell |-> IF <<ex(k), ey(k)>> \in Cells THEN <<ex(k), ey(k)>> ELSE OUT,
                              exact |-> TRUE]]
      BY Zenon DEF DiagonalRay
    <2>3. s[1] = 1 /\ s[2] = 1 /\ r = 3
      BY <2>1
    <2>4. n = 2
      <3> HIDE DEF s
      <3> QED BY <2>3
    <2> HIDE DEF s, n, r
    <2>5. steps = 1 .. 8
      <3>1. 4 * r * r * n = 72
        BY <2>3, <2>4
      <3>2. ASSUME NEW k \in 1 .. 8 PROVE k * k <= 72
        <4>1. k \in {1, 2, 3, 4, 5, 6, 7, 8}
          OBVIOUS
        <4> QED BY <4>1
      <3> QED BY <3>1, <3>2
    <2>6. \A k : ex(k) = cx(k) /\ ey(k) = cy(k)
      BY <2>3, <2>4, Zenon
    <2> HIDE DEF steps, ex, ey, cx, cy
    <2> QED BY <2>2, <2>5, <2>6
  <1>2. x \in Nat /\ y \in Nat
    BY OnTheBoard
  <1>3. DirToVec(dir) = <<sx, sy>> /\ sx \in {-1, 1} /\ sy \in {-1, 1}
    BY Directions
  <1>4. \A j : Along(pos, dir, j) = <<Straight(x, sx, j), Straight(y, sy, j)>>
    BY <1>3 DEF Along, Straight
  <1>5. (sx = -1 => x >= i) /\ (sy = -1 => y >= i)
    <2>1. <<Straight(x, sx, i), Straight(y, sy, i)>> \in Cells
      BY <1>4
    <2> HIDE DEF x, y, sx, sy
    <2>2. Straight(x, sx, i) \in Nat /\ Straight(y, sy, i) \in Nat
      BY <2>1, BoardAssumption DEF Cells
    <2>3. ASSUME sx = -1 PROVE x >= i
      BY <1>2, <2>2, <2>3 DEF Straight
    <2>4. ASSUME sy = -1 PROVE y >= i
      BY <1>2, <2>2, <2>4 DEF Straight
    <2> QED BY <2>3, <2>4
  <1>6. ASSUME NEW k \in 1 .. Reached(i)
        PROVE  /\ k \in 1 .. 8 /\ Along(pos, dir, Gone(k)) \in Cells
               /\ <<cx(k), cy(k)>> = Along(pos, dir, Gone(k))
    <2>1. k \in 1 .. 8 /\ Gone(k) \in 0 .. i
      BY ReachedSteps
    <2>2. cx(k) = Straight(x, sx, Gone(k))
      <3> HIDE DEF x, sx
      <3> QED BY <1>2, <1>3, <1>5, DiagonalCoordinate, Zenon
    <2>3. cy(k) = Straight(y, sy, Gone(k))
      <3> HIDE DEF y, sy
      <3> QED BY <1>2, <1>3, <1>5, DiagonalCoordinate, Zenon
    <2>4. Along(pos, dir, Gone(k)) \in Cells
      <3>1. CASE Gone(k) = 0
        <4>1. Straight(x, sx, 0) = x /\ Straight(y, sy, 0) = y
          <5> HIDE DEF x, y, sx, sy
          <5> QED BY <1>2, <1>3 DEF Straight
        <4>2. <<x, y>> = pos
          BY OnTheBoard DEF Cells
        <4> HIDE DEF x, y, sx, sy
        <4> QED BY <1>4, <3>1, <4>1, <4>2
      <3>2. CASE Gone(k) # 0
        <4>1. Gone(k) \in 1 .. i
          BY <2>1, <3>2
        <4> QED BY <4>1
      <3> QED BY <3>1, <3>2
    <2> HIDE DEF x, y, sx, sy
    <2> QED BY <1>4, <2>1, <2>2, <2>3, <2>4
  <1> HIDE DEF cx, cy
  <1>7. ASSUME NEW k \in 1 .. Reached(i)
        PROVE  /\ Along(pos, dir, Gone(k)) \in Cells
               /\ DiagonalRay(pos, dir, 5)[k].cell = Along(pos, dir, Gone(k))
               /\ DiagonalRay(pos, dir, 5)[k].exact = TRUE
    <2>1. DiagonalRay(pos, dir, 5)[k] = L(k)
      BY <1>1, <1>6
    <2> QED BY <1>6, <2>1
  <1>8. DOMAIN DiagonalRay(pos, dir, 5) = 1 .. 8
    BY <1>1
  <1> QED BY <1>7, <1>8

\* A cell a shell can reach without meeting terrain or foliage is seen from the tank.
LEMMA ShellLine ==
    ASSUME NEW g, NEW t, g.tanks[t].pos \in Open, g.tanks[t].barrel \in Dirs,
           NEW i \in DOMAIN ShellPath(g, t),
           \A j \in 1 .. i : /\ ShellPath(g, t)[j] \in Cells
                             /\ ShellPath(g, t)[j] \notin Terrain
                             /\ ShellPath(g, t)[j] \notin Foliage
    PROVE  ShellPath(g, t)[i] \in Sees(g, t)
  <1> DEFINE pos == g.tanks[t].pos
             dir == g.tanks[t].barrel
             reach == IF dir % 2 = 0 THEN 4 ELSE 3
             path == ShellPath(g, t)
  <1>1. path = [j \in 1 .. reach |-> Plus(pos, j, dir)]
    BY Zenon DEF ShellPath, FIRING_DIST_HORIZONTAL, FIRING_DIST_DIAGONAL
  <1>2. pos \in Cells /\ pos \notin Terrain /\ dir \in Dirs
    BY DEF Open
  <1>3. \/ dir \in {0, 2, 4, 6} /\ dir % 2 = 0
        \/ dir \in {1, 3, 5, 7} /\ dir % 2 # 0
    <2>1. \A d \in {0, 1, 2, 3, 4, 5, 6, 7} :
            (d \in {0, 2, 4, 6} /\ d % 2 = 0) \/ (d \in {1, 3, 5, 7} /\ d % 2 # 0)
      OBVIOUS
    <2>2. dir \in {0, 1, 2, 3, 4, 5, 6, 7}
      BY DEF Dirs
    <2> QED BY <2>1, <2>2, Zenon
  <1>4. reach \in {3, 4} /\ i \in 1 .. reach
    BY <1>1
  <1>5. Sees(g, t) = UNION {cast_ray(ray, pos) : ray \in Rays(pos, dir)}
    BY Zenon DEF Sees
  <1>a. /\ path[i] = Plus(pos, i, dir)
        /\ \A j \in 1 .. i : /\ Plus(pos, j, dir) \in Cells
                             /\ Plus(pos, j, dir) \notin Terrain
                             /\ Plus(pos, j, dir) \notin Foliage
    <2>1. \A j \in 1 .. i : path[j] = Plus(pos, j, dir)
      BY <1>1, <1>4
    <2>2. i \in 1 .. i
      BY <1>4
    <2> HIDE DEF path
    <2>3. \A j \in 1 .. i : path[j] \in Cells /\ path[j] \notin Terrain /\ path[j] \notin Foliage
      BY DEF path
    <2> QED BY <2>1, <2>2, <2>3
  <1> SUFFICES \E ray \in Rays(pos, dir) : Plus(pos, i, dir) \in cast_ray(ray, pos)
    BY <1>5, <1>a
  <1> HIDE DEF pos, dir, path
  <1>6. i \in 1 .. 4
    BY <1>4
  <1>7. \A j \in 1 .. i : Plus(pos, j, dir) = Along(pos, dir, j) /\ Along(pos, dir, j) \in Cells
    <2>1. \A j \in 1 .. i : Plus(pos, j, dir) \in Cells
      BY <1>a
    <2> QED BY <1>2, <1>6, <2>1, PathOnBoard, Zenon
  <1>8. CASE dir \in {0, 2, 4, 6} /\ dir % 2 = 0
    <2> DEFINE ray == [dx \in 1 .. OrthogonalRanges[4] |-> OrthogonalLook(pos, dir, 4, dx)]
    <2>1. ray \in Rays(pos, dir)
      BY <1>8 DEF Rays
    <2>2. OrthogonalRanges[4] = 4
      BY DEF OrthogonalRanges
    <2>3. DOMAIN ray = 1 .. 4 /\ \A j \in 1 .. 4 : ray[j] = OrthogonalLook(pos, dir, 4, j)
      BY <2>2
    <2> HIDE DEF ray
    <2>4. ASSUME NEW j \in 1 .. i
          PROVE  j \in 1 .. 4 /\ ray[j].cell = Plus(pos, j, dir) /\ ray[j].exact = TRUE
      <3>1. j \in 1 .. 4
        BY <1>6
      <3>2. Along(pos, dir, j) \in Cells /\ Plus(pos, j, dir) = Along(pos, dir, j)
        BY <1>7
      <3>3. /\ OrthogonalLook(pos, dir, 4, j).cell = Along(pos, dir, j)
            /\ OrthogonalLook(pos, dir, 4, j).exact = TRUE
        BY <1>2, <1>8, <3>1, <3>2, StraightLook, Zenon
      <3> QED BY <2>3, <3>1, <3>2, <3>3
    <2>5. i \in DOMAIN ray /\ i \in 1 .. i
      BY <1>6, <2>3
    <2>6. \A j \in DOMAIN ray : j < i => /\ ray[j].cell \in Cells \ Terrain
                                         /\ ray[j].cell \in Foliage => ray[j].cell = pos
      <3>1. \A j \in DOMAIN ray : j < i => j \in 1 .. i
        BY <1>6, <2>3
      <3> QED BY <1>a, <2>4, <3>1
    <2>7. /\ ray[i].cell \in Cells /\ ray[i].cell \notin Terrain /\ ray[i].cell \notin Foliage
          /\ ray[i].exact = TRUE /\ ray[i].cell = Plus(pos, i, dir)
      BY <1>a, <2>4, <2>5
    <2>8. ray[i].cell \in cast_ray(ray, pos)
      BY <2>5, <2>6, <2>7, RayReaches, Zenon
    <2> QED BY <2>1, <2>7, <2>8
  <1>9. CASE dir \in {1, 3, 5, 7} /\ dir % 2 # 0
    <2> DEFINE ray == DiagonalRay(pos, dir, 5)
               n == Reached(i)
    <2>1. ray \in Rays(pos, dir)
      BY <1>9 DEF Rays
    <2>2. i \in 1 .. 3
      BY <1>4, <1>9
    <2>3. \A j \in 1 .. i : Along(pos, dir, j) \in Cells
      BY <1>7
    <2>4. /\ DOMAIN ray = 1 .. 8
          /\ \A k \in 1 .. n : /\ Along(pos, dir, Gone(k)) \in Cells
                               /\ ray[k].cell = Along(pos, dir, Gone(k))
                               /\ ray[k].exact = TRUE
      BY <1>2, <1>9, <2>2, <2>3, DiagonalLooks, Zenon
    <2>5. /\ n \in 1 .. 8 /\ Gone(n) = i
          /\ \A k \in 1 .. 8 : k < n => Gone(k) \in 0 .. i - 1
      BY <2>2, ReachedSteps
    <2> HIDE DEF ray, n
    <2>6. Along(pos, dir, 0) = pos
      <3> DEFINE x == pos[1]  y == pos[2]
                 a == DirToVec(dir)[1]  b == DirToVec(dir)[2]
      <3>1. pos = <<x, y>> /\ x \in Int /\ y \in Int
        BY <1>2, OnTheBoard
      <3>2. a \in Int /\ b \in Int
        BY <1>9, Directions
      <3>3. Along(pos, dir, 0) = <<x + 0 * a, y + 0 * b>>
        BY DEF Along
      <3> HIDE DEF x, y, a, b
      <3> QED BY <3>1, <3>2, <3>3
    <2>7. ASSUME NEW k \in DOMAIN ray, k < n
          PROVE  /\ ray[k].cell \in Cells \ Terrain
                 /\ ray[k].cell \in Foliage => ray[k].cell = pos
      <3>1. k \in 1 .. 8 /\ k \in 1 .. n
        BY <2>4, <2>5, <2>7
      <3>2. ray[k].cell = Along(pos, dir, Gone(k)) /\ Gone(k) \in 0 .. i - 1
        BY <2>4, <2>5, <2>7, <3>1
      <3>3. CASE Gone(k) = 0
        <4>1. ray[k].cell = pos
          BY <2>6, <3>2, <3>3
        <4> QED BY <1>2, <4>1
      <3>4. CASE Gone(k) # 0
        <4>1. Gone(k) \in 1 .. i
          BY <2>2, <3>2, <3>4
        <4>2. ray[k].cell = Plus(pos, Gone(k), dir)
          BY <1>7, <3>2, <4>1
        <4> QED BY <1>a, <4>1, <4>2
      <3> QED BY <3>3, <3>4
    <2>8. n \in DOMAIN ray /\ n \in 1 .. n /\ i \in 1 .. i
      BY <2>2, <2>4, <2>5
    <2>9. ray[n].cell = Plus(pos, i, dir) /\ ray[n].exact = TRUE
      BY <1>7, <2>4, <2>5, <2>8
    <2>10. ray[n].cell \in Cells /\ ray[n].cell \notin Terrain /\ ray[n].cell \notin Foliage
      BY <1>a, <2>8, <2>9
    <2>11. ray[n].cell \in cast_ray(ray, pos)
      BY <2>7, <2>8, <2>9, <2>10, RayReaches, Zenon
    <2> QED BY <2>1, <2>9, <2>11
  <1> QED BY <1>3, <1>8, <1>9

\* The cell a shell ends on: nothing ends its flight before.
LEMMA ShellFlight ==
    ASSUME NEW g, NEW t, NEW c \in ShellHit(g, t)
    PROVE  \E i \in DOMAIN ShellPath(g, t) :
             /\ c = ShellPath(g, t)[i] /\ c \in Cells /\ c \notin Terrain
             /\ g.occ[c] # NO_OCCUPANT
             /\ \A j \in DOMAIN ShellPath(g, t) :
                  ~(i <= j) => /\ ShellPath(g, t)[j] \in Cells
                               /\ ShellPath(g, t)[j] \notin Terrain
                               /\ g.occ[ShellPath(g, t)[j]] = NO_OCCUPANT
  <1> DEFINE path == ShellPath(g, t)
             stops == {i \in DOMAIN path : \/ path[i] \notin Cells
                                           \/ path[i] \in Terrain
                                           \/ g.occ[path[i]] # NO_OCCUPANT}
  <1>1. PICK i \in stops : /\ \A k \in stops : i <= k
                           /\ path[i] \in Cells /\ path[i] \notin Terrain /\ c = path[i]
    BY Zenon DEF ShellHit
  <1> HIDE DEF path
  <1>2. i \in DOMAIN path /\ g.occ[c] # NO_OCCUPANT /\ c \in Cells /\ c \notin Terrain
    BY <1>1
  <1>3. \A j \in DOMAIN path :
          ~(i <= j) => path[j] \in Cells /\ path[j] \notin Terrain /\ g.occ[path[j]] = NO_OCCUPANT
    BY <1>1
  <1> QED BY <1>1, <1>2, <1>3 DEF path

\* What SeesTarget says of one board, player, tank and cell.
TargetShown(g, p, t, c) ==
    LET seen == compute_view(g, p).occ
        path == ShellPath(g, t)
    IN  \/ seen[c] = g.occ[c]
        \/ seen[c] \in {u \in TanksOf(g, p) : Alive(g, u) /\ g.tanks[u].pos = c}
        \/ \E i \in DOMAIN path :
             path[i] \in Foliage /\ \A j \in 1 .. i : path[j] = c => j = i

LEMMA TargetInOneView ==
    ASSUME NEW g, Fit(g), NEW p \in PlayerIds, NEW t \in TanksOf(g, p), Alive(g, t),
           NEW c \in ShellHit(g, t)
    PROVE  TargetShown(g, p, t, c)
  <1> DEFINE path == ShellPath(g, t)
             reach == IF g.tanks[t].barrel % 2 = 0 THEN 4 ELSE 3
  <1>1. TanksOf(g, p) \subseteq TankIds /\ t \in TankIds
    BY ListIsSlots DEF Fit
  <1>2. g.tanks[t].pos \in Open /\ g.tanks[t].barrel \in Dirs
    <2>1. g.tanks[t] \in Tank
      BY <1>1 DEF Fit, Game
    <2> QED BY <2>1 DEF Fit, Tank
  <1>3. DOMAIN path = 1 .. reach /\ reach \in {3, 4}
    <2>1. path = [i \in 1 .. reach |-> Plus(g.tanks[t].pos, i, g.tanks[t].barrel)]
      BY Zenon DEF ShellPath, FIRING_DIST_HORIZONTAL, FIRING_DIST_DIAGONAL
    <2> QED BY <2>1
  <1>4. PICK i \in DOMAIN path :
          /\ c = path[i] /\ c \in Cells /\ c \notin Terrain /\ g.occ[c] # NO_OCCUPANT
          /\ \A j \in DOMAIN path : ~(i <= j) => /\ path[j] \in Cells /\ path[j] \notin Terrain
                                                 /\ g.occ[path[j]] = NO_OCCUPANT
    BY ShellFlight
  <1> HIDE DEF path, reach
  <1>5. \A j \in 1 .. i : j \in DOMAIN path /\ (j = i \/ ~(i <= j))
    BY <1>3
  <1>6. CASE \E k \in 1 .. i : path[k] \in Foliage
    <2>1. PICK k \in 1 .. i : path[k] \in Foliage
      BY <1>6
    <2>2. k \in DOMAIN path /\ \A j \in 1 .. k : j \in 1 .. i /\ (j = k \/ ~(i <= j))
      BY <1>3, <1>5
    <2>3. \A j \in 1 .. k : path[j] = c => j = k
      BY <1>4, <1>5, <2>2
    <2> QED BY <2>1, <2>2, <2>3, Zenon DEF path, TargetShown
  <1>7. CASE \A k \in 1 .. i : path[k] \notin Foliage
    <2>1. \A j \in 1 .. i : path[j] \in Cells /\ path[j] \notin Terrain /\ path[j] \notin Foliage
      BY <1>4, <1>5, <1>7
    <2>2. c \in Sees(g, t)
      <3>1. path[i] \in Sees(g, t)
        BY <1>2, <2>1, ShellLine, Zenon DEF path
      <3> QED BY <1>4, <3>1
    <2>3. t \in Looking(g, p, c)
      BY <1>4, <2>2 DEF Looking, Own
    <2>4. compute_view(g, p).occ[c] =
            IF Standing(g, p, c) # {} THEN Max(Standing(g, p, c))
            ELSE IF Looking(g, p, c) # {} THEN g.occ[c] ELSE NO_OCCUPANT
      BY <1>4, ViewShows
    <2>5. CASE Standing(g, p, c) # {}
      <3>1. Standing(g, p, c) \subseteq TankIds
        BY <1>1 DEF Standing, Own
      <3>2. Max(Standing(g, p, c)) \in Standing(g, p, c)
        BY <2>5, <3>1, MaxMember, Zenon
      <3>3. compute_view(g, p).occ[c] \in Standing(g, p, c)
        BY <2>4, <2>5, <3>2
      <3> QED BY <3>3 DEF Standing, Own, TargetShown
    <2>6. CASE Standing(g, p, c) = {}
      BY <2>3, <2>4, <2>6 DEF TargetShown
    <2> QED BY <2>5, <2>6
  <1> QED BY <1>6, <1>7

\* A tank that a shell would reach is shown to the player who aims at it, in the match
\* as in the replay, unless foliage lies in the line of fire: on every board the middle
\* rays of compute_view go as far as a shell of fire_tank, over the same cells.
THEOREM TargetIsSeen == Spec => []SeesTarget
  <1>1. MatchInv /\ ReplayInv => SeesTarget
    <2> SUFFICES ASSUME MatchInv, ReplayInv, NEW v \in ViewsShown
                 PROVE  \A t \in TanksOf(v[1], v[2]) :
                          \A c \in IF Alive(v[1], t) THEN ShellHit(v[1], t) ELSE {} :
                            TargetShown(v[1], v[2], t, c)
      BY Zenon DEF SeesTarget, TargetShown
    <2>1. Fit(v[1]) /\ v[2] \in PlayerIds
      <3>1. Fit(game) /\ Fit(inst) /\ alive \subseteq PlayerIds
        BY DEF MatchInv, MatchTypes, OnBoard, Sound, ReplayInv, ReplayTypes
      <3>2. CASE stored
        BY <3>1, <3>2 DEF ViewsShown
      <3>3. CASE ~stored
        BY <3>1, <3>3 DEF ViewsShown
      <3> QED BY <3>2, <3>3
    <2> TAKE t \in TanksOf(v[1], v[2])
    <2> TAKE c \in IF Alive(v[1], t) THEN ShellHit(v[1], t) ELSE {}
    <2>2. Alive(v[1], t) /\ c \in ShellHit(v[1], t)
      OBVIOUS
    <2> QED BY <2>1, <2>2, TargetInOneView, Zenon
  <1> QED BY <1>1, Invariance, PTL

=============================================================================
