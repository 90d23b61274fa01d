------------------------------ MODULE MCReplay ------------------------------
(* Three players with two tanks each, on a board of five by three cells:    *)
(*                                                                         *)
(*      1  .  .  .  2        # terrain, " foliage                           *)
(*      0  .  .  .  4        0 and 4 aim at each other, 1 at 0 (its own     *)
(*      .  #  5" .  3        side), 2 at 4, 3 at 5, 5 at 1                  *)
EXTENDS Replay

MCTerrain == {<<1, 2>>}
MCFoliage == {<<2, 2>>}
MCMask == [c \in (0 .. 4) \X (0 .. 2) |->
             CASE c \in {<<0, 1>>, <<0, 0>>} -> 0
               [] c \in {<<4, 0>>, <<4, 2>>} -> 1
               [] c \in {<<4, 1>>, <<2, 2>>} -> 2
               [] OTHER -> 3]

Cmd(type, sender, id, first, second) ==
    [type |-> type, sender |-> sender, tank_id |-> id,
     first |-> first, second |-> second]

MCPlacements ==
    [p \in 0 .. 2 |->
       CASE p = 0 -> <<Cmd("Place", 0, 2, 0, 1), Cmd("Place", 0, 4, 0, 0)>>
         [] p = 1 -> <<Cmd("Place", 1, 4, 4, 0), Cmd("Place", 1, 6, 4, 2)>>
         [] p = 2 -> <<Cmd("Place", 2, 6, 4, 1), Cmd("Place", 2, 7, 2, 2)>>]

MCOrders ==
    {Cmd("Fire", 0, 0, 0, 0), Cmd("Load", 0, 0, 0, 0), Cmd("Fire", 0, 1, 0, 0),
     Cmd("Move", 0, 0, 0, 0),
     Cmd("Move", 1, 2, 0, 0), Cmd("RotateTank", 2, 5, 1, 0),
     Cmd("RotateBarrel", 1, 2, 1, 0), Cmd("Fire", 2, 4, 0, 0)}
=============================================================================
