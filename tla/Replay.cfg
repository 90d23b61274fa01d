SPECIFICATION Spec
CONSTANTS
  Width = 5
  Height = 3
  Terrain <- MCTerrain
  Foliage <- MCFoliage
  Mask <- MCMask
  NumPlayers = 3
  NumTanks = 2
  INITIAL_HEALTH = 2
  Orders <- MCOrders
  Placements <- MCPlacements
  MaxMoves = 4
  Quitters = {1, 2}
  FirstExit = 5
  MAX_REPLAY_BYTES = 10
  Perspectives = {0}
CHECK_DEADLOCK FALSE
INVARIANTS
    BoardConsistent
    FogOfWar
    SeesTarget
    ReplayShowsMatch
    BackUndoesForward
