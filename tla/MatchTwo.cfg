SPECIFICATION FairSpec
CONSTANTS
    n_players_ = 2
    num_tanks_ = 1
    TURN_PLAYER_FUEL = 2
    MAX_QUEUE_SIZE = 2
    MaxTurn = 4
    MaxPosts = 2
    MaxLogins = 1
    MayShutdown = TRUE
INVARIANTS
    NoStall
    ThrowsOnlyWhenOver
    FullRosterFits
PROPERTIES
    ClaimedTurnIsClosed
    MatchEnds
