SPECIFICATION Spec
CONSTANTS
    n_players_ = 3
    num_tanks_ = 1
    TURN_PLAYER_FUEL = 1
    MAX_QUEUE_SIZE = 1
    MaxTurn = 5
    MaxPosts = 3
    MaxLogins = 0
    MayShutdown = FALSE
INVARIANTS
    RosterConsistent
    PublishedRanking
PROPERTIES
    ImplementsOutcome
