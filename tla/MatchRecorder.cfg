SPECIFICATION FairSpec
CONSTANTS
    alice = alice bob = bob
    first = first second = second casual = casual
    Users = {alice, bob}
    Matches = {first, second}
    user_ids <- UserIds
    Ranked = {first, second}
    StartElo = 5
    ELO_FLOOR = 5
    SHUTDOWN_COMPONENTS_COUNT = 3
    SIZE_MAX = 9
    MayFail = TRUE
INVARIANTS
    RatingsAddUp
    
    StopsWhenAllAreDone
PROPERTIES
    ShutdownCompletes
