SPECIFICATION FairSpec
CONSTANTS
    u1 = u1 u2 = u2 u3 = u3 u4 = u4
    Users = {u1, u2, u3}
    Elos = {3, 6, 12}
    ELO_FLOOR = 4
    MAX_ELO_BUCKET = 10
    NUM_BUCKETS = 3
    MAX_BUCKETS_DIFF = 2
    BUCKET_INCREMENT_TIME = 1
    MaxEnqueues = 4
    MaxQueueTime = 1
    MaxTime = 3
INVARIANTS
    LookupMatchesBuckets
PROPERTIES
    TickIsMaximal
    PairsMeet
