SPECIFICATION Spec
CONSTANTS
    a = a b = b s1 = s1 s2 = s2 s3 = s3 home = home away = away m1 = m1 m2 = m2
    Users = {a, b}
    Sessions = {s1, s2, s3}
    IPs = {home, away}
    ip <- MCIp
    Matches = {m1, m2}
    MAX_FRIEND_REQUESTS = 1
    Starts <- MCStarts
    MayFail = TRUE
    MaxCalls = 3
CHECK_DEADLOCK FALSE
INVARIANTS
    
    SessionsAreKnown
    CachesMatchTables
    DataIsDropped
    PlayersRejoin
