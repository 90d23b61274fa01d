SPECIFICATION Spec
CONSTANTS
    u1 = u1 u2 = u2 u3 = u3
    s1 = s1 s2 = s2 s3 = s3 t1 = t1
    duel = duel trio = trio
    NoMode = NoMode
    Users <- TwoUsers
    Sessions = {s1, s2, t1}
    Owner <- SecondConnection
    Modes = {duel}
    Size <- Sizes
    MaxMatches = 2
    MaxRequests = 5
    MayCancel = TRUE
    MayForfeit = FALSE
    MayClose = TRUE
INVARIANTS
    NoMissedMatch
    MappedToOwnMatch
