SPECIFICATION Spec
CONSTANTS
    u1 = u1 u2 = u2 u3 = u3
    s1 = s1 s2 = s2 s3 = s3 t1 = t1
    duel = duel trio = trio
    NoMode = NoMode
    Users <- ThreeUsers
    Sessions = {s1, s2, s3}
    Owner <- OneEachOfThree
    Modes = {duel, trio}
    Size <- Sizes
    MaxMatches = 2
    MaxRequests = 6
    MayCancel = TRUE
    MayForfeit = TRUE
    MayClose = FALSE
SYMMETRY Symmetry
INVARIANTS
    FullMatches
    QueuedUsersAreQueued
