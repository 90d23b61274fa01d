SPECIFICATION FairSpec
CONSTANTS
    manager = manager
    shutdown = shutdown
    Callers = {manager}
    MAX_MESSAGE_BACKLOG = 2
    MaxDelivers = 1
    MaxPosts = 1
INVARIANTS
    ReadLoop
    WriteLoop
PROPERTIES
    LostPeerIsRemoved
