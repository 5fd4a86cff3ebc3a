SPECIFICATION Spec
CONSTANTS
    Sockets = {c1, c2}
    Requests = {r1, r2}
    None = None
    MaxWaiters = 1
    MaxInbox = 1
SYMMETRY Symmetric
INVARIANTS
    NoOrphans
    PendingAccounted
    WaitersAccounted
    LockAccounted
    LostOnlyIfLost
    IdsAreOwn
PROPERTIES
    OnlyOwnRemoval
    AnswersReach
CHECK_DEADLOCK FALSE
