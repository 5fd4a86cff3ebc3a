SPECIFICATION FairSpec
CONSTANTS
    Sockets = {c1, c2}
    Requests = {r1}
    None = None
    MaxChunks = 2
    MaxInbox = 2
INVARIANTS
    WholeIsWhole
    BodyIsPrefix
    ForgottenIsFinished
    NoOrphanStreams
    BrokenOnlyIfLost
    StreamsAccounted
PROPERTIES
    StreamsEnd
CHECK_DEADLOCK FALSE
