SPECIFICATION FairSpec
CONSTANTS
    Sockets = {c1, c2}
    Requests = {r1}
    None = None
    MaxWaiters = 1
    MaxInbox = 1
PROPERTIES
    GoneIsNoticed
    ImplementsContract
CHECK_DEADLOCK FALSE
