SPECIFICATION Spec
CONSTANTS
    pair1 = pair1
    pair2 = pair2
    ip = ip
    status = status
    Keys <- MCKeys
    Max <- MCMax
    Window <- MCWindow
    Requests <- MCRequests
    MaxTime = 4
INVARIANTS
    WindowBound
PROPERTIES
    RefusalIsJustified
