CONSTANTS
    Conn = {c1}
    Client = {a}
    QueueCap = 4
    MaxRequests = 4
    MaxDestroys = 2
    MaxReaps = 0
    InitMayFail = FALSE
    Sigterm = FALSE
SPECIFICATION Spec
INVARIANT NoOrphanEngine
CHECK_DEADLOCK FALSE
