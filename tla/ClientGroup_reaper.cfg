CONSTANTS
    Conn = {c1, c2}
    Client = {a}
    QueueCap = 1
    MaxRequests = 3
    MaxDestroys = 0
    MaxReaps = 2
    InitMayFail = FALSE
    Sigterm = TRUE
SPECIFICATION Spec
INVARIANTS NoOrphanEngine NoSendOnClosedChannel
CHECK_DEADLOCK FALSE
