CONSTANTS
    Conn = {c1}
    Client = {a}
    QueueCap = 1
    MaxRequests = 3
    MaxDestroys = 0
    MaxReaps = 0
    InitMayFail = FALSE
    Sigterm = FALSE
SPECIFICATION Spec
INVARIANT SendDoesNotBlockWorker
CHECK_DEADLOCK FALSE
