CONSTANTS
    Conn = {c1}
    Client = {a}
    QueueCap = 4
    MaxRequests = 3
    MaxDestroys = 0
    MaxReaps = 0
    InitMayFail = FALSE
    Sigterm = TRUE
SPECIFICATION Spec
INVARIANT CloseAllShutsEngine
CHECK_DEADLOCK FALSE
