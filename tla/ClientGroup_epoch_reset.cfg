CONSTANTS
    Conn = {c1}
    Client = {a, b}
    QueueCap = 4
    MaxRequests = 4
    MaxDestroys = 1
    MaxReaps = 0
    InitMayFail = FALSE
    Sigterm = FALSE
SPECIFICATION Spec
INVARIANT EngineNotMixed
CHECK_DEADLOCK FALSE
