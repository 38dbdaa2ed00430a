CONSTANTS
    Conn = {c1}
    Client = {a}
    QueueCap = 3
    MaxRequests = 3
    MaxDestroys = 1
    MaxReaps = 0
    InitMayFail = FALSE
    Sigterm = FALSE
SPECIFICATION Spec
INVARIANT HandledInOrder
CHECK_DEADLOCK FALSE
