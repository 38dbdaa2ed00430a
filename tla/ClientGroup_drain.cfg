CONSTANTS
    Conn = {c1}
    Client = {a}
    QueueCap = 4
    MaxRequests = 4
    MaxDestroys = 1
    MaxReaps = 1
    InitMayFail = FALSE
    Sigterm = FALSE
SPECIFICATION FairSpec
PROPERTIES EveryRequestAnswered WorkersEnd
CHECK_DEADLOCK FALSE
