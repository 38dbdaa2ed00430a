CONSTANTS
    Conn = {c1}
    Client = {a}
    QueueCap = 2
    MaxRequests = 2
    MaxDestroys = 0
    MaxReaps = 1
    InitMayFail = FALSE
    Sigterm = FALSE
SPECIFICATION FairSpec
PROPERTY ReaperSparesUsedGroup
CHECK_DEADLOCK FALSE
