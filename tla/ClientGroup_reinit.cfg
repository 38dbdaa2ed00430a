CONSTANTS
    Conn = {c1, c2}
    Client = {a, b}
    QueueCap = 1
    MaxRequests = 4
    MaxDestroys = 0
    MaxReaps = 0
    InitMayFail = TRUE
    Sigterm = FALSE
SPECIFICATION Spec
INVARIANTS TypeOK EngineNotMixed NoUseOfClosedEngine HandledInOrder
CHECK_DEADLOCK FALSE
