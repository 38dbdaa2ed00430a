CONSTANTS
    Key = {1, 2}
    Val = {1, 2}
    Query = {"all", "ones"}
    Where <- MCWhere
    Start <- MCStart
    ChunkSize = 2
    ParallelThreshold = 2
    MaxVersions = 3
    MaxFaults = 1
    MaxRemoves = 1
SPECIFICATION Spec
INVARIANTS TypeOK FrameContract NoQueryForgotten ChangesFit NoFalseDrift
PROPERTIES Implements Resynchronises
CHECK_DEADLOCK FALSE
