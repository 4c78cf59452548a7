SPECIFICATION Spec
CONSTANTS
    Scripts <- MCScripts
    Roles = {"master", "replica"}
    RdbFile <- MCRdbFile
    OutputLimit = 3
    MaxOthers = 1
    SndBuf = 2
    LowWater = 2
    RecvMax = 2
    IntBits = 4
INVARIANTS
    StreamOrder
    NoLostWakeup
    DoneOnce
    SlaveMatchesConn
    Framing
    LogReproducesStore
    SnapshotLoads
PROPERTIES
    Answered
CHECK_DEADLOCK FALSE
