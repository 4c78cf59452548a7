SPECIFICATION Spec
CONSTANTS
    k1 = k1  k2 = k2
    c1 = c1  c2 = c2  c3 = c3
    s1 = s1  s2 = s2
    NoSlave = NoSlave
    Slaves = {s1}
    Conns = {c1, c2}
    Keys = {k1}
    Cap = 1
    OutputLimit = 1
    Oversized = {FALSE, TRUE}
    MaxWrites = 2
    MaxBreaks = 1
    MaxSaves = 1
    MaxIoFails = 1
    MaxRestarts = 1
SYMMETRY Symmetry
INVARIANTS
    TypeOK
    StreamExact
    OffsetNeverAhead
    WaiterHasSave
CHECK_DEADLOCK FALSE
