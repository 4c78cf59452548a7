SPECIFICATION Spec
CONSTANTS
    k1 = k1  k2 = k2
    c1 = c1  c2 = c2  c3 = c3
    s1 = s1  s2 = s2
    NoSlave = NoSlave
    Slaves = {s1, s2}
    Conns = {c1, c2}
    Keys = {k1, k2}
    Cap = 2
    OutputLimit = 9
    Oversized = {FALSE}
    MaxWrites = 2
    MaxBreaks = 1
    MaxSaves = 1
    MaxIoFails = 1
    MaxRestarts = 0
SYMMETRY Symmetry
INVARIANTS
    CleanReplicaConverges
CHECK_DEADLOCK FALSE
