SPECIFICATION Spec
CONSTANTS
    k1 = k1  k2 = k2
    c1 = c1  c2 = c2  c3 = c3
    s1 = s1  s2 = s2
    NoSlave = NoSlave
    Slaves = {s1}
    Conns = {c1, c2}
    Keys = {k1}
    Cap = 2
    OutputLimit = 2
    Oversized = {FALSE}
    MaxWrites = 1
    MaxBreaks = 1
    MaxSaves = 0
    MaxIoFails = 0
    MaxRestarts = 0
SYMMETRY Symmetry
INVARIANTS
    ReplicaConverges
CHECK_DEADLOCK FALSE
