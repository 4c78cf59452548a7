SPECIFICATION Spec
CONSTANTS
    Keys = {k1, k2, k3}
    NoNode = NoNode
    Dims = {d1, d2}
    MaxEntries = 2
    IdBits = 3
    MaxLoaded = 3
    MaxFreed = 1
    MaxWrites = 5
    MaxReloads = 1
    SpentReloads = FALSE
    MaxAddFails = 1
    MaxRemoveFails = 1
    MaxLogFails = 1
SYMMETRY Symmetric
INVARIANTS TypeOK Consistent ReplicaAgrees
PROPERTIES ImplementsLru
