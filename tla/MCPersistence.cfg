SPECIFICATION Spec
CONSTANTS
    Keys = {k1, k2}
    AofModes = {TRUE, FALSE}
    Orphans = FALSE
    Tears = TRUE
    MaxWrites = 3
    MaxSaves = 3
    MaxCrashes = 2
SYMMETRY Symmetric
CHECK_DEADLOCK FALSE
INVARIANTS TypeOK DumpWhole SyncedSurvives SnapshotSurvives
