SPECIFICATION Spec
CONSTANTS
    Policies <- AllPolicies
    Sizes <- AllSizes
    SoftFlush = 2
    HardCap = 2
    MaxPending = 2
    RingEntries = 1
    Ordered = FALSE
    ShortWrites = TRUE
    MaxUnits = 3
    MaxSubmitFails = 1
    MaxIoFails = 1
INVARIANTS TypeOK NoUnitLost NoUnitTwice FlushHonest
