SPECIFICATION Spec
CONSTANTS
    Policies <- AllPolicies
    Sizes <- AllSizes
    SoftFlush = 2
    HardCap = 2
    MaxPending = 2
    RingEntries = 1
    Ordered = TRUE
    ShortWrites = FALSE
    MaxUnits = 4
    MaxSubmitFails = 0
    MaxIoFails = 0
INVARIANTS FileIsStream
PROPERTIES PollSettles
