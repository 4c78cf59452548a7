SPECIFICATION Spec
CONSTANTS
    Byte <- MCByte
    Zero = 0
    Frames <- MCFrames
    Cap = 16
    MaxTip = 36
INVARIANTS
    TypeOK
    CopyRangeFaithful
PROPERTIES
    NoEarlyDrop
\* feeding stops at the bound MaxTip
CHECK_DEADLOCK FALSE
