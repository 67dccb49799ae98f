SPECIFICATION TableSpec
CONSTANTS
    CodeCount = 6
    KindCount = 3
    Unknown = Unknown
INVARIANT
    CodesDecodeToTheirKind
CHECK_DEADLOCK FALSE
