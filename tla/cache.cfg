SPECIFICATION Spec
CONSTANTS
    Path <- MCPath
    Files <- MCFiles
    Data = {"a", "b"}
    InitFs <- MCInitFs
    Admitted <- MCAdmitted
    MaxOp = 2
    MaxFault = 1
    MaxStart = 2
INVARIANTS TypeOK HitsCurrent
PROPERTY StaleStaysStale
CHECK_DEADLOCK FALSE
