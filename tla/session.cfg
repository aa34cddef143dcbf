SPECIFICATION Spec
CONSTANTS
    MaxMsg = 2
    MaxArchive = 3
    MaxFault = 2
    MaxCopy = 2
    MaxLate = 0
INVARIANTS TypeOK NothingLost RecoveryExact ReadyDisjoint InOrder
PROPERTIES ImplementsLog
CHECK_DEADLOCK FALSE
