SPECIFICATION LiveSpec
CONSTANTS
    MaxMsg = 2
    MaxArchive = 3
    MaxFault = 1
    MaxCopy = 2
    MaxLate = 1
INVARIANTS NothingLost
PROPERTIES  ArchiveSettles
CHECK_DEADLOCK FALSE
