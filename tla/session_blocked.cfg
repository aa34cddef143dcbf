SPECIFICATION LiveSpec
CONSTANTS
    MaxMsg = 2
    MaxArchive = 2
    MaxFault = 1
    MaxCopy = 2
    MaxLate = 0
PROPERTY NextCommitUnaffected
CHECK_DEADLOCK FALSE
