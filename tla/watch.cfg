CONSTANTS
    Name = {"a", "b", "c", "x"}
    w1 = w1
    w2 = w2
    Watch <- MCWatch
    InitAt <- MCInitAt
    Moves <- MCMoves
    MaxConcurrency = 1
    MaxRun = 2
    MaxAsk = 2
    MaxFault = 1
SPECIFICATION LiveSpec
CHECK_DEADLOCK FALSE
INVARIANTS TypeOK OneRound RefreshAtTarget WatchFollows TargetsDistinct
PROPERTIES DueSettles RemovedStops
