INIT StagingInit
NEXT StagingNext
CONSTANTS
    a = a
    b = b
    x = x
    Tops = {a, b}
    Names = {x}
    BinName = bin
    Present <- MCPresent
    Shared <- MCShared
    Plans <- MCPlans
    MaxRows = 3
    MaxRuns = 1
    MaxEdits = 0
    MaxFaults = 0
PROPERTY UndoHistoryKept
CHECK_DEADLOCK FALSE
