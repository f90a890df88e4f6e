SPECIFICATION MCSpec
CONSTANTS
    a = a
    b = b
    x = x
    Tops = {a, b}
    Names = {x}
    BinName = bin
    Present <- MCPresent
    Shared <- MCShared
    Plans <- MCPlans
    MaxRows = 3
    MaxRuns = 1
    MaxEdits = 1
    MaxFaults = 1
    Commands <- MCCommands
    Policies <- MCPolicies
    Entries <- MCEntries
    Grants <- MCGrants
    Calls = {k1}
    MaxCalls = 2
    MaxChanges = 1
INVARIANTS BatchWhole GuardHolds
PROPERTIES RevertRestores
CHECK_DEADLOCK FALSE
