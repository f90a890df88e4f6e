SPECIFICATION MCSpec
CONSTANTS
    Users = {u1}
    Files = {f1}
    MaxMtime = 2
    MaxTries = 2
    DailyCap = 1
    MaxDays = 2
    MaxStops = 1
    MaxActs = 3
    Notes = {n1}
    Writers = {w1}
    MaxVersion = 3
    MaxFaults = 1
INVARIANTS EffortBounded
PROPERTIES DocumentsDealt NotesHeal
CHECK_DEADLOCK FALSE
