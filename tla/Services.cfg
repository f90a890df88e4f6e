SPECIFICATION MCSpec
CONSTANTS
    Instances = {i1, i2}
    OneShot = {i2}
    Calls = {c1, c2}
    MaxWrites = 4
    MaxDrops = 1
    MaxRestarts = 1
    People = {p1, p2}
    BoundUsers = {u1}
    MaxPending = 2
    MaxSent = 3
    MaxCodes = 1
    MaxRevokes = 1
    MaxSessions = 2
    MaxBoots = 1
    Skills = {k1}
    MaxFlows = 2
    MaxUnbinds = 1
    MaxProbes = 1
    Sessions = {s1, s2}
    Channel = {s2}
    Texts = {t1}
    MaxAttempts = 2
    ChunkSize = 2
    Window = 1
    MaxSaid = 2
    MaxMems = 2
    MaxAsks = 2
    MaxToggles = 1
    MaxDeletes = 1
    MaxCrashes = 1
INVARIANTS NoStrayAdapter RunsForThePaired NoMessageLost UnbindLeavesNothing
    NothingForgotten PromptClean
CHECK_DEADLOCK FALSE
