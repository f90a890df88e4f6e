SPECIFICATION FairSpec
CONSTANTS
    Sessions = {s1}
    Posts = {q1, q2}
    Stops = {p1, p2}
    MaxRuns = 2
    MaxCrashes = 1
INVARIANTS DoneMeansFree AskedWhileRunning HolderReachable SettledReplayEnds
PROPERTIES StoppedSettles
CHECK_DEADLOCK FALSE
