SPECIFICATION Spec
CONSTANTS
    Sessions = {s1}
    Posts = {q1, q2}
    Stops = {p1}
    MaxRuns = 2
    MaxCrashes = 0
PROPERTIES StopFreesLock
CHECK_DEADLOCK FALSE
