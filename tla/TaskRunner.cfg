SPECIFICATION FairSpec
CONSTANTS
    Tasks = {t1}
    Slots = {1}
    Requests = {q1}
    Deletes = {d1}
    Keep = 1
    MaxRuns = 3
    MaxFaults = 1
INVARIANTS SharedTranscriptKept NothingOrphaned
PROPERTIES RunsFollowLifecycle QueueDrains
CHECK_DEADLOCK FALSE
