INIT ApprovalsInit
NEXT ApprovalsNext
CONSTANTS
    Probes = {p1}
    MaxIface = 2
    MaxServerEdits = 1
    MaxSaves = 2
    MaxMcpRuns = 2
    MaxClicks = 1
INVARIANTS VoidedByEdit
CHECK_DEADLOCK FALSE
