SPECIFICATION MCSpec
CONSTANTS
    MaxTurns = 2
    RecentTurns = 1
    RecentToolTurns = 1
    HardKeep = 1
    RescueMax = 1
    MaxRuns = 3
    MaxItems = 3
    CallIds = {a, b}
    MaxLen = 5
    Subs = {d1, d2, d3}
    Locations = {l1, l2}
    SystemRoots = {l2}
    Blacklisted = {}
    Concurrency = 3
    MaxTurnsRun = 1
    MaxFlips = 1
    Scopes = {"parent", "child"}
    Types = {"thinking", "message"}
    Clients = {r1}
    MaxEvents = 5
    MaxRow = 2
    MaxFaults = 1
    Servers = {s1, s2}
    Slots = {t1, t2}
    MaxGateRuns = 2
    Probes = {p1}
    MaxIface = 2
    MaxServerEdits = 1
    MaxSaves = 2
    MaxMcpRuns = 2
    MaxClicks = 1
    Pids = {e1, e2, e3}
    Orders = {o1, o2}
    McpOrders = {o2}
    MaxBootups = 2
    MaxUpsets = 2
INVARIANTS ContextSound NoStrandedWait SystemByHand ReadersSeeTheRun ToolsetSound
     
PROPERTIES HistoryKept RepairSound
CHECK_DEADLOCK FALSE
