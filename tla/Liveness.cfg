SPECIFICATION MCSpec
CONSTANTS
    TaskSessions = {t1}
    ChannelSessions = {h1}
    WebSessions = {}
    MaxCards = 1
    Texts = {x1}
    MaxAttempts = 2
    ChunkSize = 1
    Window = 1
    MaxSaid = 1
    MaxMems = 1
    MaxAsks = 2
    MaxToggles = 1
    MaxDeletes = 1
    MaxCrashes = 1
PROPERTIES ToolsReleased EscalationSettles JobsSettle
CHECK_DEADLOCK FALSE
