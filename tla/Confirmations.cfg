SPECIFICATION Spec
CONSTANTS
    TaskSessions = {t1}
    ChannelSessions = {h1}
    WebSessions = {}
    MaxCards = 2
INVARIANTS ApprovedByRight CardsAttended AnswersOnce
CHECK_DEADLOCK FALSE
