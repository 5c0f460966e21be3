SPECIFICATION Spec
CONSTANTS
    None = None
    Threads = {t1, t2}
    MaxConns = 2
    MaxCalls = 2
    MaxRedirects = 1
    MaxStops = 1
    KeepAliveMax = 2
INVARIANTS RequestOwnsItsSocket AnswersMatchUnlessBodyUnread NoSocketLost
PROPERTIES ServerLetsGo
CHECK_DEADLOCK FALSE
