SPECIFICATION FairSpec
CONSTANTS
    c1 = c1  c2 = c2  c3 = c3  w1 = w1  w2 = w2
    Null = Null
    Clients = {c1}
    Workers = {}
    Shutdown = Shutdown
    HookResults <- MCAccept
    AcceptMayFail = FALSE
PROPERTY ClosedIsFreed
CHECK_DEADLOCK FALSE
