SPECIFICATION FairSpec
CONSTANTS
    c1 = c1  c2 = c2  c3 = c3
    Null = Null
    Clients = {c1, c2, c3}
    Fds = {0, 1, 2, 3, 4, 5}
    Quota = 4
    MaxEvents = 4
    Apps <- MCApps
INVARIANTS WatchedSockets NeverLost NeverBlocks
PROPERTIES ClosedIsFreed Served LoopEnds
CHECK_DEADLOCK FALSE
