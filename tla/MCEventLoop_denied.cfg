SPECIFICATION FairSpec
CONSTANTS
    c1 = c1  c2 = c2  c3 = c3
    Null = Null
    Clients = {c1, c2, c3}
    Fds = {0, 1, 2, 3, 4, 5}
    Quota = 4
    MaxEvents = 3
    Apps <- MCApps
PROPERTY ReadableServed
CHECK_DEADLOCK FALSE
