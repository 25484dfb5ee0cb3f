SPECIFICATION Spec
CONSTANTS
    c1 = c1  c2 = c2  c3 = c3
    Null = Null
    Clients = {c1, c2}
    Fds = {0, 1, 2, 3}
    Quota = 3
    MaxEvents = 3
    Apps <- MCExample
INVARIANT FreedNeverUsed
CHECK_DEADLOCK FALSE
