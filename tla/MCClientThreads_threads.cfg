SPECIFICATION Spec
CONSTANTS
    c1 = c1  c2 = c2  c3 = c3  w1 = w1  w2 = w2
    Null = Null
    Clients = {c1, c2}
    Workers = {w1}
    Shutdown = Shutdown
    HookResults <- MCAnswers
    AcceptMayFail = TRUE
SYMMETRY ClientSymmetry
INVARIANTS TypeOK ListWellFormed ThreadsEndFirst ReferencesProtect VisitsAll
CHECK_DEADLOCK FALSE
