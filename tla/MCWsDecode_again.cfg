SPECIFICATION Spec
CONSTANTS
    Scripts <- MCScripts
    Requests <- MCRequests
    LongLen = 9
    BufLen = 16
INVARIANT JustCallAgain
CHECK_DEADLOCK FALSE
