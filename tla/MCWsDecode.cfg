SPECIFICATION Spec
CONSTANTS
    Scripts <- MCScripts
    Requests <- MCRequests
    LongLen = 9
    BufLen = 16
INVARIANTS TypeOK DataInOrder ConformingAccepted NoStall
CHECK_DEADLOCK FALSE
