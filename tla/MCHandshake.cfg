SPECIFICATION Spec
CONSTANTS
    c1 = c1
    c2 = c2
    Clients = {c1, c2}
    Screens <- MCScreens
    Peers <- MCPeers
SYMMETRY ClientSymmetry
CHECK_DEADLOCK FALSE
INVARIANTS TypeOK InStep NoDeadlock Authenticated Exclusive
PROPERTIES NotDisconnected
