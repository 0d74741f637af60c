CONSTANTS
    c1 = c1
    c2 = c2
    c3 = c3
    NoConn = NoConn
    Conns = {c1}
    MaxFd = 9
    Routes <- RoutesBody
    Faults = {}
SPECIFICATION Spec
INVARIANT
    CgiInputFdIsOpen
CHECK_DEADLOCK FALSE
