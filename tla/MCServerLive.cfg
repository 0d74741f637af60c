CONSTANTS
    c1 = c1
    c2 = c2
    c3 = c3
    NoConn = NoConn
    Conns = {c1, c2}
    MaxFd = 12
    Routes <- RoutesMixed
    Faults = {"slow"}
SPECIFICATION FairSpec
PROPERTY
    EveryClientServed
CHECK_DEADLOCK FALSE
