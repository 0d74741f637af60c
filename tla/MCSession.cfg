CONSTANTS
    c1 = c1
    c2 = c2
    c3 = c3
    NoConn = NoConn
    Conns = {c1, c2}
    MaxFd = 10
    Routes <- RoutesMixed
    Faults = {"slow", "abort", "refuse", "nofork", "cgierr", "upreset"}
SPECIFICATION Spec
INVARIANTS
    IInv
    TypeOK
    ContextsHoldTheirOwnFds
    SelectSetsMatchContexts
    NoDescriptorLost
    ServerKeepsRunning
PROPERTY
    ImplementsSession
CHECK_DEADLOCK FALSE
