CONSTANTS
    c1 = c1
    c2 = c2
    c3 = c3
    NoConn = NoConn
    Conns = {c1, c2, c3}
    MaxFd = 5
    Routes <- RoutesNoBody
    Faults = {"reconnect", "refuse"}
SPECIFICATION Spec
SYMMETRY ClientSymmetry
INVARIANTS
    NoDescriptorLost
PROPERTY
    ReadinessNeverStale
CHECK_DEADLOCK FALSE
