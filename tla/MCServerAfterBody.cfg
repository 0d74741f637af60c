CONSTANTS
    c1 = c1
    c2 = c2
    c3 = c3
    NoConn = NoConn
    Conns = {c1, c2}
    MaxFd = 9
    Routes <- RoutesAfterBody
    Faults = {"reconnect", "refuse", "slow"}
SPECIFICATION SpecAfterBody
INVARIANTS
    MaxfdCoversSets
CONSTRAINTS
    AtMostThreeContexts
    AtMostThreeDeadSockets
    PeersInOnePiece
CHECK_DEADLOCK FALSE
