CONSTANTS
    Streams <- Requests
    BufSize = 3
    Lengths <- MCLengths
    Ends = {"fin", "reset"}
SPECIFICATION FairSpec
INVARIANTS
    TypeOK
    NoByteLost
    ParsedAsReference
    NeverTooSoon
    NeverStranded
PROPERTY
    RequestProcessed
CHECK_DEADLOCK FALSE
