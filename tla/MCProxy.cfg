CONSTANTS
    RequestHead <- MCHead
    RequestBody <- MCBody
    Response <- MCResponse
    UpRoom = 2
    BackRoom = 3
    Room = 2
SPECIFICATION FairSpec
INVARIANTS
    TypeOK
    RequestInOrder
    ForwardedInOrder
    DoneMeansAll
PROPERTIES
    ImplementsExchange
    ForwardedInTheEnd
CHECK_DEADLOCK FALSE
