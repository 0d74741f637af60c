CONSTANTS
    RequestHead <- MCHead
    RequestBody <- MCBody
    Response <- MCResponse
    UpRoom = 2
    BackRoom = 3
    Room = 2
SPECIFICATION PatientSpec
PROPERTY
    QueuedBytesAreWritten
CHECK_DEADLOCK FALSE
