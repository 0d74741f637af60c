CONSTANTS
    Pieces <- MCPieces
    Setups <- AllSetups
    ConfigFile <- Conf
    RealPath <- MCRealPath
    CurrentDir <- Cwd
    MaxLines = 4
SPECIFICATION Spec
INVARIANTS
    TypeOK
    OneConfigPerHost
    SectionsAsWritten
    RootAsWritten
    CgidirIsDirectory
CHECK_DEADLOCK FALSE
