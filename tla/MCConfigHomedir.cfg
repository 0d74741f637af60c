CONSTANTS
    Pieces <- MCPieces
    Setups <- FilelessSetups
    ConfigFile <- Conf
    RealPath <- MCRealPath
    CurrentDir <- Cwd
    MaxLines = 0
SPECIFICATION Spec
INVARIANT
    HomedirDefaults
CHECK_DEADLOCK FALSE
