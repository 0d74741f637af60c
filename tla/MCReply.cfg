CONSTANTS
    Pieces <- MCPieces
    Hosts <- MCHosts
    Requests <- MCRequests
    Content <- MCContent
    Outputs <- MCOutputs
    LineSize = 5
    MaxLength = 9
    Numbers <- MCNumbers
    MaxOutput = 6
SPECIFICATION Spec
INVARIANTS
    TypeOK
    FilesAsReference
    LengthIsBody
    OneOfEachHeader
    CgiBodyAsReference
    CgiErrorAsIs
    UriAsReference
    ForwardedAsRead
    EnvironmentOfRequest
