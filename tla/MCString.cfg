CONSTANTS
    Chars = {"a", "sp", "nul"}
    NUL = "nul"
    Spaces = {"sp"}
    Args <- MCArgs
    MaxLen = 4
SPECIFICATION Spec
INVARIANTS
    TypeOK
    TailIsZero
PROPERTY
    ImplementsText
