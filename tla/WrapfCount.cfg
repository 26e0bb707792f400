SPECIFICATION Spec
CONSTANTS
    Pieces <- MCPiecesLiteral
    MaxPieces = 3
INVARIANT WrapfWrapsErrors
CHECK_DEADLOCK FALSE
