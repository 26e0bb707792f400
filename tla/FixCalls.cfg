SPECIFICATION Spec
CONSTANTS
    Pieces <- MCPieces
    MaxPieces = 4
INVARIANTS
    FixKeepsCauses
    FixKeepsValues
    NilOnlyForNil
    WrapfCountsVerbs
CHECK_DEADLOCK FALSE
