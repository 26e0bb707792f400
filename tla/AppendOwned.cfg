CONSTANTS
    Goroutine = {g1, g2}
    Leaves = 1
    MaxNodes = 5
    MaxArgs = 1
    Ops = {"Wrap", "Link", "Join", "Append", "WithErr"}
    Exclusive = TRUE
SPECIFICATION Spec
SYMMETRY Symmetry
INVARIANTS TypeOK Acyclic RaceFree AddedStaysReachable
PROPERTIES Immutable ImplementsValues
CHECK_DEADLOCK FALSE
