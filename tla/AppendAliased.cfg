CONSTANTS
    Goroutine = {g1}
    Leaves = 2
    MaxNodes = 6
    MaxArgs = 1
    Ops = {"Append"}
    Exclusive = FALSE
SPECIFICATION Spec
INVARIANT AddedStaysReachable
CHECK_DEADLOCK FALSE
