CONSTANTS
    Goroutine = {g1}
    Leaves = 1
    MaxNodes = 6
    MaxArgs = 1
    Ops = {"Wrap", "Join", "WithErr"}
    Exclusive = TRUE
SPECIFICATION Spec
INVARIANT ExistingCauseReachable
CHECK_DEADLOCK FALSE
