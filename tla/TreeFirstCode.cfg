SPECIFICATION Spec
CONSTANTS
    Ops = {"Join", "Detailed", "NewWithCode", "Propagate", "PropagateWithCode"}
    Codes <- MCOneCode
    Sentinels = {"io"}
    Registered <- MCRegistered
    MaxNodes = 3
    MaxArgs = 2
INVARIANT FirstCodeReported
CHECK_DEADLOCK FALSE
