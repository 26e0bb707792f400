SPECIFICATION Spec
CONSTANTS
    Funcs = {"f"}
    maxStackDepth = 6
    MaxDepth = 8
    MaxCalls = 3
    MaxPanics = 2
INVARIANTS
    TraceOfPanic
    TakenAtCaller
PROPERTY FromPanicReturns
CHECK_DEADLOCK FALSE
