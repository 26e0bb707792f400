SPECIFICATION LSpec
CONSTANTS
    Ops = {"Link", "Detailed", "FieldError", "WithStack", "FromPanic"}
    Codes <- MCOneCode
    Sentinels = {"io"}
    Registered <- MCRegistered
    MaxNodes = 4
    MaxArgs = 2
INVARIANTS
    LTypeOK
    LoggedOnce
    FactsAsRead
    FieldsLoggedAsReported
    PrintedAsLogged
    GettersAsLogged
    LoggedUpToFailure
CHECK_DEADLOCK FALSE
