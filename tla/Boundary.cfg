SPECIFICATION BSpec
CONSTANTS
    Ops = {"Foreign", "NewWithCode", "Wrap", "Join", "Link", "Propagate", "PropagateWithCode", "FieldError", "ToTransient", "AttachCodeTo"}
    Codes <- MCOneCode
    Sentinels = {"io"}
    Registered <- MCRegistered
    MaxNodes = 5
    MaxArgs = 2
    Statuses = {416}
    MaxHops = 3
PROPERTY ImplementsRelay
CHECK_DEADLOCK FALSE
