SPECIFICATION Spec
CONSTANTS
    Codes <- MCCodes
    Statuses <- MCStatuses
    MaxHops = 4
INVARIANTS
    TypeOK
    StatusKept
    FaultKept
    NeverMadeTransient
    NoErrorLost
    CodeKept
    JSONMirrorsGRPC
PROPERTY Settled
CHECK_DEADLOCK FALSE
