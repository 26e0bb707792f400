SPECIFICATION Spec
CONSTANTS
    Ops = {"FromContext", "FromGRPC", "WithErr", "Link", "Detailed", "FieldError", "ToTransient", "AttachCodeTo"}
    Codes <- MCOneCode
    Sentinels = {"io"}
    Registered <- MCRegistered
    MaxNodes = 4
    MaxArgs = 3
INVARIANTS
    TypeOK
    LayersKeepFacts
    FieldsKeepToThemselves
    FieldErrorsReportedOnce
    PublicShownOnce
CHECK_DEADLOCK FALSE
