SPECIFICATION RequestSpec
CONSTANTS
    NumFrames = 1
    Slots = {1}
    ResultSize = 1
    MaxResultSize = 2
    MaxErrors = 0
    MaxSessions <- OnlyPlc
    MaxResults = 1
    MaxSignals = 0
    LogInits = {"ready", "none"}
PROPERTIES
    RequestsAnswered
    SessionDrains
    ShutdownCompletes
CHECK_DEADLOCK FALSE
