SPECIFICATION FairSpec
CONSTANTS
    NumFrames = 1
    Slots = {1}
    ResultSize = 1
    MaxResultSize = 2
    MaxErrors = 0
    MaxSessions <- OneEach
    MaxResults = 0
    MaxSignals = 1
    LogInits = {"ready"}
PROPERTIES
    CleanShutdown
CHECK_DEADLOCK FALSE
