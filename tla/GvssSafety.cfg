SPECIFICATION Spec
CONSTANTS
    NumFrames = 2
    Slots = {1, 2}
    ResultSize = 1
    MaxResultSize = 2
    MaxErrors = 0
    MaxSessions <- OnlyClient
    MaxResults = 1
    MaxSignals = 2
    LogInits = {"ready"}
INVARIANTS
    TypeOK
    FramesAccounted
    MessagesBounded
CHECK_DEADLOCK FALSE
