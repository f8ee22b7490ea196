SPECIFICATION Spec
CONSTANTS
    NumFrames = 2
    Slots = {0}
    ResultSize = 1
    MaxResultSize = 2
    MaxErrors = 0
    MaxSessions <- PlcReconnects
    MaxResults = 2
    MaxSignals = 0
    LogInits = {"ready"}
INVARIANTS
    InOrderAtMostOnce
    AnnouncedResult
    FrameOwnedOnce
PROPERTIES
    Channels
    QuietWhenOff
CHECK_DEADLOCK FALSE
