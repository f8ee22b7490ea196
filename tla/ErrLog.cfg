SPECIFICATION FairSpec
CONSTANTS
    SaveCount = 2
    MaxFiles = 2
    PerFile = 2
    RecordSizes = {1, 2, 3}
    MaxRecord = 2
    OldFiles = {1, 2}
    StartMinute = 2
    MaxMinute = 3
    Leavers = {t1, t2}
INVARIANTS
    LogFits
    FlushesOpenFile
PROPERTIES
    LogGoesOn
    NothingOverwritten
    RequestKept
CHECK_DEADLOCK FALSE
