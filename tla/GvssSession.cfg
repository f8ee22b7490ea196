SPECIFICATION Spec
CONSTANTS
    Servers = {"PLC", "CLIENT"}
    Answered = {"PLC"}
    MaxFd = 5
    MsgUnits = 2
    MaxSessions = 1
    MaxSignals = 1
INVARIANTS
    MessagesWhole
    KilledOnlyInWindow
PROPERTIES
    DescriptorsKept
CHECK_DEADLOCK FALSE
