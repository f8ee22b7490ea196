SPECIFICATION LibSpec
CONSTANTS
    Threads = {t1, t2, t3, t4}
    MaxCount = 2
    InitVal = 3
    Claims = {0, 1, 2, 3, 49, 50, 51, 64, 65}
    Takes <- FinalHalf
    PipeWriters = {w1}
    PipeReaders = {r1, r2}
    PipeCapacity = 2
    MaxInterrupts = 1
    ListThreads = {l1, l2}
    Addresses = {a1, a2, a3}
    NULL = NULL
    MaxElem = 2
    ReadChunk = 2
    WriteChunk = 3
    Int32Limit = 8
    MaxLength = 8
    Servers = {"CLIENT"}
    Answered = {}
    MaxFd = 3
    MsgUnits = 2
    MaxSessions = 2
    MaxSignals = 1
    taskA = taskA
    taskB = taskB
    taskC = taskC
    Tasks = {taskA, taskB, taskC}
    SendsTo <- Downwards
    Ids = {m1, m2, m3, m4}
    Prms = {p1}
    QueLen = 1
    AckValues = {0, 1}
    MaxCalls = 1
INVARIANTS
    HeapOwned
    AnswersExpected
    CountServes
    Guarded
    CronKeepsUp
    MessageReadable
    PipePlaced
PROPERTIES
    CallsReturn
    FailureReported
    FilesAsReported
    ListKept
    GuardTaken
    GonePeerNoticed
CHECK_DEADLOCK FALSE
