SPECIFICATION FairSpec
CONSTANTS
    Threads = {t1, t2, t3}
    Values = {a, b}
    QueLen = 2
    NoValue = NoValue
INVARIANTS
    RingConsistent
    NoLostWakeup
PROPERTIES
    FifoSpec
    ReadersServed
