SPECIFICATION EventFairSpec
CONSTANTS
    Waiters = {w1, w2}
    Flags = {f1, f2}
PROPERTIES
    WaiterServed
