SPECIFICATION EventSpec
CONSTANTS
    Waiters = {w1}
    Flags = {f1, f2}
PROPERTIES
    OnlyMaskConsumed
