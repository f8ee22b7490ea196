SPECIFICATION BothSpec
CONSTANTS
    Writers = {w1, w2}
    Readers = {r1, r2}
    NumBuf = 5
    MaxStamp = 2
    Waiters = {e1, e2}
    Flags = {f1, f2}
SYMMETRY Symmetry
INVARIANTS
    BuffersOnce
PROPERTIES
    ReaderUndisturbed
    AloneServed
    RetrievedWhole
