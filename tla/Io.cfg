CONSTANTS
    w1 = w1
    w2 = w2
    r1 = r1
    r2 = r2
    NoThread = NoThread
    NoByte = NoByte
    Names = {a, b, c}
    BadNames = {c}
    Files = {f1, f2}
    MallocFails = FALSE
    Null = Null
    Off = Off
SPECIFICATION Spec
SYMMETRY Symmetry
INVARIANTS
    BytesInOrder
    WaitersWillBeWoken
    InterruptsPaired
    OutputIsWhole
    TransfersAreExact
    ScratchInSequence
PROPERTIES
    KeysTranslated
    FilesysConsistent
CHECK_DEADLOCK FALSE
