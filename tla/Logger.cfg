CONSTANTS
    SIZE = 4000
    kMaxNumericSize = 32
    t1 = t1
    t2 = t2
    Threads = {t1, t2}
    LenOf <- Lengths
    Texts <- Strings
    Ints <- Numbers
    Pointers <- Addresses
    Doubles = {19}
    Errnos = {0, 24}
    Line = 101
    MaxPieces = 2
    MaxRecords = 2
    MaxSettings = 2
SPECIFICATION Spec
SYMMETRY Interchangeable
INVARIANTS NoOverrun RecordsReadable FatalIsSeen
CHECK_DEADLOCK FALSE
