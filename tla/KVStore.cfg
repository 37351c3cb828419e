\* Every call, failed appends, a failing rename, crashes anywhere.
SPECIFICATION Spec
CONSTANTS
    k1 = k1
    k2 = k2
    v1 = v1
    v2 = v2
    Keys = {k1, k2}
    Values = {v1, v2}
    NULL = NULL
    Garbage = Garbage
    NoFile = NoFile
    NoHeader = NoHeader
    MaxRecords = 3
    MaxStrays = 1
    CountMod = 6
SYMMETRY Interchangeable
INVARIANTS
    DeletedKeysAreGone
    StoreSound
PROPERTIES
    MapWhileCareful
