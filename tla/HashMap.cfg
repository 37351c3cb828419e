\* Colliding keys, every operation, growth by load and on request, allocation failures.
SPECIFICATION Spec
CONSTANTS
    k1 = k1
    k2 = k2
    k3 = k3
    v1 = v1
    v2 = v2
    Keys = {k1, k2, k3}
    Values = {v1, v2}
    NULL = NULL
    Empty = Empty
    Tomb = Tomb
    Hash <- Crowded
    InitialCapacity = 5
    MaxCapacity = 10
    MaxTombs = 2
    Resizes = {3, 10}
    OOM = TRUE
SYMMETRY Interchangeable
INVARIANTS
    TableSound
    ReadsLastWrite
PROPERTIES
    MapWhilePristine
