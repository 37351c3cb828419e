\* Storage and log past their first doubling, with a key, a value and a message too long; a pool
\* of two slots for two clients.
SPECIFICATION MCSpec
CONSTANTS
    k1 = k1
    k2 = k2
    long = long
    v1 = v1
    v2 = v2
    wide = wide
    m1 = m1
    m2 = m2
    o1 = o1
    o2 = o2
    c1 = c1
    c2 = c2
    NULL = NULL
    NoObject = NoObject
    Keys = {k1, k2, long}
    Values = {v1, v2, wide}
    Cut <- MCCut
    Clip <- MCClip
    Messages = {m1, m2}
    Filling = {m2}
    STORAGE_CAPACITY = 1
    LOGS_CAPACITY = 1
    SHOWN = 2
    MaxItems = 4
    MaxLogs = 3
    Clients = {c1, c2}
    PoolObjects = {o1, o2}
    POOL_CAPACITY = 2
INVARIANTS
    NewestFirst
    HandlesStand
PROPERTIES
    StorageActsAsMap
