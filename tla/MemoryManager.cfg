\* A heap of 16 bytes, headers of 2, payloads in multiples of 2.
SPECIFICATION Spec
CONSTANTS
    Align = 2
    Meta = 2
    PageSize = 8
    SizeMod = 64
    MaxHeap = 16
    HeapSizes = {0, 15}
    Requests = {0, 1, 3, 6}
    MaxLibc = 1
    NoHdr = NoHdr
INVARIANTS
    TypeOK
    BlocksDisjoint
    FreeListSorted
    Coalesced
    AllocatedMeansHeld
    Accounting
    RequestServed
PROPERTIES
    ImplementsAllocator
