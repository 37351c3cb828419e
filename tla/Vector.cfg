\* One vector over up to three buffers, and a pointer into any of them.
SPECIFICATION Spec
CONSTANTS
    x = x
    y = y
    Elems = {x, y}
    BLOCKS = 3
    MIN_CAPACITY = 2
    MaxCount = 3
SYMMETRY Symmetry
INVARIANTS
    OneBuffer
PROPERTIES
    ImplementsContainer
    OwnElementStored
