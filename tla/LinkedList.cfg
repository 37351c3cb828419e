\* Two lists on a heap of three nodes, with an iterator that may be overtaken.
SPECIFICATION Spec
CONSTANTS
    a = a
    b = b
    x = x
    y = y
    Lists = {a, b}
    Elems = {x, y}
    NODES = 3
    MaxIndex = 4
SYMMETRY Symmetry
INVARIANTS
    NodesInOneList
PROPERTIES
    ImplementsContainers
    IteratorPassesEachOnce
