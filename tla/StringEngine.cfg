\* One string over three characters, arguments of up to two.
SPECIFICATION StringSpec
CONSTANTS
    a = a
    A = A
    sp = sp
    NUL = NUL
    Chars = {a, A, sp}
    Spaces = {sp}
    UpperOf <- Upper
    LowerOf <- Lower
    MIN_CAPACITY = 2
    INT_MAX = 15
    LONG_MAX = 127
    SIZE_MAX = 15
    MaxLength = 4
    MaxPattern = 2
INVARIANTS
    TextAsPromised
    ReplaceStaysInside
    NumbersComeBack
CHECK_DEADLOCK FALSE
